SPECIFICATION Spec
CONSTANTS
  None = None
  Requests = {r1, r2, r3, r4}
  Users = {u1, u2}
  Emails = {e1, e2}
  Passwords = {p1, p2}
SYMMETRY Symmetry
CHECK_DEADLOCK FALSE
INVARIANTS
  TypeOK
  TokenSpentOnce
  LogoutEndsSessions
  NamesakesExplainLogins
