----------------------------- MODULE MCSessions -----------------------------
(* Requests, users, emails and passwords are interchangeable: Next           *)
(* quantifies over them and chooses none.                                    *)
EXTENDS Sessions, TLC

Symmetry == Permutations(Requests) \cup Permutations(Users)
              \cup Permutations(Emails) \cup Permutations(Passwords)
=============================================================================
