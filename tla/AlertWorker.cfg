SPECIFICATION FairSpec
CONSTANTS
  c1 = c1
  c2 = c2
  c3 = c3
  alerts = alerts
  notification = notification
  Groups = {alerts, notification}
  Consumers = {c1, c2, c3}
  GroupOf <- MCGroupOf
  Batch = 2
  MaxEntries = 3
  MaxErrors = 2
CHECK_DEADLOCK FALSE
INVARIANTS
  TypeOK
  HandledOnce
PROPERTIES
  DeliverySpec
  EventuallyDelivered
