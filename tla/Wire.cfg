SPECIFICATION FairSpec
CONSTANTS
  Node = {a, b}
  Thread = {t}
  Listener = listener
  NoActor = nobody
  Junk = junk
  Capacity = 4
  TaskRoom = 3
  Content <- SomeContent
  MaxCalls = 2
PROPERTIES ImplementsConnections DeliveredOrStuck
CHECK_DEADLOCK FALSE
