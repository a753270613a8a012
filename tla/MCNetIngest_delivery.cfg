CONSTANTS
  app1 = app1
  app2 = app2
  Apps = {app1}
  Retrying = {app1}
  MaxPacks = 3
  PackSize = 2
  MaxRecorded = 99
  MaxStops = 0
  Occurs = {"giveup", "socket"}
SPECIFICATION FairSpec
INVARIANTS  LossNotUnderstated
 
CHECK_DEADLOCK FALSE
