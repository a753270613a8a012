CONSTANTS
  app1 = app1
  app2 = app2
  Apps = {app1, app2}
  Retrying = {app1}
  MaxPacks = 2
  PackSize = 2
  MaxRecorded = 4
  MaxStops = 1
  Occurs = {"giveup", "socket", "invalid", "clear"}
SPECIFICATION Spec
INVARIANTS NoPackTwice 
CHECK_DEADLOCK FALSE
