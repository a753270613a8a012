CONSTANTS
  app1 = app1
  app2 = app2
  Apps = {app1}
  Retrying = {app1}
  MaxPacks = 3
  PackSize = 1
  MaxRecorded = 99
  MaxStops = 0
  Occurs = {"giveup"}
SPECIFICATION Spec
INVARIANT LostIsExact
CHECK_DEADLOCK FALSE
