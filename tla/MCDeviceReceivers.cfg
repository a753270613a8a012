CONSTANTS
  Used <- MCUsed
  MaxStarts = 2
SPECIFICATION FairSpec
INVARIANT QuietDevices
PROPERTIES PortFreed StopReturns
CHECK_DEADLOCK FALSE
