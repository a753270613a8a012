CONSTANTS
  Sources <- MCSources
  Listings <- MCListings
  MaxNodes = 4
  MaxRounds = 2
SPECIFICATION Spec
INVARIANTS IndexSound  ClosedExact
PROPERTY RecordAtHome
CHECK_DEADLOCK FALSE
