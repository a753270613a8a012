CONSTANTS
  Objects <- MCObjects
  Slots = 3
  MaxStarts = 1
SPECIFICATION FairSpec
INVARIANTS QuietArchive DeletedWhenOver
PROPERTIES LockIsGot 
CHECK_DEADLOCK FALSE
