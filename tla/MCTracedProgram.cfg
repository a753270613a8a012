CONSTANTS
  f = f
  g = g
  Fns = {f, g}
  MaxNodes = 7
  MaxThreads = 1
  MaxLogLen = 2
  MaxUnseen = 2
  TraceRecs <- MCTraceRecs
SYMMETRY Symmetry
SPECIFICATION PSpec
INVARIANT OpenCallsAreRunning
PROPERTIES CallsAsMade TextUnderRunningCall
