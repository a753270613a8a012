CONSTANTS
  f = f
  g = g
  Fns = {f, g}
  MaxNodes = 6
  MaxThreads = 2
  MaxLogLen = 3
  TraceRecs <- MCTraceRecs
SPECIFICATION Spec
SYMMETRY Symmetry
INVARIANTS TypeOK PeersMatch TreeWellFormed SameFnCallsNest InnerCallsNest ChildCountExact TraceInsideOpenCall
PROPERTY PairingIsFinal ClosedLinesFrozen
