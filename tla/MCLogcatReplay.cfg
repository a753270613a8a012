CONSTANTS
  Kinds <- MCKinds
  BufSize = 3
  MaxEntries = 3
  ChunkSizes = {4}
SPECIFICATION Spec
INVARIANTS LinesAsPrinted   EveryEntryShown
