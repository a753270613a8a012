CONSTANTS
  AllocSize = 15
  ChankCount = 4
  Sizes = {1, 16}
  Blocks = {b1, b2, b3, b4}
  NoBlock = NoBlock
  Base = 2
  NodeSize = 1
  MaxTexts = 1
  MaxClears = 1
SPECIFICATION ArraySpec
SYMMETRY Symmetry
INVARIANTS PiecesApart BlocksOwned ReaderSeesAll FullAtLimit
