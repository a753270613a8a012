CONSTANTS
  t1 = t1
  t2 = t2
  Threads = {t1, t2}
  Contents <- MCContents
  MaxNodes = 4
  MaxHits = 1
SPECIFICATION Spec
INVARIANT LastLineListed
