CHECK_DEADLOCK FALSE
SPECIFICATION Spec
CONSTANTS
  w1 = w1
  w2 = w2
  grid = grid
  preview = preview
  None = None
  Workers <- MCWorkers
  Variants <- MCVariants
  Versions = 2
  Verdicts <- MCVerdicts
  CacheMax = 2
  MaxScans = 2
  MaxEvictions = 1
  MaxFaults = 1
SYMMETRY Symmetry
INVARIANTS NeverOlder WholeUnlessTorn RowsMatchFilesUnlessTorn 
