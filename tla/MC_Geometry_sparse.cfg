CONSTANTS
  DenseDom = 6
  Ext = 3
  SparseDom = 3
  Cap = 2
  MaxCells = 5

SPECIFICATION SpecSparse
INVARIANT SearchRangeSound
INVARIANT UnaryMatchesScan
INVARIANT NonContigMatchesScan
