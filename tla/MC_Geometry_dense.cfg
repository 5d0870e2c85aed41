CONSTANTS
  DenseDom = 6
  Ext = 3
  SparseDom = 3
  Cap = 2
  MaxCells = 5

SPECIFICATION SpecDense
INVARIANT TileDomainExact
INVARIANT ContigRangeExact
INVARIANT DenseSlabsExact
