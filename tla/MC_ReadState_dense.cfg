CONSTANTS
  NumAttrs = 3
  VarAttrs = {2}
  EmptyAttrs = {3}
  NumTiles = 2
  TileCellNum <- MCTileCellNum
  CellLen <- MCCellLen
  Dense = TRUE
  CapCells = {1, 2}
  CapBytes = {2, 3}
  IOFailures = TRUE
  RetryOnError = FALSE

SPECIFICATION Spec
INVARIANT TypeOK
INVARIANT Resumable
INVARIANT ValuesAccounted
INVARIANT WithinCapacity
INVARIANT VarOffsetsRelative
PROPERTY QueryCompletes
PROPERTY OverflowMakesProgress
