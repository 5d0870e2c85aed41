CONSTANTS
  NumAttrs = 2
  VarAttrs = {}
  EmptyAttrs = {1}
  NumTiles = 2
  TileCellNum <- MCTileCellNum
  CellLen <- MCCellLen
  Dense = TRUE
  CapCells = {1, 2}
  CapBytes = {2, 3}
  IOFailures = FALSE
  RetryOnError = FALSE

SPECIFICATION Spec
INVARIANT ReleasesConsumedRecords
