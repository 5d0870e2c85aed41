CONSTANTS
  NumAttrs = 2
  VarAttrs = {2}
  EmptyAttrs = {}
  NumTiles = 2
  TileCellNum <- MCTileCellNum
  CellLen <- MCCellLen
  Dense = TRUE
  CapCells = {1, 2}
  CapBytes = {2, 3}
  IOFailures = FALSE
  RetryOnError = FALSE

SPECIFICATION Spec
INVARIANT AlignedOnSuccess
