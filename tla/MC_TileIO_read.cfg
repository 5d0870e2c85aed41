CONSTANTS
  Attrs = {1, 2, 3}
  VarAttrs = {3}
  CmpAttrs = {1}
  NumTiles = 3
  PageSize = 4
  FullTileSize = 3
  TileSize <- MCTileSize
  CompSize <- MCCompSize
  CompMax = 3
  VarSize <- MCVarSize
  UseMmap = FALSE
  IOFailures = TRUE

SPECIFICATION Spec
INVARIANT TypeOK
INVARIANT ReadsFit
