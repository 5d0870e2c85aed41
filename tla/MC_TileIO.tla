------------------------------ MODULE MC_TileIO ------------------------------
(* Three tiles of a sparse fragment, the last one short; files whose tile  *)
(* offsets are not page aligned; compressed and values tiles of varying    *)
(* size, the first ones not the largest.                                   *)
EXTENDS TileIO

MCTileSize(t) == IF t = NumTiles THEN 2 ELSE FullTileSize
MCCompSize(t) == CASE t = 1 -> 2 [] t = 2 -> 3 [] OTHER -> 1
MCVarSize(t) == CASE t = 1 -> 2 [] t = 2 -> 3 [] OTHER -> 1
=============================================================================
