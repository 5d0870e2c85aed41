---------------------------- MODULE MC_ReadState ----------------------------
(* Instantiates ReadState for TLC: two attributes, the second variable,    *)
(* two tiles of which the last (in a sparse fragment) holds fewer cells.   *)
EXTENDS ReadState

(* Three cells per tile; the last tile of a sparse fragment holds two.     *)
MCTileCellNum(t) == IF ~Dense /\ t = NumTiles THEN 2 ELSE 3

(* Values of one or two bytes, alternating along the tile.                 *)
MCCellLen(t, p) == 1 + ((t + p) % 2)
=============================================================================
