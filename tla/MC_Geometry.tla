----------------------------- MODULE MC_Geometry -----------------------------
(* A 6 x 6 dense domain of 3 x 3 tiles, so that every overlap kind and    *)
(* every bound inside or at the edge of a tile occurs; a 3 x 3 sparse     *)
(* domain with fragments of up to 5 cells in tiles of 2.                  *)
EXTENDS Geometry
=============================================================================
