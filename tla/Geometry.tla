------------------------------ MODULE Geometry ------------------------------
(***************************************************************************)
(* The geometry of ReadState (tile search, C3, and overlap classification, *)
(* C4) as pure operators over a 2-D array whose domain starts at 0, in     *)
(* row-major ("row": dimension 1 outermost) or column-major ("col") cell  *)
(* order.  A box is [lo |-> <<r, c>>, hi |-> <<r, c>>], bounds included.   *)
(* Each operator is checked against a brute-force reference over every    *)
(* input of a small domain: the variables only hold the input.            *)
(***************************************************************************)
EXTENDS Integers, FiniteSets, SequencesExt

CONSTANTS DenseDom,   \* cells per dimension of the dense domain
          Ext,        \* tile extent per dimension (dense)
          SparseDom,  \* cells per dimension of the sparse domain
          Cap,        \* tile capacity (sparse)
          MaxCells    \* most cells of the sparse fragment enumerated

Orders == {"row", "col"}
Dims == {1, 2}
Outer(o) == IF o = "row" THEN 1 ELSE 2
Inner(o) == 3 - Outer(o)

Coords(n) == (0..(n - 1)) \X (0..(n - 1))
BoxesIn(n) == {b \in [lo : Coords(n), hi : Coords(n)] :
                 \A d \in Dims : b.lo[d] <= b.hi[d]}
BoxCells(b) == (b.lo[1]..b.hi[1]) \X (b.lo[2]..b.hi[2])
Narrower(i, t, d) == i.lo[d] > t.lo[d] \/ i.hi[d] < t.hi[d]

Rel(c, tc) == <<c[1] - tc[1] * Ext, c[2] - tc[2] * Ext>>

(* Position of cell c, relative to the tile's first cell, in a tile of    *)
(* Ext x Ext cells laid out in order o.                                   *)
CellPosIn(o, c) == c[Outer(o)] * Ext + c[Inner(o)]

VARIABLES order, sub, cells

vars == <<order, sub, cells>>

-----------------------------------------------------------------------------
(* Dense: C3 and C4.                                                       *)

TileCoords == Coords(DenseDom \div Ext)
TileBox(tc) == [lo |-> <<tc[1] * Ext, tc[2] * Ext>>,
                hi |-> <<tc[1] * Ext + Ext - 1, tc[2] * Ext + Ext - 1>>]

(* Mutant: the upper tile bound rounds the exclusive end down.            *)
TileDomainHiExclusive(s) ==
  [lo |-> <<s.lo[1] \div Ext, s.lo[2] \div Ext>>,
   hi |-> <<(s.hi[1] + 1) \div Ext, (s.hi[2] + 1) \div Ext>>]

(* init_range_in_tile_domain: tlo_d = floor(lo_d / extent_d), thi_d =    *)
(* floor(hi_d / extent_d) (spec 4.1).                                      *)
init_range_in_tile_domain(s) ==
  [lo |-> <<s.lo[1] \div Ext, s.lo[2] \div Ext>>,
   hi |-> <<s.hi[1] \div Ext, s.hi[2] \div Ext>>]

(* The intersection of the tile at tc with the range.                      *)
Intersect(tc, s) ==
  LET t == TileBox(tc) IN
  [lo |-> [d \in Dims |-> IF t.lo[d] > s.lo[d] THEN t.lo[d] ELSE s.lo[d]],
   hi |-> [d \in Dims |-> IF t.hi[d] < s.hi[d] THEN t.hi[d] ELSE s.hi[d]]]
Empty(i) == \E d \in Dims : i.lo[d] > i.hi[d]

(* The contiguity rule of spec 4.2, dense case: traversing the dimensions *)
(* in cell order from the outermost, every dimension before the first one *)
(* where the overlap is narrower than the tile is spanned fully, and the  *)
(* narrowing happens at the outermost unfilled level and nowhere outside  *)
(* it.  In two dimensions: if the outer one is narrowed, the inner one    *)
(* must be full.                                                          *)
ContigRule(o, i, t) == Narrower(i, t, Outer(o)) => ~Narrower(i, t, Inner(o))

(* get_next_overlapping_tile_dense: the overlap kind of the tile at tc.   *)
OverlapOf(o, tc, s) ==
  LET i == Intersect(tc, s)
      t == TileBox(tc)
  IN  CASE Empty(i) -> "NONE"
        [] i = t -> "FULL"
        [] ContigRule(o, i, t) -> "PARTIAL_CONTIG"
        [] OTHER -> "PARTIAL_NON_CONTIG"

(* Mutant: the positions computed in the other cell order.                *)
ContigRangeOtherOrder(o, tc, s) ==
  LET i == Intersect(tc, s)
      p == IF o = "row" THEN "col" ELSE "row"
  IN  <<CellPosIn(p, Rel(i.lo, tc)), CellPosIn(p, Rel(i.hi, tc))>>

(* copy_from_tile_buffer_partial_contig_dense: the first and last cell   *)
(* positions of a contiguous overlap, from the overlap range relative to  *)
(* the tile (spec 4.5).                                                    *)
ContigRange(o, tc, s) ==
  LET i == Intersect(tc, s) IN
  <<CellPosIn(o, Rel(i.lo, tc)), CellPosIn(o, Rel(i.hi, tc))>>

(* Mutant: the slabs taken along the inner dimension.                     *)
DenseSlabsInner(o, tc, s) ==
  LET i == Intersect(tc, s)
      O == Outer(o)
      I == Inner(o)
      At(x, y) == IF O = 1 THEN <<y, x>> ELSE <<x, y>>
  IN  [j \in 1..(i.hi[I] - i.lo[I] + 1) |->
         <<CellPosIn(o, Rel(At(i.lo[I] + j - 1, i.lo[O]), tc)),
           CellPosIn(o, Rel(At(i.lo[I] + j - 1, i.hi[O]), tc))>>]

(* copy_from_tile_buffer_dense (spec 4.5): the overlap is copied one slab *)
(* at a time, a slab being one value of the outer dimension: the run from *)
(* the overlap's first to its last inner coordinate.                      *)
DenseSlabs(o, tc, s) ==
  LET i == Intersect(tc, s)
      O == Outer(o)
      I == Inner(o)
      At(x, y) == IF O = 1 THEN <<x, y>> ELSE <<y, x>>
  IN  [j \in 1..(i.hi[O] - i.lo[O] + 1) |->
         <<CellPosIn(o, Rel(At(i.lo[O] + j - 1, i.lo[I]), tc)),
           CellPosIn(o, Rel(At(i.lo[O] + j - 1, i.hi[I]), tc))>>]

(* Reference: the positions of the tile's cells that lie in the range.    *)
QualPos(o, tc, s) ==
  {CellPosIn(o, Rel(c, tc)) : c \in BoxCells(TileBox(tc)) \cap BoxCells(s)}
IsInterval(S) == S # {} /\ S = Min(S)..Max(S)

-----------------------------------------------------------------------------
(* Sparse: the cells of the fragment in global cell order, cut into tiles *)
(* of Cap cells (the last one may hold fewer), with their MBRs.           *)

Before(o, a, b) ==
  \/ a[Outer(o)] < b[Outer(o)]
  \/ a[Outer(o)] = b[Outer(o)] /\ a[Inner(o)] < b[Inner(o)]
Sorted(o) == SetToSortSeq(cells, LAMBDA a, b : Before(o, a, b))
NumSparseTiles == (Cardinality(cells) + Cap - 1) \div Cap
TileCells(o, k) ==
  SubSeq(Sorted(o), (k - 1) * Cap + 1,
         IF k * Cap < Len(Sorted(o)) THEN k * Cap ELSE Len(Sorted(o)))
MBR(o, k) ==
  LET cs == ToSet(TileCells(o, k)) IN
  [lo |-> [d \in Dims |-> Min({c[d] : c \in cs})],
   hi |-> [d \in Dims |-> Max({c[d] : c \in cs})]]

(* Binary search: the least i in lo..hi-1 with f[i], or hi if none; f is  *)
(* false then true over lo..hi-1.                                          *)
RECURSIVE BSearch(_, _, _)
BSearch(f, lo, hi) ==
  IF lo >= hi THEN hi
  ELSE LET mid == (lo + hi) \div 2 IN
       IF f[mid] THEN BSearch(f, lo, mid) ELSE BSearch(f, mid + 1, hi)

(* Mutant: the last tile is the last whose MBR starts strictly before the *)
(* range's end on the major dimension.                                     *)
SearchRangeStrict(o, s) ==
  LET n == NumSparseTiles
      M == Outer(o)
      first == BSearch([k \in 1..n |-> MBR(o, k).hi[M] >= s.lo[M]], 1, n + 1)
      last == BSearch([k \in 1..n |-> MBR(o, k).lo[M] >= s.hi[M]], 1, n + 1) - 1
  IN  IF first <= last THEN <<first, last>> ELSE <<-1, -1>>

(* init_tile_search_range_row/_col (spec 4.1): binary-search the first    *)
(* tile whose MBR's major-dimension upper bound is at least the range's   *)
(* lower bound and the last whose lower bound is at most the range's      *)
(* upper bound; [-1, -1] if none.                                          *)
init_tile_search_range(o, s) ==
  LET n == NumSparseTiles
      M == Outer(o)
      first == BSearch([k \in 1..n |-> MBR(o, k).hi[M] >= s.lo[M]], 1, n + 1)
      last == BSearch([k \in 1..n |-> MBR(o, k).lo[M] > s.hi[M]], 1, n + 1) - 1
  IN  IF first <= last THEN <<first, last>> ELSE <<-1, -1>>

(* Mutant: the search finds the first cell after the point.                *)
UnaryAfter(o, k, p) ==
  LET cs == TileCells(o, k)
      i == BSearch([j \in 1..Len(cs) |-> Before(o, p, cs[j])], 1, Len(cs) + 1)
  IN  IF i <= Len(cs) /\ cs[i] = p THEN {i - 1} ELSE {}

(* compute_cell_pos_ranges_unary_row/_col (spec 4.3): for a range that is *)
(* a single point p, binary-search the tile's coordinates, in cell order, *)
(* for the first cell not before p; it qualifies if it is p.  The result  *)
(* is the set of qualifying positions (0-based), one range [i, i] or none.*)
compute_cell_pos_ranges_unary(o, k, p) ==
  LET cs == TileCells(o, k)
      i == BSearch([j \in 1..Len(cs) |-> ~Before(o, cs[j], p)], 1, Len(cs) + 1)
  IN  IF i <= Len(cs) /\ cs[i] = p THEN {i - 1} ELSE {}

(* compute_cell_pos_ranges_scan(start_pos, end_pos): the maximal runs    *)
(* [start, end] of positions i..hi (0-based) of the tile's cells cs whose  *)
(* coordinates lie in the range s, appended to acc.                        *)
RECURSIVE compute_cell_pos_ranges_scan(_, _, _, _, _)
compute_cell_pos_ranges_scan(cs, s, i, hi, acc) ==
  IF i > hi THEN acc
  ELSE IF cs[i + 1] \notin BoxCells(s)
       THEN compute_cell_pos_ranges_scan(cs, s, i + 1, hi, acc)
  ELSE IF acc # <<>> /\ Last(acc)[2] = i - 1
       THEN compute_cell_pos_ranges_scan(cs, s, i + 1, hi,
                                         [acc EXCEPT ![Len(acc)] = <<@[1], i>>])
       ELSE compute_cell_pos_ranges_scan(cs, s, i + 1, hi, Append(acc, <<i, i>>))

(* Mutant: the window ends before the first cell not before the range's  *)
(* upper corner, dropping a cell at that corner.                          *)
NonContigEndStrict(o, k, s) ==
  LET cs == TileCells(o, k)
      n == Len(cs)
      start == BSearch([j \in 1..n |-> ~Before(o, cs[j], s.lo)], 1, n + 1)
      end == BSearch([j \in 1..n |-> ~Before(o, cs[j], s.hi)], 1, n + 1) - 1
  IN  compute_cell_pos_ranges_scan(cs, s, start - 1, end - 1, <<>>)

(* compute_cell_pos_ranges_non_contig: binary-search the first cell not   *)
(* before the range's lower corner and the last not after its upper       *)
(* corner, in cell order, and scan only the cells between them.           *)
compute_cell_pos_ranges_non_contig(o, k, s) ==
  LET cs == TileCells(o, k)
      n == Len(cs)
      start == BSearch([j \in 1..n |-> ~Before(o, cs[j], s.lo)], 1, n + 1)
      end == BSearch([j \in 1..n |-> Before(o, s.hi, cs[j])], 1, n + 1) - 1
  IN  compute_cell_pos_ranges_scan(cs, s, start - 1, end - 1, <<>>)

-----------------------------------------------------------------------------
(* The inputs: a cell order and a range, with no cells for the dense      *)
(* checks and every fragment of at most MaxCells cells for the sparse.    *)

InitDense ==
  /\ order \in Orders
  /\ sub \in BoxesIn(DenseDom)
  /\ cells = {}

InitSparse ==
  /\ order \in Orders
  /\ sub \in BoxesIn(SparseDom)
  /\ cells \in {c \in SUBSET Coords(SparseDom) : Cardinality(c) <= MaxCells}

Next == UNCHANGED vars

SpecDense == InitDense /\ [][Next]_vars
SpecSparse == InitSparse /\ [][Next]_vars

-----------------------------------------------------------------------------
(* init_range_in_tile_domain yields exactly the tiles whose cells meet the *)
(* range: none is missed and none is added, also when a bound of the      *)
(* range is the last cell of a tile.                                       *)
TileDomainExact ==
  BoxCells(init_range_in_tile_domain(sub)) =
    {tc \in TileCoords : BoxCells(TileBox(tc)) \cap BoxCells(sub) # {}}

(* Where a tile's qualifying cells form one run in cell order, the start  *)
(* and end computed from the relative overlap range are the first and     *)
(* last of them, in row-major and in column-major order.                  *)
ContigRangeExact ==
  \A tc \in TileCoords :
    LET q == QualPos(order, tc, sub) IN
    IsInterval(q) => ContigRange(order, tc, sub) = <<Min(q), Max(q)>>

(* Spec 4.2: an overlap classified PARTIAL_CONTIG has qualifying cells    *)
(* that form one contiguous run in the tile's cell order, so that the     *)
(* single copy of [start, end] copies only qualifying cells.              *)
ContigSound ==
  \A tc \in TileCoords :
    OverlapOf(order, tc, sub) = "PARTIAL_CONTIG" =>
      IsInterval(QualPos(order, tc, sub))

(* Copying an overlapping dense tile slab by slab copies each qualifying *)
(* cell once and no other, in the tile's cell order: the slabs ascend,    *)
(* do not overlap and together are the qualifying positions, for every    *)
(* overlap kind and both cell orders.  For a PARTIAL_NON_CONTIG overlap  *)
(* no two slabs touch, so the slabs are the maximal runs of qualifying    *)
(* positions, the ranges ReadState's model takes for a dense tile.        *)
DenseSlabsExact ==
  \A tc \in TileCoords :
    OverlapOf(order, tc, sub) # "NONE" =>
      LET sl == DenseSlabs(order, tc, sub)
          gap == IF OverlapOf(order, tc, sub) = "PARTIAL_NON_CONTIG" THEN 1 ELSE 0
      IN
      /\ \A j \in 1..(Len(sl) - 1) : sl[j][2] + gap < sl[j + 1][1]
      /\ UNION {sl[j][1]..sl[j][2] : j \in 1..Len(sl)} = QualPos(order, tc, sub)

(* The tile search range of a sparse fragment holds every tile with a    *)
(* cell in the range, for any fragment and either cell order: the binary *)
(* searches over the MBRs prune only tiles that cannot qualify.           *)
SearchRangeSound ==
  LET r == init_tile_search_range(order, sub) IN
  \A k \in 1..NumSparseTiles :
    ToSet(TileCells(order, k)) \cap BoxCells(sub) # {} => r[1] <= k /\ k <= r[2]

(* For a range that is one cell, the binary search of a tile finds the    *)
(* same positions as scanning the tile's coordinates.                     *)
UnaryMatchesScan ==
  sub.lo = sub.hi =>
    \A k \in 1..NumSparseTiles :
      LET cs == TileCells(order, k) IN
      compute_cell_pos_ranges_unary(order, k, sub.lo) =
        {j - 1 : j \in {i \in 1..Len(cs) : cs[i] \in BoxCells(sub)}}

(* Narrowing the scan of a sparse tile to the cells between the range's   *)
(* corners by two binary searches loses no run and adds none: the result *)
(* is the runs a scan of the whole coordinates tile finds, for any       *)
(* fragment and range in either cell order, also when a corner of the    *)
(* range is a cell of the tile or lies outside it.                        *)
NonContigMatchesScan ==
  \A k \in 1..NumSparseTiles :
    LET cs == TileCells(order, k) IN
    compute_cell_pos_ranges_non_contig(order, k, sub) =
      compute_cell_pos_ranges_scan(cs, sub, 0, Len(cs) - 1, <<>>)
====
