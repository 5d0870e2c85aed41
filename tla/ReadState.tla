----------------------------- MODULE ReadState -----------------------------
(***************************************************************************)
(* The read state of one fragment (class ReadState, read_state.h).         *)
(*                                                                         *)
(* One ReadState answers a range query over one fragment.  It keeps a      *)
(* list of the tiles that overlap the range (overlapping_tiles_), shared   *)
(* by all attributes, and for every attribute a cursor into that list      *)
(* (overlapping_tiles_pos_), a cursor into the tile's qualifying cell      *)
(* ranges (cell_pos_range_pos_, tiles_offsets_), a one-tile cache (tiles_) *)
(* and an overflow flag.  A call of read() drives the attributes one after *)
(* the other, each until its buffer is full or the tiles run out, and      *)
(* then releases the tiles every attribute has passed.                     *)
(*                                                                         *)
(* Geometry is abstracted: a tile is a position in the global tile order   *)
(* and the range selects a set of cell positions in it (qual).  A cell of  *)
(* the result is the pair <<tile, position>>; a buffer holds such pairs.   *)
(* Fixed-size buffers are counted in cells, values buffers of variable    *)
(* attributes in bytes.                                                    *)
(***************************************************************************)
EXTENDS Integers, Sequences, SequencesExt, FiniteSets

CONSTANTS
  NumAttrs,        \* attributes given in Array::init, ids 1..NumAttrs
  VarAttrs,        \* ids of the variable-sized attributes
  EmptyAttrs,      \* ids of the attributes whose file is empty
  NumTiles,        \* tiles in the tile search range, in global tile order
  TileCellNum(_),  \* cells of a tile (the last sparse tile may hold fewer)
  CellLen(_, _),   \* bytes of the value of cell <<t, p>> of a variable attribute
  Dense,           \* TRUE for a dense fragment, FALSE for a sparse one
  CapCells,        \* capacities, in cells, the caller may give a buffer
  CapBytes,        \* capacities, in bytes, the caller may give a values buffer
  IOFailures,      \* TRUE if reading a tile from disk may fail
  RetryOnError     \* TRUE if the caller calls read again after an error

Attrs == 1..NumAttrs
Tiles == 1..NumTiles
NoTile == 0
CellPos(t) == 0..(TileCellNum(t) - 1)
AllPos == UNION {CellPos(t) : t \in Tiles}

ASSUME /\ NumAttrs \in Nat \ {0}
       /\ VarAttrs \subseteq Attrs /\ EmptyAttrs \subseteq Attrs
       /\ NumTiles \in Nat
       /\ \A t \in Tiles : TileCellNum(t) \in Nat \ {0}
       /\ CapCells \subseteq Nat \ {0} /\ CapBytes \subseteq Nat \ {0}
       /\ IOFailures \in BOOLEAN /\ RetryOnError \in BOOLEAN /\ Dense \in BOOLEAN

(* enum Overlap *)
NONE == "NONE"
FULL == "FULL"
PARTIAL_NON_CONTIG == "PARTIAL_NON_CONTIG"
PARTIAL_CONTIG == "PARTIAL_CONTIG"
Overlap == {NONE, FULL, PARTIAL_NON_CONTIG, PARTIAL_CONTIG}

VARIABLES
  qual,                   \* per tile, the qualifying cell positions (fixed)
  mbr,                    \* sparse: how a tile's MBR meets the range (fixed)
  overlapping_tiles,      \* overlapping_tiles_
  overlapping_tiles_pos,  \* overlapping_tiles_pos_ (1-based)
  cell_pos_range_pos,     \* cell_pos_range_pos_ (1-based)
  tiles_offsets,          \* tiles_offsets_, in cells within the current range
  cached,                 \* the tile held in tiles_ / tiles_var_, or NoTile
  overflow,               \* overflow_
  next_tile,              \* the next tile the tile search yields
  coords_fetches,         \* history: coordinate-tile fetches per tile
  phase,                  \* the caller: "idle", "reading" or "done"
  cur,                    \* attribute read() is driving
  status,                 \* last return code: "none", "OK" or "ERR"
  cap,                    \* capacities of the buffers of the current call
  buf,                    \* cells written in the current call
  offs,                   \* offsets written in the current call (var attrs)
  buffer_var_offset,      \* bytes the code counts as written to buffer_var
  delivered               \* history: cells of all calls that returned OK

vars == <<qual, mbr, overlapping_tiles, overlapping_tiles_pos,
          cell_pos_range_pos, tiles_offsets, cached, overflow, next_tile,
          coords_fetches, phase, cur, status, cap, buf, offs,
          buffer_var_offset, delivered>>

-----------------------------------------------------------------------------
(* Cells, values and buffer space.                                         *)

Cell == Tiles \X AllPos

(* Byte offset of cell p in the values tile of tile t: the offsets tile.   *)
RECURSIVE SrcOff(_, _)
SrcOff(t, p) == IF p = 0 THEN 0 ELSE SrcOff(t, p - 1) + CellLen(t, p - 1)

(* Bytes of the values of a sequence of cells.                             *)
VarBytes(cs) == FoldLeft(LAMBDA acc, c : acc + CellLen(c[1], c[2]), 0, cs)

(* The values file: the values tiles one after the other, tile t from     *)
(* byte tile_var_offsets(t) on (BookKeeping::tile_var_offsets).            *)
tile_var_offsets(t) ==
  MapThenSumSet(LAMBDA u : SrcOff(u, TileCellNum(u)), 1..(t - 1))
ValuesFileSize == tile_var_offsets(NumTiles + 1)

(* Mutant: the last tile is taken to be as long as the tile before it.    *)
TileVarSizePrevTile(t) ==
  IF t < NumTiles THEN tile_var_offsets(t + 1) - tile_var_offsets(t)
  ELSE tile_var_offsets(t) - tile_var_offsets(t - 1)

(* compute_tile_var_size: the values tile ends where the next one starts,  *)
(* and the last one at the end of the file.                                *)
compute_tile_var_size(t) ==
  IF t < NumTiles THEN tile_var_offsets(t + 1) - tile_var_offsets(t)
  ELSE ValuesFileSize - tile_var_offsets(t)

(* The end of the value of cell p as the copier computes it: the next      *)
(* cell's offset, or the values tile size for the last cell (spec 4.5).    *)
CellEnd(t, p) ==
  IF p + 1 < TileCellNum(t) THEN SrcOff(t, p + 1) ELSE compute_tile_var_size(t)

(* Mutant: the byte count runs to the end of the cell after the last one. *)
CopyVarBytesOneMore(t, q, k) ==
  IF k = 0 THEN 0 ELSE CellEnd(t, q + k) - SrcOff(t, q)

(* Bytes of the values of cells q..q+k-1 of tile t, from the offsets.      *)
CopyVarBytes(t, q, k) ==
  IF k = 0 THEN 0 ELSE CellEnd(t, q + k - 1) - SrcOff(t, q)

Free(a) == cap[a].cells - Len(buf[a])
FreeVar(a) == cap[a].bytes - buffer_var_offset[a]
BufferFull(a) == Free(a) = 0 \/ (a \in VarAttrs /\ FreeVar(a) = 0)

(* Mutant: a value must fit with room to spare in the values buffer.      *)
ComputeBytesStrict(a, t, q, avail) ==
  LET limit == IF avail < Free(a) THEN avail ELSE Free(a)
      fits(j) == a \notin VarAttrs \/ CopyVarBytes(t, q, j) < FreeVar(a)
  IN  CHOOSE j \in 0..limit : fits(j) /\ (j = limit \/ ~fits(j + 1))

(* compute_bytes_to_copy: the most cells from position q on, at most      *)
(* avail of them, whose offsets and values both fit in the free space.     *)
compute_bytes_to_copy(a, t, q, avail) ==
  LET limit == IF avail < Free(a) THEN avail ELSE Free(a)
      fits(j) == a \notin VarAttrs \/ CopyVarBytes(t, q, j) <= FreeVar(a)
  IN  CHOOSE j \in 0..limit : fits(j) /\ (j = limit \/ ~fits(j + 1))

(* Mutant: offsets shifted from the tile's first cell, not the first one   *)
(* copied.                                                                 *)
ShiftFromTileStart(t, q, k, base) ==
  [i \in 1..k |-> SrcOff(t, q + i - 1) - SrcOff(t, 0) + base]

(* shift_var_offsets: the offsets of cells q..q+k-1 of tile t rewritten    *)
(* relative to the values buffer, whose first free byte is base.           *)
shift_var_offsets(t, q, k, base) ==
  [i \in 1..k |-> SrcOff(t, q + i - 1) - SrcOff(t, q) + base]

-----------------------------------------------------------------------------
(* Tile search and overlap classification.                                 *)

(* compute_cell_pos_ranges_scan: scan the cells of a tile in order and     *)
(* emit the maximal runs [start, end] of qualifying positions.             *)
RECURSIVE Scan(_, _, _, _)
Scan(q, i, n, acc) ==
  IF i >= n THEN acc
  ELSE IF i \notin q THEN Scan(q, i + 1, n, acc)
  ELSE IF acc # <<>> /\ Last(acc)[2] = i - 1
       THEN Scan(q, i + 1, n, [acc EXCEPT ![Len(acc)] = <<@[1], i>>])
       ELSE Scan(q, i + 1, n, Append(acc, <<i, i>>))

compute_cell_pos_ranges(t) == Scan(qual[t], 0, TileCellNum(t), <<>>)

ContigKind(rs) == IF Len(rs) = 1 THEN PARTIAL_CONTIG ELSE PARTIAL_NON_CONTIG

(* get_next_overlapping_tile_dense / _sparse: the OverlappingTile record   *)
(* of tile t.  A dense tile's ranges follow from its overlap range; a      *)
(* sparse tile whose MBR lies inside the range qualifies whole, and one    *)
(* whose MBR only meets the range waits for its coordinates tile.          *)
OverlappingTile(t) ==
  IF Dense
  THEN LET rs == compute_cell_pos_ranges(t) IN
       [pos |-> t, ranges |-> rs, coords_tile_fetched |-> FALSE,
        overlap |-> IF qual[t] = CellPos(t) THEN FULL ELSE ContigKind(rs)]
  ELSE CASE mbr[t] = "out" ->
              [pos |-> t, ranges |-> <<>>, coords_tile_fetched |-> FALSE,
               overlap |-> NONE]
         [] mbr[t] = "in" ->
              [pos |-> t, ranges |-> <<<<0, TileCellNum(t) - 1>>>>,
               coords_tile_fetched |-> FALSE, overlap |-> FULL]
         [] mbr[t] = "part" ->
              [pos |-> t, ranges |-> <<>>, coords_tile_fetched |-> FALSE,
               overlap |-> PARTIAL_NON_CONTIG]

(* Mutant: ranges taken as computed once they are non-empty.              *)
RangesNonEmpty(e) == Dense \/ e.overlap = FULL \/ e.ranges # <<>>

(* The cell ranges of a record are known: dense, full, or computed.        *)
RangesKnown(e) == Dense \/ e.overlap = FULL \/ e.coords_tile_fetched

(* Geometries a fragment can have: a dense tile in the range overlaps it;  *)
(* a sparse tile qualifies nothing if its MBR misses the range, all if     *)
(* its MBR is inside, and not all if the MBR only meets it.                *)
Geometry(q, m) ==
  \A t \in Tiles :
    /\ q[t] \subseteq CellPos(t)
    /\ Dense => q[t] # {} /\ m[t] = IF q[t] = CellPos(t) THEN "in" ELSE "part"
    /\ m[t] = "out" => q[t] = {}
    /\ m[t] = "in" => q[t] = CellPos(t)
    /\ m[t] = "part" => q[t] # CellPos(t)

-----------------------------------------------------------------------------
(* The state of the engine right after construction and Array::init.       *)

Init ==
  /\ qual \in [Tiles -> SUBSET AllPos]
  /\ mbr \in [Tiles -> {"out", "part", "in"}]
  /\ Geometry(qual, mbr)
  /\ overlapping_tiles = <<>>
  /\ overlapping_tiles_pos = [a \in Attrs |-> 1]
  /\ cell_pos_range_pos = [a \in Attrs |-> 1]
  /\ tiles_offsets = [a \in Attrs |-> 0]
  /\ cached = [a \in Attrs |-> NoTile]
  /\ overflow = [a \in Attrs |-> FALSE]
  /\ next_tile = 1
  /\ coords_fetches = [t \in Tiles |-> 0]
  /\ phase = "idle"
  /\ cur = 1
  /\ status = "none"
  /\ cap = [a \in Attrs |-> [cells |-> 0, bytes |-> 0]]
  /\ buf = [a \in Attrs |-> <<>>]
  /\ offs = [a \in Attrs |-> <<>>]
  /\ buffer_var_offset = [a \in Attrs |-> 0]
  /\ delivered = [a \in Attrs |-> <<>>]

geometry == <<qual, mbr>>
cursors == <<overlapping_tiles_pos, cell_pos_range_pos, tiles_offsets>>

(* The record attribute a works on, and whether the tiles are used up.     *)
Current(a) == overlapping_tiles[overlapping_tiles_pos[a]]
Exhausted(a) == overlapping_tiles_pos[a] > Len(overlapping_tiles)
                /\ next_tile > NumTiles

(* read() is driving attribute a, which still has work and room.           *)
Driving(a) ==
  /\ phase = "reading" /\ cur = a /\ a \notin EmptyAttrs
  /\ ~Exhausted(a)
  /\ ~BufferFull(a)

(* Mutant: the offset into the tile is not reset on moving on.            *)
NextTilePosNoReset(a) ==
  /\ overlapping_tiles_pos' = [overlapping_tiles_pos EXCEPT ![a] = @ + 1]
  /\ cell_pos_range_pos' = [cell_pos_range_pos EXCEPT ![a] = 1]
  /\ tiles_offsets' = tiles_offsets

(* Move the cursor of a to the next overlapping tile.                      *)
NextTilePos(a) ==
  /\ overlapping_tiles_pos' = [overlapping_tiles_pos EXCEPT ![a] = @ + 1]
  /\ cell_pos_range_pos' = [cell_pos_range_pos EXCEPT ![a] = 1]
  /\ tiles_offsets' = [tiles_offsets EXCEPT ![a] = 0]

(* A read from disk failed: read() returns TILEDB_RS_ERR at once, leaving  *)
(* the cursors where they are; the caller discards the buffers.            *)
ReadError ==
  /\ IOFailures
  /\ status' = "ERR"
  /\ phase' = IF RetryOnError THEN "idle" ELSE "done"
  /\ UNCHANGED <<geometry, overlapping_tiles, cursors, cached, overflow,
                 next_tile, coords_fetches, cur, cap, buf, offs,
                 buffer_var_offset, delivered>>

-----------------------------------------------------------------------------
(* The caller.                                                             *)

(* Mutant: read() without reset_overflow.                                 *)
ReadNoReset ==
  /\ phase = "idle"
  /\ \E c \in [Attrs -> [cells : CapCells, bytes : CapBytes]] : cap' = c
  /\ overflow' = overflow
  /\ buf' = [a \in Attrs |-> <<>>]
  /\ offs' = [a \in Attrs |-> <<>>]
  /\ buffer_var_offset' = [a \in Attrs |-> 0]
  /\ cur' = 1
  /\ phase' = "reading"
  /\ UNCHANGED <<geometry, overlapping_tiles, cursors, cached, next_tile,
                 coords_fetches, status, delivered>>

(* read(): reset_overflow, then drive the attributes in order, with        *)
(* buffers of the capacities the caller gives.                             *)
read ==
  /\ phase = "idle"
  /\ \E c \in [Attrs -> [cells : CapCells, bytes : CapBytes]] : cap' = c
  /\ overflow' = [a \in Attrs |-> FALSE]
  /\ buf' = [a \in Attrs |-> <<>>]
  /\ offs' = [a \in Attrs |-> <<>>]
  /\ buffer_var_offset' = [a \in Attrs |-> 0]
  /\ cur' = 1
  /\ phase' = "reading"
  /\ UNCHANGED <<geometry, overlapping_tiles, cursors, cached, next_tile,
                 coords_fetches, status, delivered>>

(* Mutant: the record the slowest attribute is on is released too.        *)
CleanUpThroughMin ==
  LET k == Min({overlapping_tiles_pos[a] : a \in Attrs})
      released == {overlapping_tiles[i].pos : i \in 1..k}
  IN  /\ overlapping_tiles' = SubSeq(overlapping_tiles, k + 1,
                                     Len(overlapping_tiles))
      /\ overlapping_tiles_pos' = [a \in Attrs |-> overlapping_tiles_pos[a] - k]
      /\ cached' = [a \in Attrs |-> IF cached[a] \in released THEN NoTile
                                                             ELSE cached[a]]

(* Mutant: the list is compacted but the cursors are not rebased.         *)
CleanUpNoShift ==
  LET k == Min({overlapping_tiles_pos[a] : a \in Attrs}) - 1
      released == {overlapping_tiles[i].pos : i \in 1..k}
  IN  /\ overlapping_tiles' = SubSeq(overlapping_tiles, k + 1,
                                     Len(overlapping_tiles))
      /\ overlapping_tiles_pos' = overlapping_tiles_pos
      /\ cached' = [a \in Attrs |-> IF cached[a] \in released THEN NoTile
                                                             ELSE cached[a]]

(* Mutant: clean-up frees every attribute's tile buffer.                   *)
CleanUpFreesCaches ==
  LET k == Min({overlapping_tiles_pos[a] : a \in Attrs}) - 1
  IN  /\ overlapping_tiles' = SubSeq(overlapping_tiles, k + 1,
                                     Len(overlapping_tiles))
      /\ overlapping_tiles_pos' = [a \in Attrs |-> overlapping_tiles_pos[a] - k]
      /\ cached' = [a \in Attrs |-> NoTile]

(* clean_up_processed_overlapping_tiles: release the records before the    *)
(* slowest attribute's cursor, compact the list from the front and rebase  *)
(* every cursor; a cache slot holding a released tile is freed.            *)
clean_up_processed_overlapping_tiles ==
  LET k == Min({overlapping_tiles_pos[a] : a \in Attrs}) - 1
      released == {overlapping_tiles[i].pos : i \in 1..k}
  IN  /\ overlapping_tiles' = SubSeq(overlapping_tiles, k + 1,
                                     Len(overlapping_tiles))
      /\ overlapping_tiles_pos' = [a \in Attrs |-> overlapping_tiles_pos[a] - k]
      /\ cached' = [a \in Attrs |-> IF cached[a] \in released THEN NoTile
                                                             ELSE cached[a]]

(* The attributes are done: set the buffer sizes, clean up and return      *)
(* TILEDB_RS_OK.  The caller calls again only if some attribute            *)
(* overflowed.                                                             *)
ReadReturn ==
  /\ phase = "reading" /\ cur = NumAttrs + 1
  /\ clean_up_processed_overlapping_tiles
  /\ delivered' = [a \in Attrs |-> delivered[a] \o buf[a]]
  /\ status' = "OK"
  /\ phase' = IF \E a \in Attrs : overflow[a] THEN "idle" ELSE "done"
  /\ UNCHANGED <<geometry, cell_pos_range_pos, tiles_offsets, overflow,
                 next_tile, coords_fetches, cur, cap, buf, offs,
                 buffer_var_offset>>

(* The query is answered, or the engine discarded after an error.          *)
Finished ==
  /\ phase = "done"
  /\ UNCHANGED vars

-----------------------------------------------------------------------------
(* read_dense_attr / read_sparse_attr: one turn of the loop of attribute a. *)

(* is_empty_attribute: an attribute with an empty file writes no cells.   *)
ReadEmptyAttr(a) ==
  /\ phase = "reading" /\ cur = a /\ a \in EmptyAttrs
  /\ cur' = a + 1
  /\ UNCHANGED <<geometry, overlapping_tiles, cursors, cached, overflow,
                 next_tile, coords_fetches, phase, status, cap, buf, offs,
                 buffer_var_offset, delivered>>

(* The tiles are used up: the attribute is done without overflow.          *)
FinishAttr(a) ==
  /\ phase = "reading" /\ cur = a /\ a \notin EmptyAttrs
  /\ Exhausted(a)
  /\ cur' = a + 1
  /\ UNCHANGED <<geometry, overlapping_tiles, cursors, cached, overflow,
                 next_tile, coords_fetches, phase, status, cap, buf, offs,
                 buffer_var_offset, delivered>>

(* The buffer is full while cells may remain: overflow.                    *)
StopOnFullBuffer(a) ==
  /\ phase = "reading" /\ cur = a /\ a \notin EmptyAttrs
  /\ ~Exhausted(a)
  /\ BufferFull(a)
  /\ overflow' = [overflow EXCEPT ![a] = TRUE]
  /\ cur' = a + 1
  /\ UNCHANGED <<geometry, overlapping_tiles, cursors, cached, next_tile,
                 coords_fetches, phase, status, cap, buf, offs,
                 buffer_var_offset, delivered>>

(* get_next_overlapping_tile_*: the attribute ahead of all others has      *)
(* passed the end of the list; the tile search appends the next tile.      *)
get_next_overlapping_tile(a) ==
  /\ Driving(a)
  /\ overlapping_tiles_pos[a] > Len(overlapping_tiles)
  /\ overlapping_tiles' = Append(overlapping_tiles, OverlappingTile(next_tile))
  /\ next_tile' = next_tile + 1
  /\ UNCHANGED <<geometry, cursors, cached, overflow, coords_fetches, phase,
                 cur, status, cap, buf, offs, buffer_var_offset, delivered>>

(* A tile with no qualifying cell is passed over.                          *)
SkipTile(a) ==
  /\ Driving(a)
  /\ overlapping_tiles_pos[a] <= Len(overlapping_tiles)
  /\ \/ Current(a).overlap = NONE
     \/ RangesKnown(Current(a)) /\ Current(a).ranges = <<>>
  /\ NextTilePos(a)
  /\ UNCHANGED <<geometry, overlapping_tiles, cached, overflow, next_tile,
                 coords_fetches, phase, cur, status, cap, buf, offs,
                 buffer_var_offset, delivered>>

(* compute_cell_pos_ranges: the first attribute to reach a sparse tile     *)
(* whose MBR meets the range fetches its coordinates tile and computes     *)
(* the qualifying ranges once, for every attribute.                        *)
ComputeCellPosRanges(a) ==
  LET i == overlapping_tiles_pos[a]
      t == Current(a).pos
      rs == compute_cell_pos_ranges(t)
  IN
  /\ Driving(a)
  /\ i <= Len(overlapping_tiles)
  /\ ~RangesKnown(Current(a))
  /\ \/ /\ overlapping_tiles' = [overlapping_tiles EXCEPT
                 ![i].ranges = rs, ![i].coords_tile_fetched = TRUE,
                 ![i].overlap = ContigKind(rs)]
        /\ coords_fetches' = [coords_fetches EXCEPT ![t] = @ + 1]
        /\ UNCHANGED <<geometry, cursors, cached, overflow, next_tile, phase,
                       cur, status, cap, buf, offs, buffer_var_offset,
                       delivered>>
     \/ ReadError

(* Mutant: the copy restarts at the range start, ignoring tiles_offsets.  *)
RangeStartNoOffset(a) == Current(a).ranges[cell_pos_range_pos[a]][1]

(* The cells of the current range of a from its cursor on.                 *)
RangeStart(a) == Current(a).ranges[cell_pos_range_pos[a]][1]
                   + tiles_offsets[a]
RangeLeft(a) == Current(a).ranges[cell_pos_range_pos[a]][2] - RangeStart(a) + 1

(* Append cells q..q+k-1 of tile t to the buffers of a.                    *)
CopyCells(a, t, q, k) ==
  /\ buf' = [buf EXCEPT ![a] = @ \o [i \in 1..k |-> <<t, q + i - 1>>]]
  /\ offs' = IF a \in VarAttrs
             THEN [offs EXCEPT ![a] = @ \o
                     shift_var_offsets(t, q, k, buffer_var_offset[a])]
             ELSE offs
  /\ buffer_var_offset' =
       IF a \in VarAttrs
       THEN [buffer_var_offset EXCEPT ![a] = @ + CopyVarBytes(t, q, k)]
       ELSE buffer_var_offset

(* Mutant: the fit test of the direct copy is one cell short.             *)
DirectCopyOffByOne(a) ==
  LET e == Current(a) IN
  /\ \/ e.overlap = FULL
     \/ e.overlap = PARTIAL_CONTIG /\ a \notin VarAttrs
  /\ cell_pos_range_pos[a] = 1 /\ tiles_offsets[a] = 0
  /\ compute_bytes_to_copy(a, e.pos, RangeStart(a), RangeLeft(a))
       >= RangeLeft(a) - 1

(* copy_tile_full_direct(_var), copy_tile_partial_contig_direct_*: a tile  *)
(* whose qualifying cells are one run, not yet partly copied, and fitting  *)
(* whole in the free space is read from the file straight into the        *)
(* buffer, by-passing the tile cache.  Variable partial tiles never are.   *)
DirectCopy(a) ==
  LET e == Current(a) IN
  /\ \/ e.overlap = FULL
     \/ e.overlap = PARTIAL_CONTIG /\ a \notin VarAttrs
  /\ cell_pos_range_pos[a] = 1 /\ tiles_offsets[a] = 0
  /\ compute_bytes_to_copy(a, e.pos, RangeStart(a), RangeLeft(a))
       = RangeLeft(a)

copy_tile_direct(a) ==
  /\ Driving(a)
  /\ overlapping_tiles_pos[a] <= Len(overlapping_tiles)
  /\ RangesKnown(Current(a)) /\ Current(a).ranges # <<>>
  /\ DirectCopy(a)
  /\ \/ /\ CopyCells(a, Current(a).pos, RangeStart(a), RangeLeft(a))
        /\ NextTilePos(a)
        /\ UNCHANGED <<geometry, overlapping_tiles, cached, overflow,
                       next_tile, coords_fetches, phase, cur, status, cap,
                       delivered>>
     \/ ReadError

(* Mutant: the tile is read from disk only into an empty slot.            *)
TileNeededIfEmpty(a, t) == cached[a] = NoTile

(* get_tile_from_disk_*: the tile is read from disk into the attribute's   *)
(* local buffer unless that buffer already holds it.                       *)
get_tile_from_disk(a, t) == cached[a] # t

(* copy_tile_* through the cache: get_tile_from_disk_* brings the tile     *)
(* (and its values tile) into the local buffer unless it is there; then    *)
(* copy_from_tile_buffer_* copies from the current range as many cells as  *)
(* compute_bytes_to_copy allows.  A range copied to its end moves the      *)
(* cursor to the next range or tile; one cut short sets overflow and ends  *)
(* the attribute's turn.                                                   *)
copy_from_tile_buffer(a) ==
  LET e == Current(a)
      t == e.pos
      fetch == get_tile_from_disk(a, t)
      src == IF fetch THEN t ELSE cached[a]   \* the tile in the local buffer
      k == compute_bytes_to_copy(a, src, RangeStart(a), RangeLeft(a))
      lastRange == cell_pos_range_pos[a] = Len(e.ranges)
  IN
  /\ Driving(a)
  /\ overlapping_tiles_pos[a] <= Len(overlapping_tiles)
  /\ RangesKnown(e) /\ e.ranges # <<>>
  /\ ~DirectCopy(a)
  /\ \/ /\ cached' = [cached EXCEPT ![a] = src]
        /\ CopyCells(a, src, RangeStart(a), k)
        /\ IF k = RangeLeft(a)
           THEN /\ IF lastRange
                   THEN NextTilePos(a)
                   ELSE /\ cell_pos_range_pos' =
                             [cell_pos_range_pos EXCEPT ![a] = @ + 1]
                        /\ tiles_offsets' = [tiles_offsets EXCEPT ![a] = 0]
                        /\ UNCHANGED overlapping_tiles_pos
                /\ UNCHANGED <<overflow, cur>>
           ELSE /\ tiles_offsets' = [tiles_offsets EXCEPT ![a] = @ + k]
                /\ overflow' = [overflow EXCEPT ![a] = TRUE]
                /\ cur' = a + 1
                /\ UNCHANGED <<overlapping_tiles_pos, cell_pos_range_pos>>
        /\ UNCHANGED <<geometry, overlapping_tiles, next_tile,
                       coords_fetches, phase, status, cap, delivered>>
     \/ fetch /\ ReadError

-----------------------------------------------------------------------------
(* One step of read(): of the attribute it is driving, or of the caller.   *)
AttrStep(a) ==
  \/ ReadEmptyAttr(a)
  \/ FinishAttr(a)
  \/ StopOnFullBuffer(a)
  \/ get_next_overlapping_tile(a)
  \/ SkipTile(a)
  \/ ComputeCellPosRanges(a)
  \/ copy_tile_direct(a)
  \/ copy_from_tile_buffer(a)

Engine == \E a \in Attrs : AttrStep(a)

Next ==
  \/ read
  \/ Engine
  \/ ReadReturn
  \/ Finished

(* read() is synchronous and runs to its return; the caller calls read     *)
(* again while some attribute reports overflow.                            *)
Fairness ==
  /\ WF_vars(Engine)
  /\ WF_vars(ReadReturn)
  /\ WF_vars(read)

Spec == Init /\ [][Next]_vars /\ Fairness

-----------------------------------------------------------------------------
(* Reference: the answer of the query, computed from the geometry alone:   *)
(* the qualifying cells of every tile, tiles in global order and cells in  *)
(* position order.                                                         *)
QualSeq(t) == SetToSortSeq(qual[t], <)
ExpectedCells ==
  FlattenSeq([t \in Tiles |->
                [i \in 1..Cardinality(qual[t]) |-> <<t, QualSeq(t)[i]>>]])
Expected(a) == IF a \in EmptyAttrs THEN <<>> ELSE ExpectedCells

TypeOK ==
  /\ overlapping_tiles \in Seq([pos : Tiles, overlap : Overlap,
                                ranges : Seq(AllPos \X AllPos),
                                coords_tile_fetched : BOOLEAN])
  /\ overlapping_tiles_pos \in [Attrs -> 1..(NumTiles + 1)]
  /\ cell_pos_range_pos \in [Attrs -> Nat \ {0}]
  /\ tiles_offsets \in [Attrs -> Nat]
  /\ cached \in [Attrs -> Tiles \cup {NoTile}]
  /\ overflow \in [Attrs -> BOOLEAN]
  /\ next_tile \in 1..(NumTiles + 1)
  /\ coords_fetches \in [Tiles -> Nat]
  /\ phase \in {"idle", "reading", "done"}
  /\ cur \in 1..(NumAttrs + 1)
  /\ status \in {"none", "OK", "ERR"}
  /\ buf \in [Attrs -> Seq(Cell)]
  /\ offs \in [Attrs -> Seq(Nat)]
  /\ buffer_var_offset \in [Attrs -> Nat]
  /\ delivered \in [Attrs -> Seq(Cell)]

(* Resumability (spec 8.1): whatever buffer sizes the caller gives, the    *)
(* cells of the calls that returned OK, followed by those written so far   *)
(* in this call, are a prefix of the answer, and once the caller stops     *)
(* after an OK they are the whole answer.  It rests on the cursors         *)
(* (overlapping_tiles_pos_, cell_pos_range_pos_, tiles_offsets_) being     *)
(* advanced, reset and shifted by clean-up in step with the copies.        *)
Resumable ==
  \A a \in Attrs :
    /\ IsPrefix(delivered[a] \o
                  (IF phase = "reading" THEN buf[a] ELSE <<>>), Expected(a))
    /\ phase = "done" /\ status = "OK" => delivered[a] = Expected(a)

(* Bytes written never exceed the capacity of a buffer (spec 8.3), for     *)
(* the offsets and the values buffer of a variable attribute alike: the    *)
(* direct copies and compute_bytes_to_copy must both respect it.           *)
WithinCapacity ==
  phase = "reading" =>
    \A a \in Attrs :
      /\ Len(buf[a]) <= cap[a].cells
      /\ a \in VarAttrs => VarBytes(buf[a]) <= cap[a].bytes

(* The offsets written for a variable attribute (spec 8.4) point at the    *)
(* first byte of each cell's value in the values buffer of this call: the  *)
(* shift by shift_var_offsets must start from the first cell copied, also  *)
(* when a copy resumes in the middle of a range.                           *)
VarOffsetsRelative ==
  \A a \in VarAttrs :
    /\ Len(offs[a]) = Len(buf[a])
    /\ \A i \in 1..Len(offs[a]) :
         offs[a][i] = VarBytes(SubSeq(buf[a], 1, i - 1))

(* The size the code counts for the values buffer of a variable attribute *)
(* (buffer_var_offset, returned as buffer_var_sizes[a], spec 4.6) is the *)
(* number of bytes of the values of the cells written in the call, over   *)
(* any sequence of partial, direct and cached copies: the value of the     *)
(* last cell of a tile ends at compute_tile_var_size, also for the last    *)
(* tile of the fragment, whose size comes from the file size.             *)
ValuesAccounted ==
  \A a \in VarAttrs : buffer_var_offset[a] = VarBytes(buf[a])

(* The coordinates tile of a sparse tile is fetched, and its cell ranges  *)
(* computed, at most once however many attributes pass the tile (spec 3,  *)
(* invariant 3): coords_tile_fetched_, not the emptiness of the computed   *)
(* ranges, records that the work is done.                                 *)
CoordsFetchedOnce == \A t \in Tiles : coords_fetches[t] <= 1

(* The query terminates: the caller, calling again while there is          *)
(* overflow, eventually has the whole answer or an error.                  *)
QueryCompletes == <>(phase = "done")

(* Clean-up releases what is consumed (spec 3, C7 and 5): after read()    *)
(* returns OK, every record left in overlapping_tiles_ is still ahead of  *)
(* the cursor of some attribute that reads cells.  An empty attribute     *)
(* (is_empty_attribute) never moves its cursor, and clean-up releases    *)
(* only below the minimum cursor of all attributes.                       *)
ReleasesConsumedRecords ==
  (phase # "reading" /\ status = "OK") =>
    \A i \in 1..Len(overlapping_tiles) :
      \E a \in Attrs \ EmptyAttrs : overlapping_tiles_pos[a] <= i

(* A tile partly copied is pinned (spec 4.6: "PAUSED pins the cache slot *)
(* and cursors across read calls"): while an attribute's cursor is inside *)
(* a record, past its first range or offset, its cache slot holds that    *)
(* record's tile, across the return, clean-up and the next read(), so     *)
(* the copy resumes without fetching the tile again, and cannot fail.    *)
PausedPinsCache ==
  \A a \in Attrs :
    /\ overlapping_tiles_pos[a] <= Len(overlapping_tiles)
    /\ tiles_offsets[a] > 0 \/ cell_pos_range_pos[a] > 1
    => cached[a] = Current(a).pos

(* Every call that returns OK with overflow has written a cell, when the  *)
(* caller's buffers each hold at least one cell and one value: the        *)
(* overflow of copy_from_tile_buffer_* and of a full buffer must follow   *)
(* progress, or the caller's loop of read() calls repeats forever.        *)
OverflowMakesProgress ==
  [][phase = "reading" /\ phase' = "idle" /\ status' = "OK" =>
       \E a \in Attrs : buf[a] # <<>>]_vars

(* Cross-attribute alignment (spec 3, invariant 2): when read() returns    *)
(* OK with no overflow, every attribute has written the same number of    *)
(* cells in the call.                                                      *)
AlignedOnSuccess ==
  (phase = "done" /\ status = "OK") =>
    \A a, b \in Attrs \ EmptyAttrs : Len(buf[a]) = Len(buf[b])

(* Spec 6 (API): overflow shows "equivalently by a short write": bytes *)
(* written below the capacity of an attribute's buffers means the        *)
(* attribute is done.  So after read() returns OK, an attribute that      *)
(* filled neither its buffer nor its values buffer has been given its     *)
(* whole answer.  compute_bytes_to_copy stops a variable attribute at a   *)
(* value longer than the free values space, which need not be zero.       *)
ShortWrite(a) ==
  /\ Len(buf[a]) < cap[a].cells
  /\ a \in VarAttrs => buffer_var_offset[a] < cap[a].bytes
ShortWriteMeansDone ==
  (phase # "reading" /\ status = "OK") =>
    \A a \in Attrs : ShortWrite(a) => delivered[a] = Expected(a)
=============================================================================
