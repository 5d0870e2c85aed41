------------------------------- MODULE TileIO -------------------------------
(***************************************************************************)
(* Tile I/O of ReadState: get_tile_from_disk_* and read_tile_from_file_*   *)
(* bring the tile an attribute's cursor is on into the engine's buffers,  *)
(* by reading it into tiles_ / tiles_var_ or by mapping it with mmap       *)
(* (map_addr_, map_addr_var_), a compressed tile through the shared        *)
(* scratch tile_compressed_ or the shared map_addr_compressed_.  Sizes are *)
(* bytes; a file holds its tiles back to back.  The cursor is moved by     *)
(* the read driver, modelled in ReadState; here it only advances.          *)
(***************************************************************************)
EXTENDS Naturals, FiniteSets, FiniteSetsExt

CONSTANTS Attrs,          \* attribute ids
          VarAttrs,       \* variable attributes: offsets tile + values tile
          CmpAttrs,       \* GZIP-compressed fixed attributes
          NumTiles,       \* tiles of the fragment
          PageSize,       \* the OS page size
          FullTileSize,   \* bytes of a full (offsets) tile
          TileSize(_),    \* bytes of tile t: less for the last sparse tile
          CompSize(_),    \* compressed bytes of tile t (book-keeping)
          CompMax,        \* tile_compressed_max_size
          VarSize(_),     \* bytes of the values tile t
          UseMmap,        \* _TILEDB_USE_MMAP
          IOFailures      \* reads, maps and decompression may fail

Tiles == 1..NumTiles
NoTile == 0
NoRegion == [tile |-> NoTile, off |-> 0, len |-> 0]

(* Where tile t starts in the attribute file, the file of its compressed  *)
(* payloads and the values file: its tiles lie back to back.              *)
TileOff(t) == MapThenSumSet(TileSize, 1..(t - 1))
CompOff(t) == MapThenSumSet(CompSize, 1..(t - 1))
VarOff(t) == MapThenSumSet(VarSize, 1..(t - 1))

(* Mutant: the window is as long as the tile, without the bytes between  *)
(* the page boundary and the tile's start.                                *)
WindowNoDelta(t, off, size) ==
  [tile |-> t, off |-> off - (off % PageSize), len |-> size]

(* The mmap window of a payload of size bytes at offset off: from the page *)
(* boundary at or before off, long enough to reach the payload's end.      *)
Window(t, off, size) ==
  [tile |-> t, off |-> off - (off % PageSize), len |-> size + (off % PageSize)]

VARIABLES
  pos,                \* tile the attribute's cursor is on
  tile_in,            \* tile held by tiles_[a] (read or mapped)
  tile_var_in,        \* tile held by tiles_var_[a]
  tiles_alloc,        \* bytes allocated for tiles_[a]
  tiles_sizes,        \* tiles_sizes_[a]
  tiles_var_alloc,    \* tiles_var_allocated_size_[a]
  tiles_var_sizes,    \* tiles_var_sizes_[a]
  tile_compressed_allocated_size,
  tile_compressed_size,   \* bytes last read into tile_compressed_
  map_addr,           \* map_addr_[a], map_addr_lengths_[a]
  map_addr_var,       \* map_addr_var_[a], map_addr_var_lengths_[a]
  map_addr_compressed,
  in_fetch,           \* attribute inside a two-part fetch, or 0
  live                \* the regions the process has mapped: <<slot, region>>

vars == <<pos, tile_in, tile_var_in, tiles_alloc, tiles_sizes,
          tiles_var_alloc, tiles_var_sizes, tile_compressed_allocated_size,
          tile_compressed_size, map_addr, map_addr_var, map_addr_compressed,
          in_fetch, live>>
bufs == <<tiles_alloc, tiles_sizes, tiles_var_alloc, tiles_var_sizes,
          tile_compressed_allocated_size, tile_compressed_size>>
maps == <<map_addr, map_addr_var, map_addr_compressed, live>>

Init ==
  /\ pos = [a \in Attrs |-> 1]
  /\ tile_in = [a \in Attrs |-> NoTile]
  /\ tile_var_in = [a \in Attrs |-> NoTile]
  /\ tiles_alloc = [a \in Attrs |-> 0]
  /\ tiles_sizes = [a \in Attrs |-> 0]
  /\ tiles_var_alloc = [a \in Attrs |-> 0]
  /\ tiles_var_sizes = [a \in Attrs |-> 0]
  /\ tile_compressed_allocated_size = 0
  /\ tile_compressed_size = 0
  /\ map_addr = [a \in Attrs |-> NoRegion]
  /\ map_addr_var = [a \in Attrs |-> NoRegion]
  /\ map_addr_compressed = NoRegion
  /\ in_fetch = 0
  /\ live = {}

(* The slots that hold a mapping, and the file each one maps.              *)
Fix(a) == <<"fix", a>>
Var(a) == <<"var", a>>
Cmp == <<"cmp", 0>>
Start(slot, t) ==
  CASE slot[1] = "fix" -> TileOff(t)
    [] slot[1] = "var" -> VarOff(t)
    [] slot[1] = "cmp" -> CompOff(t)
Size(slot, t) ==
  CASE slot[1] = "var" -> VarSize(t)
    [] slot[1] = "cmp" -> CompSize(t)
    [] OTHER -> TileSize(t)

(* The attribute can fetch: no other fetch is half done, and its cursor is *)
(* on a tile.                                                              *)
CanFetch(a) == in_fetch \in {0, a} /\ pos[a] <= NumTiles

(* tiles_[a] is grown to a full tile on first use (spec 4.4).             *)
GrowTiles(a) ==
  tiles_alloc' = [tiles_alloc EXCEPT ![a] = IF @ = 0 THEN FullTileSize ELSE @]

(* Mutant: tiles_var_[a] is allocated for the first values tile only.    *)
GrowVarTilesOnce(a, t) ==
  tiles_var_alloc' = [tiles_var_alloc EXCEPT ![a] = IF @ = 0 THEN VarSize(t)
                                                               ELSE @]

(* tiles_var_[a] is reallocated when a values tile is larger than it.     *)
GrowVarTiles(a, t) ==
  tiles_var_alloc' = [tiles_var_alloc EXCEPT ![a] = IF VarSize(t) > @
                                                    THEN VarSize(t) ELSE @]

(* A variable attribute goes on with its values tile.                      *)
AfterOffsets(a) == in_fetch' = IF a \in VarAttrs THEN a ELSE 0

-----------------------------------------------------------------------------
(* read_tile_from_file_cmp_none: the tile is read into tiles_[a]; a short *)
(* or failed read leaves the buffer holding no tile.                       *)
read_tile_from_file_cmp_none(a) ==
  LET t == pos[a] IN
  /\ ~UseMmap /\ a \notin CmpAttrs
  /\ CanFetch(a) /\ in_fetch = 0 /\ tile_in[a] # t
  /\ GrowTiles(a)
  /\ \/ /\ tiles_sizes' = [tiles_sizes EXCEPT ![a] = TileSize(t)]
        /\ tile_in' = [tile_in EXCEPT ![a] = t]
        /\ AfterOffsets(a)
     \/ /\ IOFailures
        /\ tile_in' = [tile_in EXCEPT ![a] = NoTile]
        /\ UNCHANGED <<tiles_sizes, in_fetch>>
  /\ UNCHANGED <<pos, tile_var_in, tiles_var_alloc, tiles_var_sizes,
                 tile_compressed_allocated_size, tile_compressed_size, maps>>

(* read_tile_from_file_cmp_gzip: the compressed payload is read into the  *)
(* scratch shared by all attributes, allocated once at the maximum        *)
(* compressed size, and decompressed into tiles_[a].                       *)
read_tile_from_file_cmp_gzip(a) ==
  LET t == pos[a] IN
  /\ ~UseMmap /\ a \in CmpAttrs
  /\ CanFetch(a) /\ tile_in[a] # t
  /\ tile_compressed_allocated_size' =
       IF tile_compressed_allocated_size = 0 THEN CompMax
                                            ELSE tile_compressed_allocated_size
  /\ GrowTiles(a)
  /\ \/ /\ tile_compressed_size' = CompSize(t)
        /\ tiles_sizes' = [tiles_sizes EXCEPT ![a] = TileSize(t)]
        /\ tile_in' = [tile_in EXCEPT ![a] = t]
     \/ /\ IOFailures
        /\ tile_in' = [tile_in EXCEPT ![a] = NoTile]
        /\ UNCHANGED <<tile_compressed_size, tiles_sizes>>
  /\ UNCHANGED <<pos, tile_var_in, tiles_var_alloc, tiles_var_sizes, maps,
                 in_fetch>>

(* The region of tile t mapped for slot.                                   *)
MapWindow(slot, t) == Window(t, Start(slot, t), Size(slot, t))

(* read_tile_from_file_with_mmap_cmp_none: the tile is mapped; tiles_[a]  *)
(* points into the mapping, which stays until the cursor moves on.        *)
read_tile_from_file_with_mmap_cmp_none(a) ==
  LET t == pos[a]
      w == MapWindow(Fix(a), t)
  IN
  /\ UseMmap /\ a \notin CmpAttrs
  /\ CanFetch(a) /\ in_fetch = 0 /\ tile_in[a] # t
  /\ \/ /\ map_addr' = [map_addr EXCEPT ![a] = w]
        /\ live' = live \cup {<<Fix(a), w>>}
        /\ tiles_sizes' = [tiles_sizes EXCEPT ![a] = TileSize(t)]
        /\ tile_in' = [tile_in EXCEPT ![a] = t]
        /\ AfterOffsets(a)
     \/ /\ IOFailures
        /\ UNCHANGED <<map_addr, live, tiles_sizes, tile_in, in_fetch>>
  /\ UNCHANGED <<pos, tile_var_in, tiles_alloc, tiles_var_alloc,
                 tiles_var_sizes, tile_compressed_allocated_size,
                 tile_compressed_size, map_addr_var, map_addr_compressed>>

(* read_tile_from_file_with_mmap_cmp_gzip, first part: the compressed      *)
(* payload is mapped into the one map_addr_compressed_ of the engine.     *)
MapCompressed(a) ==
  LET t == pos[a]
      w == MapWindow(Cmp, t)
  IN
  /\ UseMmap /\ a \in CmpAttrs
  /\ CanFetch(a) /\ in_fetch = 0 /\ tile_in[a] # t
  /\ \/ /\ map_addr_compressed' = w
        /\ live' = live \cup {<<Cmp, w>>}
        /\ in_fetch' = a
     \/ /\ IOFailures
        /\ UNCHANGED <<map_addr_compressed, live, in_fetch>>
  /\ UNCHANGED <<pos, tile_in, tile_var_in, bufs, map_addr, map_addr_var>>

(* Mutant: a failed decompression returns without unmapping.              *)
DecompressFailKeepsMap(a) ==
  /\ tile_in' = [tile_in EXCEPT ![a] = NoTile]
  /\ in_fetch' = 0
  /\ UNCHANGED <<map_addr_compressed, live, tiles_sizes>>

(* A failed decompression unmaps the payload and returns an error.        *)
DecompressFail(a) ==
  /\ tile_in' = [tile_in EXCEPT ![a] = NoTile]
  /\ in_fetch' = 0
  /\ map_addr_compressed' = NoRegion
  /\ live' = live \ {<<Cmp, map_addr_compressed>>}
  /\ UNCHANGED tiles_sizes

(* Second part: decompress into tiles_[a], grown to a full tile, then     *)
(* unmap the payload; the decompressed tile is in the engine's memory.    *)
Decompress(a) ==
  LET t == pos[a] IN
  /\ in_fetch = a /\ a \in CmpAttrs
  /\ GrowTiles(a)
  /\ \/ /\ tiles_sizes' = [tiles_sizes EXCEPT ![a] = TileSize(t)]
        /\ tile_in' = [tile_in EXCEPT ![a] = t]
        /\ in_fetch' = 0
        /\ map_addr_compressed' = NoRegion
        /\ live' = live \ {<<Cmp, map_addr_compressed>>}
     \/ IOFailures /\ DecompressFail(a)
  /\ UNCHANGED <<pos, tile_var_in, tiles_var_alloc, tiles_var_sizes,
                 tile_compressed_allocated_size, tile_compressed_size,
                 map_addr, map_addr_var>>

(* get_tile_from_disk_var_cmp_none, second part: the values tile, read    *)
(* into tiles_var_[a] or mapped into map_addr_var_[a].  It follows the    *)
(* offsets tile at once, or, after it failed, on the next attempt.         *)
read_values_tile(a) ==
  LET t == pos[a]
      w == MapWindow(Var(a), t)
  IN
  /\ a \in VarAttrs /\ pos[a] <= NumTiles
  /\ \/ in_fetch = a
     \/ in_fetch = 0 /\ tile_in[a] = t /\ tile_var_in[a] # t
  /\ in_fetch' = 0
  /\ \/ /\ tile_var_in' = [tile_var_in EXCEPT ![a] = t]
        /\ tiles_var_sizes' = [tiles_var_sizes EXCEPT ![a] = VarSize(t)]
        /\ IF UseMmap
           THEN /\ map_addr_var' = [map_addr_var EXCEPT ![a] = w]
                /\ live' = live \cup {<<Var(a), w>>}
                /\ UNCHANGED tiles_var_alloc
           ELSE /\ GrowVarTiles(a, t)
                /\ UNCHANGED <<map_addr_var, live>>
     \/ /\ IOFailures
        /\ tile_var_in' = [tile_var_in EXCEPT ![a] =
                              IF UseMmap THEN @ ELSE NoTile]
        /\ UNCHANGED <<tiles_var_sizes, tiles_var_alloc, map_addr_var, live>>
  /\ UNCHANGED <<pos, tile_in, tiles_alloc, tiles_sizes,
                 tile_compressed_allocated_size, tile_compressed_size,
                 map_addr, map_addr_compressed>>

(* Mutant: moving on unmaps the offsets tile but not the values tile.     *)
AdvanceKeepsVarMap(a) ==
  /\ pos[a] <= NumTiles /\ in_fetch = 0
  /\ pos' = [pos EXCEPT ![a] = @ + 1]
  /\ IF UseMmap
     THEN /\ live' = live \ {<<Fix(a), map_addr[a]>>}
          /\ map_addr' = [map_addr EXCEPT ![a] = NoRegion]
          /\ tile_in' = [tile_in EXCEPT ![a] = NoTile]
          /\ UNCHANGED <<map_addr_var, tile_var_in>>
     ELSE UNCHANGED <<live, map_addr, map_addr_var, tile_in, tile_var_in>>
  /\ UNCHANGED <<bufs, map_addr_compressed, in_fetch>>

(* Mutant: the cursor is moved on past the last tile.                     *)
AdvancePastEnd(a) ==
  /\ in_fetch = 0
  /\ pos' = [pos EXCEPT ![a] = @ + 1]
  /\ IF UseMmap
     THEN /\ live' = live \ {<<Fix(a), map_addr[a]>>, <<Var(a), map_addr_var[a]>>}
          /\ map_addr' = [map_addr EXCEPT ![a] = NoRegion]
          /\ map_addr_var' = [map_addr_var EXCEPT ![a] = NoRegion]
          /\ tile_in' = [tile_in EXCEPT ![a] = NoTile]
          /\ tile_var_in' = [tile_var_in EXCEPT ![a] = NoTile]
     ELSE UNCHANGED <<live, map_addr, map_addr_var, tile_in, tile_var_in>>
  /\ UNCHANGED <<bufs, map_addr_compressed, in_fetch>>

(* The driver moves the cursor of a to the next tile (spec 4.4: "unmap on *)
(* cursor advance"): with mmap the tile's regions are unmapped and the    *)
(* buffers point nowhere; read tiles stay in the buffers.                 *)
Advance(a) ==
  /\ pos[a] <= NumTiles /\ in_fetch = 0
  /\ pos' = [pos EXCEPT ![a] = @ + 1]
  /\ IF UseMmap
     THEN /\ live' = live \ {<<Fix(a), map_addr[a]>>, <<Var(a), map_addr_var[a]>>}
          /\ map_addr' = [map_addr EXCEPT ![a] = NoRegion]
          /\ map_addr_var' = [map_addr_var EXCEPT ![a] = NoRegion]
          /\ tile_in' = [tile_in EXCEPT ![a] = NoTile]
          /\ tile_var_in' = [tile_var_in EXCEPT ![a] = NoTile]
     ELSE UNCHANGED <<live, map_addr, map_addr_var, tile_in, tile_var_in>>
  /\ UNCHANGED <<bufs, map_addr_compressed, in_fetch>>

(* Every cursor is past the last tile.                                     *)
Done ==
  /\ \A a \in Attrs : pos[a] > NumTiles
  /\ UNCHANGED vars

Next ==
  \/ \E a \in Attrs :
       \/ read_tile_from_file_cmp_none(a)
       \/ read_tile_from_file_cmp_gzip(a)
       \/ read_tile_from_file_with_mmap_cmp_none(a)
       \/ MapCompressed(a)
       \/ Decompress(a)
       \/ read_values_tile(a)
       \/ Advance(a)
  \/ Done

Spec == Init /\ [][Next]_vars

-----------------------------------------------------------------------------
Region == [tile : Tiles \cup {NoTile}, off : Nat, len : Nat]
Slot == {Fix(a) : a \in Attrs} \cup {Var(a) : a \in VarAttrs} \cup {Cmp}

TypeOK ==
  /\ pos \in [Attrs -> 1..(NumTiles + 1)]
  /\ tile_in \in [Attrs -> Tiles \cup {NoTile}]
  /\ tile_var_in \in [Attrs -> Tiles \cup {NoTile}]
  /\ tiles_alloc \in [Attrs -> Nat] /\ tiles_sizes \in [Attrs -> Nat]
  /\ tiles_var_alloc \in [Attrs -> Nat] /\ tiles_var_sizes \in [Attrs -> Nat]
  /\ tile_compressed_allocated_size \in Nat /\ tile_compressed_size \in Nat
  /\ map_addr \in [Attrs -> Region] /\ map_addr_var \in [Attrs -> Region]
  /\ map_addr_compressed \in Region
  /\ in_fetch \in Attrs \cup {0}
  /\ live \subseteq Slot \X Region

(* The regions held by the engine's map_addr_ slots.                        *)
Held ==
  {<<Fix(a), map_addr[a]>> : a \in {b \in Attrs : map_addr[b] # NoRegion}}
  \cup {<<Var(a), map_addr_var[a]>> :
          a \in {b \in Attrs : map_addr_var[b] # NoRegion}}
  \cup (IF map_addr_compressed # NoRegion THEN {<<Cmp, map_addr_compressed>>}
                                          ELSE {})

(* No mapping leaks and none is used after munmap: the regions mapped are *)
(* exactly those the map_addr_, map_addr_var_ and map_addr_compressed_    *)
(* slots hold, across cursor advances, failed decompressions and the      *)
(* split offsets/values fetch of variable attributes.                     *)
NoLeakedRegion == live = Held

(* Every mapping starts on a page boundary at most a page before the      *)
(* tile and ends exactly at the tile's end (spec 4.4), for the last,      *)
(* shorter tile of a sparse fragment and for compressed payloads alike.   *)
MappedWindowExact ==
  \A m \in live :
    LET r == m[2]
        st == Start(m[1], r.tile)
    IN  /\ r.off % PageSize = 0
        /\ r.off <= st /\ st - r.off < PageSize
        /\ r.off + r.len = st + Size(m[1], r.tile)

(* No read writes past an engine buffer: the tile in tiles_[a], the        *)
(* values tile in tiles_var_[a] and the compressed payload in the shared   *)
(* scratch each fit what was allocated for them, though values tiles and   *)
(* compressed payloads vary in size from tile to tile.                    *)
ReadsFit ==
  /\ \A a \in Attrs :
       tile_in[a] # NoTile /\ (~UseMmap \/ a \in CmpAttrs)
         => tiles_sizes[a] <= tiles_alloc[a]
  /\ \A a \in VarAttrs :
       tile_var_in[a] # NoTile /\ ~UseMmap
         => tiles_var_sizes[a] <= tiles_var_alloc[a]
  /\ tile_compressed_size <= tile_compressed_allocated_size
====
