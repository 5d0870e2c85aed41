# TLA+ models of the TileDB fragment read engine

This directory holds TLA+ specifications of `ReadState`, the class that
reads the cells of one fragment that fall in a query range
(`src/core/include/fragment/read_state.h`). It also holds the TLC
configurations that check them.

The repository ships only the header of `ReadState`. It declares the state
(the private attributes), every operation (the private methods) and, for
some of them, their contract. The implementation is not in the repository.
Definitions that translate a declaration and its contract are mapped to the
header lines in `PROJECT.json`. Behaviour that only `spec.md` describes is
marked `spec_modelled`.

## 1. Inventory

### Components (spec section 2)

| # | Component | State it keeps (header) | Operations (header) |
|---|-----------|-------------------------|---------------------|
| C1 | Tile I/O | `tiles_`, `tiles_sizes_`, `tiles_var_*`, `tile_compressed_*`, `map_addr_*` | `get_tile_from_disk_{,var_}cmp_{none,gzip}`, `read_tile_from_file_{,with_mmap_}cmp_{none,gzip}` |
| C2 | Tile cache | one slot per attribute: `tiles_[a]`, `tiles_var_[a]` | filled by C1, freed by C7 |
| C3 | Tile search | `range_in_tile_domain_` (dense), `tile_search_range_` (sparse) | `init_range_in_tile_domain`, `init_tile_search_range{,_row,_col,_hil}`, `get_next_overlapping_tile_{dense,sparse}` |
| C4 | Overlap classifier | `OverlappingTile::{overlap_, overlap_range_, cell_pos_ranges_, coords_tile_fetched_}` | classification in `get_next_overlapping_tile_*`, `compute_cell_pos_ranges{,_contig*,_non_contig,_scan,_unary*}` |
| C5 | Copier | `tiles_offsets_`, `tiles_var_offsets_`, `cell_pos_range_pos_` | `copy_tile_*`, `copy_tile_*_direct*`, `copy_from_tile_buffer_*`, `compute_bytes_to_copy`, `compute_tile_var_size`, `shift_var_offsets` |
| C6 | Read driver | `overlapping_tiles_`, `overlapping_tiles_pos_`, `overflow_` | `read`, `read_{dense,sparse}`, `read_{dense,sparse}_attr{,_var}{,_cmp_none,_cmp_gzip}`, `is_empty_attribute` |
| C7 | Housekeeping | (releases the above) | `clean_up_processed_overlapping_tiles`, `reset_overflow`, destructor |

The BookKeeping, Fragment and ArraySchema objects are read-only oracles
(spec section 1). They supply tile offsets, MBRs, cell counts, the domain
and the extents.

### How the components interact

`read(buffers, sizes)` resets the overflow flags. It then drives the
attributes in the caller's order. For each attribute, `read_*_attr` loops
over the tiles:

1. If the attribute's cursor is past the end of the shared list
   `overlapping_tiles_`, the tile search (C3) and classifier (C4) append
   the next tile.
2. A NONE tile is skipped.
3. For a sparse tile whose MBR only meets the range, the coordinates tile
   is fetched once and `cell_pos_ranges_` is computed.
4. The tile is copied (C5). A copy either reads from the file straight
   into the buffer (direct copy) or fills the attribute's cache slot (C1,
   C2) first.
5. The loop stops when the tiles run out, or sets `overflow_[a]` when the
   buffer fills first.

When every attribute is done, `read` writes back the sizes. Clean-up (C7)
then releases the records that every attribute has passed.

All calls are synchronous and a `ReadState` is used by one thread (spec
section 5). The interaction that is hard to get right is in the cursors:

- Several attributes share one list but advance at their own pace.
- A copy pauses mid-tile or mid-range on overflow and resumes in the next
  call.
- Clean-up compacts the list under the cursors.
- Direct copies by-pass the cache.
- A read from disk can fail after some attributes have already advanced.

### Properties that make each component correct

- **C6/C5 resumability** (spec 8.1): the concatenated output of the calls
  is the answer, whatever the buffer sizes.
- **C5 capacity** (spec 8.3): nothing is written past a buffer, including
  the values buffer of a variable attribute.
- **C5 offsets** (spec 8.4): the offsets written point at each value in
  the values buffer of the call.
- **C5 values size** (spec 4.5, 4.6): the byte count returned for a
  values buffer is the size of the values written, including a last cell
  whose end is the tile's values size.
- **C4 compute once** (spec 3, invariant 3): the coordinates tile is
  fetched at most once per tile.
- **C6 alignment** (spec 3, invariant 2; spec 8.2): attributes write equal
  cell counts per call.
- **C2/C7 pinning** (spec 4.6): a tile partly copied stays in the
  attribute's cache slot across the return, clean-up and the next call.
- **C7 clean-up**: it never releases a record an attribute still needs,
  and the list stays bounded.
- **C6 termination**: a caller that calls again on overflow eventually has
  the whole answer.
- **C3 search soundness**: no tile with a qualifying cell lies outside the
  search range.
- **C4 classification**: `overlap_` and `cell_pos_ranges_` agree with the
  set of qualifying cells.
- **C1 mmap**: a mapping covers exactly the tile; every region is unmapped
  once.

## 2. Plan

Modules, in order of importance:

1. **`ReadState`** (done): C6, C5, C2, C7 and C1's failure points, over an
   abstract geometry. It is instantiated by `MC_ReadState`.
2. **`Geometry`** (done, section 3d): C3 and C4 as pure operators over small 2-D domains:
   - tile-domain translation;
   - the row/column MBR pruning of `init_tile_search_range_*`;
   - the contiguity rule of spec 4.2;
   - the start/end cell of a partial contiguous dense overlap;
   - the unary and the non-contiguous cell-position searches of a sparse
     tile.

   Each is checked against a reference definition by brute force.
3. **`TileIO`** (done, section 3c): C1's two back ends, with mmap page
   alignment, the compressed scratch buffer, and the split fetch of an
   offsets tile and a values tile. It is a separate module with its own
   cursor. Composing it with `ReadState` is still to do.
4. Extensions of `ReadState` (done): progress per call
   (`OverflowMakesProgress`) and the release of records with an empty
   attribute (`ReleasesConsumedRecords`).
5. Values sizes (done): the code's byte count for values buffers, with
   `compute_tile_var_size` for the last cell of a tile (`ValuesAccounted`),
   and the short-write reading of overflow in spec 6 (`shortwrite`).
6. Pinning and slabs (done): a paused tile's cache slot survives clean-up
   (`PausedPinsCache`), and the slab copy of a dense overlap
   (`DenseSlabsExact`).

### Runs

| run | cfg | expect | what it checks |
|-----|-----|--------|----------------|
| `sparse` | `MC_ReadState_sparse.cfg` | pass | 2 attributes (fixed, variable), 2 sparse tiles of 3 and 2 cells, every MBR/qualifying-set combination, buffer sizes 1–2 cells and 2–3 value bytes, I/O failures: `TypeOK`, `Resumable`, `ValuesAccounted`, `WithinCapacity`, `VarOffsetsRelative`, `PausedPinsCache`, `CoordsFetchedOnce`, `QueryCompletes`, `OverflowMakesProgress` |
| `dense` | `MC_ReadState_dense.cfg` | pass | 3 attributes (fixed, variable, empty), 2 dense tiles of 3 cells with every non-empty qualifying set (full, contiguous, non-contiguous), the same buffer sizes: the same properties except `CoordsFetchedOnce` (no coordinates tiles) and `PausedPinsCache` (the empty attribute keeps the minimum cursor at 1, so clean-up never releases a record or frees a slot here) |
| `align` | `MC_ReadState_align.cfg` | violation | `AlignedOnSuccess`: spec 3 invariant 2 fails for per-attribute buffer sizes |
| `retry` | `MC_ReadState_retry.cfg` | violation | `Resumable` with a caller that retries after `TILEDB_RS_ERR` |
| `emptyclean` | `MC_ReadState_emptyclean.cfg` | violation | `ReleasesConsumedRecords`: an empty attribute (of 2, dense, no I/O failures) keeps every record in `overlapping_tiles_` |
| `shortwrite` | `MC_ReadState_shortwrite.cfg` | violation | `ShortWriteMeansDone`: the `sparse` constants without I/O failures; a short write (bytes written below capacity) is not the end of the answer for a variable attribute |
| `io_mmap` | `MC_TileIO_mmap.cfg` | pass | 3 attributes (GZIP fixed, uncompressed fixed, variable), 3 tiles of 3, 3 and 2 bytes at unaligned offsets, page size 4, failures: `TypeOK`, `NoLeakedRegion`, `MappedWindowExact` |
| `io_read` | `MC_TileIO_read.cfg` | pass | the same without mmap: `TypeOK`, `ReadsFit` |
| `geo_dense` | `MC_Geometry_dense.cfg` | pass | every range of a 6×6 domain of 3×3 tiles, both cell orders: `TileDomainExact`, `ContigRangeExact`, `DenseSlabsExact` |
| `geo_sparse` | `MC_Geometry_sparse.cfg` | pass | every fragment of ≤ 5 cells of a 3×3 domain in tiles of 2, every range, both orders: `SearchRangeSound`, `UnaryMatchesScan`, `NonContigMatchesScan` |
| `geo_contig` | `MC_Geometry_contig.cfg` | violation | `ContigSound`: the dense contiguity rule of spec 4.2 |

**Why the bounds are enough.** Two tiles let a cursor cross a tile
boundary. They also let the leading attribute append a tile that the
lagging one later reuses, and let clean-up release a record while another
is live. Three cells per tile give every overlap kind, including a
non-contiguous one (`{0,2}`) and a mid-range resume. The short last sparse
tile exercises spec open question 2. Buffer sizes of 1 and 2 cells, and
values buffers of 2 and 3 bytes over values of 1 and 2 bytes, produce:

- overflow mid-range;
- exact fills at a range end and at a tile end;
- a values buffer that fills before the offsets buffer.

Each passing run fires every action of `Next`. The empty-attribute path
fires only in `dense`, and the coordinates path only in `sparse`.

## 3. The model (`ReadState.tla`)

**Geometry.** Geometry is abstracted. `qual[t]` is the set of qualifying
cell positions of tile `t`, chosen in `Init` and never changed. `mbr[t]`
says whether a sparse tile's MBR misses, meets or lies inside the range.
`Geometry` constrains the two:

- a dense tile in the range overlaps it;
- an MBR that misses qualifies nothing;
- an MBR inside qualifies everything;
- an MBR that meets the range qualifies anything but everything,
  possibly nothing.

A result cell is `<<tile, position>>`.

**State.** State is kept under the source's names:

- `overlapping_tiles` holds records `[pos, overlap, ranges,
  coords_tile_fetched]`, which is `OverlappingTile`.
- `overlapping_tiles_pos`, `cell_pos_range_pos` and `tiles_offsets` are
  the per-attribute cursors.
- `cached` is the tile in the attribute's cache slot. A cached copy reads
  the tile from disk only if the slot holds another one
  (`get_tile_from_disk`), and copies the cells of the tile the slot holds.
  A slot that still holds an older tile after a direct copy by-passed it
  would therefore show in the output.
- `overflow` is the overflow flag.
- `next_tile` is the tile search's position.

History variables:

- `delivered` holds the cells of the calls that returned OK.
- `coords_fetches` counts coordinate-tile fetches.

The caller's side is `phase`, `cap`, `buf` and `offs`. `buf` and `offs`
are the buffers of the call. `buffer_var_offset` is the byte count the
code keeps for each values buffer. It is the base that `shift_var_offsets`
adds, the free space that `compute_bytes_to_copy` tests, and the size
returned to the caller.

**Values sizes.** The offsets tile gives each cell's start (`SrcOff`). A
cell's end is the next cell's start, and for the last cell of a tile it is
`compute_tile_var_size` (`CellEnd`). That size is the distance to the
next values tile, or for the last tile the file size minus the tile's
offset (`tile_var_offsets`, `ValuesFileSize`). `CopyVarBytes` is what the
copier adds to `buffer_var_offset`. `VarBytes` of the cells written is the
truth it is compared with; the cell lengths come from `CellLen`.

**Actions.** One action per turn of the attribute loop:

- `ReadEmptyAttr`, `FinishAttr`, `StopOnFullBuffer`;
- `get_next_overlapping_tile`, `SkipTile`, `ComputeCellPosRanges`;
- `copy_tile_direct`, `copy_from_tile_buffer`.

The caller's side is `read` (with `reset_overflow`) and `ReadReturn` (with
`clean_up_processed_overlapping_tiles`). `ReadError` is the early
`TILEDB_RS_ERR` return of any read from disk. It is a disjunct of the
actions that read: coordinates, direct copy, and cache fill.

A cached copy copies from one cell range per step. This is the loop
iteration of `copy_from_tile_buffer_partial_non_contig_*`. Nothing can
fail between ranges once the tile is cached, so splitting the loop into
steps changes no outcome.

**Abstractions.**

- Fixed-size buffers are measured in cells. The caller's sizes are
  multiples of the cell size (spec 8: "buffer sizes ≥ one cell").
- Values buffers are measured in bytes.
- Compression and mmap affect only how a tile reaches memory. Here they
  appear only as a read that succeeds or fails.

**Fairness.** `read()` is synchronous and runs to its return (spec 5). This
justifies weak fairness of the engine's steps and of `ReadReturn`. Weak
fairness of `read` is the caller's loop: it calls again while some
attribute overflowed, which is how overflow is meant to be used (spec 6).

## 3c. Tile I/O (`TileIO.tla`)

State, per attribute:

- the cursor's tile, `pos`;
- the tile held by `tiles_[a]` and by `tiles_var_[a]`;
- their allocated sizes and the sizes of the tiles read;
- `map_addr_[a]` and `map_addr_var_[a]`, as a region
  `[tile, off, len]`.

Shared between attributes:

- the compressed scratch (`tile_compressed_allocated_size_`);
- `map_addr_compressed_`.

`live` is the set of regions the process has mapped, and `in_fetch`
marks a two-part fetch in progress.

Actions:

- `read_tile_from_file_cmp_none` and `_cmp_gzip`;
- `read_tile_from_file_with_mmap_cmp_none`;
- `MapCompressed` then `Decompress`, the two halves of
  `read_tile_from_file_with_mmap_cmp_gzip`;
- `read_values_tile`, the values half of `get_tile_from_disk_var_cmp_none`;
- `Advance`, the driver moving the cursor on. Under mmap it unmaps the
  tile (spec 4.4: "unmap on cursor advance").

Every read, map and decompression may fail.

Tiles lie back to back in their files, so most offsets are not page
aligned. The last tile is short (spec open question 2). The first values
tile and the first compressed payload are not the largest.

There is no fairness: the properties are safety properties. The cursor is
driven freely. It may skip a tile without fetching it, as `SkipTile` does
in `ReadState`.

## 3d. Geometry (`Geometry.tla`)

The domain is 2-D and starts at 0. Boxes are `[lo, hi]` pairs of
coordinates. The order is row-major (`"row"`, dimension 1 outermost) or
column-major.

Dense operators:

- `init_range_in_tile_domain`, floor division per dimension (spec 4.1);
- `OverlapOf`, the classification of `get_next_overlapping_tile_dense`,
  with the contiguity rule of spec 4.2 (`ContigRule`);
- `ContigRange`, the `[start, end]` positions that
  `copy_from_tile_buffer_partial_contig_dense` copies, from the overlap
  range relative to the tile (spec 4.5). The sparse
  `compute_cell_pos_ranges_contig_row/_col`, which search the coordinates
  tile, are not modelled separately: they give the one run that the scan
  gives;
- `DenseSlabs`, the slabs of `copy_from_tile_buffer_dense` (spec 4.5):
  one run per value of the outer dimension. `DenseSlabsExact` checks that
  they ascend and cover exactly the qualifying cells. For a
  non-contiguous overlap it also checks that no two slabs touch, so they
  are the maximal runs that `ReadState`'s scan gives a dense tile.

Sparse operators work on a fragment's cells in global order, cut into
tiles of `Cap` cells with their MBRs:

- `init_tile_search_range`, the two binary searches (`BSearch`, which is
  `RECURSIVE`) of `init_tile_search_range_row/_col` (spec 4.1);
- `compute_cell_pos_ranges_unary`, the binary search for a one-cell range
  (spec 4.3);
- `compute_cell_pos_ranges_non_contig`, which binary-searches the first
  cell not before the range's lower corner and the last not after its
  upper corner, then runs `compute_cell_pos_ranges_scan(start_pos,
  end_pos)` on the cells between. `NonContigMatchesScan` compares it with
  the scan of the whole coordinates tile that spec 4.3 describes.

The variables hold only the input: the order, the range and the
fragment's cells. `Init` enumerates every input, `Next` leaves it alone,
and every property compares an operator with a brute-force reference.

The bounds are chosen so that every case occurs:

- 3×3 tiles give ranges that end inside a tile, on its last cell, and on
  the domain's last cell.
- Every overlap kind occurs, including a one-row partial overlap and a
  full-height one-column overlap.
- Sparse fragments of up to 5 cells in tiles of 2 give up to three tiles,
  MBR bounds that equal range bounds, and a short last tile.

## 4. What the runs show

The `sparse` and `dense` runs pass. In every interleaving of buffer sizes,
overflow/resume and I/O errors (the caller discards the engine on error,
spec 7), the following hold:

- the output is always a prefix of the answer and ends up the whole
  answer;
- buffers are never overrun;
- variable offsets are rebased to the call's values buffer;
- the values size counted by the code is the size of the values written;
- a tile an attribute paused in stays in its cache slot until it is done;
- each coordinates tile is fetched once;
- the query terminates.

Each property is shown to constrain the code by a mutant listed in
`PROJECT.json`:

- clean-up that forgets to rebase the cursors, or releases the slowest
  attribute's record;
- no reset of the tile offset on moving on;
- an off-by-one fit test for direct copies;
- offsets shifted from the tile start;
- "computed" judged by non-empty ranges;
- no overflow reset;
- a cache fill that reads from disk only into an empty slot, so a slot
  still holding the previous tile is copied from (breaks `Resumable`);
- a fit test for values with no room to spare (a call that overflows
  having written nothing);
- a values byte count that runs one cell too far (`sparse`), and a last
  tile sized like the tile before it (`dense`);
- a clean-up that frees every attribute's tile buffer, which breaks only
  `PausedPinsCache`: the tile is fetched again and the output is the same.

`io_mmap` and `io_read` pass, showing that:

- every mapped region is held by a slot;
- no slot holds an unmapped region;
- every window starts on a page boundary below the tile and ends at the
  tile's end;
- every read fits its buffer.

`geo_dense` and `geo_sparse` pass. Their mutants are the upper tile bound
taken from the exclusive end, start/end in the other cell order, a strict
comparison in the MBR search, slabs taken along the inner dimension, a
unary search for the first cell after
the point, and a non-contiguous window that ends before the cell at the
range's upper corner. The mutants of `io_mmap` and `io_read` are:

- a failed decompression that does not unmap;
- a window without the alignment delta;
- a values buffer sized by the first tile;
- a cursor moved past the last tile.

Five runs find disagreements between the spec and the declared design:

- **`align`**: each attribute has its own cursor and fills its own buffer.
  With buffers of different sizes, one attribute overflows at cell 1 while
  another finishes the answer. The next call then returns OK with no
  overflow and unequal counts. Spec 3 invariant 2 / 8.2 does not hold
  unless the caller sizes buffers in proportion.
- **`retry`**: after a failed read from disk, `read` returns the error
  once earlier attributes have advanced. A caller that retries (spec 4.4:
  "retries are the caller's responsibility") never sees the cells those
  attributes wrote in the failed call.
- **`emptyclean`**: `is_empty_attribute` keeps an attribute's cursor at
  the first record. Clean-up releases below the minimum cursor of all
  attributes (spec 5). So with an empty attribute in the query nothing is
  ever released, and `overlapping_tiles_` grows to every tile of the
  query.
- **`shortwrite`**: spec 6 says overflow is observable "equivalently by a
  short write (bytes-written < capacity implies done-or-errored)". A
  variable attribute given 2 cells and 2 value bytes writes a 1-byte
  value. The next value has 2 bytes and does not fit in the 1 byte left,
  so `compute_bytes_to_copy` stops and read() returns OK with overflow.
  Both sizes returned are below capacity. A caller that follows the spec
  takes this as the end of the answer and loses the rest. Fixed-size
  attributes stop only on a full buffer, so for them the equivalence
  holds.
- **`geo_contig`**: spec 4.2 defines a contiguous overlap as one run of
  qualifying cells in cell order, as the comment on `enum Overlap` does.
  Its dense rule only asks that the dimensions before the first narrowed
  one be full. So it calls a full-height, one-column overlap of a
  row-major 3×3 tile contiguous, though its cells are 0, 3 and 6. The
  correct rule also needs the dimensions outside the narrowed one to span
  a single value. A single copy of `[start, end]` following the spec's
  rule would copy cells outside the range.

## 5. Not modelled (yet) and why

- GZIP decompression: out of TLC's reach and irrelevant to the cursors;
  only its failure, and its buffers, are modelled (`TileIO`). Compressed
  variable tiles (`get_tile_from_disk_var_cmp_gzip`) are not modelled.
- `TileIO` and `ReadState` are not composed. `ReadState`'s `cached` is
  `TileIO`'s `tile_in`, and `ReadState`'s `NextTilePos` is `TileIO`'s
  `Advance`. In `ReadState` a cache fill and the copy that follows are one
  step. In `TileIO` a fill is up to three steps: offsets tile, values tile,
  and decompression. Composing the two means re-specifying the copy
  actions around the split fetch, and it multiplies two state spaces.
  `PausedPinsCache` and `NoLeakedRegion` state the two sides of the
  contract between them: a slot is kept while a tile is in use, and
  released when the cursor moves on.
- No abstract specification of `read` is checked. An abstract query
  (append the next cells, commit on OK, discard on error, stop only when
  complete) says nothing that `Resumable` does not: its commit and discard
  steps are the updates of the history variable `delivered`, so a mapping
  onto it holds by construction.
- Larger `ReadState` instances: three sparse tiles take 3 minutes and
  0.8 M states for the same properties. Two tiles already reach every
  cursor case (cross a tile, release several records at once, lag a
  record behind), so the larger run is not kept.
- Hilbert order: `compute_cell_pos_ranges_unary_hil` and
  `init_tile_search_range_hil` are not modelled. `Geometry` covers row and
  column order only, because the header gives no Hilbert curve to
  translate. Their effect on `ReadState` is only the set of qualifying
  cells, which the model covers.
- `Geometry` and `ReadState` are not connected. `ReadState` takes any
  qualifying set per tile, which includes every set `Geometry` can
  produce.
- Coordinate types (`T`) and float NaN handling: the model is
  type-generic.
- The destructor: nothing observable follows it.
- BookKeeping, Fragment, ArraySchema: external oracles.
