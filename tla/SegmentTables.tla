----------------------------- MODULE SegmentTables -----------------------------
(***************************************************************************)
(* kernel/segmented_punica_wrapper.py with the kernels it launches         *)
(* (kernel/tiled_segment_gemm.py, kernel/tiled_multislice.py): LoRA on the *)
(* adapter runs of a step.  The host rebuilds the segment and tile tables  *)
(* before a step; the kernels, launched directly or from a CUDA graph      *)
(* captured at start-up, only read them.                                   *)
(*                                                                         *)
(* A token's entry of token_lora_indices is a LoRA slot, or -1 (no LoRA,   *)
(* or padding).  Positions count from 0 as in the tables.  What a launch   *)
(* does to a row is the set of the programs that write it.                 *)
(***************************************************************************)
EXTENDS BatchRuns

CONSTANTS
    LoraSlots,      \* LoRA slots on the GPU
    Modes,          \* the values of AS_SEGGEMM
    PrefillGrouped, \* the values of AS_SEGGEMM_PREFILL
    MinTokens,      \* _MIN_TOKENS
    BM,             \* _BM_SHRINK, rows of a tile
    TileMapTokens,  \* _TILE_MAP_TOKENS
    CaptureSizes,   \* batch sizes for which decode graphs are captured
    MaxDecode,      \* bound on the rows of a decode step
    MaxPrefill      \* bound on the tokens of a prefill step

\* update_metadata is called with max_loras = lora_slots + 1.
n_loras == LoraSlots + 1
Slots == 0 .. n_loras - 1

ASSUME TablesAssumption ==
    /\ LoraSlots \in Nat \ {0} /\ Modes \subseteq {1, 2, 3}
    /\ PrefillGrouped \subseteq BOOLEAN
    /\ MinTokens \in Nat /\ BM \in Nat \ {0}
    /\ TileMapTokens \in Nat /\ MaxDecode \in Nat /\ MaxPrefill \in Nat
    /\ CaptureSizes \subseteq 1 .. MaxDecode
    /\ MaxDecode <= TileMapTokens

NoGraph == [captured |-> FALSE, cap |-> 0, tiles |-> 0]

VARIABLES
    mode, prefillGrouped,  \* _MODE, _PREFILL_GROUPED
    idx,         \* token_lora_indices of the step
    isPrefill,   \* is_prefill
    prefillOk,   \* _prefill_ok
    seg,         \* _seg_start, _seg_len, _seg_lora
    tiles,       \* the allocations of _tile_seg and _tile_m; the last is in use
    tileCap,     \* _tile_cap
    graphs,      \* per captured size, the grid and the buffers the graph holds
    phase,       \* "start" while graphs are captured, "idle", "loaded", "ran"
    slices,      \* slices of the projection that ran
    applied      \* per row of the step, the programs that wrote it

settings == <<mode, prefillGrouped>>
tables == <<seg, tiles, tileCap>>
result == <<slices, applied>>
vars == <<settings, idx, isPrefill, prefillOk, tables, graphs, phase, result>>

cdiv(x, y) == (x + y - 1) \div y

-----------------------------------------------------------------------------
(***************************************************************************)
(* _refresh_segments and _refresh_tiles.                                   *)
(***************************************************************************)

Smaller(x, y) == IF x < y THEN x ELSE y

\* seg_id of the token at position i - 1: its run, or the last slot.
SlotOf(ids, i) == Smaller(Cardinality({j \in RunStarts(ids) : j <= i}) - 1, n_loras - 1)

TokensOf(ids, s) == {i \in DOMAIN ids : SlotOf(ids, i) = s}

\* The tables _refresh_segments can leave.  lora.scatter_ writes a slot once per
\* token, in no order: with several runs in the last slot any of them wins.
SegmentTablesOf(ids) ==
    LET tokens(s) == TokensOf(ids, s)
        start == [s \in Slots |-> IF tokens(s) = {} THEN 0 ELSE Min(tokens(s)) - 1]
        length == [s \in Slots |-> Cardinality(tokens(s))]
        lora(last) == [s \in Slots |->
            IF tokens(s) = {} THEN -1
            ELSE IF s = n_loras - 1 THEN last ELSE ids[Min(tokens(s))]]
    IN  {[start |-> start, length |-> length, lora |-> lora(last)] :
            last \in {ids[i] : i \in tokens(n_loras - 1)}
                     \cup (IF tokens(n_loras - 1) = {} THEN {-1} ELSE {})}

\* build_tile_map: the work list of max_tiles entries, (segment or -1, tile).
build_tile_map(length, max_tiles) ==
    LET ntiles == [s \in Slots |-> cdiv(length[s], BM)]
        cum == [s \in Slots |-> Total(ntiles, 0 .. s)]
        seg_of(pos) == Smaller(Cardinality({s \in Slots : cum[s] <= pos}), n_loras - 1)
        entry(pos) ==
            IF pos < cum[n_loras - 1]
            THEN [seg |-> seg_of(pos), m |-> pos - (cum[seg_of(pos)] - ntiles[seg_of(pos)])]
            ELSE [seg |-> -1, m |-> 0]
    IN  [pos \in 0 .. max_tiles - 1 |-> entry(pos)]

\* Bug: no room for the partial tiles.
TileCap_FullTiles(n) == cdiv(n, BM)

\* The grid of a step with n tokens: "at most one partial tile per segment on
\* top of the full tiles".
TileCap(n) == cdiv(n, BM) + n_loras + 1

\* The size of the work list, for any batch.
MapSize(n) == TileCap(TileMapTokens)

_refresh_segments(ids) == seg' \in SegmentTablesOf(ids)

\* The work list is rebuilt in place, in a new allocation only if it is too small.
_refresh_tiles(ids) ==
    LET need == MapSize(Len(ids))
        grow == tiles = <<>> \/ (tiles # <<>> /\ Cardinality(DOMAIN Last(tiles)) < need)
        size == IF grow THEN need ELSE Cardinality(DOMAIN Last(tiles))
        map == build_tile_map(seg'.length, size)
    IN  /\ tileCap' = TileCap(Len(ids))
        /\ tiles' = IF grow THEN Append(tiles, map) ELSE Append(Front(tiles), map)

-----------------------------------------------------------------------------
(***************************************************************************)
(* update_metadata.                                                        *)
(***************************************************************************)

\* Bug: the flag of the last prefill step survives.
PrefillReset_Keeps == prefillOk
PrefillReset == FALSE

\* "More runs than segment slots means the batch's adapters are not contiguous".
Groupable(ids) ==
    /\ Len(ids) \in 1 .. TileMapTokens
    /\ Cardinality(RunStarts(ids)) <= n_loras

update_metadata(ids, prefill) ==
    /\ idx' = ids /\ isPrefill' = prefill
    /\ CASE ~prefill -> /\ _refresh_segments(ids)
                        /\ IF mode >= 2 THEN _refresh_tiles(ids) ELSE UNCHANGED <<tiles, tileCap>>
                        /\ prefillOk' = PrefillReset
         [] prefill /\ mode = 3 /\ prefillGrouped /\ Groupable(ids) ->
                        _refresh_segments(ids) /\ _refresh_tiles(ids) /\ prefillOk' = TRUE
         [] OTHER -> prefillOk' = PrefillReset /\ UNCHANGED tables

-----------------------------------------------------------------------------
(***************************************************************************)
(* The kernels.  A program is a pair of a tile and what it does there.     *)
(***************************************************************************)

\* Bug: no mask on a partial tile.
Rows_NoMask(s, m, block) ==
    IF s < 0 \/ (s >= 0 /\ (seg.lora[s] = -1 \/ m * block >= seg.length[s])) THEN {}
    ELSE {r \in DOMAIN idx : r - 1 \in seg.start[s] + m * block .. seg.start[s] + m * block + block - 1}

\* The rows that tile m of segment s writes: the early exits, then c_mask.
Rows(s, m, block) ==
    IF s < 0 \/ (s >= 0 /\ (seg.lora[s] = -1 \/ m * block >= seg.length[s])) THEN {}
    ELSE {r \in DOMAIN idx :
             /\ r - 1 \in seg.start[s] + m * block .. seg.start[s] + m * block + block - 1
             /\ r - 1 < seg.start[s] + seg.length[s]}

\* Axis 2 of the packed shrink: slice x split-K.
SliceAndSplit(pid_2, ns, sk) == [slice |-> pid_2 \div sk, split |-> pid_2 % sk]

\* A grid over work items (segment, tile), each named by its program id: what it
\* adds to row r.
Written(items, block, ns, sk) ==
    [r \in DOMAIN idx |->
        {[prog |-> g[1], part |-> SliceAndSplit(g[2], ns, sk), lora |-> seg.lora[items[g[1]].seg]] :
            g \in {g \in (DOMAIN items) \X (0 .. ns * sk - 1) :
                      r \in Rows(items[g[1]].seg, items[g[1]].m, block)}}]

\* Modes 2 and 3: one program per entry of the work list, up to the grid's size.
TileGrid(map, cap) == [pid \in 0 .. cap - 1 |-> map[pid]]

\* Mode 1: the static grid of vLLM's kernel, every tile of the step in every slot.
StaticGrid ==
    LET grid == Slots \X (0 .. cdiv(Len(idx), BM) - 1)
    IN  [pid \in grid |-> [seg |-> pid[1], m |-> pid[2]]]

\* vLLM's own kernels (external): every row with LoRA gets its adapter.
Stock(ns, sk) ==
    [r \in DOMAIN idx |->
        IF idx[r] = -1 THEN {}
        ELSE {[prog |-> 0, part |-> [slice |-> i, split |-> k], lora |-> idx[r]] :
                  i \in 0 .. ns - 1, k \in 0 .. sk - 1}]

_use_grouped(n) == ~isPrefill /\ n >= MinTokens

_use_multislice(n) == IF isPrefill THEN prefillOk ELSE mode = 3 /\ _use_grouped(n)

\* The split of K, 1 in prefill: "long segments give enough parallelism".
SplitK == IF isPrefill THEN 1 ELSE 2

\* What one projection of the step does, from the tables at hand or from those
\* whose addresses and grid the captured graph holds.
Projection(ns, map, cap) ==
    LET n == Len(idx)
    IN  CASE _use_multislice(n) \/ (_use_grouped(n) /\ mode = 2) ->
                 Written(TileGrid(map, cap), BM, ns, SplitK)
          [] _use_grouped(n) /\ mode = 1 -> Written(StaticGrid, BM, ns, SplitK)
          [] OTHER -> Stock(ns, SplitK)

-----------------------------------------------------------------------------
(***************************************************************************)
(* vLLM's model runner (external): graphs at start-up, then steps.         *)
(***************************************************************************)

\* Capture, largest size first, on a batch of padding.  The graph keeps the
\* grid and the addresses of the buffers.
Capture ==
    /\ phase = "start"
    /\ LET left == {b \in CaptureSizes : graphs[b] = NoGraph}
       IN  IF left = {}
           THEN phase' = "idle" /\ UNCHANGED <<idx, isPrefill, prefillOk, tables, graphs>>
           ELSE /\ update_metadata([i \in 1 .. Max(left) |-> -1], FALSE)
                /\ graphs' = [graphs EXCEPT ![Max(left)] =
                                 [captured |-> TRUE, cap |-> tileCap', tiles |-> Len(tiles')]]
                /\ UNCHANGED phase
    /\ UNCHANGED <<settings, result>>

\* A decode step runs the smallest captured size that holds it, padded.
Padded(ids) ==
    LET fits == {b \in CaptureSizes : b >= Len(ids)}
    IN  IF fits = {} THEN ids ELSE ids \o [i \in 1 .. Min(fits) - Len(ids) |-> -1]

Load(ids, prefill) ==
    /\ phase = "idle"
    /\ update_metadata(IF prefill THEN ids ELSE Padded(ids), prefill)
    /\ phase' = "loaded"
    /\ UNCHANGED <<settings, graphs, result>>

\* A projection of ns packed slices (QKV 3, gate_up 2, else 1), of a layer that
\* runs in the graph if the step has one.
Run(ns) ==
    /\ phase = "loaded"
    /\ LET graph == ~isPrefill /\ Len(idx) \in CaptureSizes
           map == IF graph /\ mode >= 2 THEN tiles[graphs[Len(idx)].tiles]
                  ELSE IF tiles = <<>> THEN <<>> ELSE Last(tiles)
           cap == IF graph THEN graphs[Len(idx)].cap ELSE tileCap
       IN  applied' = Projection(ns, map, cap) /\ slices' = ns
    /\ phase' = "ran"
    /\ UNCHANGED <<settings, idx, isPrefill, prefillOk, tables, graphs>>

StepDone ==
    /\ phase = "ran" /\ phase' = "idle"
    /\ applied' = <<>> /\ slices' = 0 /\ idx' = <<>>
    /\ UNCHANGED <<settings, isPrefill, prefillOk, tables, graphs>>

Batches(max) == UNION {[1 .. n -> -1 .. LoraSlots - 1] : n \in 1 .. max}

Init ==
    /\ mode \in Modes /\ prefillGrouped \in PrefillGrouped
    /\ idx = <<>> /\ isPrefill = FALSE /\ prefillOk = FALSE
    /\ seg = [start |-> [s \in Slots |-> 0], length |-> [s \in Slots |-> 0],
              lora |-> [s \in Slots |-> -1]]
    /\ tiles = <<>> /\ tileCap = 0
    /\ graphs = [b \in CaptureSizes |-> NoGraph]
    /\ phase = "start" /\ slices = 0 /\ applied = <<>>

Next ==
    \/ Capture
    \/ \E ids \in Batches(MaxDecode) : Load(ids, FALSE)
    \/ \E ids \in Batches(MaxPrefill) : Load(ids, TRUE)
    \/ \E ns \in 1 .. 3 : Run(ns)
    \/ StepDone

Spec == Init /\ [][Next]_vars

-----------------------------------------------------------------------------
(***************************************************************************)
(* Properties.                                                             *)
(***************************************************************************)

Parts == {[slice |-> i, split |-> k] : i \in 0 .. slices - 1, k \in 0 .. SplitK - 1}

PartsOf(r) == {w.part : w \in applied[r]}

\* Whatever the order of the tokens, no two programs write one row (they would
\* race: the expand kernels read, add and store), and a row is written for all
\* slices and splits or for none: for none only if its slot carries no LoRA.
RowsOnce ==
    phase = "ran" => \A r \in DOMAIN idx :
        /\ \A v, w \in applied[r] : v.prog = w.prog
        /\ Cardinality(applied[r]) = Cardinality(PartsOf(r))
        /\ PartsOf(r) \in {{}, Parts}

OwnAdapter(r) == IF idx[r] = -1 THEN applied[r] = {}
                 ELSE PartsOf(r) = Parts /\ \A w \in applied[r] : w.lora = idx[r]

\* Every row gets its own adapter, all of it and once, in prefill and decode, in
\* a graph or not, as long as the runs of a decode batch fit into the table.
EachRowItsAdapter ==
    phase = "ran" /\ (isPrefill \/ Cardinality(RunStarts(idx)) <= n_loras) =>
        \A r \in DOMAIN idx : OwnAdapter(r)

\* The device's segments (cumsum, clamp, scatter) are those of the host's scan
\* in segment_and_promote, and the GWAR of the batch can be read off them.
TablesMatchRuns ==
    phase = "loaded" /\ ~isPrefill /\ Cardinality(RunStarts(idx)) <= n_loras =>
        /\ \A r \in DOMAIN Runs(idx) :
               /\ seg.length[r - 1] = Runs(idx)[r].size /\ seg.lora[r - 1] = Runs(idx)[r].adapter
               /\ {seg.start[r - 1] + i : i \in 1 .. seg.length[r - 1]}
                      = segment_and_promote(idx, [i \in DOMAIN idx |-> FALSE])[r].seq_ids
        /\ \A n \in 1 .. Len(idx) + 1 :
               compute_gwar(idx, n) =
                   Total(seg.length, {s \in Slots : seg.length[s] >= n})

\* GWAR "is non-increasing in n*" and both functions agree on it (for n* of at
\* least 1: at 0 one returns 0.0 and the other 1.0); every homogeneous warp lies
\* in a run of W tokens; and the two forms of WAR agree.
MetricsAgree ==
    phase = "loaded" => \A n \in 1 .. Len(idx) + 1 :
        /\ compute_gwar(idx, n) = gwar_curve(idx, n)
        /\ compute_gwar(idx, n) >= compute_gwar(idx, n + 1)
        /\ n * Cardinality(AlignedWarps(idx, n)) <= compute_gwar(idx, n)
        /\ AlignedWarps(idx, n) = AlignedRows(idx, n)

\* A batch as the scheduler returns it: the aligned groups sorted by adapter,
\* then the dispatched ones by adapter (OneRunPerPart of AlignedScheduler), then
\* the padding.
Emitted(ids) ==
    LET oneRunEach(i, j) ==
            \A s \in -1 .. LoraSlots - 1 :
                Cardinality({r \in RunStarts(SubSeq(ids, i, j)) : ids[i + r - 1] = s}) <= 1
    IN  \E i, j \in 0 .. Len(ids) :
            /\ i <= j /\ oneRunEach(1, i) /\ oneRunEach(i + 1, j)
            /\ \A r \in j + 1 .. Len(ids) : ids[r] = -1

\* "The AlignmentBuffer already emits an adapter-contiguous decode batch": every
\* row of a decode batch of the scheduler gets its own adapter.
DecodeRowsTheirAdapter ==
    phase = "ran" /\ ~isPrefill /\ Emitted(idx) => \A r \in DOMAIN idx : OwnAdapter(r)

=============================================================================
