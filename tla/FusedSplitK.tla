------------------------------ MODULE FusedSplitK ------------------------------
(***************************************************************************)
(* kernel/fused_lora_kernel.py: FusedLoRAKernel on the GPU.  The host      *)
(* picks a configuration per call and appends launches to the stream; the  *)
(* GPU runs one launch at a time, its programs concurrently.  With         *)
(* SPLIT_K > 1 the programs of a tile share an fp32 workspace and an       *)
(* arrival counter, which outlive the launch.                              *)
(*                                                                         *)
(* A sum is the set of its terms: <<launch, k>> is the contribution of     *)
(* column k of X (to the base product and, as the expansion is linear in   *)
(* H, to the LoRA term) in one launch.  Atomic additions to one element    *)
(* are steps of their own, so the warps of a program are concurrent too.   *)
(***************************************************************************)
EXTENDS Integers, Sequences, FiniteSets, SequencesExt

CONSTANTS
    Shapes,        \* the shapes [m, n, k] of the calls
    Layouts,       \* strides and alignment of the tensors of a call
    Configs,       \* the autotuner's list of configurations [bm, bn, bk, sk, large]
    SmallBlocks,   \* the values of _small_m_block, ascending: 16, 32, 64
    MinBM, MinBN,  \* the smallest tile any configuration uses: 16 and 32
    WsFloor,       \* the least size of the workspace: 1 << 20
    CntFloor,      \* the least number of counters: 4096
    MaxCalls       \* bound on the number of calls

\* The smallest of these blocks that holds M rows, else the largest.
_small_m_block(M) ==
    CASE M <= SmallBlocks[1] -> SmallBlocks[1]
      [] M > SmallBlocks[1] /\ M <= SmallBlocks[2] -> SmallBlocks[2]
      [] OTHER -> SmallBlocks[3]

\* Decode-sized calls get small configurations with their own BLOCK_M.
prune(M) ==
    IF M > SmallBlocks[3]
    THEN SelectSeq(Configs, LAMBDA c : c.large)
    ELSE SelectSeq(Configs, LAMBDA c : ~c.large /\ c.bm = _small_m_block(M))

cdiv(x, y) == (x + y - 1) \div y

Positive == Nat \ {0}

\* A configuration, with every tile at least the smallest.
ConfigType ==
    {c \in [bm : Positive, bn : Positive, bk : Positive, sk : Positive, large : BOOLEAN] :
        c.bm >= MinBM /\ c.bn >= MinBN}

ASSUME SplitKAssumption ==
    /\ Shapes \subseteq [m : Positive, n : Positive, k : Positive]
    /\ MinBM \in Positive /\ MinBN \in Positive
    /\ \A s \in Shapes : prune(s.m) \in Seq(ConfigType) /\ prune(s.m) # <<>>
    /\ WsFloor \in Nat /\ CntFloor \in Nat /\ MaxCalls \in Nat

VARIABLES
    calls,        \* the shapes of the calls made
    tuned,        \* the autotuner's choice per shape, or None
    _launch_cache,\* the configuration to relaunch, per shape and layout, or None
    launched,     \* number of launches so far
    stream,       \* launches on the stream; the first is running or next
    prog,         \* the programs of the running launch, <<>> between launches
    ws, cnt,      \* the workspaces and counters allocated; the last is in use
    Y             \* per call, its output: a set of terms per element

vars == <<calls, tuned, _launch_cache, launched, stream, prog, ws, cnt, Y>>

None == [bm |-> 0, bn |-> 0, bk |-> 0, sk |-> 0, large |-> FALSE]

\* What torch.empty leaves in an element: terms of no launch.
Undefined == {<<0, 0>>}

Elements(shape) == (0 .. shape.m - 1) \X (0 .. shape.n - 1)

-----------------------------------------------------------------------------
(***************************************************************************)
(* The grid of a launch l (shape, cfg).                                    *)
(***************************************************************************)

TilesM(l) == cdiv(l.shape.m, l.cfg.bm)
TilesN(l) == cdiv(l.shape.n, l.cfg.bn)

\* One program per tile and slice of K.
Grid(l) == [n : 0 .. TilesN(l) - 1, s : 0 .. l.cfg.sk - 1, m : 0 .. TilesM(l) - 1]

\* offs_m, offs_n under m_mask, n_mask.
TileElements(l, p) ==
    {e \in Elements(l.shape) :
        /\ e[1] \in p.m * l.cfg.bm .. p.m * l.cfg.bm + l.cfg.bm - 1
        /\ e[2] \in p.n * l.cfg.bn .. p.n * l.cfg.bn + l.cfg.bn - 1}

tile(l, p) == p.m * TilesN(l) + p.n

WsIndex(l, e) == e[1] * l.shape.n + e[2]

k_chunk(l) == cdiv(cdiv(l.shape.k, l.cfg.sk), l.cfg.bk) * l.cfg.bk

\* The columns of slice s, under k_mask.
Slice(l, s) == {k \in 0 .. l.shape.k - 1 :
                    k \in s * k_chunk(l) .. s * k_chunk(l) + k_chunk(l) - 1}

\* What the accumulator of a program holds when its loop ends.
acc(l, p) == {<<l.id, k>> : k \in Slice(l, p.s)}

\* The whole product, as launch l sums it up.
Whole(l) == {<<l.id, k>> : k \in 0 .. l.shape.k - 1}

-----------------------------------------------------------------------------
(***************************************************************************)
(* The host.                                                               *)
(***************************************************************************)

Zeros(n, zero) == [i \in 0 .. n - 1 |-> zero]

Larger(x, y) == IF x > y THEN x ELSE y

\* Bug: one counter per block of rows.
CountersNeeded_PerRow(shape) == cdiv(shape.m, MinBM)

CountersNeeded(shape) == cdiv(shape.m, MinBM) * cdiv(shape.n, MinBN)

\* A buffer that is too small is replaced by a new one of zeroes; launches on
\* the stream keep the one they were given.
_get_workspace(shape) ==
    LET n_ws == shape.m * shape.n
        n_cnt == CountersNeeded(shape)
        tooSmall(bufs, n) ==
            bufs = <<>> \/ (bufs # <<>> /\ Cardinality(DOMAIN bufs[Len(bufs)]) < n)
    IN  /\ ws' = IF tooSmall(ws, n_ws)
                 THEN Append(ws, Zeros(Larger(n_ws, WsFloor), {})) ELSE ws
        /\ cnt' = IF tooSmall(cnt, n_cnt)
                  THEN Append(cnt, Zeros(Larger(n_cnt, CntFloor), 0)) ELSE cnt

\* The launches of one call: the autotuner runs every configuration that
\* prune leaves before the one it chooses (once each here), unless it has seen
\* the shape before.
_forward_triton(shape, layout) ==
    LET hit == _launch_cache[<<shape, layout>>] # None
        tune == ~hit /\ tuned[shape] = None
        launch(i, c) == [id |-> launched + i, call |-> Len(calls) + 1, shape |-> shape,
                         cfg |-> c, ws |-> Len(ws'), cnt |-> Len(cnt')]
    IN  /\ Len(calls) < MaxCalls
        /\ _get_workspace(shape)
        /\ calls' = Append(calls, shape)
        /\ Y' = Append(Y, [e \in Elements(shape) |-> Undefined])
        /\ \E best \in IF tune THEN ToSet(prune(shape.m)) ELSE {tuned[shape]} :
            LET runs == CASE hit   -> <<_launch_cache[<<shape, layout>>]>>
                          [] tune  -> Append(prune(shape.m), best)
                          [] OTHER -> <<best>>
            IN  /\ stream' = stream \o [i \in DOMAIN runs |-> launch(i, runs[i])]
                /\ launched' = launched + Len(runs)
                /\ tuned' = [tuned EXCEPT ![shape] = best]
                /\ _launch_cache' = [_launch_cache EXCEPT ![<<shape, layout>>] = Last(runs)]
        /\ UNCHANGED prog

hostVars == <<calls, tuned, _launch_cache, launched>>

-----------------------------------------------------------------------------
(***************************************************************************)
(* The GPU: the programs of the running launch.                            *)
(***************************************************************************)

Running == prog # <<>>
L == Head(stream)

\* All programs of a launch start with their loop over K behind them: the loop
\* touches nothing that is shared.
StartLaunch ==
    /\ ~Running /\ stream # <<>>
    /\ prog' = [p \in Grid(L) |-> [pc |-> "add", left |-> TileElements(L, p)]]
    /\ UNCHANGED <<hostVars, stream, ws, cnt, Y>>

\* SPLIT_K = 1: the accumulator is stored as it is.
Store(p) ==
    /\ Running /\ L.cfg.sk = 1
    /\ \E e \in prog[p].left :
        /\ prog' = [prog EXCEPT ![p].left = @ \ {e}]
        /\ Y' = [Y EXCEPT ![L.call][e] = acc(L, p)]
    /\ UNCHANGED <<hostVars, stream, ws, cnt>>

\* A sum plus the terms of another.  One that is added twice spoils the sum.
Plus(sum, terms) ==
    sum \cup terms \cup (IF sum \cap terms = {} THEN {} ELSE {<<0, 0>>})

\* tl.atomic_add(ws_ptrs, acc).
AddPartial(p) ==
    /\ Running /\ L.cfg.sk > 1 /\ prog[p].pc = "add"
    /\ \E e \in prog[p].left :
        /\ prog' = [prog EXCEPT ![p].left = @ \ {e}]
        /\ ws' = [ws EXCEPT ![L.ws][WsIndex(L, e)] = Plus(@, acc(L, p))]
    /\ UNCHANGED <<hostVars, stream, cnt, Y>>

\* Bug: no barrier, the counter does not wait for all warps.
AllAdded_NoBarrier(p) == TRUE

\* tl.debug_barrier: all warps of the program have added their share.
AllAdded(p) == prog[p].left = {}

IsLast(arrived) == arrived = L.cfg.sk - 1

\* tl.atomic_add(CNT_ptr + tile, 1): the last program of a tile finishes it.
Arrive(p) ==
    /\ Running /\ L.cfg.sk > 1 /\ prog[p].pc = "add" /\ AllAdded(p)
    /\ LET arrived == cnt[L.cnt][tile(L, p)]
       IN  /\ cnt' = [cnt EXCEPT ![L.cnt][tile(L, p)] = arrived + 1]
           /\ prog' = [prog EXCEPT ![p] =
                  IF IsLast(arrived) THEN [pc |-> "finish", left |-> TileElements(L, p)]
                                     ELSE [pc |-> "done", left |-> {}]]
    /\ UNCHANGED <<hostVars, stream, ws, Y>>

\* What is left in the workspace of a stored element.
Cleared(sum) == {}

\* The last program reads the sum, writes Y and zeroes the workspace; each warp
\* its own elements.
StoreTotal(p) ==
    /\ Running /\ prog[p].pc \in {"finish", "reset"}
    /\ \E e \in prog[p].left :
        LET tot == ws[L.ws][WsIndex(L, e)]
        IN  /\ prog' = [prog EXCEPT ![p].left = @ \ {e}]
            /\ Y' = [Y EXCEPT ![L.call][e] = tot]
            /\ ws' = [ws EXCEPT ![L.ws][WsIndex(L, e)] = Cleared(tot)]
    /\ UNCHANGED <<hostVars, stream, cnt>>

\* Bug: the counter is left for the next launch.
ResetCounter_Forgets(p) ==
    /\ Running /\ prog[p].pc = "finish"
    /\ prog' = [prog EXCEPT ![p].pc = "reset"]
    /\ UNCHANGED <<hostVars, stream, ws, cnt, Y>>

\* tl.store(CNT_ptr + tile, 0), by one thread, whose warp need not be the last.
ResetCounter(p) ==
    /\ Running /\ prog[p].pc = "finish"
    /\ prog' = [prog EXCEPT ![p].pc = "reset"]
    /\ cnt' = [cnt EXCEPT ![L.cnt][tile(L, p)] = 0]
    /\ UNCHANGED <<hostVars, stream, ws, Y>>

Ended(p) ==
    /\ prog[p].left = {}
    /\ L.cfg.sk > 1 => prog[p].pc \in {"done", "reset"}

\* A launch ends when all of its programs have; then the next one may start.
EndLaunch ==
    /\ Running /\ \A p \in Grid(L) : Ended(p)
    /\ stream' = Tail(stream) /\ prog' = <<>>
    /\ UNCHANGED <<hostVars, ws, cnt, Y>>

-----------------------------------------------------------------------------
Init ==
    /\ calls = <<>> /\ Y = <<>> /\ stream = <<>> /\ prog = <<>> /\ launched = 0
    /\ tuned = [s \in Shapes |-> None]
    /\ _launch_cache = [c \in Shapes \X Layouts |-> None]
    /\ ws = <<>> /\ cnt = <<>>

Forward == \E shape \in Shapes, layout \in Layouts : _forward_triton(shape, layout)

Step(p) == Store(p) \/ AddPartial(p) \/ Arrive(p) \/ StoreTotal(p) \/ ResetCounter(p)

Gpu == StartLaunch \/ (\E p \in DOMAIN prog : Step(p)) \/ EndLaunch

Next == Forward \/ Gpu

Spec == Init /\ [][Next]_vars

\* A launch on the stream is run and its programs run to their end.
FairSpec == Spec /\ WF_vars(Gpu)

-----------------------------------------------------------------------------
(***************************************************************************)
(* Properties.                                                             *)
(***************************************************************************)

\* "Both start zeroed and every launch leaves them zeroed again": between two
\* launches every workspace and every counter is zero, also those that were
\* replaced.
ScratchClean ==
    ~Running => /\ \A i \in DOMAIN ws : \A j \in DOMAIN ws[i] : ws[i][j] = {}
                /\ \A i \in DOMAIN cnt : \A t \in DOMAIN cnt[i] : cnt[i][t] = 0

\* "Sized for the smallest tile any config uses": whichever configuration the
\* autotuner runs, no program accesses memory past the end of its buffers.
InBounds ==
    \A i \in DOMAIN stream : stream[i].cfg.sk > 1 =>
        \A p \in Grid(stream[i]) :
            /\ tile(stream[i], p) \in DOMAIN cnt[stream[i].cnt]
            /\ \A e \in TileElements(stream[i], p) :
                   WsIndex(stream[i], e) \in DOMAIN ws[stream[i].ws]

\* What FusedProduct sees of an element of Y: whole sums of one launch.
Seen(c, e) ==
    CASE Y[c][e] = Undefined -> "undefined"
      [] Y[c][e] # Undefined /\ \E id \in 1 .. launched :
             Y[c][e] = {<<id, k>> : k \in 0 .. calls[c].k - 1} -> "product"
      [] OTHER -> "garbage"

Product == INSTANCE FusedProduct WITH
    result <- [c \in DOMAIN calls |-> [e \in Elements(calls[c]) |-> Seen(c, e)]]

\* The kernel implements FusedProduct: an element of Y is never seen with part
\* of a sum, with a share of another launch, or before the outputs of earlier
\* calls; and every call is answered.
ImplementsProduct == Product!FairSpec

=============================================================================
