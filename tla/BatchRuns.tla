------------------------------ MODULE BatchRuns ------------------------------
(***************************************************************************)
(* The readers of a batch's token order: the run-length encoding of        *)
(* kernel/wgkp_dispatcher.py and the alignment metrics of metrics/war.py   *)
(* and metrics/gwar.py.  A batch is the sequence of its tokens' adapters.  *)
(* A ratio is kept as its numerator, over the length of the batch or the   *)
(* number of its warps.                                                    *)
(***************************************************************************)
EXTENDS Integers, Sequences, FiniteSets, SequencesExt, FiniteSetsExt, Queues

\* Where the maximal runs of equal adapters start.
RunStarts(q) == {i \in DOMAIN q : i = 1 \/ q[i] # q[i - 1]}

\* Bug: the last run is not closed.
RunLength_DropsLast(q, i) ==
    LET later == {j \in RunStarts(q) : j > i}
    IN  IF later = {} THEN Len(q) - i ELSE Min(later) - i

\* The inner loop of the scans: how far the run that starts at i goes.
RunLength(q, i) ==
    LET later == {j \in RunStarts(q) : j > i}
    IN  (IF later = {} THEN Len(q) + 1 ELSE Min(later)) - i

\* The segments as (adapter, length), in the order of the batch.
Runs(q) ==
    LET starts == InOrder(RunStarts(q))
    IN  [r \in DOMAIN starts |-> [adapter |-> q[starts[r]], size |-> RunLength(q, starts[r])]]

\* segment_and_promote: every token of a run must carry the same flag.
Mixed(q, promoted) == \E i \in DOMAIN q : i > 1 /\ q[i] = q[i - 1] /\ promoted[i] # promoted[i - 1]

segment_and_promote(q, promoted) ==
    IF Mixed(q, promoted) THEN "ValueError"
    ELSE LET starts == InOrder(RunStarts(q))
         IN  [r \in DOMAIN starts |-> [adapter |-> q[starts[r]],
                                       seq_ids |-> starts[r] .. starts[r] + RunLength(q, starts[r]) - 1,
                                       is_promoted |-> promoted[starts[r]]]]

\* compute_war: the complete warps of W tokens whose tokens have one adapter;
\* there are Len(q) \div W complete warps, and none is a ratio of 0.
AlignedWarps(q, W) ==
    {j \in 0 .. (Len(q) \div W) - 1 : Cardinality(ToSet(SubSeq(q, j * W + 1, (j + 1) * W))) = 1}

\* compute_war_from_ids: min == max in every row of the reshaped array.
AlignedRows(q, W) ==
    {j \in 0 .. (Len(q) \div W) - 1 :
        Min(ToSet(SubSeq(q, j * W + 1, (j + 1) * W))) = Max(ToSet(SubSeq(q, j * W + 1, (j + 1) * W)))}

\* Tokens in runs of at least n tokens.
TokensInRuns(q, n) ==
    LET length == [i \in RunStarts(q) |-> RunLength(q, i)]
    IN  Total(length, {i \in RunStarts(q) : length[i] >= n})

\* compute_gwar and one entry of compute_gwar_curve, times the batch's length.
compute_gwar(q, n) ==
    CASE q = <<>> \/ n <= 0 -> 0
      [] q # <<>> /\ n = 1  -> Len(q)
      [] OTHER -> TokensInRuns(q, n)

gwar_curve(q, n) == IF n <= 1 THEN Len(q) ELSE TokensInRuns(q, n)

=============================================================================
