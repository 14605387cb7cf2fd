-------------------------- MODULE MergedWeightCache --------------------------
(***************************************************************************)
(* kernel/l3.py: MergedWeightCache, the merged attention weights of the    *)
(* hottest adapters, with its two callers: the scheduler requests merges   *)
(* and asks which adapters are resident, the model runner merges one       *)
(* loaded adapter before each step and takes the weights of a promoted     *)
(* step (kernel/model_runner.py).  Scheduler and runner take turns on the  *)
(* engine's thread; each request starts a loader thread of its own, which  *)
(* may end, or fail, between any two steps of theirs.                      *)
(*                                                                         *)
(* The tensors are left out: an adapter stands for its weights.            *)
(***************************************************************************)
EXTENDS Integers, Sequences, FiniteSets, SequencesExt

CONSTANTS
    Adapters,  \* lora_ids (vLLM numbers them from 1)
    KHotMax,   \* k_hot_max (AS_MWC_K_HOT)
    MayFail    \* whether a checkpoint may be unreadable

ASSUME CacheAssumption ==
    /\ Adapters \subseteq Nat \ {0}
    /\ KHotMax \in Nat \ {0}
    /\ MayFail \in BOOLEAN

VARIABLES
    kHot,      \* k_hot, or None before the cache is sized
    weights,   \* keys of _weights, least recently used first
    loaded,    \* keys of _loaded, oldest first
    requested, \* _requested
    loading,   \* the adapters whose loader thread is running
    failed,    \* the adapters whose loader thread raised
    merging,   \* lora_id inside process(), or None
    turn,      \* what the engine's thread does next
    flagged    \* merged_ids of the step

vars == <<kHot, weights, loaded, requested, loading, failed, merging, turn, flagged>>

None == -1
Larger(m, n) == IF m >= n THEN m ELSE n
Resident == ToSet(weights)

-----------------------------------------------------------------------------
(***************************************************************************)
(* The scheduler's turn.                                                   *)
(***************************************************************************)

\* Bug: an adapter that is still loading is requested again.
Ignored_Resident(a) == kHot = 0 \/ a \in Resident

\* The early return of request().
Ignored(a) == kHot = 0 \/ a \in Resident \/ a \in requested

\* _request_merges asks for hot adapters with enough pending tokens, at most
\* KHotMax of them.  A loader reads nothing that request() writes, so the
\* requests of one tick can be taken together.
Schedule ==
    /\ turn = "schedule"
    /\ \E hot \in SUBSET Adapters :
        /\ Cardinality(hot) <= KHotMax
        /\ LET fresh == {a \in hot : ~Ignored(a)} IN
            /\ requested' = requested \cup fresh
            /\ loading' = loading \cup fresh
    /\ flagged' = Resident
    /\ turn' = "process"
    /\ UNCHANGED <<kHot, weights, loaded, failed, merging>>

-----------------------------------------------------------------------------
(***************************************************************************)
(* The loader threads.                                                     *)
(***************************************************************************)

LoadEnds(a) ==
    /\ a \in loading
    /\ loading' = loading \ {a}
    /\ loaded' = IF a \in ToSet(loaded) THEN loaded ELSE Append(loaded, a)
    /\ UNCHANGED <<kHot, weights, requested, failed, merging, turn, flagged>>

\* The thread dies; nothing else is told.
LoadFails(a) ==
    /\ MayFail /\ a \in loading
    /\ loading' = loading \ {a}
    /\ failed' = failed \cup {a}
    /\ UNCHANGED <<kHot, weights, loaded, requested, merging, turn, flagged>>

-----------------------------------------------------------------------------
(***************************************************************************)
(* The runner's turn: process(), then the step.                            *)
(***************************************************************************)

NothingLoaded ==
    /\ turn = "process" /\ loaded = <<>>
    /\ turn' = "run"
    /\ UNCHANGED <<kHot, weights, loaded, requested, loading, failed, merging, flagged>>

\* Bug: the runner waits for a second loaded adapter.
PopLoaded_Pair ==
    /\ turn = "process" /\ loaded # <<>>
    /\ IF Len(loaded) < 2
       THEN turn' = "run" /\ UNCHANGED <<loaded, merging>>
       ELSE /\ merging' = Last(loaded) /\ loaded' = Front(loaded)
            /\ turn' = "merge"
    /\ UNCHANGED <<kHot, weights, requested, loading, failed, flagged>>

\* dict.popitem(): the adapter that finished loading last.
PopLoaded ==
    /\ turn = "process" /\ loaded # <<>>
    /\ merging' = Last(loaded)
    /\ loaded' = Front(loaded)
    /\ turn' = "merge"
    /\ UNCHANGED <<kHot, weights, requested, loading, failed, flagged>>

\* Bug: the free memory decides alone, AS_MWC_K_HOT is forgotten.
Size_Unclipped ==
    /\ turn = "merge" /\ kHot = None
    /\ kHot' \in 0 .. (KHotMax + 1)
    /\ UNCHANGED <<weights, loaded, requested, loading, failed, merging, turn, flagged>>

\* As many adapters as fit in the free memory, outside the lock.
Size ==
    /\ turn = "merge" /\ kHot = None
    /\ kHot' \in 0 .. KHotMax
    /\ UNCHANGED <<weights, loaded, requested, loading, failed, merging, turn, flagged>>

\* No room at all: the popped adapter and everything pending is forgotten.
GiveUp ==
    /\ turn = "merge" /\ kHot = 0
    /\ requested' = {} /\ loaded' = <<>> /\ merging' = None
    /\ turn' = "run"
    /\ UNCHANGED <<kHot, weights, loading, failed, flagged>>

\* Bug: one adapter too many stays.
Evicted_OneLess == IF Len(weights) > kHot THEN Len(weights) - kHot ELSE 0

\* How many adapters the while loop evicts.
Evicted == IF Len(weights) >= kHot THEN Len(weights) - kHot + 1 ELSE 0

\* Bug: the evicted adapters stay requested; a full cache is emptied.
Merge_KeepsRequest ==
    /\ turn = "merge" /\ kHot > 0
    /\ weights' = Append(SubSeq(weights, Evicted + 1, Len(weights)), merging)
    /\ merging' = None /\ turn' = "run"
    /\ UNCHANGED <<kHot, loaded, requested, loading, failed, flagged>>
Merge_EvictsAll ==
    /\ turn = "merge" /\ kHot > 0
    /\ weights' = IF Evicted > 0 THEN <<merging>> ELSE Append(weights, merging)
    /\ requested' = IF Evicted > 0 THEN requested \ Resident ELSE requested
    /\ merging' = None /\ turn' = "run"
    /\ UNCHANGED <<kHot, loaded, loading, failed, flagged>>

Merge ==
    /\ turn = "merge" /\ kHot > 0
    /\ weights' = Append(SubSeq(weights, Evicted + 1, Len(weights)), merging)
    /\ requested' = requested \ ToSet(SubSeq(weights, 1, Evicted))
    /\ merging' = None
    /\ turn' = "run"
    /\ UNCHANGED <<kHot, loaded, loading, failed, flagged>>

\* get(): the adapter becomes the most recently used.
MarkUsed(i) == Append(RemoveAt(weights, i), weights[i])

\* The step.  It is promoted when it runs without a CUDA graph, all of its
\* tokens belong to one adapter, there are n* of them, and get() finds the
\* adapter resident.
Run ==
    /\ turn = "run"
    /\ \/ UNCHANGED weights
       \/ \E i \in DOMAIN weights : weights' = MarkUsed(i)
    /\ turn' = "schedule" /\ flagged' = {}
    /\ UNCHANGED <<kHot, loaded, requested, loading, failed, merging>>

-----------------------------------------------------------------------------
Init ==
    /\ kHot = None /\ weights = <<>> /\ loaded = <<>> /\ requested = {}
    /\ loading = {} /\ failed = {} /\ merging = None
    /\ turn = "schedule" /\ flagged = {}

EngineStep == Schedule \/ NothingLoaded \/ PopLoaded \/ Size \/ GiveUp \/ Merge \/ Run

LoaderStep(a) == LoadEnds(a) \/ LoadFails(a)

Next == EngineStep \/ \E a \in Adapters : LoaderStep(a)

Spec == Init /\ [][Next]_vars

\* The engine keeps stepping as long as it has requests, and a loader thread
\* ends in one way or the other.
FairSpec ==
    /\ Spec
    /\ WF_vars(EngineStep)
    /\ \A a \in Adapters : WF_vars(LoaderStep(a))

-----------------------------------------------------------------------------
(***************************************************************************)
(* Properties.                                                             *)
(***************************************************************************)

\* Every variable stays within its range.
TypeOK ==
    /\ kHot \in 0 .. KHotMax \cup {None}
    /\ weights \in Seq(Adapters) /\ loaded \in Seq(Adapters)
    /\ requested \subseteq Adapters /\ loading \subseteq Adapters
    /\ failed \subseteq Adapters /\ flagged \subseteq Adapters
    /\ merging \in Adapters \cup {None}
    /\ turn \in {"schedule", "process", "merge", "run"}

\* "Merged attention weights for up to K_hot adapters": an adapter is never
\* resident before the cache is sized, nor beyond its size, and not twice.
WithinCapacity ==
    /\ Len(weights) <= Larger(kHot, 0)
    /\ IsInjective(weights)

\* An adapter is on its way in one place at most: two loader threads, or a
\* load of an adapter that is merged meanwhile, would read its checkpoint and
\* compute its weights twice.
InOnePlace ==
    /\ IsInjective(loaded)
    /\ loading \cap (ToSet(loaded) \cup Resident) = {}
    /\ ToSet(loaded) \cap Resident = {}
    /\ merging \notin loading \cup ToSet(loaded) \cup Resident

\* request() ignores an adapter only for as long as something will come of
\* the earlier request: an adapter in _requested is loading, loaded, being
\* merged or resident, or its loader thread died.
NoneStranded ==
    requested \subseteq loading \cup ToSet(loaded) \cup {merging} \cup Resident \cup failed

\* merged_ids is read before process() runs: of the adapters the scheduler
\* flags as resident, at most one is gone when the step asks for its weights.
AtMostOneStaleFlag == turn = "run" => Cardinality(flagged \ Resident) <= 1

\* A loaded adapter is merged or given up, unless requests for other adapters
\* keep coming (process() takes the latest load first, and can pass over an
\* earlier one as long as they do).
MergedOnceQuiet ==
    \A a \in Adapters :
        <>[][requested' \subseteq requested]_vars
            => (a \in ToSet(loaded) ~> a \notin ToSet(loaded))

=============================================================================
