-------------------------------- MODULE WarmSet --------------------------------
(***************************************************************************)
(* prefetch/cache_manager.py (WarmCacheManager), the eviction choice of    *)
(* prefetch/predictor.py, and what integrations/vllm_scheduler.py does     *)
(* with them: every scheduling tick reports the adapters with new tokens   *)
(* to the rate estimator and to the tracker of the warm set, then lowers   *)
(* the CASH score of the queues whose adapter is predicted cold.           *)
(*                                                                         *)
(* prefetch(), reset_stats() and prefetch_schedule() have no caller        *)
(* outside the tests.  Which queues a tick dispatches is left open here    *)
(* (module AlignedScheduler), and of a score only what the penalty does to *)
(* it is kept.  Adapters are numbers because names break ties.             *)
(***************************************************************************)
EXTENDS ArrivalRates, Sequences, FiniteSets, SequencesExt, FiniteSetsExt

CONSTANTS
    Adapters,
    KWarm,     \* k_warm_max
    Policies,  \* the values of AS_PREFETCH_POLICY
    Deferrals, \* the values of AS_PCIE_MIN_DEFERRAL_S
    Saturated, \* the rate from which a Poisson score rounds to 1.0
    MaxTicks   \* bound on the ticks

ASSUME WarmSetAssumption ==
    /\ Adapters \subseteq Nat /\ IsFiniteSet(Adapters)
    /\ KWarm \in Nat \ {0}
    /\ Policies \subseteq {"lru", "topk", "predictive"}
    /\ Deferrals \subseteq Nat
    /\ Saturated \in Nat /\ MaxTicks \in Nat

VARIABLES
    policy,    \* policy, set once
    deferral,  \* _pcie_min_deferral_s, set once
    now,       \* the time of the tick
    est,       \* _estimator
    warm,      \* _warm, least recently used first
    hits,      \* _total_hits, the sum of _hits
    misses,    \* _total_misses, the sum of _misses
    requests,  \* _total_requests
    evictions, \* _total_evictions
    firstCold, \* _cold_first_seen, a partial function
    pending,   \* adapters with tokens in the buffer
    toReport,  \* new arrivals of the tick not reported to the cache yet
    inTick,    \* whether a tick is under way
    penalty,   \* of each scored queue: "none", "divided" or "zero"
    used,      \* history: adapters by their last request, latest last
    coldFrom   \* history: when a cold spell was first scored; it lasts until
               \* queues are scored while the adapter is warm

settings == <<policy, deferral>>
cacheVars == <<warm, hits, misses, requests, evictions, used>>
scoreVars == <<firstCold, penalty, coldFrom>>
vars == <<settings, now, est, cacheVars, pending, toReport, inTick, scoreVars>>

-----------------------------------------------------------------------------
(***************************************************************************)
(* Eviction.                                                               *)
(***************************************************************************)

RateOf(a) == IF a \in Known(est) THEN est.rate[a] ELSE 0

\* eviction_score: monotone in the rate until it rounds to 1.0.
Score(a) == IF RateOf(a) < Saturated THEN RateOf(a) ELSE Saturated

\* get_eviction_target: the least (score, name).
get_eviction_target ==
    CHOOSE a \in ToSet(warm) : \A b \in ToSet(warm) :
        Score(a) < Score(b) \/ (Score(a) = Score(b) /\ a <= b)

\* topk: the first in order of use of those with the lowest rate.
LowestRate ==
    LET lowest == {i \in DOMAIN warm : \A j \in DOMAIN warm : RateOf(warm[i]) <= RateOf(warm[j])}
    IN  warm[CHOOSE i \in lowest : \A j \in lowest : i <= j]

\* _choose_eviction
choose_eviction ==
    CASE policy = "lru"        -> Head(warm)
      [] policy = "topk"       -> LowestRate
      [] policy = "predictive" -> get_eviction_target

-----------------------------------------------------------------------------
(***************************************************************************)
(* The cache.                                                              *)
(***************************************************************************)

\* Where a warm adapter stands in the order of use.
Place(a) == CHOOSE i \in DOMAIN warm : warm[i] = a

\* Bug: room is made when the cache is over its limit, not when it is full.
IsFull_TooLate == Len(warm) > KWarm

IsFull == Len(warm) >= KWarm

\* _load: evict when the cache is full, then add at the latest end.
load(a) ==
    IF IsFull
    THEN /\ warm' = Append(RemoveAt(warm, Place(choose_eviction)), a)
         /\ evictions' = evictions + 1
    ELSE /\ warm' = Append(warm, a)
         /\ UNCHANGED evictions

\* Bug: a hit does not refresh the adapter's place.
Touched_Not(a) == warm

\* move_to_end
Touched(a) == Append(RemoveAt(warm, Place(a)), a)

\* The order of the requests, each adapter at its last one.
LatestOf(order, a) ==
    IF a \in ToSet(order)
    THEN Append(RemoveAt(order, CHOOSE i \in DOMAIN order : order[i] = a), a)
    ELSE Append(order, a)

\* request: a hit becomes the latest used, a miss is loaded.
request(a) ==
    /\ requests' = requests + 1
    /\ used' = LatestOf(used, a)
    /\ IF a \in ToSet(warm)
       THEN warm' = Touched(a) /\ hits' = hits + 1 /\ UNCHANGED <<misses, evictions>>
       ELSE load(a) /\ misses' = misses + 1 /\ UNCHANGED hits

-----------------------------------------------------------------------------
(***************************************************************************)
(* A tick of the scheduler.                                                *)
(***************************************************************************)

\* The tick's new arrivals are queued, and each adapter's rate is updated once.
StartTick(arrivals) ==
    /\ ~inTick /\ now < MaxTicks
    /\ now' = now + 1
    /\ est' = update(est, arrivals, now + 1)
    /\ pending' = pending \cup arrivals
    /\ toReport' = arrivals
    /\ inTick' = TRUE
    /\ UNCHANGED <<settings, cacheVars, scoreVars>>

\* _update_prefetch_cache: the arrivals are a Python set, in any order.
Report(a) ==
    /\ inTick /\ a \in toReport
    /\ request(a)
    /\ toReport' = toReport \ {a}
    /\ UNCHANGED <<settings, now, est, pending, inTick, scoreVars>>

IsWarm == ToSet(warm)

\* Bug: every tick stamps the cold adapters again.
Stamps_Renewed ==
    IF deferral = 0 THEN firstCold
    ELSE [a \in (DOMAIN firstCold \ (pending \cap IsWarm)) \cup (pending \ IsWarm) |->
             IF a \in pending THEN now ELSE firstCold[a]]

\* _cold_first_seen: a scored warm adapter is forgotten, a cold one is stamped
\* at first sight.  Without a deferral window it is never written.
Stamps ==
    IF deferral = 0 THEN firstCold
    ELSE [a \in (DOMAIN firstCold \ (pending \cap IsWarm)) \cup (pending \ IsWarm) |->
             IF a \in DOMAIN firstCold THEN firstCold[a] ELSE now]

\* _penalize_cold: what happens to the score of each queue.
_penalize_cold ==
    [a \in pending |->
        CASE a \in IsWarm -> "none"
          [] a \notin IsWarm /\ deferral = 0 -> "divided"
          [] a \notin IsWarm /\ deferral > 0 /\ a \notin DOMAIN firstCold -> "zero"
          [] OTHER -> IF now - firstCold[a] < deferral THEN "divided" ELSE "none"]

\* The queues are scored (_cash_order) and the buffer dispatches some of them.
FinishTick ==
    /\ inTick /\ toReport = {}
    /\ penalty' = _penalize_cold
    /\ firstCold' = Stamps
    /\ coldFrom' = [a \in (DOMAIN coldFrom \cup pending) \ IsWarm |->
                       IF a \in DOMAIN coldFrom THEN coldFrom[a] ELSE now]
    /\ \E dispatched \in SUBSET pending : pending' = pending \ dispatched
    /\ inTick' = FALSE
    /\ UNCHANGED <<settings, now, est, cacheVars, toReport>>

Init ==
    /\ policy \in Policies /\ deferral \in Deferrals
    /\ now = 0 /\ est = NewEstimator
    /\ warm = <<>> /\ used = <<>>
    /\ requests = 0 /\ hits = 0 /\ misses = 0 /\ evictions = 0
    /\ pending = {} /\ toReport = {} /\ inTick = FALSE
    /\ firstCold = NoKeys /\ penalty = NoKeys /\ coldFrom = NoKeys

Next ==
    \/ \E arrivals \in SUBSET Adapters : StartTick(arrivals)
    \/ \E a \in Adapters : Report(a)
    \/ FinishTick

Spec == Init /\ [][Next]_vars

-----------------------------------------------------------------------------
(***************************************************************************)
(* Properties.                                                             *)
(***************************************************************************)

\* The warm set never exceeds the slots it stands for ("fixed-capacity
\* cache") and holds no adapter twice; the counters account for it: every
\* request was a hit or a miss, and what was loaded and not evicted is warm.
WithinSlots ==
    /\ Len(warm) <= KWarm /\ IsInjective(warm)
    /\ requests = hits + misses
    /\ Len(warm) = misses - evictions

\* "lru: Least Recently Used": the warm adapters are the last KWarm that were
\* asked for, in that order, whatever came before.
LruKeepsLatest ==
    policy = "lru" =>
        warm = SubSeq(used, IF Len(used) > KWarm THEN Len(used) - KWarm + 1 ELSE 1, Len(used))

\* "First time each cold adapter was seen; cleared once it is warm": between
\* ticks no warm adapter has a stamp, although only scored queues are cleared.
WarmHasNoStamp == ~inTick => IsWarm \cap DOMAIN firstCold = {}

\* "A cold adapter scores 0 at the tick it is first seen, then score / cold_boost
\* until the deferral window has passed.  Warm adapters keep their score": the
\* window of each cold spell starts with the spell and runs once, whether or not
\* the adapter has a queue to score all the time.  A spell ends when a scoring
\* finds the adapter warm.  (Loaded and evicted again in one tick, it does not:
\* the adapter keeps its old window.)
PenaltyFollowsWindow ==
    ~inTick /\ deferral > 0 => \A a \in DOMAIN penalty :
        LET since == now - coldFrom[a] IN
        penalty[a] = CASE a \notin IsWarm /\ since = 0 -> "zero"
                       [] a \notin IsWarm /\ since > 0 /\ since < deferral -> "divided"
                       [] OTHER -> "none"

\* The two together.
WindowPerSpell == WarmHasNoStamp /\ PenaltyFollowsWindow

=============================================================================
