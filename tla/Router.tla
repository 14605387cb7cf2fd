-------------------------------- MODULE Router --------------------------------
(***************************************************************************)
(* integrations/apis_router.py: APISRouter, which gives each adapter to    *)
(* one of several independent shards, by rate-sorted round robin.          *)
(*                                                                         *)
(* Adapters are numbers because their names break ties.                    *)
(***************************************************************************)
EXTENDS ArrivalRates, Queues

CONSTANTS
    Adapters,
    NShards,      \* n_shards
    RebalanceGap, \* rebalance_s
    FirstRates,   \* the estimates initial_rates may start from
    Unlisted,     \* adapters that initial_rates may leave out (run() lists all)
    MaxTime       \* bound on the clock

ASSUME RouterAssumption ==
    /\ Adapters \subseteq Nat /\ IsFiniteSet(Adapters)
    /\ NShards \in Nat \ {0}
    /\ RebalanceGap \in Nat \ {0}
    /\ FirstRates \subseteq Nat /\ Unlisted \subseteq Adapters
    /\ MaxTime \in Nat

Shards == 0 .. (NShards - 1)
Never == -1

VARIABLES
    now,           \* the time of the last request
    est,           \* estimator
    assignment,    \* assignment, a partial function
    lastRebalance, \* _last_rebalance
    rebalances     \* n_rebalances

routerVars == <<now, est, assignment, lastRebalance, rebalances>>

\* Sorted by (-rate, str(adapter)).
Before(rate, a, b) == rate[a] > rate[b] \/ (rate[a] = rate[b] /\ a < b)

Position(rate, a) == Cardinality({b \in DOMAIN rate : Before(rate, b, a)})

\* Bug: the first half to the first shard, the second half to the second.
RoundRobin_Blocks(rate) ==
    [a \in DOMAIN rate |-> (Position(rate, a) * NShards) \div Cardinality(DOMAIN rate)]

\* rebalance: the adapter at position i goes to shard i mod n.
RoundRobin(rate) == [a \in DOMAIN rate |-> Position(rate, a) % NShards]

\* Bug: counted from one.
NextShard_AfterIt(assigned) == (Cardinality(DOMAIN assigned) + 1) % NShards

NextShard(assigned) == Cardinality(DOMAIN assigned) % NShards

IsDue(t) == lastRebalance # Never /\ t - lastRebalance >= RebalanceGap

\* route: count the arrival, rebalance when it is time, and give an adapter
\* not seen before the next shard in order.
route(a, t) ==
    /\ now' = t
    /\ est' = update(est, {a}, t)
    /\ lastRebalance' = IF lastRebalance = Never \/ IsDue(t) THEN t ELSE lastRebalance
    /\ rebalances' = IF IsDue(t) THEN rebalances + 1 ELSE rebalances
    /\ LET assigned == IF IsDue(t) THEN RoundRobin(est'.rate) ELSE assignment
       IN  assignment' = IF a \in DOMAIN assigned THEN assigned
                         ELSE With(assigned, {a}, LAMBDA b : NextShard(assigned))

\* Before there is a router.
NoRouter ==
    /\ now = 0 /\ est = NewEstimator /\ assignment = NoKeys
    /\ lastRebalance = Never /\ rebalances = 0

\* The estimates a router may be given (initial_rates).
InitialRates == UNION {[Adapters \ set -> FirstRates] : set \in SUBSET Unlisted}

\* __init__: the first assignment follows the given rates, if there are any.
Construct(first) ==
    /\ now' = 0
    /\ est' = [NewEstimator EXCEPT !.rate = first]
    /\ assignment' = RoundRobin(first)
    /\ lastRebalance' = Never
    /\ rebalances' = IF first = NoKeys THEN 0 ELSE 1

RouterNext ==
    \/ \E first \in InitialRates : Construct(first)
    \/ \E a \in Adapters, t \in now .. MaxTime : route(a, t)

RouterSpec == NoRouter /\ [][RouterNext]_routerVars

-----------------------------------------------------------------------------
(***************************************************************************)
(* Properties.                                                             *)
(***************************************************************************)

HeldBy(s) == {a \in DOMAIN assignment : assignment[a] = s}

LoadOf(shards, rate, s) == Total(rate, {a \in DOMAIN shards : shards[a] = s})

\* "joins the next shard in round-robin order": every adapter with an estimate
\* has its shard, and the shards' numbers of adapters never differ by more than
\* one, after refreshes and late arrivals alike.
AdaptersShared ==
    /\ DOMAIN assignment = Known(est)
    /\ \A s, u \in Shards : Cardinality(HeldBy(s)) <= Cardinality(HeldBy(u)) + 1

\* "so the shards share the traffic rather than an equal adapter count": after
\* a refresh no shard expects more traffic than another by more than the
\* hottest adapter's.
TrafficShared ==
    [][rebalances' > rebalances =>
        \A s, u \in Shards : \E a \in DOMAIN est'.rate :
            LoadOf(assignment', est'.rate, s) <= LoadOf(assignment', est'.rate, u) + est'.rate[a]
      ]_routerVars

=============================================================================
