--------------------------- MODULE ApisRunnerProofs ---------------------------
(***************************************************************************)
(* Theorems about the benchmark and its servers, for every number of       *)
(* servers and of crashes: what is proved of the servers alone holds of    *)
(* the whole benchmark, whatever the router does meanwhile, because the    *)
(* runner drives its servers only as Backends allows.                      *)
(***************************************************************************)
EXTENDS ApisRunner, SequenceLemmas

-----------------------------------------------------------------------------
(***************************************************************************)
(* The servers alone (Backends).                                           *)
(***************************************************************************)

TypeInv ==
    /\ pc \in Phases /\ cur \in Servers
    /\ raised \in BOOLEAN /\ pgid \in BOOLEAN
    /\ started \subseteq Servers
    /\ leader \in [Servers -> {"none", "starting", "ready", "dead"}]
    /\ worker \in [Servers -> BOOLEAN]

\* A server without a process handle has no process that could be found.
UnstartedIsGone == \A s \in Servers \ started : leader[s] = "none" /\ ~worker[s]

\* Between benchmarks no server is started; a round of stops that began at the
\* first server leaves only servers it has not come to; only start() raises.
StopsInTurn ==
    /\ pc = "rest" => started = {}
    /\ pc \in {"stop", "wait", "kill"} /\ ~raised => \A s \in started : s >= cur
    /\ raised => pc \in {"stop", "wait", "kill"}

\* A started server whose leader was reaped is the one being stopped, and stop()
\* reaped it unless the health poll had.
ReapedByStop ==
    \A s \in started : leader[s] = "none" =>
        s = cur /\ (pc = "kill" \/ (pc \in {"stop", "wait"} /\ cur \in unled))

\* stop() finds the group unless the health poll had reaped the leader.
GroupFound ==
    /\ pc \in {"wait", "kill"} /\ ~pgid => cur \in unled
    /\ orphans \subseteq unled

Inv == TypeInv /\ UnstartedIsGone /\ StopsInTurn /\ ReapedByStop /\ GroupFound

-----------------------------------------------------------------------------
LEMMA Initially == BackendInit => Inv
  <1> SUFFICES ASSUME BackendInit PROVE Inv
    OBVIOUS
  <1> USE DEF BackendInit
  <1>1. pc \in Phases /\ cur \in Servers
    BY BackendsAssumption DEF Phases, Servers
  <1>2. raised \in BOOLEAN /\ pgid \in BOOLEAN /\ started \subseteq Servers
    OBVIOUS
  <1>3. /\ leader \in [Servers -> {"none", "starting", "ready", "dead"}]
        /\ worker \in [Servers -> BOOLEAN]
    OBVIOUS
  <1>4. \A s \in Servers \ started : leader[s] = "none" /\ ~worker[s]
    OBVIOUS
  <1>5. StopsInTurn
    BY DEF StopsInTurn
  <1>6. ReapedByStop /\ GroupFound
    BY DEF ReapedByStop, GroupFound
  <1> QED
    BY <1>1, <1>2, <1>3, <1>4, <1>5, <1>6 DEF Inv, TypeInv, UnstartedIsGone

\* After an error every server is stopped, from the first one on.
LEMMA ErrorStops ==
    ASSUME OnError
    PROVE  pc' = "stop" /\ cur' = 0 /\ raised' \in BOOLEAN /\ ~raised'
  BY DEF OnError

\* Every step of the benchmark and of the servers' processes keeps the invariant.
LEMMA Preserved == Inv /\ [BackendNext]_backendVars => Inv'
  <1> SUFFICES ASSUME Inv, [BackendNext]_backendVars PROVE Inv'
    OBVIOUS
  <1> USE BackendsAssumption
      DEF Inv, TypeInv, UnstartedIsGone, StopsInTurn, ReapedByStop, GroupFound,
          Phases, Servers, serverVars, historyVars
  <1>1. ASSUME NEW s \in Servers, SpawnWorkers(s) PROVE Inv'
    BY <1>1 DEF SpawnWorkers
  <1>2. ASSUME NEW s \in Servers, BecomeReady(s) PROVE Inv'
    BY <1>2 DEF BecomeReady
  <1>3. ASSUME NEW s \in Servers, Crash(s) PROVE Inv'
    BY <1>3 DEF Crash, Alive
  <1>4. ASSUME NEW s \in Servers, ObeyTerm(s) PROVE Inv'
    BY <1>4 DEF ObeyTerm, Alive
  <1>5. ASSUME NEW s \in Servers, OrphanExits(s) PROVE Inv'
    BY <1>5 DEF OrphanExits
  <1>6. CASE BeginBenchmark
    BY <1>6 DEF BeginBenchmark
  <1>7. CASE WaitForPort
    <2>1. CASE pc' = "gpus" /\ UNCHANGED <<cur, raised>>
      BY <1>7, <2>1 DEF WaitForPort
    <2>2. CASE OnError
      BY <1>7, <2>2, ErrorStops DEF WaitForPort
    <2> QED
      BY <1>7, <2>1, <2>2 DEF WaitForPort
  <1>8. CASE WaitForGpus
    BY <1>8 DEF WaitForGpus
  <1>9. CASE Launch
    BY <1>9 DEF Launch
  <1>10. CASE HealthAnswers
    BY <1>10 DEF HealthAnswers, AfterStart
  <1>11. CASE HealthSeesExit
    BY <1>11 DEF HealthSeesExit
  <1>12. CASE HealthTimesOut
    BY <1>12 DEF HealthTimesOut
  <1>13. CASE EndBenchmark
    BY <1>13 DEF EndBenchmark
  <1>14. CASE NothingToStop
    <2>1. CASE raised
      BY <1>14, <2>1, ErrorStops DEF NothingToStop, AfterStop
    <2>2. CASE ~raised /\ cur = NServers - 1
      BY <1>14, <2>2 DEF NothingToStop, AfterStop
    <2>3. CASE ~raised /\ cur # NServers - 1
      BY <1>14, <2>3 DEF NothingToStop, AfterStop
    <2> QED
      BY <2>1, <2>2, <2>3
  <1>15. CASE Terminate
    BY <1>15 DEF Terminate
  <1>16. CASE WaitForLeader
    BY <1>16 DEF WaitForLeader, Alive
  <1>17. CASE Kill
    <2>1. pgid' \in BOOLEAN /\ ~pgid'
      BY <1>17 DEF Kill
    <2>2. /\ started' \subseteq Servers
          /\ leader' \in [Servers -> {"none", "starting", "ready", "dead"}]
          /\ worker' \in [Servers -> BOOLEAN]
      BY <1>17 DEF Kill
    <2>3. UnstartedIsGone'
      BY <1>17 DEF Kill
    <2>4. \A s \in started' : leader'[s] # "none"
      BY <1>17 DEF Kill
    <2>5. orphans' \subseteq unled'
      <3>1. orphans' \subseteq unled
        BY <1>17 DEF Kill, Survivor
      <3> QED
        BY <1>17, <3>1 DEF Kill
    <2>6. pc' \in Phases /\ cur' \in Servers /\ raised' \in BOOLEAN /\ StopsInTurn'
      <3>1. CASE raised
        BY <1>17, <2>2, <3>1, ErrorStops DEF Kill, AfterStop
      <3>2. CASE ~raised /\ cur = NServers - 1
        BY <1>17, <3>2 DEF Kill, AfterStop
      <3>3. CASE ~raised /\ cur # NServers - 1
        BY <1>17, <3>3 DEF Kill, AfterStop
      <3> QED
        BY <3>1, <3>2, <3>3
    <2>7. pc' \notin {"wait", "kill"}
      BY <1>17, ErrorStops DEF Kill, AfterStop
    <2> QED
      BY <2>1, <2>2, <2>3, <2>4, <2>5, <2>6, <2>7
  <1>18. CASE UNCHANGED backendVars
    BY <1>18 DEF backendVars
  <1> QED
    BY <1>1, <1>2, <1>3, <1>4, <1>5, <1>6, <1>7, <1>8, <1>9, <1>10, <1>11, <1>12, <1>13, <1>14, <1>15, <1>16, <1>17, <1>18
    DEF BackendNext, Starting, Stopping, ServerStep

LEMMA Invariance == BackendSpec => []Inv
  BY Initially, Preserved, PTL DEF BackendSpec

\* Once a benchmark is over no process of its servers is left, unless the health
\* poll reaped a leader whose workers lived on.
THEOREM EverythingStopped == BackendSpec => []NothingLeftRunning
  <1>1. Inv => NothingLeftRunning
    BY DEF Inv, TypeInv, UnstartedIsGone, StopsInTurn, GroupFound, NothingLeftRunning, Alive
  <1> QED
    BY <1>1, Invariance, PTL

-----------------------------------------------------------------------------
(***************************************************************************)
(* The servers in the benchmark.                                           *)
(***************************************************************************)

LEMMA StepsOfTheServers == [Next]_runnerVars => [BackendNext]_backendVars
  <1> SUFFICES ASSUME [Next]_runnerVars PROVE [BackendNext]_backendVars
    OBVIOUS
  <1>1. CASE ServersStep
    BY <1>1 DEF ServersStep, BackendNext
  <1>2. ASSUME NEW a \in Adapters, NEW t \in now .. MaxTime, Send(a, t)
        PROVE  UNCHANGED backendVars
    BY <1>2 DEF Send
  <1>3. ASSUME NEW a \in Adapters, NEW s \in Shards, Complete(a, s)
        PROVE  UNCHANGED backendVars
    BY <1>3 DEF Complete
  <1>4. CASE EndRun
    BY <1>4 DEF EndRun, BackendNext
  <1>5. CASE UNCHANGED runnerVars
    BY <1>5 DEF runnerVars
  <1> QED
    BY <1>1, <1>2, <1>3, <1>4, <1>5 DEF Next

\* APISBenchmarkRunner implements the life of its servers: each of its steps is
\* a step of theirs or leaves them alone.
THEOREM RunnerImplementsBackends == Spec => BackendSpec
  <1>1. Init => BackendInit
    BY DEF Init
  <1> QED
    BY <1>1, StepsOfTheServers, PTL DEF Spec, BackendSpec

\* After every benchmark of a routed trace, however it ended, no process of its
\* servers is left, but for those the health poll made unfindable.
THEOREM RunnerLeavesNothing == Spec => []NothingLeftRunning
  BY RunnerImplementsBackends, EverythingStopped, PTL

-----------------------------------------------------------------------------
(***************************************************************************)
(* The router.                                                             *)
(***************************************************************************)

\* num numbers the elements of D 0, 1, 2, ...: adapters, in the order in which
\* they were given their shards.
Numbers(num, D) ==
    /\ num \in [D -> 0 .. Cardinality(D) - 1]
    /\ \A a, b \in D : num[a] = num[b] => a = b
    /\ \A k \in 0 .. Cardinality(D) - 1 : \E a \in D : num[a] = k

\* The assignment deals the adapters of its domain to the shards in turn.
InTurn(shards) ==
    \E num : /\ Numbers(num, DOMAIN shards)
             /\ \A a \in DOMAIN shards : shards[a] = num[a] % NShards

\* The rates and times of the estimator are numbers, the rates those of the
\* assigned adapters, and the shards were dealt in turn.
RouterInv ==
    /\ now \in Nat /\ rebalances \in Nat
    /\ DOMAIN est.rate \subseteq Adapters
    /\ \A a \in DOMAIN est.rate : est.rate[a] \in Nat
    /\ \A a \in DOMAIN est.last : est.last[a] \in Int
    /\ DOMAIN assignment = DOMAIN est.rate
    /\ InTurn(assignment)

\* Adapters dealt to shard s in turn, but for its first.
Later(D, num, n, s) == {a \in D : num[a] % n = s /\ num[a] # s}

\* Each of them can be matched with an adapter of shard u, dealt a round earlier.
LEMMA MatchedEarlier ==
    ASSUME NEW D, IsFiniteSet(D), NEW num, Numbers(num, D), NEW n \in Nat \ {0},
           NEW s \in 0 .. n - 1, NEW u \in 0 .. n - 1
    PROVE  \E match \in [Later(D, num, n, s) -> {a \in D : num[a] % n = u}] :
              /\ \A a, b \in Later(D, num, n, s) : match[a] = match[b] => a = b
              /\ \A a \in Later(D, num, n, s) : num[match[a]] < num[a]
  <1> DEFINE later == Later(D, num, n, s)
             B == {a \in D : num[a] % n = u}
             c == Cardinality(D)
             earlier(a) == n * ((num[a] \div n) - 1) + u
             match == [a \in later |-> CHOOSE b \in D : num[b] = earlier(a)]
  <1>1. c \in Nat
    BY FS_CardinalityType
  <1>2. /\ \A a \in D : num[a] \in 0 .. c - 1
        /\ \A a, b \in D : num[a] = num[b] => a = b
        /\ \A k \in 0 .. c - 1 : \E a \in D : num[a] = k
    BY DEF Numbers
  <1> HIDE DEF c
  <1>3. \A a \in later : a \in D /\ num[a] % n = s /\ num[a] # s /\ num[a] \in Nat
    BY <1>1, <1>2 DEF Later
  <1> HIDE DEF later
  <1>4. ASSUME NEW a \in later
        PROVE  /\ earlier(a) \in 0 .. c - 1 /\ earlier(a) % n = u /\ earlier(a) < num[a]
               /\ num[a] = n * ((num[a] \div n) - 1) + n + s
    <2>1. num[a] \in 0 .. c - 1 /\ num[a] % n = s /\ num[a] # s
      BY <1>2, <1>3
    <2> DEFINE x == num[a]
               k == x \div n
    <2>2. x \in Nat /\ x < c /\ x % n = s
      BY <1>1, <2>1
    <2>3. k \in Nat /\ x = n * k + s
      BY <2>2, Quotient
    <2> HIDE DEF k
    <2>4. k # 0
      <3>1. n * 0 + s = s
        OBVIOUS
      <3>2. x # s
        BY <2>1
      <3> HIDE DEF x
      <3> QED
        BY <2>3, <3>1, <3>2
    <2> HIDE DEF x
    <2>5. k - 1 \in Nat
      BY <2>3, <2>4
    <2>6. n * k = n * (k - 1) + n
      BY <2>3
    <2>7. n * (k - 1) \in Nat
      BY <2>5
    <2>8. n * (k - 1) + u \in 0 .. c - 1 /\ n * (k - 1) + u < x
      BY <1>1, <2>2, <2>3, <2>6, <2>7
    <2>9. (n * (k - 1) + u) % n = u
      BY <2>5, Wraps
    <2>10. x = n * (k - 1) + n + s
      BY <2>3, <2>6
    <2> QED
      BY <2>8, <2>9, <2>10 DEF x, k
  <1>5. \A a \in later : match[a] \in B /\ num[match[a]] = earlier(a)
    <2> SUFFICES ASSUME NEW a \in later PROVE match[a] \in B /\ num[match[a]] = earlier(a)
      OBVIOUS
    <2>1. \E b \in D : num[b] = earlier(a)
      BY <1>2, <1>4
    <2>2. match[a] \in D /\ num[match[a]] = earlier(a)
      BY <2>1
    <2> QED
      BY <1>4, <2>2
  <1>6. \A a, b \in later : match[a] = match[b] => a = b
    <2> SUFFICES ASSUME NEW a \in later, NEW b \in later, match[a] = match[b]
                 PROVE  a = b
      OBVIOUS
    <2>1. earlier(a) = earlier(b)
      BY <1>5
    <2>2. num[a] \div n \in Nat /\ num[b] \div n \in Nat
      BY <1>3, Quotient
    <2>3. n * ((num[a] \div n) - 1) = n * ((num[b] \div n) - 1)
      BY <2>1, <2>2
    <2>4. num[a] = num[b]
      BY <1>4, <2>3
    <2> QED
      BY <1>2, <1>3, <2>4
  <1>7. match \in [later -> B] /\ \A a \in later : num[match[a]] < num[a]
    BY <1>4, <1>5
  <1> HIDE DEF match, B
  <1>8. \E f \in [later -> B] : /\ \A a, b \in later : f[a] = f[b] => a = b
                                /\ \A a \in later : num[f[a]] < num[a]
    BY <1>6, <1>7
  <1> QED
    BY <1>8 DEF later, B

\* A shard's adapters are its first, if any was dealt to it, and the later ones.
LEMMA FirstAndLater ==
    ASSUME NEW D, IsFiniteSet(D), NEW num, Numbers(num, D), NEW n \in Nat \ {0},
           NEW s \in 0 .. n - 1
    PROVE  LET A == {a \in D : num[a] % n = s}
               later == Later(D, num, n, s)
           IN  /\ IsFiniteSet(A) /\ IsFiniteSet(later)
               /\ \/ A = later
                  \/ \E a \in D : a \notin later /\ A = later \cup {a}
  <1> DEFINE A == {a \in D : num[a] % n = s}
             later == Later(D, num, n, s)
  <1>1. A \in SUBSET D /\ later \in SUBSET D
    BY DEF Later
  <1>2. A = later \/ \E a \in D : a \notin later /\ A = later \cup {a}
    <2>1. CASE \E a \in D : num[a] = s
      <3>1. PICK a \in D : num[a] = s
        BY <2>1
      <3>2. num[a] % n = s
        BY <3>1
      <3>3. \A b \in D : num[b] = s => b = a
        BY <3>1 DEF Numbers
      <3>4. a \notin later /\ A = later \cup {a}
        BY <3>1, <3>2, <3>3 DEF Later
      <3> QED
        BY <3>4
    <2>2. CASE \A a \in D : num[a] # s
      BY <2>2 DEF Later
    <2> QED
      BY <2>1, <2>2
  <1> HIDE DEF A, later
  <1> QED
    BY <1>1, <1>2, FS_Subset DEF A, later

\* So a shard has at most one adapter more than another.
LEMMA DealtEvenly ==
    ASSUME NEW D, IsFiniteSet(D), NEW num, Numbers(num, D), NEW n \in Nat \ {0},
           NEW s \in 0 .. n - 1, NEW u \in 0 .. n - 1
    PROVE  Cardinality({a \in D : num[a] % n = s}) <= Cardinality({a \in D : num[a] % n = u}) + 1
  <1> DEFINE A == {a \in D : num[a] % n = s}
             B == {a \in D : num[a] % n = u}
             later == Later(D, num, n, s)
  <1>1. PICK match \in [later -> B] : /\ \A a, b \in later : match[a] = match[b] => a = b
                                      /\ \A a \in later : num[match[a]] < num[a]
    BY MatchedEarlier
  <1>2. /\ IsFiniteSet(A) /\ IsFiniteSet(later)
        /\ A = later \/ \E a \in D : a \notin later /\ A = later \cup {a}
    BY FirstAndLater
  <1>3. IsFiniteSet(B)
    BY FirstAndLater
  <1> HIDE DEF A, B, later
  <1>4. match \in Injection(later, B)
    BY <1>1, Fun_IsInj
  <1>5. Cardinality(later) <= Cardinality(B)
    BY <1>3, <1>4, FS_Injection
  <1>6. Cardinality(A) <= Cardinality(later) + 1
    <2>1. Cardinality(later) \in Nat
      BY <1>2, FS_CardinalityType
    <2> QED
      BY <1>2, <2>1, FS_AddElement
  <1>7. Cardinality(A) \in Nat /\ Cardinality(B) \in Nat /\ Cardinality(later) \in Nat
    BY <1>2, <1>3, FS_CardinalityType
  <1>8. Cardinality(A) <= Cardinality(B) + 1
    BY <1>5, <1>6, <1>7
  <1> QED
    BY <1>8 DEF A, B

\* Sorting the adapters by rate numbers them, the greatest rate first.
LEMMA PositionNumbers ==
    ASSUME NEW rate, DOMAIN rate \subseteq Adapters, \A a \in DOMAIN rate : rate[a] \in Nat
    PROVE  /\ Numbers([a \in DOMAIN rate |-> Position(rate, a)], DOMAIN rate)
           /\ \A a, b \in DOMAIN rate : Position(rate, a) < Position(rate, b) => rate[a] >= rate[b]
  <1> DEFINE D == DOMAIN rate
             R == {r \in D \X D : Before(rate, r[1], r[2])}
             num == [a \in D |-> Position(rate, a)]
  <1>1. IsFiniteSet(D) /\ \A a \in D : a \in Nat
    BY RouterAssumption, FS_Subset
  <1>2. \A a, b \in D : <<a, b>> \in R <=> Before(rate, a, b)
    OBVIOUS
  <1>3. \A a \in D : Position(rate, a) = Cardinality({b \in D : <<b, a>> \in R})
    <2> SUFFICES ASSUME NEW a \in D
                 PROVE  Position(rate, a) = Cardinality({b \in D : <<b, a>> \in R})
      OBVIOUS
    <2>1. {b \in D : <<b, a>> \in R} = {b \in D : Before(rate, b, a)}
      BY <1>2
    <2> QED
      BY <2>1 DEF Position
  <1> HIDE DEF R
  <1>4. /\ \A a \in D : <<a, a>> \notin R
        /\ \A a, b, c \in D : <<a, b>> \in R /\ <<b, c>> \in R => <<a, c>> \in R
        /\ \A a, b \in D : a # b => <<a, b>> \in R \/ <<b, a>> \in R
        /\ \A a, b \in D : <<a, b>> \in R => rate[a] >= rate[b]
    BY <1>1, <1>2 DEF Before
  <1> DEFINE rank(x) == Cardinality({y \in D : <<y, x>> \in R})
  <1>5. /\ Cardinality(D) \in Nat
        /\ \A a \in D : rank(a) \in 0 .. Cardinality(D) - 1
        /\ \A a, b \in D : rank(a) = rank(b) => a = b
        /\ \A a, b \in D : rank(a) < rank(b) <=> <<a, b>> \in R
        /\ \A k \in 1 .. Cardinality(D) : \E a \in D : rank(a) = k - 1
    <2> HIDE DEF D
    <2> QED
      BY <1>1, <1>4, Ranks
  <1>6. \A a \in D : num[a] = rank(a) /\ Position(rate, a) = rank(a)
    BY <1>3
  <1>7. \A k \in 0 .. Cardinality(D) - 1 : \E a \in D : rank(a) = k
    <2> SUFFICES ASSUME NEW k \in 0 .. Cardinality(D) - 1 PROVE \E a \in D : rank(a) = k
      OBVIOUS
    <2> HIDE DEF rank, D
    <2>1. k + 1 \in 1 .. Cardinality(D) /\ (k + 1) - 1 = k
      BY <1>5
    <2> QED
      BY <1>5, <2>1
  <1>8. num = [a \in D |-> num[a]]
    OBVIOUS
  <1> HIDE DEF rank, num, D
  <1>9. Numbers(num, D)
    <2>1. num \in [D -> 0 .. Cardinality(D) - 1]
      BY <1>5, <1>6, <1>8
    <2> QED
      BY <1>5, <1>6, <1>7, <2>1 DEF Numbers
  <1>10. \A a, b \in D : Position(rate, a) < Position(rate, b) => rate[a] >= rate[b]
    BY <1>4, <1>5, <1>6
  <1> QED
    BY <1>9, <1>10 DEF D, num

\* A refresh deals the adapters in that order.
LEMMA RefreshDeals ==
    ASSUME NEW rate, DOMAIN rate \subseteq Adapters, \A a \in DOMAIN rate : rate[a] \in Nat
    PROVE  DOMAIN RoundRobin(rate) = DOMAIN rate /\ InTurn(RoundRobin(rate))
  <1> DEFINE num == [a \in DOMAIN rate |-> Position(rate, a)]
  <1>1. Numbers(num, DOMAIN rate)
    BY PositionNumbers
  <1>2. \A a \in DOMAIN rate : num[a] = Position(rate, a)
    OBVIOUS
  <1> HIDE DEF num
  <1>3. /\ DOMAIN RoundRobin(rate) = DOMAIN rate
        /\ \A a \in DOMAIN rate : RoundRobin(rate)[a] = num[a] % NShards
    BY <1>2 DEF RoundRobin
  <1> QED
    BY <1>1, <1>3 DEF InTurn

\* After it a shard expects no more traffic than another, but for one adapter's:
\* the later adapters of its share have no higher rates than those they are
\* matched with.
LEMMA RefreshShares ==
    ASSUME NEW rate, DOMAIN rate \subseteq Adapters, \A a \in DOMAIN rate : rate[a] \in Nat,
           DOMAIN rate # {}, NEW s \in Shards, NEW u \in Shards
    PROVE  \E a \in DOMAIN rate :
              LoadOf(RoundRobin(rate), rate, s) <= LoadOf(RoundRobin(rate), rate, u) + rate[a]
  <1> DEFINE D == DOMAIN rate
             num == [a \in D |-> Position(rate, a)]
             A == {a \in D : num[a] % NShards = s}
             B == {a \in D : num[a] % NShards = u}
             later == Later(D, num, NShards, s)
  <1>1. /\ Numbers(num, D)
        /\ \A a, b \in D : num[a] < num[b] => rate[a] >= rate[b]
    BY PositionNumbers
  <1>2. NShards \in Nat \ {0} /\ s \in 0 .. NShards - 1 /\ u \in 0 .. NShards - 1 /\ IsFiniteSet(D)
    BY RouterAssumption, FS_Subset DEF Shards
  <1>3. /\ LoadOf(RoundRobin(rate), rate, s) = Total(rate, A)
        /\ LoadOf(RoundRobin(rate), rate, u) = Total(rate, B)
    BY DEF LoadOf, RoundRobin
  <1> HIDE DEF num
  <1>4. PICK match \in [later -> B] : /\ \A a, b \in later : match[a] = match[b] => a = b
                                      /\ \A a \in later : num[match[a]] < num[a]
    BY <1>1, <1>2, MatchedEarlier
  <1>5. /\ IsFiniteSet(A) /\ IsFiniteSet(later) /\ IsFiniteSet(B)
        /\ A = later \/ \E a \in D : a \notin later /\ A = later \cup {a}
    <2>1. /\ IsFiniteSet(A) /\ IsFiniteSet(later)
          /\ A = later \/ \E a \in D : a \notin later /\ A = later \cup {a}
      BY <1>1, <1>2, FirstAndLater
    <2>2. IsFiniteSet(B)
      BY <1>1, <1>2, FirstAndLater
    <2> QED
      BY <2>1, <2>2
  <1>6. later \subseteq D /\ A \subseteq D /\ B \subseteq D
    BY DEF Later
  <1> HIDE DEF A, B, later
  <1>7. /\ Counts(rate, A) /\ Counts(rate, B) /\ Counts(rate, later)
    BY <1>6 DEF Counts
  <1>8. Total(rate, later) <= Total(rate, B)
    <2>1. \A a \in later : rate[a] <= rate[match[a]]
      <3> SUFFICES ASSUME NEW a \in later PROVE rate[a] <= rate[match[a]]
        OBVIOUS
      <3>1. match[a] \in D /\ a \in D
        BY <1>6
      <3> QED
        BY <1>1, <1>4, <3>1
    <2> QED
      BY <1>4, <1>5, <1>7, <2>1, TotalMatched
  <1>9. Total(rate, later) \in Nat /\ Total(rate, B) \in Nat
    BY <1>5, <1>7, CellsFinite
  <1>10. CASE A = later
    <2>1. PICK a \in D : TRUE
      OBVIOUS
    <2>2. rate[a] \in Nat
      OBVIOUS
    <2>3. Total(rate, A) <= Total(rate, B) + rate[a]
      BY <1>8, <1>9, <1>10, <2>2
    <2> QED
      BY <1>3, <2>3
  <1>11. ASSUME NEW a \in D, a \notin later, A = later \cup {a}
         PROVE  Total(rate, A) <= Total(rate, B) + rate[a]
    <2>1. Total(rate, A) = Total(rate, later) + rate[a]
      BY <1>5, <1>7, <1>11, TotalAdd
    <2>2. rate[a] \in Nat
      OBVIOUS
    <2> QED
      BY <1>8, <1>9, <2>1, <2>2
  <1> QED
    BY <1>3, <1>5, <1>10, <1>11

\* An adapter not seen before has the next number.
LEMMA NewcomerIsNext ==
    ASSUME NEW shards, InTurn(shards), IsFiniteSet(DOMAIN shards), NEW a, a \notin DOMAIN shards
    PROVE  LET more == With(shards, {a}, LAMBDA b : NextShard(shards))
           IN  DOMAIN more = DOMAIN shards \cup {a} /\ InTurn(more)
  <1> DEFINE D == DOMAIN shards
             E == D \cup {a}
             n == Cardinality(D)
             more == With(shards, {a}, LAMBDA b : NextShard(shards))
  <1>1. more = [b \in E |-> IF b = a THEN n % NShards ELSE shards[b]]
    BY DEF With, NextShard
  <1>2. n \in Nat /\ Cardinality(E) = n + 1
    BY FS_AddElement, FS_CardinalityType
  <1>3. PICK num : Numbers(num, D) /\ \A b \in D : shards[b] = num[b] % NShards
    BY DEF InTurn
  <1> DEFINE newNum == [b \in E |-> IF b = a THEN n ELSE num[b]]
  <1>4. a \in E /\ a \notin D /\ \A b \in E : b # a => b \in D
    OBVIOUS
  <1>5. DOMAIN more = E
    BY <1>1
  <1> HIDE DEF D, E, n, more
  <1>6. Numbers(newNum, E)
    <2>1. \A b \in D : num[b] \in 0 .. n - 1
      BY <1>3 DEF Numbers, n
    <2>2. newNum \in [E -> 0 .. Cardinality(E) - 1]
      BY <1>2, <1>4, <2>1
    <2>3. \A b, c \in E : newNum[b] = newNum[c] => b = c
      <3> SUFFICES ASSUME NEW b \in E, NEW c \in E, newNum[b] = newNum[c] PROVE b = c
        OBVIOUS
      <3>1. CASE b # a /\ c # a
        BY <1>3, <1>4, <3>1 DEF Numbers
      <3>2. CASE b = a \/ c = a
        BY <1>2, <1>4, <2>1, <3>2
      <3> QED
        BY <3>1, <3>2
    <2>4. \A k \in 0 .. Cardinality(E) - 1 : \E b \in E : newNum[b] = k
      <3> SUFFICES ASSUME NEW k \in 0 .. Cardinality(E) - 1 PROVE \E b \in E : newNum[b] = k
        OBVIOUS
      <3>1. CASE k = n
        BY <1>4, <3>1
      <3>2. CASE k # n
        <4>1. k \in 0 .. n - 1
          BY <1>2, <3>2
        <4>2. PICK b \in D : num[b] = k
          BY <1>3, <4>1 DEF Numbers, n
        <4>3. b \in E /\ b # a
          BY <1>4 DEF E
        <4> QED
          BY <4>2, <4>3
      <3> QED
        BY <3>1, <3>2
    <2> HIDE DEF newNum
    <2> QED
      BY <2>2, <2>3, <2>4 DEF Numbers
  <1>7. \A b \in E : more[b] = newNum[b] % NShards
    BY <1>1, <1>3, <1>4
  <1> HIDE DEF newNum
  <1> QED
    BY <1>5, <1>6, <1>7 DEF InTurn, D, E, more

LEMMA EstimateIsNumber ==
    ASSUME NEW e, NEW a, NEW t \in Int,
           \A b \in DOMAIN e.rate : e.rate[b] \in Nat,
           \A b \in DOMAIN e.last : e.last[b] \in Int
    PROVE  EstimateAfter(e, a, t) \in Nat
  <1>1. /\ DefaultRate \in Nat /\ PerTick \in Nat /\ Instant \in Nat
        /\ OneOverAlpha \in Nat /\ OneOverAlpha > 1
    BY RatesAssumption
  <1>2. ASSUME NEW gap \in Int PROVE Sample(gap) \in Nat
    BY <1>1 DEF Sample
  <1>3. ASSUME NEW old \in Nat, NEW sample \in Nat
        PROVE  ((OneOverAlpha - 1) * old + sample) \div OneOverAlpha \in Nat
    <2>1. (OneOverAlpha - 1) * old \in Nat
      BY <1>1
    <2>2. (OneOverAlpha - 1) * old + sample \in Nat
      BY <2>1
    <2> QED
      BY <1>1, <2>2, Quotient
  <1> DEFINE old == IF a \in Known(e) THEN e.rate[a] ELSE DefaultRate
  <1>4. old \in Nat
    BY <1>1 DEF Known
  <1>5. CASE a \in DOMAIN e.last
    <2>1. t - e.last[a] \in Int
      BY <1>5
    <2>2. Sample(t - e.last[a]) \in Nat
      BY <1>2, <2>1
    <2> HIDE DEF old
    <2>3. ((OneOverAlpha - 1) * old + Sample(t - e.last[a])) \div OneOverAlpha \in Nat
      BY <1>3, <1>4, <2>2
    <2> QED
      BY <1>5, <2>3 DEF EstimateAfter, old
  <1> QED
    BY <1>4, <1>5 DEF EstimateAfter

LEMMA UpdateFacts ==
    ASSUME NEW e, NEW arrived, NEW t \in Int,
           \A b \in DOMAIN e.rate : e.rate[b] \in Nat,
           \A b \in DOMAIN e.last : e.last[b] \in Int
    PROVE  LET u == update(e, arrived, t)
           IN  /\ DOMAIN u.rate = DOMAIN e.rate \cup arrived
               /\ \A b \in DOMAIN u.rate : u.rate[b] \in Nat
               /\ \A b \in DOMAIN u.last : u.last[b] \in Int
  BY EstimateIsNumber DEF update, With

\* No adapter, no shard dealt.
LEMMA NothingDealt ==
    ASSUME NEW shards, DOMAIN shards = {}
    PROVE  InTurn(shards)
  <1>1. Numbers([a \in {} |-> 0], {})
    <2>1. 0 .. Cardinality({}) - 1 = {}
      <3>1. Cardinality({}) = 0
        BY FS_EmptySet
      <3> QED
        BY <3>1
    <2> QED
      BY <2>1 DEF Numbers
  <1> QED
    BY <1>1 DEF InTurn

LEMMA EmptyRouter == NoRouter => RouterInv
  <1> SUFFICES ASSUME NoRouter PROVE RouterInv
    OBVIOUS
  <1>1. now = 0 /\ est = NewEstimator /\ assignment = NoKeys /\ rebalances = 0
    BY DEF NoRouter
  <1>2. DOMAIN NoKeys = {} /\ est.rate = NoKeys /\ est.last = NoKeys
    BY <1>1 DEF NoKeys, NewEstimator
  <1> QED
    BY <1>1, <1>2, NothingDealt DEF RouterInv

LEMMA ConstructKeeps ==
    ASSUME NEW first \in InitialRates, Construct(first)
    PROVE  RouterInv'
  <1>1. PICK set \in SUBSET Unlisted : first \in [Adapters \ set -> FirstRates]
    BY DEF InitialRates
  <1>2. DOMAIN first \subseteq Adapters /\ \A a \in DOMAIN first : first[a] \in Nat
    <2>1. DOMAIN first = Adapters \ set /\ \A a \in DOMAIN first : first[a] \in FirstRates
      BY <1>1
    <2>2. \A r \in FirstRates : r \in Nat
      BY RouterAssumption
    <2> QED
      BY <2>1, <2>2
  <1>3. /\ now' = 0 /\ rebalances' \in Nat
        /\ assignment' = RoundRobin(first) /\ est'.rate = first /\ est'.last = NoKeys
    BY DEF Construct, NewEstimator
  <1>4. DOMAIN NoKeys = {}
    BY DEF NoKeys
  <1>5. DOMAIN assignment' = DOMAIN first /\ InTurn(assignment')
    BY <1>2, <1>3, RefreshDeals
  <1> QED
    BY <1>2, <1>3, <1>4, <1>5 DEF RouterInv, InTurn

LEMMA RouteKeeps ==
    ASSUME RouterInv, NEW a \in Adapters, NEW t \in now .. MaxTime, route(a, t)
    PROVE  RouterInv'
  <1>1. t \in Nat
    BY RouterAssumption DEF RouterInv
  <1>2. now' = t /\ est' = update(est, {a}, t) /\ rebalances' \in Nat
    BY DEF route, RouterInv
  <1>3. /\ DOMAIN est'.rate = DOMAIN est.rate \cup {a}
        /\ \A b \in DOMAIN est'.rate : est'.rate[b] \in Nat
        /\ \A b \in DOMAIN est'.last : est'.last[b] \in Int
    BY <1>1, <1>2, UpdateFacts DEF RouterInv
  <1>4. DOMAIN est'.rate \subseteq Adapters
    BY <1>3 DEF RouterInv
  <1> DEFINE assigned == IF IsDue(t) THEN RoundRobin(est'.rate) ELSE assignment
  <1>5. /\ InTurn(assigned) /\ DOMAIN assigned \subseteq Adapters
        /\ DOMAIN assigned \cup {a} = DOMAIN est'.rate
    <2>1. CASE IsDue(t)
      <3>1. assigned = RoundRobin(est'.rate)
        BY <2>1
      <3> HIDE DEF assigned
      <3>2. DOMAIN assigned = DOMAIN est'.rate /\ InTurn(assigned)
        BY <1>3, <1>4, <3>1, RefreshDeals
      <3> QED
        BY <1>3, <1>4, <3>2
    <2>2. CASE ~IsDue(t)
      <3>1. assigned = assignment
        BY <2>2
      <3> HIDE DEF assigned
      <3> QED
        BY <1>3, <3>1 DEF RouterInv
    <2> QED
      BY <2>1, <2>2
  <1>6. assignment' = IF a \in DOMAIN assigned THEN assigned
                      ELSE With(assigned, {a}, LAMBDA b : NextShard(assigned))
    BY DEF route
  <1> HIDE DEF assigned
  <1>7. DOMAIN assignment' = DOMAIN est'.rate /\ InTurn(assignment')
    <2>1. CASE a \in DOMAIN assigned
      BY <1>5, <1>6, <2>1
    <2>2. CASE a \notin DOMAIN assigned
      <3>1. IsFiniteSet(DOMAIN assigned)
        BY <1>5, RouterAssumption, FS_Subset
      <3> QED
        BY <1>5, <1>6, <2>2, <3>1, NewcomerIsNext
    <2> QED
      BY <2>1, <2>2
  <1> QED
    BY <1>1, <1>2, <1>3, <1>4, <1>7 DEF RouterInv, InTurn

LEMMA RouterUnchanged == RouterInv /\ UNCHANGED routerVars => RouterInv'
  BY DEF RouterInv, routerVars

LEMMA SharedBecauseInTurn == RouterInv => AdaptersShared
  <1> SUFFICES ASSUME RouterInv PROVE AdaptersShared
    OBVIOUS
  <1> DEFINE D == DOMAIN assignment
  <1>1. D = Known(est) /\ IsFiniteSet(D)
    BY RouterAssumption, FS_Subset DEF RouterInv, Known
  <1>2. PICK num : Numbers(num, D) /\ \A a \in D : assignment[a] = num[a] % NShards
    BY DEF RouterInv, InTurn
  <1>3. \A s \in Shards : HeldBy(s) = {a \in D : num[a] % NShards = s}
    BY <1>2 DEF HeldBy
  <1> HIDE DEF D
  <1>4. \A s, u \in Shards : Cardinality(HeldBy(s)) <= Cardinality(HeldBy(u)) + 1
    <2> SUFFICES ASSUME NEW s \in Shards, NEW u \in Shards
                 PROVE  Cardinality(HeldBy(s)) <= Cardinality(HeldBy(u)) + 1
      OBVIOUS
    <2>1. s \in 0 .. NShards - 1 /\ u \in 0 .. NShards - 1 /\ NShards \in Nat \ {0}
      BY RouterAssumption DEF Shards
    <2> QED
      BY <1>1, <1>2, <1>3, <2>1, DealtEvenly
  <1> QED
    BY <1>1, <1>4 DEF AdaptersShared, D

\* What TrafficShared says of a step.
SharesTraffic ==
    rebalances' > rebalances =>
        \A s, u \in Shards : \E a \in DOMAIN est'.rate :
            LoadOf(assignment', est'.rate, s) <= LoadOf(assignment', est'.rate, u) + est'.rate[a]

\* The first assignment of a router that was given rates shares their traffic.
LEMMA ConstructShares ==
    ASSUME RouterInv, NEW first \in InitialRates, Construct(first)
    PROVE  SharesTraffic
  <1> SUFFICES ASSUME rebalances' > rebalances, NEW s \in Shards, NEW u \in Shards
               PROVE  \E a \in DOMAIN est'.rate :
                        LoadOf(assignment', est'.rate, s)
                            <= LoadOf(assignment', est'.rate, u) + est'.rate[a]
    BY DEF SharesTraffic
  <1>1. est'.rate = first /\ assignment' = RoundRobin(first) /\ first # NoKeys
    BY DEF Construct, NewEstimator, RouterInv
  <1>2. RouterInv'
    BY ConstructKeeps
  <1>3. DOMAIN first \subseteq Adapters /\ \A a \in DOMAIN first : first[a] \in Nat
    BY <1>1, <1>2 DEF RouterInv
  <1>4. DOMAIN first # {}
    <2>1. PICK set \in SUBSET Unlisted : first \in [Adapters \ set -> FirstRates]
      BY DEF InitialRates
    <2>2. first = [a \in DOMAIN first |-> first[a]]
      BY <2>1
    <2> QED
      BY <1>1, <2>2 DEF NoKeys
  <1> QED
    BY <1>1, <1>3, <1>4, RefreshShares

\* So does a refresh, which counts the arrival first.
LEMMA RouteShares ==
    ASSUME RouterInv, NEW a \in Adapters, NEW t \in now .. MaxTime, route(a, t)
    PROVE  SharesTraffic
  <1> SUFFICES ASSUME rebalances' > rebalances, NEW s \in Shards, NEW u \in Shards
               PROVE  \E b \in DOMAIN est'.rate :
                        LoadOf(assignment', est'.rate, s)
                            <= LoadOf(assignment', est'.rate, u) + est'.rate[b]
    BY DEF SharesTraffic
  <1>1. IsDue(t)
    BY DEF route, RouterInv
  <1>2. RouterInv'
    BY RouteKeeps
  <1>3. a \in DOMAIN est'.rate
    BY DEF route, update, With
  <1>4. assignment' = RoundRobin(est'.rate)
    <2>1. DOMAIN RoundRobin(est'.rate) = DOMAIN est'.rate
      BY DEF RoundRobin
    <2> QED
      BY <1>1, <1>3, <2>1 DEF route
  <1>5. DOMAIN est'.rate \subseteq Adapters /\ \A b \in DOMAIN est'.rate : est'.rate[b] \in Nat
    BY <1>2 DEF RouterInv
  <1> QED
    BY <1>3, <1>4, <1>5, RefreshShares

LEMMA NoRefresh ==
    ASSUME RouterInv, rebalances' = rebalances \/ rebalances' = 0
    PROVE  SharesTraffic
  BY DEF RouterInv, SharesTraffic

\* Of the router alone, whatever it is asked to route and when: every adapter with
\* an estimate has its shard, and no shard has two adapters more than another,
\* through refreshes and late arrivals.
THEOREM SharedEvenly == RouterSpec => []AdaptersShared
  <1>1. NoRouter => RouterInv
    BY EmptyRouter
  <1>2. RouterInv /\ [RouterNext]_routerVars => RouterInv'
    BY ConstructKeeps, RouteKeeps, RouterUnchanged DEF RouterNext
  <1> QED
    BY <1>1, <1>2, SharedBecauseInTurn, PTL DEF RouterSpec

\* And after every refresh no shard expects more traffic than another by more than
\* the rate of one adapter.
THEOREM RefreshedByTraffic == RouterSpec => TrafficShared
  <1>1. NoRouter => RouterInv
    BY EmptyRouter
  <1>2. RouterInv /\ [RouterNext]_routerVars => RouterInv'
    BY ConstructKeeps, RouteKeeps, RouterUnchanged DEF RouterNext
  <1>3. RouterInv /\ [RouterNext]_routerVars => [SharesTraffic]_routerVars
    BY ConstructShares, RouteShares DEF RouterNext
  <1>4. TrafficShared <=> [][SharesTraffic]_routerVars
    BY DEF TrafficShared, SharesTraffic
  <1> QED
    BY <1>1, <1>2, <1>3, <1>4, PTL DEF RouterSpec

LEMMA RunnerKeepsShares == RouterInv /\ [Next]_runnerVars => RouterInv'
  <1> SUFFICES ASSUME RouterInv, [Next]_runnerVars PROVE RouterInv'
    OBVIOUS
  <1>1. CASE ServersStep
    <2>1. CASE \E first \in InitialRates : Construct(first)
      BY <2>1, ConstructKeeps
    <2>2. CASE UNCHANGED routerVars
      BY <2>2, RouterUnchanged
    <2> QED
      BY <1>1, <2>1, <2>2 DEF ServersStep
  <1>2. ASSUME NEW a \in Adapters, NEW t \in now .. MaxTime, Send(a, t)
        PROVE  RouterInv'
    BY <1>2, RouteKeeps DEF Send
  <1>3. ASSUME NEW a \in Adapters, NEW s \in Shards, Complete(a, s)
        PROVE  RouterInv'
    BY <1>3, RouterUnchanged DEF Complete
  <1>4. CASE EndRun
    <2>1. now' = 0 /\ est' = NewEstimator /\ assignment' = NoKeys /\ rebalances' = 0
      BY <1>4 DEF EndRun
    <2>2. DOMAIN NoKeys = {} /\ est'.rate = NoKeys /\ est'.last = NoKeys
      BY <2>1 DEF NoKeys, NewEstimator
    <2>3. InTurn(assignment')
      BY <2>1, <2>2, NothingDealt
    <2> QED
      BY <2>1, <2>2, <2>3 DEF RouterInv, InTurn
  <1>5. CASE UNCHANGED runnerVars
    BY <1>5, RouterUnchanged DEF runnerVars
  <1> QED
    BY <1>1, <1>2, <1>3, <1>4, <1>5 DEF Next

\* In the benchmark too, whose router lives from the servers' start to the end of
\* the trace: the shares of the shards differ by one adapter at most.
THEOREM RunnerSharesEvenly == Spec => []AdaptersShared
  <1>1. Init => RouterInv
    BY EmptyRouter DEF Init
  <1> QED
    BY <1>1, RunnerKeepsShares, SharedBecauseInTurn, PTL DEF Spec

LEMMA RunnerSharesTraffic == RouterInv /\ [Next]_runnerVars => [SharesTraffic]_routerVars
  <1> SUFFICES ASSUME RouterInv, [Next]_runnerVars, routerVars' # routerVars
               PROVE  SharesTraffic
    OBVIOUS
  <1>1. CASE ServersStep
    <2>1. CASE \E first \in InitialRates : Construct(first)
      BY <2>1, ConstructShares
    <2> QED
      BY <1>1, <2>1 DEF ServersStep
  <1>2. ASSUME NEW a \in Adapters, NEW t \in now .. MaxTime, Send(a, t)
        PROVE  SharesTraffic
    BY <1>2, RouteShares DEF Send
  <1>3. ASSUME NEW a \in Adapters, NEW s \in Shards, Complete(a, s)
        PROVE  SharesTraffic
    BY <1>3 DEF Complete
  <1>4. CASE EndRun
    BY <1>4, NoRefresh DEF EndRun
  <1>5. CASE UNCHANGED runnerVars
    BY <1>5 DEF runnerVars
  <1> QED
    BY <1>1, <1>2, <1>3, <1>4, <1>5 DEF Next

\* In the benchmark too: the refreshes while the trace is sent, and the first
\* assignment of every router, share the traffic expected.
THEOREM RunnerRefreshesByTraffic == Spec => TrafficShared
  <1>1. Init => RouterInv
    BY EmptyRouter DEF Init
  <1>2. TrafficShared <=> [][SharesTraffic]_routerVars
    BY DEF TrafficShared, SharesTraffic
  <1> QED
    BY <1>1, <1>2, RunnerKeepsShares, RunnerSharesTraffic, PTL DEF Spec

=============================================================================
