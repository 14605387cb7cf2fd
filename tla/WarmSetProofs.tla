----------------------------- MODULE WarmSetProofs -----------------------------
(***************************************************************************)
(* Theorems about WarmSet, for every set of adapters, every number of warm *)
(* slots, policy and deferral window, and every bound on the ticks.        *)
(***************************************************************************)
EXTENDS WarmSet, SequenceLemmas, WellFoundedInduction

\* The estimator's dictionaries hold natural numbers.
RatesInv ==
    /\ now \in Nat
    /\ \A a \in DOMAIN est.rate : est.rate[a] \in Nat
    /\ \A a \in DOMAIN est.last : est.last[a] \in Nat

\* The cache, and what its counters say of it.
CacheInv ==
    /\ policy \in {"lru", "topk", "predictive"}
    /\ warm \in Seq(Adapters)
    /\ requests \in Nat /\ hits \in Nat /\ misses \in Nat /\ evictions \in Nat
    /\ toReport \subseteq Adapters
    /\ WithinSlots

\* The order of the requests names each adapter once.
UsedInv ==
    /\ used \in Seq(Adapters) /\ IsInjective(used)
    /\ LruKeepsLatest

\* While a tick is under way a warm adapter with a stamp has tokens in the
\* buffer, so that the scoring at the end of the tick takes the stamp away.
StampInv ==
    /\ deferral = 0 => DOMAIN firstCold = {}
    /\ toReport \subseteq pending
    /\ \A a \in IsWarm \cap DOMAIN firstCold : inTick /\ a \in pending

\* The stamps are the starts of the cold spells: what the scoring does not clear
\* is not warm.  A stamp is older than a tick that is under way.
DeferralInv ==
    /\ deferral \in Nat
    /\ \A a \in DOMAIN firstCold :
            /\ firstCold[a] \in Nat /\ firstCold[a] <= now
            /\ inTick => firstCold[a] < now
    /\ deferral > 0 => coldFrom = firstCold
    /\ PenaltyFollowsWindow

Inv == RatesInv /\ CacheInv /\ UsedInv /\ StampInv /\ DeferralInv

-----------------------------------------------------------------------------
(***************************************************************************)
(* The eviction choice: what it removes is warm.                           *)
(***************************************************************************)

LEMMA LeastNat ==
    ASSUME NEW S, S \subseteq Nat, S # {}
    PROVE  \E m \in S : \A n \in S : m <= n
  <1> DEFINE less == {p \in Nat \X Nat : p[1] < p[2]}
  <1>1. IsWellFoundedOn(less, Nat)
    BY NatLessThanWellFounded DEF OpToRel
  <1>2. PICK m \in S : \A n \in S : <<n, m>> \notin less
    <2> HIDE DEF less
    <2> QED
      BY <1>1, WFMin
  <1>3. ASSUME NEW n \in S PROVE m <= n
    <2>1. <<n, m>> \in Nat \X Nat /\ <<n, m>>[1] = n /\ <<n, m>>[2] = m
      OBVIOUS
    <2>2. ~ (n < m)
      BY <1>2, <2>1
    <2> QED
      BY <2>2
  <1> QED
    BY <1>3

LEMMA DivIsNat == ASSUME NEW x \in Nat, NEW k \in Nat \ {0} PROVE x \div k \in Nat
  OBVIOUS

\* EstimateAfter keeps the rates natural numbers.
LEMMA EstimateIsNat ==
    ASSUME RatesInv, NEW a, NEW t \in Nat
    PROVE  EstimateAfter(est, a, t) \in Nat
  <1> DEFINE old == IF a \in Known(est) THEN est.rate[a] ELSE DefaultRate
  <1>1. old \in Nat
    BY RatesAssumption DEF RatesInv, Known
  <1>2. ASSUME a \in DOMAIN est.last PROVE Sample(t - est.last[a]) \in Nat
    <2>1. t - est.last[a] \in Int
      BY <1>2 DEF RatesInv
    <2>2. ASSUME NEW gap \in Nat, gap > 0 PROVE PerTick \div gap \in Nat
      BY <2>2, RatesAssumption, DivIsNat
    <2> QED
      BY <2>1, <2>2, RatesAssumption DEF Sample
  <1>3. ASSUME a \in DOMAIN est.last
        PROVE  (OneOverAlpha - 1) * old + Sample(t - est.last[a]) \in Nat
    <2> HIDE DEF old
    <2>1. OneOverAlpha - 1 \in Nat
      BY RatesAssumption
    <2>2. (OneOverAlpha - 1) * old \in Nat
      BY <1>1, <2>1
    <2> QED
      BY <1>2, <1>3, <2>2
  <1>4. ASSUME a \in DOMAIN est.last
        PROVE  ((OneOverAlpha - 1) * old + Sample(t - est.last[a])) \div OneOverAlpha \in Nat
    <2> HIDE DEF old
    <2> QED
      BY <1>3, <1>4, DivIsNat, RatesAssumption
  <1> QED
    BY <1>1, <1>4 DEF EstimateAfter

LEMMA UpdateKeepsRates ==
    ASSUME RatesInv, NEW arrivals, now' = now + 1, est' = update(est, arrivals, now + 1)
    PROVE  RatesInv'
  <1>1. now + 1 \in Nat
    BY DEF RatesInv
  <1>2. /\ est'.rate = [a \in DOMAIN est.rate \cup arrivals |->
                IF a \in arrivals THEN EstimateAfter(est, a, now + 1) ELSE est.rate[a]]
        /\ est'.last = [a \in DOMAIN est.last \cup arrivals |->
                IF a \in arrivals THEN now + 1 ELSE est.last[a]]
    BY DEF update, With
  <1> QED
    BY <1>1, <1>2, EstimateIsNat DEF RatesInv

LEMMA ScoreIsNat ==
    ASSUME RatesInv
    PROVE  \A a : RateOf(a) \in Nat /\ Score(a) \in Nat
  BY WarmSetAssumption DEF RatesInv, RateOf, Score, Known

\* A non-empty set has an element with the least value of a key.
LEMMA TargetIsWarm ==
    ASSUME RatesInv, CacheInv, warm # <<>>
    PROVE  get_eviction_target \in ToSet(warm)
  <1> DEFINE scores == {Score(a) : a \in ToSet(warm)}
  <1>1. ToSet(warm) \subseteq Nat /\ ToSet(warm) # {}
    <2>1. warm \in Seq(Adapters) /\ Adapters \subseteq Nat
      BY WarmSetAssumption DEF CacheInv
    <2>2. \A i \in DOMAIN warm : warm[i] \in Adapters
      BY <2>1
    <2>3. 1 \in DOMAIN warm
      BY <2>1
    <2> QED
      BY <2>1, <2>2, <2>3 DEF ToSet
  <1>2. scores \subseteq Nat /\ scores # {}
    BY <1>1, ScoreIsNat
  <1>3. PICK least \in scores : \A n \in scores : least <= n
    <2> HIDE DEF scores
    <2> QED
      BY <1>2, LeastNat
  <1> DEFINE lowest == {a \in ToSet(warm) : Score(a) = least}
  <1>4. lowest \subseteq Nat /\ lowest # {}
    BY <1>1, <1>3
  <1>5. PICK a \in lowest : \A b \in lowest : a <= b
    <2> HIDE DEF lowest
    <2> QED
      BY <1>4, LeastNat
  <1>6. ASSUME NEW b \in ToSet(warm)
        PROVE  Score(a) < Score(b) \/ (Score(a) = Score(b) /\ a <= b)
    <2>1. Score(a) = least /\ least <= Score(b) /\ least \in Nat /\ Score(b) \in Nat
      BY <1>3, <1>5, ScoreIsNat
    <2>2. Score(b) = least => a <= b
      BY <1>5
    <2> QED
      BY <2>1, <2>2
  <1> QED
    BY <1>5, <1>6 DEF get_eviction_target

LEMMA LowestIsWarm ==
    ASSUME RatesInv, CacheInv, warm # <<>>
    PROVE  LowestRate \in ToSet(warm)
  <1> DEFINE rates == {RateOf(warm[i]) : i \in DOMAIN warm}
             lowest == {i \in DOMAIN warm :
                            \A j \in DOMAIN warm : RateOf(warm[i]) <= RateOf(warm[j])}
  <1>1. DOMAIN warm \subseteq Nat /\ DOMAIN warm # {}
    BY DEF CacheInv
  <1>2. rates \subseteq Nat /\ rates # {}
    BY <1>1, ScoreIsNat
  <1>3. PICK least \in rates : \A n \in rates : least <= n
    <2> HIDE DEF rates
    <2> QED
      BY <1>2, LeastNat
  <1>4. lowest \subseteq Nat /\ lowest # {}
    BY <1>1, <1>3
  <1>5. \E i \in lowest : \A j \in lowest : i <= j
    <2> HIDE DEF lowest
    <2> QED
      BY <1>4, LeastNat
  <1>6. (CHOOSE i \in lowest : \A j \in lowest : i <= j) \in lowest
    <2> HIDE DEF lowest
    <2> QED
      BY <1>5
  <1>7. \A i \in lowest : warm[i] \in ToSet(warm)
    BY DEF ToSet
  <1> QED
    BY <1>6, <1>7 DEF LowestRate

\* Whatever the policy, what a full cache evicts is in it.
LEMMA EvictsWarm ==
    ASSUME RatesInv, CacheInv, warm # <<>>
    PROVE  choose_eviction \in ToSet(warm)
  <1>1. Head(warm) \in ToSet(warm)
    BY DEF CacheInv, ToSet
  <1>2. choose_eviction \in {Head(warm), LowestRate, get_eviction_target}
    BY DEF choose_eviction, CacheInv
  <1> QED
    BY <1>1, <1>2, LowestIsWarm, TargetIsWarm

LEMMA PlaceIsThere ==
    ASSUME NEW a \in ToSet(warm)
    PROVE  Place(a) \in DOMAIN warm /\ warm[Place(a)] = a
  BY DEF Place, ToSet

-----------------------------------------------------------------------------
(***************************************************************************)
(* The cache after a request.                                              *)
(***************************************************************************)

\* What a request adds to the warm adapters is the requested one.
LEMMA RequestKeepsCache ==
    ASSUME RatesInv, CacheInv, NEW a \in Adapters, request(a), policy' = policy,
           toReport' \subseteq Adapters
    PROVE  /\ CacheInv'
           /\ ToSet(warm') \subseteq ToSet(warm) \cup {a}
  <1>1. /\ warm \in Seq(Adapters) /\ Len(warm) \in Nat /\ IsInjective(warm)
        /\ Len(warm) <= KWarm /\ KWarm \in Nat \ {0}
    BY WarmSetAssumption DEF CacheInv, WithinSlots
  <1>2. CASE a \in ToSet(warm)
    <2>1. Place(a) \in DOMAIN warm /\ warm[Place(a)] = a
      BY <1>2, PlaceIsThere
    <2>2. warm' = Append(RemoveAt(warm, Place(a)), warm[Place(a)])
      BY <1>2, <2>1 DEF request, Touched
    <2>3. /\ warm' \in Seq(Adapters) /\ Len(warm') = Len(warm)
          /\ ToSet(warm') = ToSet(warm) /\ IsInjective(warm')
      BY <1>1, <2>1, <2>2, MoveToEndOnce
    <2>4. requests' = requests + 1 /\ hits' = hits + 1 /\ UNCHANGED <<misses, evictions>>
      BY <1>2 DEF request
    <2> QED
      BY <1>1, <2>3, <2>4 DEF CacheInv, WithinSlots
  <1>3. CASE a \notin ToSet(warm) /\ ~IsFull
    <2>1. warm' = Append(warm, a) /\ UNCHANGED <<hits, evictions>>
          /\ requests' = requests + 1 /\ misses' = misses + 1
      BY <1>3 DEF request, load
    <2>2. /\ warm' \in Seq(Adapters) /\ Len(warm') = Len(warm) + 1
          /\ ToSet(warm') = ToSet(warm) \cup {a} /\ IsInjective(warm')
      BY <1>1, <1>3, <2>1, AppendOnce
    <2>3. Len(warm) < KWarm
      BY <1>1, <1>3 DEF IsFull
    <2> QED
      BY <1>1, <2>1, <2>2, <2>3 DEF CacheInv, WithinSlots
  <1>4. CASE a \notin ToSet(warm) /\ IsFull
    <2> DEFINE i == Place(choose_eviction)
               left == RemoveAt(warm, i)
    <2>1. Len(warm) = KWarm /\ warm # <<>>
      BY <1>1, <1>4 DEF IsFull
    <2>2. i \in DOMAIN warm
      BY <2>1, EvictsWarm, PlaceIsThere
    <2>3. warm' = Append(left, a) /\ evictions' = evictions + 1 /\ UNCHANGED hits
          /\ requests' = requests + 1 /\ misses' = misses + 1
      BY <1>4 DEF request, load
    <2>4. /\ left \in Seq(Adapters) /\ Len(left) = Len(warm) - 1
          /\ ToSet(left) \subseteq ToSet(warm) /\ IsInjective(left)
      <3> HIDE DEF i
      <3> QED
        BY <1>1, <2>2, RemoveOnce
    <2> HIDE DEF left
    <2>5. /\ warm' \in Seq(Adapters) /\ Len(warm') = Len(warm)
          /\ ToSet(warm') \subseteq ToSet(warm) \cup {a} /\ IsInjective(warm')
      <3>1. a \notin ToSet(left)
        BY <1>4, <2>4
      <3> QED
        BY <1>1, <2>3, <2>4, <3>1, AppendOnce
    <2> QED
      BY <1>1, <2>3, <2>5 DEF CacheInv, WithinSlots
  <1> QED
    BY <1>2, <1>3, <1>4

-----------------------------------------------------------------------------
(***************************************************************************)
(* The least recently used adapter.                                        *)
(***************************************************************************)

\* Where the latest KWarm requests begin.
First(n) == IF n > KWarm THEN n - KWarm + 1 ELSE 1

\* The latest entries of a sequence, one by one.
LEMMA LatestEntries ==
    ASSUME NEW q \in Seq(Adapters)
    PROVE  LET p == SubSeq(q, First(Len(q)), Len(q)) IN
           /\ p \in Seq(Adapters)
           /\ Len(p) = IF Len(q) > KWarm THEN KWarm ELSE Len(q)
           /\ \A j \in 1 .. Len(p) : p[j] = q[First(Len(q)) - 1 + j]
  <1> DEFINE p == SubSeq(q, First(Len(q)), Len(q))
  <1>1. Len(q) \in Nat /\ KWarm \in Nat \ {0} /\ First(Len(q)) \in 1 .. Len(q) + 1
    BY WarmSetAssumption DEF First
  <1>2. \A i \in First(Len(q)) .. Len(q) : q[i] \in Adapters
    BY <1>1
  <1>3. /\ p \in Seq(Adapters)
        /\ Len(p) = IF First(Len(q)) <= Len(q) THEN Len(q) - First(Len(q)) + 1 ELSE 0
        /\ \A j \in 1 .. Len(q) - First(Len(q)) + 1 : p[j] = q[First(Len(q)) + j - 1]
    BY <1>1, <1>2, SubSeqProperties
  <1> HIDE DEF p
  <1>4. Len(p) = IF Len(q) > KWarm THEN KWarm ELSE Len(q)
    <2>1. CASE Len(q) > KWarm
      <3>1. First(Len(q)) = Len(q) - KWarm + 1
        BY <2>1 DEF First
      <3>2. First(Len(q)) <= Len(q) /\ Len(q) - First(Len(q)) + 1 = KWarm
        BY <1>1, <3>1
      <3> QED
        BY <1>3, <2>1, <3>2
    <2>2. CASE ~ (Len(q) > KWarm)
      <3>1. First(Len(q)) = 1
        BY <2>2 DEF First
      <3>2. Len(p) = IF 1 <= Len(q) THEN Len(q) - 1 + 1 ELSE 0
        BY <1>3, <3>1
      <3>3. Len(p) = Len(q)
        BY <1>1, <3>2
      <3> QED
        BY <2>2, <3>3
    <2> QED
      BY <2>1, <2>2
  <1>5. \A j \in 1 .. Len(p) : p[j] = q[First(Len(q)) - 1 + j]
    <2>1. Len(p) <= Len(q) - First(Len(q)) + 1
      BY <1>1, <1>4 DEF First
    <2>2. ASSUME NEW j \in 1 .. Len(p) PROVE p[j] = q[First(Len(q)) - 1 + j]
      <3>1. j \in 1 .. Len(q) - First(Len(q)) + 1
        BY <1>1, <1>4, <2>1
      <3>2. First(Len(q)) + j - 1 = First(Len(q)) - 1 + j
        BY <1>1
      <3> QED
        BY <1>3, <3>1, <3>2
    <2> QED
      BY <2>2
  <1> QED
    BY <1>3, <1>4, <1>5 DEF p

\* LatestOf: the order of the requests with a new one.
LEMMA LatestOnce ==
    ASSUME NEW q \in Seq(Adapters), IsInjective(q), NEW a \in Adapters
    PROVE  LatestOf(q, a) \in Seq(Adapters) /\ IsInjective(LatestOf(q, a))
  <1>1. CASE a \in ToSet(q)
    <2> DEFINE i == CHOOSE i \in DOMAIN q : q[i] = a
    <2>1. i \in DOMAIN q /\ q[i] = a
      BY <1>1 DEF ToSet
    <2>2. LatestOf(q, a) = Append(RemoveAt(q, i), q[i])
      BY <1>1, <2>1 DEF LatestOf
    <2> HIDE DEF i
    <2> QED
      BY <2>1, <2>2, MoveToEndOnce
  <1>2. CASE a \notin ToSet(q)
    BY <1>2, AppendOnce DEF LatestOf
  <1> QED
    BY <1>1, <1>2

\* A request keeps the warm adapters the latest requested, under lru.
LEMMA RequestKeepsLatest ==
    ASSUME CacheInv, UsedInv, NEW a \in Adapters, request(a), policy' = policy
    PROVE  UsedInv'
  <1>1. used' = LatestOf(used, a) /\ used' \in Seq(Adapters) /\ IsInjective(used')
    BY LatestOnce DEF UsedInv, request
  <1>2. SUFFICES ASSUME policy = "lru"
                 PROVE  warm' = SubSeq(used', First(Len(used')), Len(used'))
    BY <1>1 DEF UsedInv, LruKeepsLatest, First
  <1> DEFINE n == Len(used)
             k == First(n)
             later == SubSeq(used', First(Len(used')), Len(used'))
  <1>3. /\ used \in Seq(Adapters) /\ IsInjective(used) /\ n \in Nat /\ KWarm \in Nat \ {0}
        /\ DOMAIN used = 1 .. n /\ DOMAIN used' = 1 .. Len(used') /\ Len(used') \in Nat
    BY <1>1, WarmSetAssumption DEF UsedInv
  <1>4. /\ warm \in Seq(Adapters) /\ IsInjective(warm) /\ DOMAIN warm = 1 .. Len(warm)
        /\ Len(warm) = IF n > KWarm THEN KWarm ELSE n
        /\ \A j \in 1 .. Len(warm) : warm[j] = used[k - 1 + j]
    <2>1. warm = SubSeq(used, k, n)
      BY <1>2 DEF UsedInv, LruKeepsLatest, First
    <2>2. warm \in Seq(Adapters) /\ IsInjective(warm)
      BY DEF CacheInv, WithinSlots
    <2> QED
      BY <1>3, <2>1, <2>2, LatestEntries
  <1>5. /\ later \in Seq(Adapters)
        /\ Len(later) = IF Len(used') > KWarm THEN KWarm ELSE Len(used')
        /\ \A j \in 1 .. Len(later) : later[j] = used'[First(Len(used')) - 1 + j]
    BY <1>1, LatestEntries
  <1>6. /\ k \in 1 .. n + 1 /\ k - 1 + Len(warm) = n
        /\ n \in Nat /\ Len(warm) \in Nat
        /\ DOMAIN used = 1 .. n /\ DOMAIN warm = 1 .. Len(warm)
    <2>1. CASE n > KWarm
      BY <1>3, <1>4, <2>1 DEF First
    <2>2. CASE ~ (n > KWarm)
      BY <1>3, <1>4, <2>2 DEF First
    <2>3. Len(warm) \in Nat
      BY <1>4
    <2> QED
      BY <1>3, <1>4, <2>1, <2>2, <2>3
  <1> HIDE DEF later, n, k
  \* What the cache holds after a hit, and after a load with and without room.
  <1>7. ASSUME NEW p \in 1 .. Len(warm), warm[p] = a
        PROVE  /\ warm' \in Seq(Adapters) /\ Len(warm') = Len(warm)
               /\ warm'[Len(warm)] = a
               /\ \A j \in 1 .. Len(warm) - 1 :
                    warm'[j] = IF j < p THEN warm[j] ELSE warm[j + 1]
    <2>1. a \in ToSet(warm)
      BY <1>4, <1>7 DEF ToSet
    <2>2. Place(a) = p
      BY <1>4, <1>7, <2>1, PlaceIsThere DEF IsInjective
    <2>3. warm' = Append(RemoveAt(warm, p), a)
      BY <2>1, <2>2 DEF request, Touched
    <2>4. /\ RemoveAt(warm, p) \in Seq(Adapters) /\ Len(RemoveAt(warm, p)) = Len(warm) - 1
          /\ \A j \in 1 .. Len(warm) - 1 :
                RemoveAt(warm, p)[j] = IF j < p THEN warm[j] ELSE warm[j + 1]
      BY <1>4, RemoveAtFacts
    <2> QED
      BY <1>4, <2>3, <2>4
  <1>8. ASSUME a \notin ToSet(warm)
        PROVE  IF Len(warm) < KWarm THEN warm' = Append(warm, a)
               ELSE /\ warm' \in Seq(Adapters) /\ Len(warm') = Len(warm)
                    /\ warm'[Len(warm)] = a
                    /\ \A j \in 1 .. Len(warm) - 1 : warm'[j] = warm[j + 1]
    <2>1. CASE Len(warm) < KWarm
      <3>1. ~IsFull
        BY <1>3, <1>4, <2>1 DEF IsFull
      <3> QED
        BY <1>8, <2>1, <3>1 DEF request, load
    <2>2. CASE ~ (Len(warm) < KWarm)
      <3>1. IsFull /\ warm # <<>> /\ 1 \in 1 .. Len(warm)
        BY <1>3, <1>4, <2>2 DEF IsFull
      <3>2. choose_eviction = warm[1] /\ warm[1] \in ToSet(warm)
        BY <1>2, <1>4, <3>1 DEF choose_eviction, ToSet
      <3>3. Place(choose_eviction) = 1
        BY <1>4, <3>1, <3>2, PlaceIsThere DEF IsInjective
      <3>4. warm' = Append(RemoveAt(warm, 1), a)
        BY <1>8, <3>1, <3>3 DEF request, load
      <3>5. /\ RemoveAt(warm, 1) \in Seq(Adapters) /\ Len(RemoveAt(warm, 1)) = Len(warm) - 1
            /\ \A j \in 1 .. Len(warm) - 1 :
                    RemoveAt(warm, 1)[j] = IF j < 1 THEN warm[j] ELSE warm[j + 1]
        BY <1>4, <3>1, RemoveAtFacts
      <3>6. /\ RemoveAt(warm, 1) \in Seq(Adapters) /\ Len(RemoveAt(warm, 1)) = Len(warm) - 1
            /\ \A j \in 1 .. Len(warm) - 1 : RemoveAt(warm, 1)[j] = warm[j + 1]
        BY <3>5
      <3> QED
        BY <1>4, <2>2, <3>4, <3>6
    <2> QED
      BY <2>1, <2>2
  \* An adapter asked for the first time.
  <1>9. CASE a \notin ToSet(used)
    <2>1. /\ Len(used') = n + 1 /\ used'[n + 1] = a
          /\ \A j \in 1 .. n : used'[j] = used[j]
      <3>1. used' = Append(used, a)
        BY <1>1, <1>9 DEF LatestOf
      <3> QED
        BY <1>3, <3>1 DEF n
    <2>2. a \notin ToSet(warm)
      <3>1. \A j \in DOMAIN warm : k - 1 + j \in DOMAIN used
        BY <1>6
      <3> SUFFICES ASSUME a \in ToSet(warm) PROVE FALSE
        OBVIOUS
      <3>2. PICK j \in DOMAIN warm : warm[j] = a
        BY DEF ToSet
      <3>3. used[k - 1 + j] = a
        BY <1>4, <3>2
      <3> QED
        BY <1>9, <3>1, <3>2, <3>3 DEF ToSet
    <2>3. CASE n < KWarm
      <3>1. k = 1 /\ First(n + 1) = 1 /\ Len(warm) = n
        BY <1>3, <1>4, <2>3 DEF First, k
      <3>2. warm' = Append(warm, a)
        BY <1>8, <2>2, <2>3, <3>1
      <3>3. /\ warm' \in Seq(Adapters) /\ Len(warm') = n + 1 /\ warm'[n + 1] = a
            /\ \A j \in 1 .. n : warm'[j] = warm[j]
        BY <1>3, <1>4, <3>1, <3>2
      <3>4. Len(later) = n + 1 /\ \A j \in 1 .. n + 1 : later[j] = used'[j]
        <4>1. Len(later) = n + 1
          BY <1>3, <1>5, <2>1, <2>3
        <4>2. ASSUME NEW j \in 1 .. n + 1 PROVE later[j] = used'[j]
          <5>1. later[j] = used'[1 - 1 + j] /\ 1 - 1 + j = j
            BY <1>3, <1>5, <2>1, <3>1, <4>1
          <5> QED
            BY <5>1
        <4> QED
          BY <4>1, <4>2
      <3>5. \A j \in 1 .. n : warm[j] = used[j]
        BY <1>3, <1>4, <3>1
      <3>6. \A j \in 1 .. Len(warm') : warm'[j] = later[j]
        BY <1>3, <2>1, <3>3, <3>4, <3>5
      <3> QED
        BY <1>5, <3>3, <3>4, <3>6, SeqEqual DEF later
    <2>4. CASE ~ (n < KWarm)
      <3>1. Len(warm) = KWarm /\ k - 1 = n - KWarm
        <4>1. Len(warm) = KWarm
          BY <1>3, <1>4, <2>4
        <4> QED
          BY <1>3, <1>6, <4>1
      <3>2. First(n + 1) - 1 = n - KWarm + 1
        BY <1>3, <2>4 DEF First
      <3>3. /\ warm' \in Seq(Adapters) /\ Len(warm') = KWarm /\ warm'[KWarm] = a
            /\ \A j \in 1 .. KWarm - 1 : warm'[j] = warm[j + 1]
        BY <1>3, <1>8, <2>2, <3>1
      <3>4. Len(later) = KWarm /\ \A j \in 1 .. KWarm : later[j] = used'[n - KWarm + 1 + j]
        BY <1>3, <1>5, <2>1, <2>4, <3>2
      <3>5. ASSUME NEW j \in 1 .. KWarm - 1 PROVE warm'[j] = later[j]
        <4>1. warm'[j] = used[n - KWarm + (j + 1)]
          BY <1>3, <1>4, <3>1, <3>3
        <4>2. n - KWarm + 1 + j \in 1 .. n /\ n - KWarm + 1 + j = n - KWarm + (j + 1)
          BY <1>3, <2>4
        <4>3. later[j] = used'[n - KWarm + 1 + j]
          BY <1>3, <3>4
        <4> QED
          BY <2>1, <4>1, <4>2, <4>3
      <3>6. warm'[KWarm] = later[KWarm]
        <4>1. n - KWarm + 1 + KWarm = n + 1
          BY <1>3
        <4> QED
          BY <1>3, <2>1, <3>3, <3>4, <4>1
      <3>7. \A j \in 1 .. KWarm : warm'[j] = later[j]
        <4>1. \A j \in 1 .. KWarm : j = KWarm \/ j \in 1 .. KWarm - 1
          BY <1>3
        <4> QED
          BY <3>5, <3>6, <4>1
      <3> QED
        BY <1>5, <3>3, <3>4, <3>7, SeqEqual DEF later
    <2> QED
      BY <2>3, <2>4
  \* An adapter asked for before.
  <1>10. CASE a \in ToSet(used)
    <2> DEFINE i == CHOOSE i \in DOMAIN used : used[i] = a
    <2>1. i \in 1 .. n /\ used[i] = a
      BY <1>3, <1>10 DEF ToSet, n
    <2>2. used' = Append(RemoveAt(used, i), a)
      BY <1>1, <1>10 DEF LatestOf
    <2> HIDE DEF i
    <2>3. /\ Len(used') = n /\ used'[n] = a
          /\ \A j \in 1 .. n - 1 : used'[j] = IF j < i THEN used[j] ELSE used[j + 1]
      <3>1. /\ RemoveAt(used, i) \in Seq(Adapters) /\ Len(RemoveAt(used, i)) = n - 1
            /\ \A j \in 1 .. n - 1 :
                 RemoveAt(used, i)[j] = IF j < i THEN used[j] ELSE used[j + 1]
        BY <1>3, <2>1, RemoveAtFacts DEF n
      <3> QED
        BY <1>3, <2>2, <3>1
    <2>4. Len(later) = Len(warm) /\ \A j \in 1 .. Len(warm) : later[j] = used'[k - 1 + j]
      BY <1>4, <1>5, <2>3 DEF k
    <2>5. n > 0 /\ Len(warm) > 0
      BY <1>3, <1>4, <2>1
    <2>6. later[Len(warm)] = a
      BY <1>4, <1>6, <2>3, <2>4, <2>5
    <2>7. /\ warm' \in Seq(Adapters) /\ Len(warm') = Len(warm) /\ warm'[Len(warm)] = a
          /\ \A j \in 1 .. Len(warm) - 1 : warm'[j] = used'[k - 1 + j]
      <3>1. CASE i >= k
        <4> DEFINE p == i - k + 1
        <4>1. p \in 1 .. Len(warm) /\ k - 1 + p = i
          BY <1>3, <1>4, <1>6, <2>1, <3>1
        <4>2. warm[p] = a
          BY <1>4, <2>1, <4>1
        <4> HIDE DEF p
        <4>3. /\ warm' \in Seq(Adapters) /\ Len(warm') = Len(warm) /\ warm'[Len(warm)] = a
              /\ \A j \in 1 .. Len(warm) - 1 :
                    warm'[j] = IF j < p THEN warm[j] ELSE warm[j + 1]
          BY <1>7, <4>1, <4>2
        <4>4. ASSUME NEW j \in 1 .. Len(warm) - 1 PROVE warm'[j] = used'[k - 1 + j]
          <5>1. /\ k - 1 + j \in 1 .. n - 1 /\ (k - 1 + j) + 1 = k - 1 + (j + 1)
                /\ j \in 1 .. Len(warm) /\ j + 1 \in 1 .. Len(warm)
                /\ k - 1 + j < i <=> j < p
            BY <1>6, <2>1, <4>1
          <5>2. warm'[j] = IF j < p THEN used[k - 1 + j] ELSE used[k - 1 + (j + 1)]
            BY <1>4, <4>3, <5>1
          <5>3. used'[k - 1 + j] = IF k - 1 + j < i THEN used[k - 1 + j]
                                                    ELSE used[(k - 1 + j) + 1]
            BY <2>3, <5>1
          <5> QED
            BY <5>1, <5>2, <5>3
        <4> QED
          BY <4>3, <4>4
      <3>2. CASE i < k
        <4>1. Len(warm) = KWarm
          BY <1>3, <1>4, <2>1, <3>2 DEF First, k
        <4>2. a \notin ToSet(warm)
          <5>1. \A j \in DOMAIN warm : k - 1 + j \in DOMAIN used /\ k - 1 + j # i
            BY <1>3, <1>4, <1>6, <2>1, <3>2
          <5>2. i \in DOMAIN used
            BY <1>3, <2>1
          <5> QED
            BY <1>3, <1>4, <2>1, <5>1, <5>2 DEF ToSet, IsInjective
        <4>3. /\ warm' \in Seq(Adapters) /\ Len(warm') = Len(warm) /\ warm'[Len(warm)] = a
              /\ \A j \in 1 .. Len(warm) - 1 : warm'[j] = warm[j + 1]
          BY <1>3, <1>8, <4>1, <4>2
        <4>4. ASSUME NEW j \in 1 .. Len(warm) - 1 PROVE warm'[j] = used'[k - 1 + j]
          <5>1. /\ k - 1 + j \in 1 .. n - 1 /\ (k - 1 + j) + 1 = k - 1 + (j + 1)
                /\ j + 1 \in 1 .. Len(warm) /\ ~ (k - 1 + j < i)
            BY <1>6, <2>1, <3>2
          <5> QED
            BY <1>4, <2>3, <4>3, <5>1
        <4> QED
          BY <4>3, <4>4
      <3> QED
        BY <1>3, <1>6, <2>1, <3>1, <3>2
    <2>8. \A j \in 1 .. Len(warm') : warm'[j] = later[j]
      <3>1. \A j \in 1 .. Len(warm) : j = Len(warm) \/ j \in 1 .. Len(warm) - 1
        BY <1>4, <2>5
      <3> QED
        BY <2>4, <2>6, <2>7, <3>1
    <2> QED
      BY <1>5, <2>4, <2>7, <2>8, SeqEqual DEF later
  <1> QED
    BY <1>9, <1>10

-----------------------------------------------------------------------------
(***************************************************************************)
(* The invariant.                                                          *)
(***************************************************************************)

LEMMA Initially == Init => Inv
  <1> SUFFICES ASSUME Init PROVE Inv
    OBVIOUS
  <1>1. RatesInv
    BY DEF Init, RatesInv, NewEstimator, NoKeys
  <1>2. <<>> \in Seq(Adapters) /\ Len(<<>>) = 0 /\ IsInjective(<<>>)
    BY DEF IsInjective
  <1>3. CacheInv
    BY <1>2, WarmSetAssumption DEF Init, CacheInv, WithinSlots
  <1>4. LruKeepsLatest
    <2>1. SubSeq(<<>>, 1, 0) = <<>>
      BY SubSeqEmpty
    <2>2. First(0) = 1
      BY WarmSetAssumption DEF First
    <2> QED
      BY <1>2, <2>1, <2>2 DEF Init, LruKeepsLatest, First
  <1>5. UsedInv
    BY <1>2, <1>4 DEF Init, UsedInv
  <1>6. StampInv
    BY DEF Init, StampInv, NoKeys
  <1>7. DeferralInv
    BY WarmSetAssumption DEF Init, DeferralInv, PenaltyFollowsWindow, NoKeys
  <1> QED
    BY <1>1, <1>3, <1>5, <1>6, <1>7 DEF Inv

\* A tick queues its arrivals and counts them: no stamp and no slot changes.
LEMMA StartKeeps ==
    ASSUME Inv, NEW arrivals \in SUBSET Adapters, StartTick(arrivals)
    PROVE  Inv'
  <1> USE DEF StartTick, settings, cacheVars, scoreVars
  <1>1. RatesInv'
    BY UpdateKeepsRates DEF Inv
  <1>2. CacheInv' /\ UsedInv'
    BY DEF Inv, CacheInv, UsedInv, WithinSlots, LruKeepsLatest
  <1>3. StampInv'
    BY DEF Inv, StampInv, IsWarm
  <1>4. DeferralInv'
    BY DEF Inv, RatesInv, DeferralInv, PenaltyFollowsWindow
  <1> QED
    BY <1>1, <1>2, <1>3, <1>4 DEF Inv

\* A reported adapter becomes warm while it has tokens in the buffer.
LEMMA ReportKeeps ==
    ASSUME Inv, NEW a \in Adapters, Report(a)
    PROVE  Inv'
  <1> USE DEF Report, settings, scoreVars
  <1>1. /\ RatesInv /\ CacheInv /\ UsedInv /\ StampInv /\ DeferralInv
        /\ request(a) /\ policy' = policy /\ toReport' \subseteq Adapters
    BY DEF Inv, CacheInv
  <1>2. RatesInv'
    BY <1>1 DEF RatesInv
  <1>3. CacheInv' /\ ToSet(warm') \subseteq ToSet(warm) \cup {a}
    BY <1>1, RequestKeepsCache
  <1>4. UsedInv'
    BY <1>1, RequestKeepsLatest
  <1>5. StampInv'
    BY <1>1, <1>3 DEF StampInv, IsWarm
  <1>6. DeferralInv'
    BY <1>1 DEF DeferralInv, PenaltyFollowsWindow
  <1> QED
    BY <1>2, <1>3, <1>4, <1>5, <1>6 DEF Inv

\* Scoring: the queues of warm adapters lose their stamps, the others carry one.
LEMMA FinishKeeps ==
    ASSUME Inv, FinishTick
    PROVE  Inv'
  <1> USE DEF FinishTick, settings, cacheVars
  <1>1. RatesInv'
    BY DEF Inv, RatesInv
  <1>2. CacheInv' /\ UsedInv'
    BY DEF Inv, CacheInv, UsedInv, WithinSlots, LruKeepsLatest
  <1>3. StampInv'
    <2>1. deferral' = 0 => DOMAIN firstCold' = {}
      BY DEF Inv, StampInv, Stamps
    <2>2. toReport' \subseteq pending'
      OBVIOUS
    <2>3. IsWarm' \cap DOMAIN firstCold' = {}
      <3>1. CASE deferral = 0
        BY <2>1, <3>1
      <3>2. CASE deferral # 0
        BY <3>2 DEF Inv, StampInv, Stamps, IsWarm
      <3> QED
        BY <3>1, <3>2
    <2> QED
      BY <2>1, <2>2, <2>3 DEF StampInv
  <1>4. DeferralInv'
    <2>1. deferral' \in Nat /\ now' = now /\ now \in Nat /\ deferral' = deferral
      BY DEF Inv, RatesInv, DeferralInv
    <2>2. \A a \in DOMAIN firstCold : firstCold[a] \in Nat /\ firstCold[a] < now
      BY DEF Inv, DeferralInv
    <2>3. \A a \in DOMAIN firstCold' : firstCold'[a] \in Nat /\ firstCold'[a] <= now
      BY <2>1, <2>2 DEF Stamps
    <2>4. CASE deferral = 0
      BY <2>1, <2>3, <2>4 DEF DeferralInv, PenaltyFollowsWindow
    <2>5. CASE deferral > 0
      <3>1. coldFrom = firstCold
        BY <2>5 DEF Inv, DeferralInv
      <3>2. DOMAIN firstCold \ (pending \cap IsWarm) = DOMAIN firstCold \ IsWarm
        BY DEF Inv, StampInv
      <3>3. coldFrom' = firstCold'
        <4>1. (DOMAIN firstCold \ (pending \cap IsWarm)) \cup (pending \ IsWarm)
                  = (DOMAIN firstCold \cup pending) \ IsWarm
          BY <3>2
        <4>2. firstCold' = [a \in (DOMAIN firstCold \cup pending) \ IsWarm |->
                                IF a \in DOMAIN firstCold THEN firstCold[a] ELSE now]
          BY <2>1, <2>5, <4>1 DEF Stamps
        <4> QED
          BY <3>1, <4>2
      <3>4. ASSUME NEW a \in DOMAIN penalty'
            PROVE  penalty'[a] =
                       CASE a \notin IsWarm' /\ now' - coldFrom'[a] = 0 -> "zero"
                         [] a \notin IsWarm' /\ now' - coldFrom'[a] > 0
                              /\ now' - coldFrom'[a] < deferral' -> "divided"
                         [] OTHER -> "none"
        <4>1. a \in pending /\ (a \in IsWarm' <=> a \in IsWarm)
          BY <3>4 DEF _penalize_cold, IsWarm
        <4>2. CASE a \in IsWarm
          BY <4>1, <4>2 DEF _penalize_cold
        <4>3. CASE a \notin IsWarm /\ a \notin DOMAIN firstCold
          <5>1. coldFrom'[a] = now
            BY <3>1, <4>1, <4>3
          <5> QED
            BY <2>1, <2>5, <4>1, <4>3, <5>1 DEF _penalize_cold
        <4>4. CASE a \notin IsWarm /\ a \in DOMAIN firstCold
          <5>1. coldFrom'[a] = firstCold[a]
            BY <3>1, <4>1, <4>4
          <5>2. penalty'[a] = IF now - firstCold[a] < deferral THEN "divided" ELSE "none"
            BY <2>5, <4>1, <4>4 DEF _penalize_cold
          <5>3. now' - coldFrom'[a] > 0
            BY <2>1, <2>2, <4>4, <5>1
          <5> QED
            BY <2>1, <4>1, <4>4, <5>1, <5>2, <5>3
        <4> QED
          BY <4>2, <4>3, <4>4
      <3> QED
        BY <2>1, <2>3, <3>3, <3>4 DEF DeferralInv, PenaltyFollowsWindow
    <2> QED
      BY <2>1, <2>4, <2>5
  <1> QED
    BY <1>1, <1>2, <1>3, <1>4 DEF Inv

LEMMA Invariance == Spec => []Inv
  <1>1. Inv /\ [Next]_vars => Inv'
    <2> SUFFICES ASSUME Inv, [Next]_vars PROVE Inv'
      OBVIOUS
    <2>1. CASE UNCHANGED vars
      <3> USE <2>1 DEF vars, settings, cacheVars, scoreVars
      <3>1. RatesInv'
        BY DEF Inv, RatesInv
      <3>2. CacheInv' /\ UsedInv'
        BY DEF Inv, CacheInv, UsedInv, WithinSlots, LruKeepsLatest
      <3>3. StampInv' /\ DeferralInv'
        BY DEF Inv, StampInv, IsWarm, DeferralInv, PenaltyFollowsWindow
      <3> QED
        BY <3>1, <3>2, <3>3 DEF Inv
    <2> QED
      BY <2>1, StartKeeps, ReportKeeps, FinishKeeps DEF Next
  <1> QED
    BY <1>1, Initially, PTL DEF Spec

-----------------------------------------------------------------------------
(***************************************************************************)
(* The theorems.                                                           *)
(***************************************************************************)

\* The cache never holds more adapters than slots, nor one twice, and its
\* counters account for what it holds.
THEOREM SlotsRespected == Spec => []WithinSlots
  <1>1. Inv => WithinSlots
    BY DEF Inv, CacheInv
  <1> QED
    BY <1>1, Invariance, PTL

\* Under lru the cache holds exactly the KWarm latest requested adapters.
THEOREM LeastRecentlyUsed == Spec => []LruKeepsLatest
  <1>1. Inv => LruKeepsLatest
    BY DEF Inv, UsedInv
  <1> QED
    BY <1>1, Invariance, PTL

\* No warm adapter carries the stamp of a cold spell that is over.
THEOREM StampsForgotten == Spec => []WarmHasNoStamp
  <1>1. Inv => WarmHasNoStamp
    BY DEF Inv, StampInv, WarmHasNoStamp
  <1> QED
    BY <1>1, Invariance, PTL

\* The deferral window of a cold spell starts with the spell and runs once: zero
\* at first, then divided, then nothing, and nothing for warm adapters.
THEOREM WindowsFollowed == Spec => []WindowPerSpell
  <1>1. Inv => WindowPerSpell
    BY DEF Inv, StampInv, WarmHasNoStamp, DeferralInv, WindowPerSpell
  <1> QED
    BY <1>1, Invariance, PTL

=============================================================================
