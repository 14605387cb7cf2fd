---------------------------- MODULE AdmissionProofs ----------------------------
(***************************************************************************)
(* Theorems about Admission, for every set of requests and adapters, and   *)
(* every size of the cache, the batch and the LoRA slots.                  *)
(***************************************************************************)
EXTENDS Admission, SequenceLemmas

\* The types that the arguments need.
TypesInv ==
    /\ grouped \in BOOLEAN /\ kvAware \in BOOLEAN
    /\ arrived \in Seq(Requests) /\ waiting \in Seq(Requests) /\ running \in Seq(Requests)
    /\ late \in Int /\ aged \in Int

\* Each unfinished request is in one of the queues, once.
OnceInv ==
    /\ IsInjective(arrived) /\ IsInjective(waiting) /\ IsInjective(running)
    /\ ToSet(waiting) \cap ToSet(running) = {}
    /\ ToSet(waiting) \cup ToSet(running) = ToSet(arrived)

\* r stands before s in q.
Precedes(q, r, s) == \E i, j \in DOMAIN q : i < j /\ q[i] = r /\ q[j] = s

\* The requests of q for one adapter stand in the order of arr.
InTurn(q, arr) ==
    \A i, j \in DOMAIN q :
        i < j /\ AdapterOf[q[i]] = AdapterOf[q[j]] => Precedes(arr, q[i], q[j])

\* Those of p come before those of q for the same adapter.
AllBefore(P, Q, arr) ==
    \A r \in P, s \in Q : AdapterOf[r] = AdapterOf[s] => Precedes(arr, r, s)

\* The running requests and then the waiting ones are, for each adapter, in the
\* order of arrival.
TurnInv ==
    /\ InTurn(running, arrived) /\ InTurn(waiting, arrived)
    /\ AllBefore(ToSet(running), ToSet(waiting), arrived)

-----------------------------------------------------------------------------
(***************************************************************************)
(* Places in a queue.                                                      *)
(***************************************************************************)

\* Without an order, list.sort leaves the queue as it is.
LEMMA SortedByNothing ==
    ASSUME NEW T, NEW q \in Seq(T)
    PROVE  SortedBy(q, {}) = q
  <1> DEFINE n == Len(q)
             below(i) == {j \in DOMAIN q : j < i}
  <1>1. n \in Nat /\ DOMAIN q = 1 .. n
    OBVIOUS
  <1>2. ASSUME NEW i \in 1 .. n PROVE Cardinality(below(i)) = i - 1
    <2>1. below(i) = 1 .. i - 1 /\ i - 1 \in Nat
      BY <1>1
    <2> QED
      BY <2>1, UpTo
  <1>3. \A j, i \in DOMAIN q :
            (<<q[j], q[i]>> \in {} \/ (<<q[i], q[j]>> \notin {} /\ j < i)) <=> j < i
    OBVIOUS
  <1>4. SortedBy(q, {}) = [k \in 1 .. n |->
            q[CHOOSE i \in DOMAIN q : Cardinality(below(i)) = k - 1]]
    BY DEF SortedBy
  <1> HIDE DEF below
  <1>5. ASSUME NEW k \in 1 .. n
        PROVE  (CHOOSE i \in DOMAIN q : Cardinality(below(i)) = k - 1) = k
    <2>1. \A i \in DOMAIN q : Cardinality(below(i)) = k - 1 => i = k
      BY <1>1, <1>2
    <2>2. Cardinality(below(k)) = k - 1 /\ k \in DOMAIN q
      BY <1>1, <1>2
    <2> QED
      BY <2>1, <2>2
  <1>6. SortedBy(q, {}) = [k \in 1 .. n |-> q[k]]
    BY <1>4, <1>5
  <1> QED
    BY <1>1, <1>6

\* arrival_time orders the unfinished requests.
LEMMA RankFacts ==
    ASSUME arrived \in Seq(Requests), IsInjective(arrived)
    PROVE  /\ \A r \in ToSet(arrived) : Rank(r) \in DOMAIN arrived /\ arrived[Rank(r)] = r
           /\ \A r, s \in ToSet(arrived) : Earlier(r, s) <=> Precedes(arrived, r, s)
           /\ \A r, s \in ToSet(arrived) : Rank(r) = Rank(s) => r = s
  <1>1. ASSUME NEW r \in ToSet(arrived)
        PROVE  Rank(r) \in DOMAIN arrived /\ arrived[Rank(r)] = r
    <2>1. \E i \in DOMAIN arrived : arrived[i] = r
      BY DEF ToSet
    <2> QED
      BY <2>1 DEF Rank
  <1>2. ASSUME NEW r \in ToSet(arrived), NEW s \in ToSet(arrived)
        PROVE  Earlier(r, s) <=> Precedes(arrived, r, s)
    <2>1. /\ Rank(r) \in DOMAIN arrived /\ arrived[Rank(r)] = r
          /\ Rank(s) \in DOMAIN arrived /\ arrived[Rank(s)] = s
      BY <1>1
    <2>2. \A i \in DOMAIN arrived : /\ arrived[i] = r => i = Rank(r)
                                    /\ arrived[i] = s => i = Rank(s)
      BY <2>1 DEF IsInjective
    <2> QED
      BY <2>1, <2>2 DEF Earlier, Precedes
  <1> QED
    BY <1>1, <1>2

\* A queue that loses entries keeps the order of the others.
LEMMA OnlyPrecedes ==
    ASSUME NEW T, NEW q \in Seq(T), NEW S, NEW r \in S, NEW s \in S, Precedes(q, r, s)
    PROVE  Precedes(Only(q, S), r, s)
  <1> DEFINE p == Only(q, S)
  <1>1. p \in Seq(T) /\ \E at : Filters(p, q, S, at)
    BY OnlyFacts
  <1> HIDE DEF p
  <1>2. PICK at : Filters(p, q, S, at)
    BY <1>1
  <1>3. PICK i \in DOMAIN q, j \in DOMAIN q : i < j /\ q[i] = r /\ q[j] = s
    BY DEF Precedes
  <1>4. PICK k \in DOMAIN p, l \in DOMAIN p : at[k] = i /\ at[l] = j
    BY <1>2, <1>3 DEF Filters
  <1>5. p[k] = r /\ p[l] = s
    BY <1>2, <1>3, <1>4 DEF Filters
  <1>6. k < l
    <2>1. k \in Nat /\ l \in Nat /\ i \in Nat /\ j \in Nat
      BY <1>1
    <2>2. ~(l < k) /\ l # k
      BY <1>2, <1>3, <1>4, <2>1 DEF Filters
    <2> QED
      BY <2>1, <2>2
  <1> QED
    BY <1>5, <1>6 DEF Precedes, p

LEMMA OnlyInTurn ==
    ASSUME NEW T, NEW q \in Seq(T), NEW S, NEW arr, InTurn(q, arr)
    PROVE  InTurn(Only(q, S), arr)
  <1> DEFINE p == Only(q, S)
  <1>1. p \in Seq(T) /\ \E at : Filters(p, q, S, at)
    BY OnlyFacts
  <1> HIDE DEF p
  <1>2. PICK at : Filters(p, q, S, at)
    BY <1>1
  <1>3. ASSUME NEW k \in DOMAIN p, NEW l \in DOMAIN p, k < l,
               AdapterOf[p[k]] = AdapterOf[p[l]]
        PROVE  Precedes(arr, p[k], p[l])
    <2>1. /\ at[k] \in DOMAIN q /\ at[l] \in DOMAIN q /\ at[k] < at[l]
          /\ p[k] = q[at[k]] /\ p[l] = q[at[l]]
      BY <1>2, <1>3 DEF Filters
    <2> QED
      BY <1>3, <2>1 DEF InTurn
  <1> QED
    BY <1>3 DEF InTurn, p

\* Without is Only of the others.
LEMMA WithoutIsOnly ==
    ASSUME NEW q, NEW S
    PROVE  /\ Without(q, S) = Only(q, ToSet(q) \ S)
  BY DEF Without, ToSet

LEMMA WithoutPrecedes ==
    ASSUME NEW T, NEW q \in Seq(T), NEW S, NEW r, NEW s, r \notin S, s \notin S,
           Precedes(q, r, s)
    PROVE  Precedes(Without(q, S), r, s)
  <1>1. r \in ToSet(q) \ S /\ s \in ToSet(q) \ S
    BY DEF Precedes, ToSet
  <1> QED
    BY <1>1, OnlyPrecedes, WithoutIsOnly

\* The order of what is left does not change when others finish.
LEMMA StillInTurn ==
    ASSUME NEW T, NEW arr \in Seq(T), NEW S, NEW q, ToSet(q) \cap S = {}, InTurn(q, arr)
    PROVE  InTurn(q, Without(arr, S))
  <1>1. \A i \in DOMAIN q : q[i] \notin S
    BY DEF ToSet
  <1> QED
    BY <1>1, WithoutPrecedes DEF InTurn

LEMMA StillBefore ==
    ASSUME NEW T, NEW arr \in Seq(T), NEW S, NEW P, NEW Q,
           P \cap S = {}, Q \cap S = {}, AllBefore(P, Q, arr)
    PROVE  AllBefore(P, Q, Without(arr, S))
  BY WithoutPrecedes DEF AllBefore

LEMMA ConcatInTurn ==
    ASSUME NEW T, NEW p \in Seq(T), NEW q \in Seq(T), NEW arr,
           InTurn(p, arr), InTurn(q, arr), AllBefore(ToSet(p), ToSet(q), arr)
    PROVE  InTurn(p \o q, arr)
  <1> DEFINE c == p \o q
             m == Len(p)
             n == Len(q)
  <1>1. /\ m \in Nat /\ n \in Nat /\ DOMAIN p = 1 .. m /\ DOMAIN q = 1 .. n
        /\ DOMAIN c = 1 .. m + n
        /\ \A i \in 1 .. m : c[i] = p[i]
        /\ \A i \in m + 1 .. m + n : i - m \in 1 .. n /\ c[i] = q[i - m]
    OBVIOUS
  <1> HIDE DEF c, m, n
  <1>2. ASSUME NEW i \in DOMAIN c, NEW j \in DOMAIN c, i < j,
               AdapterOf[c[i]] = AdapterOf[c[j]]
        PROVE  Precedes(arr, c[i], c[j])
    <2>1. CASE j \in 1 .. m
      <3>1. i \in 1 .. m
        BY <1>1, <1>2, <2>1
      <3> QED
        BY <1>1, <1>2, <2>1, <3>1 DEF InTurn
    <2>2. CASE i \in m + 1 .. m + n
      <3>1. j \in m + 1 .. m + n /\ i - m < j - m
        BY <1>1, <1>2, <2>2
      <3>2. /\ i - m \in DOMAIN q /\ j - m \in DOMAIN q
            /\ c[i] = q[i - m] /\ c[j] = q[j - m]
        BY <1>1, <2>2, <3>1
      <3> QED
        BY <1>2, <3>1, <3>2 DEF InTurn
    <2>3. CASE i \in 1 .. m /\ j \in m + 1 .. m + n
      <3>1. c[i] \in ToSet(p) /\ c[j] \in ToSet(q)
        BY <1>1, <2>3 DEF ToSet
      <3> QED
        BY <1>2, <3>1 DEF AllBefore
    <2> QED
      BY <1>1, <2>1, <2>2, <2>3
  <1> QED
    BY <1>2 DEF InTurn, c

\* A queue cut in two.
LEMMA CutInTurn ==
    ASSUME NEW T, NEW q \in Seq(T), NEW arr, InTurn(q, arr), NEW n \in 0 .. Len(q)
    PROVE  LET left == SubSeq(q, 1, n)
               right == SubSeq(q, n + 1, Len(q))
           IN  /\ InTurn(left, arr) /\ InTurn(right, arr)
               /\ AllBefore(ToSet(left), ToSet(right), arr)
  <1> DEFINE left == SubSeq(q, 1, n)
             right == SubSeq(q, n + 1, Len(q))
             m == Len(q)
  <1>1. /\ m \in Nat /\ n \in Nat /\ n <= m /\ DOMAIN q = 1 .. m
        /\ DOMAIN left = 1 .. n /\ (\A i \in 1 .. n : left[i] = q[i])
        /\ DOMAIN right = 1 .. m - n /\ (\A i \in 1 .. m - n : right[i] = q[n + i])
    OBVIOUS
  <1> HIDE DEF left, right, m
  <1>2. InTurn(left, arr)
    BY <1>1 DEF InTurn
  <1>3. InTurn(right, arr)
    <2> SUFFICES ASSUME NEW i \in 1 .. m - n, NEW j \in 1 .. m - n, i < j,
                        AdapterOf[right[i]] = AdapterOf[right[j]]
                 PROVE  Precedes(arr, right[i], right[j])
      BY <1>1 DEF InTurn
    <2>1. n + i \in DOMAIN q /\ n + j \in DOMAIN q /\ n + i < n + j
      BY <1>1
    <2>2. right[i] = q[n + i] /\ right[j] = q[n + j]
      BY <1>1
    <2> QED
      BY <2>1, <2>2 DEF InTurn
  <1>4. AllBefore(ToSet(left), ToSet(right), arr)
    <2>1. \A i \in 1 .. n, j \in 1 .. m - n : i \in 1 .. m /\ n + j \in 1 .. m /\ i < n + j
      BY <1>1
    <2> QED
      BY <1>1, <2>1 DEF InTurn, AllBefore, ToSet
  <1> QED
    BY <1>2, <1>3, <1>4 DEF left, right, m

-----------------------------------------------------------------------------
(***************************************************************************)
(* The orders of the queue.                                                *)
(***************************************************************************)

LEMMA WaitersNumber == ASSUME TypesInv, NEW a PROVE Waiters(a) \in Nat
  <1> DEFINE n == Len(waiting)
             D == {i \in DOMAIN waiting : AdapterOf[waiting[i]] = a}
  <1>1. n \in Nat /\ DOMAIN waiting = 1 .. n
    BY DEF TypesInv
  <1>2. IsFiniteSet(1 .. n) /\ D \subseteq 1 .. n
    BY <1>1, UpTo
  <1>3. IsFiniteSet(D)
    BY <1>2, FS_Subset
  <1> QED
    BY <1>3, FS_CardinalityType DEF Waiters

\* The sort key is a total order of the waiting requests.
LEMMA ByAdapterOrders ==
    ASSUME TypesInv, OnceInv
    PROVE  /\ IsOrderOf(ByAdapter, ToSet(waiting))
           /\ \A r, s \in ToSet(waiting) : AdapterOf[r] = AdapterOf[s] /\ r # s
                => <<r, s>> \in ByAdapter \/ <<s, r>> \in ByAdapter
           /\ \A r, s \in ToSet(waiting) : AdapterOf[r] = AdapterOf[s]
                => (<<r, s>> \in ByAdapter <=> Precedes(arrived, r, s))
  <1> DEFINE Q == ToSet(waiting)
             w(r) == Waiters(AdapterOf[r])
             a(r) == AdapterOf[r]
             k(r) == Rank(r)
  <1>1. Q \subseteq ToSet(arrived) /\ Q \subseteq Requests
    <2>1. Q \subseteq ToSet(arrived)
      BY DEF OnceInv
    <2>2. Q \subseteq Requests
      BY DEF TypesInv, ToSet
    <2> QED
      BY <2>1, <2>2
  <1>2. \A r \in Q : w(r) \in Nat /\ a(r) \in Nat /\ k(r) \in Nat
    <2>1. \A r \in Q : w(r) \in Nat
      BY WaitersNumber
    <2>2. \A r \in Q : a(r) \in Nat
      BY <1>1, AdmissionAssumption
    <2>3. \A r \in Q : k(r) \in Nat
      <3>1. DOMAIN arrived \subseteq Nat
        BY DEF TypesInv
      <3> QED
        BY <1>1, <3>1, RankFacts DEF TypesInv, OnceInv
    <2> QED
      BY <2>1, <2>2, <2>3
  <1>3. \A r, s \in Q : a(r) = a(s) => w(r) = w(s)
    OBVIOUS
  <1>4. \A r, s \in Q : k(r) = k(s) => r = s
    BY <1>1, RankFacts DEF TypesInv, OnceInv
  <1>5. \A r, s \in Q : <<r, s>> \in ByAdapter <=>
            IF k(r) <= aged \/ k(s) <= aged THEN k(r) < k(s)
            ELSE \/ w(r) > w(s)
                 \/ w(r) = w(s) /\ (IF a(r) = a(s) THEN k(r) < k(s) ELSE a(r) < a(s))
    BY DEF ByAdapter, Before, Earlier
  <1>6. aged \in Int
    BY DEF TypesInv
  <1>7. \A r, s \in Q : k(r) < k(s) <=> Precedes(arrived, r, s)
    BY <1>1, RankFacts DEF TypesInv, OnceInv, Earlier
  <1> HIDE DEF Q, w, a, k
  <1>8. \A r \in Q : <<r, r>> \notin ByAdapter
    BY <1>2, <1>5
  <1>9. ASSUME NEW r \in Q, NEW s \in Q, NEW t \in Q,
               <<r, s>> \in ByAdapter, <<s, t>> \in ByAdapter
        PROVE  <<r, t>> \in ByAdapter
    <2>1. /\ w(r) \in Nat /\ w(s) \in Nat /\ w(t) \in Nat
          /\ a(r) \in Nat /\ a(s) \in Nat /\ a(t) \in Nat
          /\ k(r) \in Nat /\ k(s) \in Nat /\ k(t) \in Nat
      BY <1>2
    <2> QED
      BY <1>5, <1>6, <1>9, <2>1
  <1>10. ASSUME NEW r \in Q, NEW s \in Q, NEW t \in Q, <<r, t>> \in ByAdapter
         PROVE  <<r, s>> \in ByAdapter \/ <<s, t>> \in ByAdapter
    <2>1. /\ w(r) \in Nat /\ w(s) \in Nat /\ w(t) \in Nat
          /\ a(r) \in Nat /\ a(s) \in Nat /\ a(t) \in Nat
          /\ k(r) \in Nat /\ k(s) \in Nat /\ k(t) \in Nat
      BY <1>2
    <2>2. /\ a(r) = a(s) => w(r) = w(s)
          /\ a(s) = a(t) => w(s) = w(t)
          /\ a(r) = a(t) => w(r) = w(t)
      BY <1>3
    <2> QED
      BY <1>5, <1>6, <1>10, <2>1, <2>2
  <1>11. IsOrderOf(ByAdapter, Q)
    BY <1>8, <1>9, <1>10 DEF IsOrderOf
  <1>12. \A r, s \in Q : a(r) = a(s) => (<<r, s>> \in ByAdapter <=> k(r) < k(s))
    BY <1>2, <1>3, <1>5, <1>6
  <1>13. \A r, s \in Q : r # s => k(r) < k(s) \/ k(s) < k(r)
    BY <1>2, <1>4
  <1> QED
    BY <1>7, <1>11, <1>12, <1>13 DEF Q, a

LEMMA ByArrivalOrders ==
    ASSUME TypesInv, OnceInv
    PROVE  /\ IsOrderOf(ByArrival, ToSet(waiting))
           /\ \A r, s \in ToSet(waiting) : r # s
                => <<r, s>> \in ByArrival \/ <<s, r>> \in ByArrival
           /\ \A r, s \in ToSet(waiting) :
                <<r, s>> \in ByArrival <=> Precedes(arrived, r, s)
  <1> DEFINE Q == ToSet(waiting)
             k(r) == Rank(r)
  <1>1. Q \subseteq ToSet(arrived)
    BY DEF OnceInv
  <1>2. \A r \in Q : k(r) \in Nat
    <2>1. DOMAIN arrived \subseteq Nat
      BY DEF TypesInv
    <2> QED
      BY <1>1, <2>1, RankFacts DEF TypesInv, OnceInv
  <1>3. \A r, s \in Q : k(r) = k(s) => r = s
    BY <1>1, RankFacts DEF TypesInv, OnceInv
  <1>4. \A r, s \in Q : <<r, s>> \in ByArrival <=> k(r) < k(s)
    BY DEF ByArrival, Earlier
  <1>5. \A r, s \in Q : k(r) < k(s) <=> Precedes(arrived, r, s)
    BY <1>1, RankFacts DEF TypesInv, OnceInv, Earlier
  <1> HIDE DEF k, Q
  <1>6. IsOrderOf(ByArrival, Q)
    BY <1>2, <1>4 DEF IsOrderOf
  <1>7. \A r, s \in Q : r # s => k(r) < k(s) \/ k(s) < k(r)
    BY <1>2, <1>3
  <1> QED
    BY <1>4, <1>5, <1>6, <1>7 DEF Q

\* A list sorted by an order that follows arr for each adapter.
LEMMA SortedInTurn ==
    ASSUME NEW q \in Seq(Requests), IsInjective(q), NEW R, NEW arr,
           IsOrderOf(R, ToSet(q)),
           \A r, s \in ToSet(q) : AdapterOf[r] = AdapterOf[s] /\ r # s
                => <<r, s>> \in R \/ <<s, r>> \in R,
           \A r, s \in ToSet(q) : AdapterOf[r] = AdapterOf[s] /\ <<r, s>> \in R
                => Precedes(arr, r, s)
    PROVE  LET p == SortedBy(q, R) IN
           /\ p \in Seq(Requests) /\ ToSet(p) = ToSet(q) /\ IsInjective(p)
           /\ InTurn(p, arr)
  <1> DEFINE p == SortedBy(q, R)
  <1>1. /\ p \in Seq(Requests)
        /\ \E at : Sorts(p, q, at)
        /\ \A k, l \in DOMAIN p : k < l => <<p[l], p[k]>> \notin R
    BY SortedByFacts
  <1> HIDE DEF p
  <1>2. PICK at : Sorts(p, q, at)
    BY <1>1
  <1>3. ToSet(p) = ToSet(q)
    BY <1>2 DEF Sorts, ToSet
  <1>4. IsInjective(p)
    BY <1>2 DEF Sorts, IsInjective
  <1>5. ASSUME NEW k \in DOMAIN p, NEW l \in DOMAIN p, k < l,
               AdapterOf[p[k]] = AdapterOf[p[l]]
        PROVE  Precedes(arr, p[k], p[l])
    <2>1. p[k] \in ToSet(q) /\ p[l] \in ToSet(q)
      BY <1>3 DEF ToSet
    <2>2. k # l
      BY <1>1, <1>5
    <2>3. p[k] # p[l]
      BY <1>4, <2>2 DEF IsInjective
    <2> QED
      BY <1>1, <1>5, <2>1, <2>3
  <1> QED
    BY <1>1, <1>3, <1>4, <1>5 DEF InTurn, p

-----------------------------------------------------------------------------
(***************************************************************************)
(* A tick: who is admitted, who is kept, who finishes.                     *)
(***************************************************************************)

\* Only requests of the queue are admitted whose adapter has a slot, and with a
\* request all of those before it.
LEMMA AdmittedFacts ==
    ASSUME NEW queue \in Seq(Requests), IsInjective(queue), NEW slotted
    PROVE  LET chosen == Admitted(queue, slotted) IN
           /\ chosen \subseteq ToSet(queue)
           /\ \A r \in chosen : AdapterOf[r] \in slotted
           /\ \A j, k \in DOMAIN queue :
                j < k /\ AdapterOf[queue[j]] \in slotted /\ queue[k] \in chosen
                    => queue[j] \in chosen
  <1> DEFINE chosen == Admitted(queue, slotted)
             upTo(i) == ToSet(SubSeq(queue, 1, i))
             taken(i) == {r \in upTo(i) : AdapterOf[r] \in slotted}
  <1>1. PICK I \in SUBSET DOMAIN queue : chosen = UNION {taken(i) : i \in I}
    BY DEF Admitted
  <1>2. ASSUME NEW i \in DOMAIN queue
        PROVE  \A r : r \in upTo(i) <=> \E k \in DOMAIN queue : k <= i /\ queue[k] = r
    <2>1. /\ Len(queue) \in Nat /\ DOMAIN queue = 1 .. Len(queue)
          /\ DOMAIN SubSeq(queue, 1, i) = 1 .. i
          /\ \A k \in 1 .. i : k \in DOMAIN queue /\ SubSeq(queue, 1, i)[k] = queue[k]
      OBVIOUS
    <2>2. \A k \in DOMAIN queue : k <= i => k \in 1 .. i
      BY <2>1
    <2>3. \A k \in 1 .. i : k <= i
      BY <2>1
    <2> QED
      BY <2>1, <2>2, <2>3 DEF ToSet
  <1> HIDE DEF upTo, chosen
  <1>3. chosen \subseteq ToSet(queue)
    BY <1>1, <1>2 DEF ToSet
  <1>4. ASSUME NEW j \in DOMAIN queue, NEW k \in DOMAIN queue, j < k,
               AdapterOf[queue[j]] \in slotted, queue[k] \in chosen
        PROVE  queue[j] \in chosen
    <2>1. PICK i \in I : queue[k] \in upTo(i)
      BY <1>1, <1>4
    <2>2. PICK l \in DOMAIN queue : l <= i /\ queue[l] = queue[k]
      BY <1>1, <1>2, <2>1
    <2>3. l = k
      BY <2>2 DEF IsInjective
    <2>4. j <= i
      BY <1>1, <1>4, <2>2, <2>3
    <2>5. queue[j] \in upTo(i)
      BY <1>1, <1>2, <2>4
    <2> QED
      BY <1>1, <1>4, <2>1, <2>5
  <1>5. \A r \in chosen : AdapterOf[r] \in slotted
    BY <1>1
  <1> QED
    BY <1>3, <1>4, <1>5 DEF chosen

LEMMA KeptNumber == ASSUME TypesInv PROVE Kept \in 0 .. Len(running)
  <1> DEFINE n == Len(running)
             fits(i) == Total(Needed, ToSet(SubSeq(running, 1, i))) <= Blocks
             D == {i \in DOMAIN running : fits(i)}
  <1>1. n \in Nat /\ DOMAIN running = 1 .. n
    BY DEF TypesInv
  <1> HIDE DEF fits
  <1>2. D \subseteq 1 .. n /\ IsFiniteSet(1 .. n) /\ Cardinality(1 .. n) = n
    BY <1>1, UpTo
  <1>3. IsFiniteSet(D) /\ Cardinality(D) <= n
    BY <1>2, FS_Subset
  <1>4. Cardinality(D) \in Nat
    BY <1>3, FS_CardinalityType
  <1>5. Kept = Cardinality(D)
    BY DEF Kept, fits
  <1> QED
    BY <1>1, <1>3, <1>4, <1>5

\* A step of the model: those who finish were in it, and leave running and
\* arrived.
LEMMA StepFacts ==
    ASSUME TypesInv, NEW ran \in SUBSET ToSet(arrived), NEW eos \in SUBSET ran,
           NEW queue, NEW held, NEW nowDue, Step(ran, eos, queue, held, nowDue)
    PROVE  \E done \in SUBSET ran :
              /\ running' = Without(queue, done)
              /\ arrived' = Without(arrived, done)
              /\ late' \in Int /\ aged' \in Int
  <1> DEFINE done == eos \cup {r \in ran : len[r] + 1 = Prompt[r] + MaxNew}
             over(n) == {r \in done : Rank(r) <= n}
  <1>1. done \subseteq ran
    OBVIOUS
  <1>2. /\ running' = Without(queue, done)
        /\ arrived' = Without(arrived, done)
        /\ late' = late - Cardinality(over(late))
        /\ aged' = aged - Cardinality(over(aged))
    BY DEF Step
  <1> HIDE DEF done
  <1>3. IsFiniteSet(ToSet(arrived))
    <2>1. \A n \in Nat : IsFiniteSet(1 .. n)
      BY UpTo
    <2>2. Len(arrived) \in Nat /\ DOMAIN arrived = 1 .. Len(arrived)
      BY DEF TypesInv
    <2>3. IsFiniteSet(DOMAIN arrived)
      BY <2>1, <2>2
    <2>4. arrived \in Surjection(DOMAIN arrived, ToSet(arrived))
      <3>1. arrived \in [DOMAIN arrived -> ToSet(arrived)]
        BY <2>2 DEF TypesInv, ToSet
      <3> QED
        BY <3>1 DEF Surjection, ToSet
    <2> QED
      BY <2>3, <2>4, FS_Surjection
  <1>4. \A n : over(n) \subseteq ToSet(arrived)
    BY <1>1
  <1>5. \A n : Cardinality(over(n)) \in Nat
    BY <1>3, <1>4, FS_Subset, FS_CardinalityType
  <1> HIDE DEF over
  <1> QED
    BY <1>1, <1>2, <1>5 DEF TypesInv

\* The queue the loop runs over.
LEMMA QueueFacts ==
    ASSUME TypesInv, OnceInv, TurnInv, NEW held,
           NEW order, order = IF grouped THEN ByAdapter ELSE {}
    PROVE  LET queue == WithoutHeld(SortedBy(waiting, order), held) IN
           /\ queue \in Seq(Requests) /\ IsInjective(queue)
           /\ ToSet(queue) = {r \in ToSet(waiting) : AdapterOf[r] \notin held}
           /\ InTurn(queue, arrived)
  <1> DEFINE sorted == SortedBy(waiting, order)
             S == {r \in Requests : AdapterOf[r] \notin held}
  <1>1. /\ sorted \in Seq(Requests) /\ IsInjective(sorted)
        /\ ToSet(sorted) = ToSet(waiting) /\ InTurn(sorted, arrived)
    <2>1. CASE grouped
      <3>1. order = ByAdapter
        BY <2>1
      <3> QED
        BY <3>1, ByAdapterOrders, SortedInTurn DEF TypesInv, OnceInv
    <2>2. CASE ~grouped
      <3>1. order = {}
        BY <2>2
      <3> QED
        BY <3>1, SortedByNothing DEF TypesInv, OnceInv, TurnInv
    <2> QED
      BY <2>1, <2>2
  <1> HIDE DEF sorted
  <1>2. /\ Only(sorted, S) \in Seq(Requests) /\ IsInjective(Only(sorted, S))
        /\ ToSet(Only(sorted, S)) = ToSet(sorted) \cap S
        /\ InTurn(Only(sorted, S), arrived)
    BY <1>1, OnlyOnce, OnlyInTurn
  <1>3. ToSet(waiting) \subseteq Requests
    BY DEF TypesInv, ToSet
  <1>4. ToSet(sorted) \cap S = {r \in ToSet(waiting) : AdapterOf[r] \notin held}
    BY <1>1, <1>3
  <1> QED
    BY <1>2, <1>4 DEF WithoutHeld, sorted

\* The queue after the loop: whoever was not admitted, in the order of arrival
\* for each adapter.
LEMMA LeftFacts ==
    ASSUME TypesInv, OnceInv, TurnInv, NEW chosen, NEW held
    PROVE  LET left == LeftWaiting(chosen, held) IN
           /\ left \in Seq(Requests) /\ IsInjective(left)
           /\ ToSet(left) = ToSet(waiting) \ chosen
           /\ InTurn(left, arrived)
  <1> DEFINE rest == Without(waiting, chosen)
  <1>1. /\ rest \in Seq(Requests) /\ IsInjective(rest)
        /\ ToSet(rest) = ToSet(waiting) \ chosen
    BY WithoutOnce DEF TypesInv, OnceInv
  <1>2. InTurn(rest, arrived)
    BY WithoutIsOnly, OnlyInTurn DEF TypesInv, TurnInv
  <1> HIDE DEF rest
  <1>3. ToSet(rest) \subseteq ToSet(waiting)
    BY <1>1
  <1>4. IsOrderOf(ByArrival, ToSet(rest))
    <2>1. IsOrderOf(ByArrival, ToSet(waiting))
      BY ByArrivalOrders
    <2> QED
      BY <1>3, <2>1 DEF IsOrderOf
  <1>5. \A r, s \in ToSet(rest) :
            /\ r # s => <<r, s>> \in ByArrival \/ <<s, r>> \in ByArrival
            /\ <<r, s>> \in ByArrival => Precedes(arrived, r, s)
    BY <1>3, ByArrivalOrders
  <1>6. LET p == SortedBy(rest, ByArrival) IN
           /\ p \in Seq(Requests) /\ ToSet(p) = ToSet(rest) /\ IsInjective(p)
           /\ InTurn(p, arrived)
    BY <1>1, <1>4, <1>5, SortedInTurn
  <1>7. LeftWaiting(chosen, held) =
            IF grouped \/ held # {} THEN SortedBy(rest, ByArrival) ELSE rest
    BY DEF LeftWaiting, rest
  <1> QED
    BY <1>1, <1>2, <1>6, <1>7

\* What the end of a step leaves, if the running requests and then the waiting
\* ones were all there, once and in turn, before it.
LEMMA FinishFacts ==
    ASSUME TypesInv, OnceInv,
           NEW p \in Seq(Requests), NEW q \in Seq(Requests),
           IsInjective(p), IsInjective(q), ToSet(p) \cap ToSet(q) = {},
           ToSet(q) \cup ToSet(p) = ToSet(arrived),
           InTurn(p, arrived), InTurn(q, arrived), AllBefore(ToSet(p), ToSet(q), arrived),
           NEW done \in SUBSET ToSet(p),
           running' = Without(p, done), waiting' = q, arrived' = Without(arrived, done),
           late' \in Int, aged' \in Int, UNCHANGED settings
    PROVE  (TypesInv /\ OnceInv /\ TurnInv)'
  <1>1. /\ running' \in Seq(Requests) /\ IsInjective(running')
        /\ ToSet(running') = ToSet(p) \ done
    BY WithoutOnce
  <1>2. /\ arrived' \in Seq(Requests) /\ IsInjective(arrived')
        /\ ToSet(arrived') = ToSet(arrived) \ done
    BY WithoutOnce DEF TypesInv, OnceInv
  <1>3. TypesInv'
    BY <1>1, <1>2 DEF TypesInv, settings
  <1>4. OnceInv'
    <2>1. ToSet(running') \cap ToSet(q) = {}
      BY <1>1
    <2>2. ToSet(q) \cup ToSet(running') = ToSet(arrived')
      BY <1>1, <1>2
    <2> QED
      BY <1>1, <1>2, <2>1, <2>2 DEF OnceInv
  <1>5. InTurn(running', arrived)
    BY WithoutIsOnly, OnlyInTurn
  <1>6. AllBefore(ToSet(running'), ToSet(q), arrived)
    BY <1>1 DEF AllBefore
  <1>7. ToSet(running') \cap done = {} /\ ToSet(q) \cap done = {}
    BY <1>1
  <1>8. /\ InTurn(running', Without(arrived, done)) /\ InTurn(q, Without(arrived, done))
        /\ AllBefore(ToSet(running'), ToSet(q), Without(arrived, done))
    BY <1>5, <1>6, <1>7, StillInTurn, StillBefore DEF TypesInv
  <1>9. TurnInv'
    BY <1>8 DEF TurnInv
  <1> QED
    BY <1>3, <1>4, <1>9

-----------------------------------------------------------------------------
(***************************************************************************)
(* Each action keeps the queues.                                           *)
(***************************************************************************)

QueuesInv == TypesInv /\ OnceInv /\ TurnInv

LEMMA InitQueues == Init => QueuesInv
  <1> SUFFICES ASSUME Init PROVE QueuesInv
    OBVIOUS
  <1>1. grouped \in BOOLEAN /\ kvAware \in BOOLEAN
    BY AdmissionAssumption DEF Init
  <1>2. /\ arrived = <<>> /\ waiting = <<>> /\ running = <<>> /\ late = 0 /\ aged = 0
    BY DEF Init
  <1>3. TypesInv
    BY <1>1, <1>2 DEF TypesInv
  <1>4. OnceInv
    BY <1>2 DEF OnceInv, IsInjective, ToSet
  <1>5. TurnInv
    BY <1>2 DEF TurnInv, InTurn, AllBefore, ToSet
  <1> QED
    BY <1>3, <1>4, <1>5 DEF QueuesInv

LEMMA ArriveKeeps ==
    ASSUME QueuesInv, NEW r \in Requests, Arrive(r)
    PROVE  QueuesInv'
  <1>1. /\ r \notin ToSet(arrived)
        /\ arrived' = Append(arrived, r) /\ waiting' = Append(waiting, r)
        /\ running' = running
        /\ UNCHANGED <<grouped, kvAware, late, aged>>
    BY DEF Arrive, settings, clockVars
  <1>2. TypesInv'
    BY <1>1 DEF TypesInv, QueuesInv
  <1>3. /\ ToSet(arrived') = ToSet(arrived) \cup {r} /\ IsInjective(arrived')
        /\ ToSet(waiting') = ToSet(waiting) \cup {r} /\ IsInjective(waiting')
    BY <1>1, AppendOnce DEF TypesInv, OnceInv, QueuesInv
  <1>4. OnceInv'
    BY <1>1, <1>3 DEF OnceInv, QueuesInv
  <1>5. /\ Len(arrived) \in Nat /\ DOMAIN arrived = 1 .. Len(arrived)
        /\ DOMAIN arrived' = 1 .. Len(arrived) + 1
        /\ (\A i \in DOMAIN arrived : arrived'[i] = arrived[i])
        /\ arrived'[Len(arrived) + 1] = r
    BY <1>1 DEF TypesInv, QueuesInv
  <1>6. ASSUME NEW s, NEW t, Precedes(arrived, s, t) PROVE Precedes(arrived', s, t)
    BY <1>5, <1>6 DEF Precedes
  <1>7. ASSUME NEW s \in ToSet(arrived) PROVE Precedes(arrived', s, r)
    <2>1. PICK i \in DOMAIN arrived : arrived[i] = s
      BY DEF ToSet
    <2>2. i \in DOMAIN arrived' /\ Len(arrived) + 1 \in DOMAIN arrived' /\ i < Len(arrived) + 1
      BY <1>5
    <2> QED
      BY <1>5, <2>1, <2>2 DEF Precedes
  <1>8. InTurn(running', arrived')
    BY <1>1, <1>6 DEF TurnInv, InTurn, QueuesInv
  <1>9. InTurn(waiting', arrived')
    <2>1. /\ Len(waiting) \in Nat /\ DOMAIN waiting = 1 .. Len(waiting)
          /\ DOMAIN waiting' = 1 .. Len(waiting) + 1
          /\ (\A i \in DOMAIN waiting : waiting'[i] = waiting[i])
          /\ waiting'[Len(waiting) + 1] = r
      BY <1>1 DEF TypesInv, QueuesInv
    <2>2. ASSUME NEW i \in DOMAIN waiting', NEW j \in DOMAIN waiting', i < j,
                 AdapterOf[waiting'[i]] = AdapterOf[waiting'[j]]
          PROVE  Precedes(arrived', waiting'[i], waiting'[j])
      <3>1. i \in DOMAIN waiting
        BY <2>1, <2>2
      <3>2. CASE j \in DOMAIN waiting
        BY <1>6, <2>1, <2>2, <3>1, <3>2 DEF TurnInv, InTurn, QueuesInv
      <3>3. CASE j = Len(waiting) + 1
        <4>1. waiting[i] \in ToSet(arrived)
          <5>1. waiting[i] \in ToSet(waiting)
            BY <3>1 DEF ToSet
          <5> QED
            BY <5>1 DEF OnceInv, QueuesInv
        <4> QED
          BY <1>7, <2>1, <3>1, <3>3, <4>1
      <3> QED
        BY <2>1, <3>2, <3>3
    <2> QED
      BY <2>2 DEF InTurn
  <1>10. AllBefore(ToSet(running'), ToSet(waiting'), arrived')
    <2>1. ToSet(running) \subseteq ToSet(arrived)
      BY DEF OnceInv, QueuesInv
    <2> QED
      BY <1>1, <1>3, <1>6, <1>7, <2>1 DEF AllBefore, TurnInv, QueuesInv
  <1> QED
    BY <1>2, <1>4, <1>8, <1>9, <1>10 DEF QueuesInv, TurnInv

\* Who is admitted comes, for each adapter, after the running requests and
\* before those left in the queue.
LEMMA AdmitKeeps == ASSUME QueuesInv, Admit PROVE QueuesInv'
  <1>1. PICK held \in Holdouts, order \in {IF grouped THEN ByAdapter ELSE {}} :
        \E queue \in {WithoutHeld(SortedBy(waiting, order), held)} :
        \E slotted \in {Slotted(queue)} : \E chosen \in {Admitted(queue, slotted)} :
            /\ waiting' = LeftWaiting(chosen, held)
            /\ Step(chosen, {}, running \o Only(queue, chosen),
                    [r \in Requests |-> IF r \in chosen THEN Needed[r] ELSE blocks[r]],
                    due)
    BY DEF Admit
  <1> DEFINE queue == WithoutHeld(SortedBy(waiting, order), held)
             chosen == Admitted(queue, Slotted(queue))
             here == [r \in Requests |-> IF r \in chosen THEN Needed[r] ELSE blocks[r]]
             p == running \o Only(queue, chosen)
             q == LeftWaiting(chosen, held)
  <1>2. waiting' = q /\ Step(chosen, {}, p, here, due)
    BY <1>1
  <1>3. order = IF grouped THEN ByAdapter ELSE {}
    OBVIOUS
  <1>4. /\ queue \in Seq(Requests) /\ IsInjective(queue)
        /\ ToSet(queue) = {r \in ToSet(waiting) : AdapterOf[r] \notin held}
        /\ InTurn(queue, arrived)
    BY <1>3, QueueFacts DEF QueuesInv
  <1> HIDE DEF queue
  <1>5. /\ chosen \subseteq ToSet(queue)
        /\ \A j, k \in DOMAIN queue :
                j < k /\ AdapterOf[queue[j]] = AdapterOf[queue[k]] /\ queue[k] \in chosen
                    => queue[j] \in chosen
    BY <1>4, AdmittedFacts, Zenon
  <1> HIDE DEF chosen, here
  <1>6. chosen \subseteq ToSet(waiting) /\ chosen \subseteq ToSet(arrived)
    BY <1>4, <1>5 DEF QueuesInv, OnceInv
  <1>7. PICK done \in SUBSET chosen :
            /\ running' = Without(p, done) /\ arrived' = Without(arrived, done)
            /\ late' \in Int /\ aged' \in Int
    BY <1>2, <1>6, StepFacts DEF QueuesInv
  <1>8. /\ q \in Seq(Requests) /\ IsInjective(q)
        /\ ToSet(q) = ToSet(waiting) \ chosen
        /\ InTurn(q, arrived)
    BY LeftFacts DEF QueuesInv
  <1> DEFINE next == Only(queue, chosen)
  <1>9. /\ next \in Seq(Requests) /\ IsInjective(next)
        /\ ToSet(next) = chosen /\ InTurn(next, arrived)
    <2>1. ToSet(queue) \cap chosen = chosen
      BY <1>5
    <2> QED
      BY <1>4, <2>1, OnlyOnce, OnlyInTurn
  <1> HIDE DEF next, q
  <1>10. /\ running \in Seq(Requests) /\ IsInjective(running) /\ InTurn(running, arrived)
         /\ AllBefore(ToSet(running), ToSet(waiting), arrived)
         /\ ToSet(running) \cap ToSet(waiting) = {}
    BY DEF QueuesInv, TypesInv, OnceInv, TurnInv
  <1>11. /\ p \in Seq(Requests) /\ IsInjective(p)
         /\ ToSet(p) = ToSet(running) \cup chosen
         /\ InTurn(p, arrived)
    <2>1. p = running \o next
      BY DEF next
    <2>2. ToSet(running) \cap chosen = {}
      BY <1>6, <1>10
    <2>3. AllBefore(ToSet(running), chosen, arrived)
      BY <1>6, <1>10 DEF AllBefore
    <2> QED
      BY <1>9, <1>10, <2>1, <2>2, <2>3, ConcatOnce, ConcatInTurn
  <1> HIDE DEF p
  <1>12. AllBefore(chosen, ToSet(q), arrived)
    <2> SUFFICES ASSUME NEW r \in chosen, NEW s \in ToSet(waiting) \ chosen,
                        AdapterOf[r] = AdapterOf[s]
                 PROVE  Precedes(arrived, r, s)
      BY <1>8 DEF AllBefore
    <2>1. r \in ToSet(queue) /\ s \in ToSet(queue)
      BY <1>4, <1>5
    <2>2. PICK k \in DOMAIN queue, j \in DOMAIN queue : queue[k] = r /\ queue[j] = s
      BY <2>1 DEF ToSet
    <2>3. k \in Nat /\ j \in Nat /\ k # j
      BY <1>4, <2>2
    <2>4. ~(j < k)
      BY <1>5, <2>2
    <2>5. k < j
      BY <2>3, <2>4
    <2> QED
      BY <1>4, <2>2, <2>5 DEF InTurn
  <1>13. AllBefore(ToSet(p), ToSet(q), arrived)
    BY <1>8, <1>10, <1>11, <1>12 DEF AllBefore
  <1>14. ToSet(p) \cap ToSet(q) = {} /\ ToSet(q) \cup ToSet(p) = ToSet(arrived)
    BY <1>6, <1>8, <1>10, <1>11 DEF QueuesInv, OnceInv
  <1>15. done \in SUBSET ToSet(p)
    BY <1>11
  <1>16. UNCHANGED settings
    BY DEF Admit
  <1> QED
    BY <1>2, <1>7, <1>8, <1>11, <1>13, <1>14, <1>15, <1>16, FinishFacts DEF QueuesInv

\* Preempted requests go back in front of the queue.
LEMMA DecodeKeeps == ASSUME QueuesInv, Decode PROVE QueuesInv'
  <1> DEFINE n == Kept
             kept == SubSeq(running, 1, n)
             victims == SubSeq(running, n + 1, Len(running))
             q == victims \o waiting
             here == [r \in Requests |-> IF r \in ToSet(kept) THEN Needed[r] ELSE 0]
  <1>1. waiting' = q
    BY DEF Decode
  <1>2. PICK heldBack \in SUBSET (ToSet(kept) \ due), forgotten \in {{}, ToSet(victims)} :
            \E eos \in SUBSET (ToSet(kept) \ heldBack) :
                Step(ToSet(kept) \ heldBack, eos, kept, here,
                     (due \ forgotten) \cup ToSet(kept))
    BY DEF Decode
  <1> DEFINE ran == ToSet(kept) \ heldBack
             nowDue == (due \ forgotten) \cup ToSet(kept)
  <1>3. PICK eos \in SUBSET ran : Step(ran, eos, kept, here, nowDue)
    BY <1>2
  <1>4. /\ running \in Seq(Requests) /\ IsInjective(running) /\ InTurn(running, arrived)
        /\ waiting \in Seq(Requests) /\ IsInjective(waiting) /\ InTurn(waiting, arrived)
        /\ AllBefore(ToSet(running), ToSet(waiting), arrived)
        /\ ToSet(running) \cap ToSet(waiting) = {}
        /\ ToSet(waiting) \cup ToSet(running) = ToSet(arrived)
    BY DEF QueuesInv, TypesInv, OnceInv, TurnInv
  <1>5. n \in 0 .. Len(running)
    BY KeptNumber DEF QueuesInv
  <1> HIDE DEF n, here
  <1>6. /\ kept \in Seq(Requests) /\ victims \in Seq(Requests)
        /\ ToSet(kept) \cup ToSet(victims) = ToSet(running)
        /\ IsInjective(kept) /\ IsInjective(victims)
        /\ ToSet(kept) \cap ToSet(victims) = {}
    BY <1>4, <1>5, CutOnce
  <1>7. /\ InTurn(kept, arrived) /\ InTurn(victims, arrived)
        /\ AllBefore(ToSet(kept), ToSet(victims), arrived)
    BY <1>4, <1>5, CutInTurn
  <1> HIDE DEF kept, victims
  <1>8. ToSet(victims) \cap ToSet(waiting) = {}
    BY <1>4, <1>6
  <1>9. AllBefore(ToSet(victims), ToSet(waiting), arrived)
    BY <1>4, <1>6 DEF AllBefore
  <1>10. /\ q \in Seq(Requests) /\ IsInjective(q)
         /\ ToSet(q) = ToSet(victims) \cup ToSet(waiting)
         /\ InTurn(q, arrived)
    BY <1>4, <1>6, <1>7, <1>8, <1>9, ConcatOnce, ConcatInTurn
  <1> HIDE DEF q
  <1>11. /\ ToSet(kept) \cap ToSet(q) = {}
         /\ ToSet(q) \cup ToSet(kept) = ToSet(arrived)
    BY <1>4, <1>6, <1>10
  <1>12. AllBefore(ToSet(kept), ToSet(q), arrived)
    BY <1>4, <1>6, <1>7, <1>10 DEF AllBefore
  <1>13. ran \in SUBSET ToSet(arrived)
    BY <1>11
  <1> HIDE DEF nowDue
  <1>14. PICK done \in SUBSET ran :
            /\ running' = Without(kept, done) /\ arrived' = Without(arrived, done)
            /\ late' \in Int /\ aged' \in Int
    <2> HIDE DEF ran
    <2> QED
      BY <1>3, <1>13, StepFacts DEF QueuesInv
  <1>15. done \in SUBSET ToSet(kept)
    BY <1>14
  <1>16. UNCHANGED settings
    BY DEF Decode
  <1> QED
    BY <1>1, <1>6, <1>7, <1>10, <1>11, <1>12, <1>14, <1>15, <1>16, FinishFacts DEF QueuesInv

LEMMA NextQueues == QueuesInv /\ [Next]_vars => QueuesInv'
  <1> SUFFICES ASSUME QueuesInv, [Next]_vars PROVE QueuesInv'
    OBVIOUS
  <1>1. CASE UNCHANGED vars
    BY <1>1 DEF vars, settings, clockVars, QueuesInv, TypesInv, OnceInv, TurnInv
  <1>2. CASE GetsLate \/ GetsAged
    BY <1>2 DEF GetsLate, GetsAged, settings, QueuesInv, TypesInv, OnceInv, TurnInv
  <1> QED
    BY <1>1, <1>2, ArriveKeeps, AdmitKeeps, DecodeKeeps DEF Next

\* Grouping, rotation, admission and preemption take the queues apart and put
\* them together again without losing or doubling a request.
THEOREM QueuesHoldEachOnce == Spec => []NoRequestLost
  <1>1. QueuesInv => NoRequestLost
    <2> SUFFICES ASSUME QueuesInv PROVE NoRequestLost
      OBVIOUS
    <2>1. /\ running \in Seq(Requests) /\ waiting \in Seq(Requests)
          /\ IsInjective(running) /\ IsInjective(waiting)
          /\ ToSet(waiting) \cap ToSet(running) = {}
          /\ ToSet(waiting) \cup ToSet(running) = ToSet(arrived)
      BY DEF QueuesInv, TypesInv, OnceInv
    <2>2. /\ ToSet(waiting \o running) = ToSet(waiting) \cup ToSet(running)
          /\ IsInjective(waiting \o running)
      BY <2>1, ConcatOnce
    <2> QED
      BY <2>1, <2>2 DEF NoRequestLost
  <1> QED
    BY <1>1, InitQueues, NextQueues, PTL DEF Spec

\* No policy turns the order of two requests for the same adapter: the earlier
\* one runs, and stands before the later one.
THEOREM AdapterOrderKept == Spec => []OwnAdapterInOrder
  <1>1. QueuesInv => OwnAdapterInOrder
    <2> SUFFICES ASSUME QueuesInv, NEW i \in DOMAIN running, NEW r \in ToSet(arrived),
                        AdapterOf[r] = AdapterOf[running[i]], Earlier(r, running[i])
                 PROVE  \E j \in 1 .. (i - 1) : running[j] = r
      BY DEF OwnAdapterInOrder
    <2>1. running[i] \in ToSet(running)
      BY DEF ToSet
    <2>2. running[i] \in ToSet(arrived)
      BY <2>1 DEF QueuesInv, OnceInv
    <2>3. ~Earlier(running[i], r) /\ r # running[i]
      <3>1. Rank(r) \in Nat /\ Rank(running[i]) \in Nat
        <4>1. DOMAIN arrived \subseteq Nat
          BY DEF QueuesInv, TypesInv
        <4> QED
          BY <2>2, <4>1, RankFacts DEF QueuesInv, TypesInv, OnceInv
      <3> QED
        BY <3>1 DEF Earlier
    <2>4. ~Precedes(arrived, running[i], r)
      BY <2>2, <2>3, RankFacts DEF QueuesInv, TypesInv, OnceInv
    <2>5. r \notin ToSet(waiting)
      BY <2>1, <2>4 DEF QueuesInv, TurnInv, AllBefore
    <2>6. r \in ToSet(running)
      BY <2>5 DEF QueuesInv, OnceInv
    <2>7. PICK j \in DOMAIN running : running[j] = r
      BY <2>6 DEF ToSet
    <2>8. ~(i < j) /\ i # j
      BY <2>3, <2>4, <2>7 DEF QueuesInv, TurnInv, InTurn
    <2>9. i \in Nat /\ j \in Nat /\ j >= 1
      BY DEF QueuesInv, TypesInv
    <2>10. j \in 1 .. (i - 1)
      BY <2>8, <2>9
    <2> QED
      BY <2>7, <2>10
  <1> QED
    BY <1>1, InitQueues, NextQueues, PTL DEF Spec

-----------------------------------------------------------------------------
(***************************************************************************)
(* The room in the KV cache.                                               *)
(***************************************************************************)

\* The lifetimes of the requests of S fit, up to one block for all but one.
HasRoom(S) == S # {} => Total(Lifetimes, S) <= Blocks + Cardinality(S) - 1

\* Only running requests hold blocks: all they need, but for the token that was
\* sampled last.
BlocksInv ==
    /\ len \in [Requests -> Nat] /\ blocks \in [Requests -> Nat]
    /\ \A r \in Requests \ ToSet(running) : blocks[r] = 0
    /\ \A r \in ToSet(running) : CeilDiv(len[r]) <= blocks[r] + 1

RoomInv == kvAware => HasRoom(ToSet(running))

LEMMA CeilDivFacts ==
    ASSUME NEW n \in Nat
    PROVE  /\ CeilDiv(n) \in Nat
           /\ CeilDiv(n + 1) <= CeilDiv(n) + 1
           /\ n > 0 => CeilDiv(n) >= 1
  <1>1. BlockSize \in Nat /\ BlockSize > 0
    BY AdmissionAssumption
  <1>2. ASSUME NEW x \in Nat
        PROVE  /\ CeilDiv(x) \in Nat /\ CeilDiv(x) * BlockSize >= x
               /\ (CeilDiv(x) - 1) * BlockSize < x
               /\ x > 0 => CeilDiv(x) > 0
    BY <1>1 DEF CeilDiv
  <1> DEFINE a == CeilDiv(n)
             b == CeilDiv(n + 1)
             low == (b - 1) * BlockSize
             high == a * BlockSize
  <1>3. /\ a \in Nat /\ b \in Nat /\ low \in Int /\ high \in Int
        /\ high >= n /\ low < n + 1
    BY <1>1, <1>2
  <1> HIDE DEF low, high
  <1>4. low < high + BlockSize
    BY <1>1, <1>3
  <1> HIDE DEF a, b
  <1>5. b - 1 < a + 1
    BY <1>1, <1>3, <1>4 DEF low, high
  <1>6. n > 0 => a > 0
    BY <1>2 DEF a
  <1> QED
    BY <1>3, <1>5, <1>6 DEF a, b

\* A request needs blocks over its life, no more than there are.
LEMMA LifetimesFit ==
    /\ Counts(Lifetimes, Requests)
    /\ \A r \in Requests : Lifetimes[r] >= 1 /\ Lifetimes[r] <= Blocks
  <1> SUFFICES ASSUME NEW r \in Requests
               PROVE  /\ Lifetimes[r] \in Nat
                      /\ Lifetimes[r] >= 1 /\ Lifetimes[r] <= Blocks
    BY DEF Counts
  <1>1. Lifetimes[r] = CeilDiv(Prompt[r] + MaxNew)
    BY DEF Lifetimes, LifetimeBlocks
  <1>2. Prompt[r] + MaxNew \in Nat /\ Prompt[r] + MaxNew > 0
    BY AdmissionAssumption
  <1> QED
    BY <1>1, <1>2, CeilDivFacts, AdmissionAssumption

\* A queue without duplicates, as a set.
LEMMA OnceAsSet ==
    ASSUME NEW T, NEW q \in Seq(T), IsInjective(q)
    PROVE  IsFiniteSet(ToSet(q)) /\ Cardinality(ToSet(q)) = Len(q)
  <1>1. Len(q) \in Nat /\ DOMAIN q = 1 .. Len(q)
    OBVIOUS
  <1>2. IsFiniteSet(1 .. Len(q)) /\ Cardinality(1 .. Len(q)) = Len(q)
    BY <1>1, UpTo
  <1>3. q \in [1 .. Len(q) -> ToSet(q)]
    BY <1>1 DEF ToSet
  <1>4. q \in Bijection(1 .. Len(q), ToSet(q))
    BY <1>1, <1>3 DEF Bijection, Injection, Surjection, IsInjective, ToSet
  <1>5. ExistsBijection(1 .. Len(q), ToSet(q))
    BY <1>4 DEF ExistsBijection
  <1> QED
    BY <1>2, <1>5, FS_Bijection

LEMMA QueueFinite ==
    ASSUME NEW q \in Seq(Requests)
    PROVE  IsFiniteSet(ToSet(q)) /\ ToSet(q) \subseteq Requests
  <1>1. Len(q) \in Nat /\ DOMAIN q = 1 .. Len(q)
    OBVIOUS
  <1>2. IsFiniteSet(1 .. Len(q))
    BY <1>1, UpTo
  <1>3. q \in [1 .. Len(q) -> ToSet(q)] /\ ToSet(q) \subseteq Requests
    BY <1>1 DEF ToSet
  <1>4. q \in Surjection(1 .. Len(q), ToSet(q))
    BY <1>1, <1>3 DEF Surjection, ToSet
  <1> QED
    BY <1>2, <1>3, <1>4, FS_Surjection

\* What leaves takes its lifetime, at least one block, with it.
LEMMA RoomOfPart ==
    ASSUME NEW S \in SUBSET Requests, IsFiniteSet(S), NEW T \in SUBSET S, HasRoom(S)
    PROVE  HasRoom(T)
  <1> SUFFICES ASSUME T # {} PROVE Total(Lifetimes, T) <= Blocks + Cardinality(T) - 1
    BY DEF HasRoom
  <1>1. Counts(Lifetimes, S) /\ Counts(Lifetimes, S \ T) /\ Blocks \in Nat
    BY LifetimesFit, AdmissionAssumption DEF Counts
  <1>2. /\ IsFiniteSet(T) /\ IsFiniteSet(S \ T)
        /\ Total(Lifetimes, T) \in Nat /\ Total(Lifetimes, S \ T) \in Nat
        /\ Total(Lifetimes, S) = Total(Lifetimes, T) + Total(Lifetimes, S \ T)
    BY <1>1, TotalPart
  <1>3. Cardinality(S \ T) <= Total(Lifetimes, S \ T)
    BY <1>1, <1>2, LifetimesFit, TotalAtLeast
  <1>4. /\ Cardinality(T) \in Nat /\ Cardinality(S \ T) \in Nat
        /\ Cardinality(S) = Cardinality(T) + Cardinality(S \ T)
    <2>1. T \cup (S \ T) = S /\ T \cap (S \ T) = {}
      OBVIOUS
    <2>2. Cardinality(T \cap (S \ T)) = 0
      BY <2>1, FS_EmptySet
    <2>3. Cardinality(T) \in Nat /\ Cardinality(S \ T) \in Nat
      BY <1>2, FS_CardinalityType
    <2>4. Cardinality(S) = Cardinality(T) + Cardinality(S \ T) - Cardinality(T \cap (S \ T))
      BY <1>2, <2>1, FS_Union
    <2> QED
      BY <2>2, <2>3, <2>4
  <1>5. Total(Lifetimes, S) <= Blocks + Cardinality(S) - 1
    BY DEF HasRoom
  <1> QED
    BY <1>1, <1>2, <1>3, <1>4, <1>5

\* The lifetimes of the running requests are covered by the blocks they hold,
\* those they are owed, and one more each.
LEMMA HeadroomFacts ==
    ASSUME TypesInv, BlocksInv
    PROVE  LET S == ToSet(running) IN
           /\ Headroom \in Int /\ Headroom <= Blocks
           /\ Total(Lifetimes, S) + Headroom <= Blocks + Cardinality(S)
  <1> DEFINE S == ToSet(running)
             owed == [r \in Requests |-> Max({0, Lifetimes[r] - Needed[r]})]
  <1>1. IsFiniteSet(S) /\ S \subseteq Requests
    BY QueueFinite DEF TypesInv
  <1>2. ASSUME NEW r \in Requests
        PROVE  /\ Lifetimes[r] \in Nat /\ Needed[r] \in Nat /\ blocks[r] \in Nat
               /\ Needed[r] = CeilDiv(len[r])
               /\ owed[r] \in Nat /\ owed[r] >= Lifetimes[r] - Needed[r]
    <2>1. Lifetimes[r] \in Nat
      BY LifetimesFit DEF Counts
    <2>2. Needed[r] \in Nat /\ Needed[r] = CeilDiv(len[r])
      BY CeilDivFacts DEF Needed, BlocksInv
    <2> DEFINE d == Lifetimes[r] - Needed[r]
    <2>3. d \in Int
      BY <2>1, <2>2
    <2> HIDE DEF d
    <2>4. Max({0, d}) \in {0, d} /\ Max({0, d}) >= 0 /\ Max({0, d}) >= d
      <3>1. \E x \in {0, d} : \A y \in {0, d} : x >= y
        BY <2>3
      <3> DEFINE m == CHOOSE x \in {0, d} : \A y \in {0, d} : x >= y
      <3>2. m \in {0, d} /\ \A y \in {0, d} : m >= y
        BY <3>1
      <3> QED
        BY <3>2 DEF Max
    <2>5. owed[r] = Max({0, d})
      BY DEF d
    <2> QED
      BY <2>1, <2>2, <2>3, <2>4, <2>5 DEF BlocksInv, d
  <1>3. Headroom = Blocks - Total(blocks, Requests) - Total(owed, S)
    BY DEF Headroom, Free
  <1>4. Total(blocks, Requests) = Total(blocks, S)
    BY <1>1, TotalOfRest DEF BlocksInv
  <1>5. Counts(Lifetimes, S) /\ Counts(owed, S) /\ Counts(blocks, S)
    BY <1>1, <1>2 DEF Counts
  <1>6. \A r \in S : Lifetimes[r] <= owed[r] + blocks[r] + 1
    <2> SUFFICES ASSUME NEW r \in S PROVE Lifetimes[r] <= owed[r] + blocks[r] + 1
      OBVIOUS
    <2>1. Needed[r] <= blocks[r] + 1
      BY <1>1, <1>2 DEF BlocksInv
    <2>2. /\ Lifetimes[r] \in Nat /\ Needed[r] \in Nat /\ blocks[r] \in Nat
          /\ owed[r] \in Nat /\ owed[r] >= Lifetimes[r] - Needed[r]
      BY <1>1, <1>2
    <2> HIDE DEF owed
    <2> QED
      BY <2>1, <2>2
  <1> HIDE DEF owed, S
  <1>7. Total(Lifetimes, S) <= Total(owed, S) + Total(blocks, S) + Cardinality(S)
    BY <1>1, <1>5, <1>6, TotalBound
  <1>8. /\ Total(Lifetimes, S) \in Nat /\ Total(owed, S) \in Nat /\ Total(blocks, S) \in Nat
        /\ Cardinality(S) \in Nat /\ Blocks \in Nat
    BY <1>1, <1>5, CellsFinite, FS_CardinalityType, AdmissionAssumption
  <1> QED
    BY <1>3, <1>4, <1>7, <1>8 DEF S

\* Who is admitted with the KV-aware check fits into the headroom, or is let in
\* alone.
LEMMA AdmittedRoom ==
    ASSUME TypesInv, BlocksInv, RoomInv, kvAware,
           NEW queue \in Seq(Requests), NEW slotted,
           ToSet(queue) \cap ToSet(running) = {}
    PROVE  HasRoom(ToSet(running) \cup Admitted(queue, slotted))
  <1> DEFINE chosen == Admitted(queue, slotted)
             S == ToSet(running)
             upTo(i) == ToSet(SubSeq(queue, 1, i))
             taken(i) == {r \in upTo(i) : AdapterOf[r] \in slotted}
             stock(i) == Total(Needed, taken(i - 1)) + Needed[queue[i]] <= Free
             covered(i) == \/ Total(Lifetimes, upTo(i)) <= Headroom
                           \/ i = 1 /\ running = <<>>
             passed(i) == /\ stock(i) /\ (kvAware => covered(i))
                          /\ Len(running) + Cardinality(taken(i)) <= MaxSeqs
             I == {k \in DOMAIN queue : \A j \in 1 .. k : passed(j)}
  <1>1. chosen = UNION {taken(i) : i \in I}
    BY DEF Admitted
  <1>2. Len(queue) \in Nat /\ DOMAIN queue = 1 .. Len(queue)
    OBVIOUS
  <1>3. \A i \in I : i \in 1 .. Len(queue) /\ covered(i)
    <2> SUFFICES ASSUME NEW i \in I PROVE i \in 1 .. Len(queue) /\ covered(i)
      OBVIOUS
    <2>1. i \in 1 .. Len(queue) /\ \A j \in 1 .. i : passed(j)
      BY <1>2
    <2> HIDE DEF stock, covered
    <2>2. i \in 1 .. i
      BY <2>1
    <2> QED
      BY <2>1, <2>2
  <1>4. \A i, j \in 1 .. Len(queue) : i <= j => upTo(i) \subseteq upTo(j)
    <2> SUFFICES ASSUME NEW i \in 1 .. Len(queue), NEW j \in 1 .. Len(queue), i <= j
                 PROVE  upTo(i) \subseteq upTo(j)
      OBVIOUS
    <2>1. /\ DOMAIN SubSeq(queue, 1, i) = 1 .. i /\ DOMAIN SubSeq(queue, 1, j) = 1 .. j
          /\ \A k \in 1 .. i : k \in 1 .. j /\ SubSeq(queue, 1, i)[k] = SubSeq(queue, 1, j)[k]
      BY <1>2
    <2> QED
      BY <2>1 DEF ToSet
  <1>5. \A i \in 1 .. Len(queue) : upTo(i) \subseteq ToSet(queue)
    <2> SUFFICES ASSUME NEW i \in 1 .. Len(queue) PROVE upTo(i) \subseteq ToSet(queue)
      OBVIOUS
    <2>1. /\ DOMAIN SubSeq(queue, 1, i) = 1 .. i
          /\ \A k \in 1 .. i : k \in DOMAIN queue /\ SubSeq(queue, 1, i)[k] = queue[k]
      BY <1>2
    <2> QED
      BY <2>1 DEF ToSet
  <1>6. 1 \in 1 .. Len(queue) => upTo(1) \subseteq {queue[1]}
    <2> SUFFICES ASSUME 1 \in 1 .. Len(queue) PROVE upTo(1) \subseteq {queue[1]}
      OBVIOUS
    <2>1. /\ DOMAIN SubSeq(queue, 1, 1) = 1 .. 1 /\ \A k \in 1 .. 1 : k = 1
          /\ SubSeq(queue, 1, 1)[1] = queue[1]
      BY <1>2
    <2> QED
      BY <2>1 DEF ToSet
  <1> HIDE DEF chosen, upTo, I, stock, S
  <1>7. CASE I = {}
    <2>1. chosen = {}
      BY <1>1, <1>7
    <2>2. S \cup chosen = S
      BY <2>1
    <2> QED
      BY <2>2 DEF RoomInv, S, chosen
  <1>8. CASE I # {}
    <2>1. PICK m \in I : \A i \in I : i <= m
      <3>1. I \in SUBSET (1 .. Len(queue))
        BY <1>3
      <3> QED
        BY <1>2, <1>8, <3>1, LastPlace
    <2>2. m \in 1 .. Len(queue) /\ covered(m)
      BY <1>3
    <2>3. chosen \subseteq upTo(m)
      BY <1>1, <1>3, <1>4, <2>1, <2>2
    <2>4. IsFiniteSet(ToSet(queue)) /\ ToSet(queue) \subseteq Requests
      BY QueueFinite
    <2>5. IsFiniteSet(upTo(m)) /\ upTo(m) \subseteq Requests /\ IsFiniteSet(chosen)
          /\ chosen \subseteq Requests /\ chosen \subseteq ToSet(queue)
      BY <1>5, <2>2, <2>3, <2>4, FS_Subset
    <2>6. Counts(Lifetimes, upTo(m)) /\ Counts(Lifetimes, chosen)
      BY <2>5, LifetimesFit DEF Counts
    <2>7. /\ Total(Lifetimes, chosen) \in Nat /\ Total(Lifetimes, upTo(m)) \in Nat
          /\ Total(Lifetimes, chosen) <= Total(Lifetimes, upTo(m))
      <3> DEFINE rest == upTo(m) \ chosen
      <3>1. /\ Total(Lifetimes, chosen) \in Nat /\ Total(Lifetimes, rest) \in Nat
            /\ Total(Lifetimes, upTo(m)) = Total(Lifetimes, chosen) + Total(Lifetimes, rest)
        BY <2>3, <2>5, <2>6, TotalPart
      <3> HIDE DEF rest
      <3> QED
        BY <3>1
    <2>8. /\ IsFiniteSet(S) /\ S \subseteq Requests /\ Counts(Lifetimes, S)
          /\ Cardinality(S) \in Nat /\ Total(Lifetimes, S) \in Nat
      <3>1. IsFiniteSet(S) /\ S \subseteq Requests
        BY QueueFinite DEF TypesInv, S
      <3>2. Counts(Lifetimes, S)
        BY <3>1, LifetimesFit DEF Counts
      <3> QED
        BY <3>1, <3>2, CellsFinite, FS_CardinalityType
    <2>9. /\ Headroom \in Int /\ Headroom <= Blocks /\ Blocks \in Nat
          /\ Total(Lifetimes, S) + Headroom <= Blocks + Cardinality(S)
      BY HeadroomFacts, AdmissionAssumption DEF S
    <2>10. CASE chosen = {}
      <3>1. S \cup chosen = S
        BY <2>10
      <3> QED
        BY <3>1 DEF RoomInv, S, chosen
    <2>11. CASE chosen # {}
      <3>1. S \cap chosen = {}
        BY <2>5 DEF S
      <3>2. Total(Lifetimes, S \cup chosen) = Total(Lifetimes, S) + Total(Lifetimes, chosen)
        <4>1. Counts(Lifetimes, S \cup chosen)
          BY <2>6, <2>8 DEF Counts
        <4> QED
          BY <2>5, <2>8, <3>1, <4>1, TotalUnion
      <3>3. /\ Cardinality(chosen) \in Nat /\ Cardinality(chosen) >= 1
            /\ Cardinality(S \cup chosen) = Cardinality(S) + Cardinality(chosen)
        <4>1. Cardinality(chosen) \in Nat /\ Cardinality(chosen) # 0
          BY <2>5, <2>11, FS_CardinalityType, FS_EmptySet
        <4>2. Cardinality(S \cap chosen) = 0
          BY <3>1, FS_EmptySet
        <4>3. Cardinality(S \cup chosen)
                = Cardinality(S) + Cardinality(chosen) - Cardinality(S \cap chosen)
          BY <2>5, <2>8, FS_Union
        <4> QED
          BY <2>8, <4>1, <4>2, <4>3
      <3>4. CASE Total(Lifetimes, upTo(m)) <= Headroom
        <4>1. Total(Lifetimes, S \cup chosen) <= Blocks + Cardinality(S)
          BY <2>7, <2>8, <2>9, <3>2, <3>4
        <4>2. Total(Lifetimes, S \cup chosen) <= Blocks + Cardinality(S \cup chosen) - 1
          BY <2>7, <2>8, <2>9, <3>2, <3>3, <4>1
        <4> QED
          BY <4>2 DEF HasRoom, S, chosen
      <3>5. CASE m = 1 /\ running = <<>>
        <4>1. S = {} /\ S \cup chosen = chosen
          BY <3>5 DEF S, ToSet
        <4>2. chosen = {queue[1]}
          BY <1>6, <2>2, <2>3, <2>11, <3>5
        <4>3. Total(Lifetimes, chosen) = Lifetimes[queue[1]]
          <5>1. Lifetimes[queue[1]] \in Nat
            BY <2>6, <4>2 DEF Counts
          <5> QED
            BY <4>2, <5>1, ColumnCells
        <4>4. Total(Lifetimes, chosen) <= Blocks
          BY <2>5, <4>2, <4>3, LifetimesFit
        <4>5. Total(Lifetimes, chosen) <= Blocks + Cardinality(chosen) - 1
          BY <2>7, <2>9, <3>3, <4>4
        <4> QED
          BY <4>1, <4>5 DEF HasRoom, S, chosen
      <3> QED
        BY <2>2, <3>4, <3>5
    <2> QED
      BY <2>10, <2>11
  <1> QED
    BY <1>7, <1>8

\* A step: who samples a token holds what it needs without that token.
LEMMA StepBlocks ==
    ASSUME BlocksInv, NEW queue \in Seq(Requests), NEW ran \in SUBSET ToSet(queue),
           NEW eos \in SUBSET ran, NEW nowDue, NEW held \in [Requests -> Nat],
           \A r \in Requests \ ToSet(queue) : held[r] = 0,
           \A r \in ran : CeilDiv(len[r]) <= held[r],
           \A r \in ToSet(queue) : CeilDiv(len[r]) <= held[r] + 1,
           Step(ran, eos, queue, held, nowDue)
    PROVE  BlocksInv' /\ ToSet(running') \subseteq ToSet(queue)
  <1> DEFINE done == eos \cup {r \in ran : len[r] + 1 = Prompt[r] + MaxNew}
             new(r) == IF r \in done THEN 0 ELSE IF r \in ran THEN len[r] + 1 ELSE len[r]
  <1>1. /\ len' = [r \in Requests |-> new(r)]
        /\ blocks' = [r \in Requests |-> IF r \in done THEN 0 ELSE held[r]]
        /\ running' = Without(queue, done)
    BY DEF Step
  <1> HIDE DEF done
  <1>2. ToSet(running') = ToSet(queue) \ done /\ ToSet(queue) \subseteq Requests
    BY <1>1, WithoutOnce, QueueFinite
  <1>3. len' \in [Requests -> Nat] /\ blocks' \in [Requests -> Nat]
    BY <1>1 DEF BlocksInv
  <1>4. \A r \in Requests \ ToSet(running') : blocks'[r] = 0
    BY <1>1, <1>2
  <1>5. ASSUME NEW r \in ToSet(running') PROVE CeilDiv(len'[r]) <= blocks'[r] + 1
    <2>1. r \in Requests /\ r \in ToSet(queue) /\ r \notin done
      BY <1>2
    <2>2. blocks'[r] = held[r] /\ held[r] \in Nat /\ len[r] \in Nat
      BY <1>1, <2>1 DEF BlocksInv
    <2>3. CASE r \in ran
      <3>1. len'[r] = len[r] + 1
        BY <1>1, <2>1, <2>3
      <3>2. /\ CeilDiv(len[r] + 1) <= CeilDiv(len[r]) + 1
            /\ CeilDiv(len[r]) \in Nat /\ CeilDiv(len[r] + 1) \in Nat
        <4>1. len[r] \in Nat /\ len[r] + 1 \in Nat
          BY <2>2
        <4> QED
          BY <4>1, CeilDivFacts
      <3>3. CeilDiv(len[r]) <= held[r]
        BY <2>3
      <3> QED
        BY <2>2, <3>1, <3>2, <3>3
    <2>4. CASE r \notin ran
      <3>1. len'[r] = len[r]
        BY <1>1, <2>1, <2>4
      <3> QED
        BY <2>1, <2>2, <3>1
    <2> QED
      BY <2>3, <2>4
  <1>6. (\A r \in ToSet(running) : CeilDiv(len[r]) <= blocks[r] + 1)'
    BY <1>5 DEF CeilDiv
  <1> QED
    BY <1>2, <1>3, <1>4, <1>6 DEF BlocksInv

CacheInv == BlocksInv /\ RoomInv

LEMMA InitCache == Init => CacheInv
  <1> SUFFICES ASSUME Init PROVE CacheInv
    OBVIOUS
  <1>1. /\ len = [r \in Requests |-> 0] /\ blocks = [r \in Requests |-> 0]
        /\ ToSet(running) = {}
    BY DEF Init, ToSet
  <1> QED
    BY <1>1 DEF CacheInv, BlocksInv, RoomInv, HasRoom

LEMMA ArriveCache ==
    ASSUME QueuesInv, CacheInv, NEW r \in Requests, Arrive(r)
    PROVE  CacheInv'
  <1>1. /\ r \notin ToSet(arrived) /\ len' = [len EXCEPT ![r] = Prompt[r]]
        /\ blocks' = blocks /\ running' = running /\ kvAware' = kvAware
    BY DEF Arrive, settings
  <1>2. r \notin ToSet(running)
    BY <1>1 DEF QueuesInv, OnceInv
  <1>3. Prompt[r] \in Nat
    BY AdmissionAssumption
  <1>4. len' \in [Requests -> Nat] /\ \A s \in ToSet(running) : len'[s] = len[s]
    <2>1. ToSet(running) \subseteq Requests
      BY QueueFinite DEF QueuesInv, TypesInv
    <2> QED
      BY <1>1, <1>2, <1>3, <2>1 DEF CacheInv, BlocksInv
  <1>5. BlocksInv'
    BY <1>1, <1>4 DEF CacheInv, BlocksInv, CeilDiv
  <1>6. RoomInv'
    BY <1>1 DEF CacheInv, RoomInv, HasRoom
  <1> QED
    BY <1>5, <1>6 DEF CacheInv

LEMMA AdmitCache ==
    ASSUME QueuesInv, QueuesInv', CacheInv, Admit
    PROVE  CacheInv'
  <1>1. PICK held \in Holdouts, order \in {IF grouped THEN ByAdapter ELSE {}} :
        \E queue \in {WithoutHeld(SortedBy(waiting, order), held)} :
        \E slotted \in {Slotted(queue)} : \E chosen \in {Admitted(queue, slotted)} :
            Step(chosen, {}, running \o Only(queue, chosen),
                 [r \in Requests |-> IF r \in chosen THEN Needed[r] ELSE blocks[r]],
                 due)
    BY DEF Admit
  <1> DEFINE queue == WithoutHeld(SortedBy(waiting, order), held)
             slotted == Slotted(queue)
             chosen == Admitted(queue, slotted)
             here == [r \in Requests |-> IF r \in chosen THEN Needed[r] ELSE blocks[r]]
             p == running \o Only(queue, chosen)
             S == ToSet(running)
  <1>2. Step(chosen, {}, p, here, due)
    BY <1>1
  <1>3. order = IF grouped THEN ByAdapter ELSE {}
    OBVIOUS
  <1>4. /\ queue \in Seq(Requests) /\ IsInjective(queue)
        /\ ToSet(queue) = {r \in ToSet(waiting) : AdapterOf[r] \notin held}
    BY <1>3, QueueFacts DEF QueuesInv
  <1> HIDE DEF queue
  <1>5. chosen \subseteq ToSet(queue)
    BY <1>4, AdmittedFacts
  <1>6. S \cap ToSet(queue) = {} /\ S \subseteq Requests /\ running \in Seq(Requests)
    <2>1. ToSet(running) \subseteq Requests /\ running \in Seq(Requests)
      BY QueueFinite DEF QueuesInv, TypesInv
    <2> QED
      BY <1>4, <2>1 DEF QueuesInv, OnceInv
  <1>7. kvAware => HasRoom(S \cup chosen)
    BY <1>4, <1>6, AdmittedRoom DEF QueuesInv, CacheInv
  <1> HIDE DEF slotted, chosen
  <1>8. p \in Seq(Requests) /\ ToSet(p) = S \cup chosen
    <2>1. Only(queue, chosen) \in Seq(Requests) /\ ToSet(Only(queue, chosen)) = chosen
      <3>1. ToSet(queue) \cap chosen = chosen
        BY <1>5
      <3> QED
        BY <1>4, <3>1, OnlyOnce
    <2> QED
      BY <1>6, <2>1, ConcatOnce
  <1> HIDE DEF p
  <1>9. chosen \subseteq Requests
    BY <1>4, <1>5, QueueFinite
  <1>10. /\ here \in [Requests -> Nat]
         /\ \A r \in chosen : here[r] = CeilDiv(len[r])
         /\ \A r \in Requests \ chosen : here[r] = blocks[r]
    <2>1. \A r \in Requests : Needed[r] = CeilDiv(len[r]) /\ Needed[r] \in Nat
      BY CeilDivFacts DEF Needed, CacheInv, BlocksInv
    <2> QED
      BY <1>9, <2>1 DEF CacheInv, BlocksInv
  <1> HIDE DEF here
  <1>11. \A r \in Requests \ ToSet(p) : here[r] = 0
    BY <1>8, <1>10 DEF CacheInv, BlocksInv
  <1>12. \A r \in chosen : CeilDiv(len[r]) \in Nat /\ CeilDiv(len[r]) <= here[r]
    BY <1>9, <1>10, CeilDivFacts DEF CacheInv, BlocksInv
  <1>13. \A r \in ToSet(p) : CeilDiv(len[r]) <= here[r] + 1
    <2>1. \A r \in S : CeilDiv(len[r]) <= here[r] + 1
      <3> SUFFICES ASSUME NEW r \in S PROVE CeilDiv(len[r]) <= here[r] + 1
        OBVIOUS
      <3>1. r \notin chosen /\ r \in Requests
        BY <1>5, <1>6
      <3>2. here[r] = blocks[r] /\ CeilDiv(len[r]) <= blocks[r] + 1
        BY <1>10, <3>1 DEF CacheInv, BlocksInv
      <3> QED
        BY <3>2
    <2>2. \A r \in chosen : CeilDiv(len[r]) <= here[r] + 1
      <3> SUFFICES ASSUME NEW r \in chosen PROVE CeilDiv(len[r]) <= here[r] + 1
        OBVIOUS
      <3>1. here[r] \in Nat /\ here[r] = CeilDiv(len[r])
        BY <1>9, <1>10
      <3> QED
        BY <3>1
    <2> QED
      BY <1>8, <2>1, <2>2
  <1>14. BlocksInv' /\ ToSet(running') \subseteq S \cup chosen
    <2>1. chosen \in SUBSET ToSet(p) /\ {} \in SUBSET chosen
      BY <1>8
    <2> QED
      BY <1>2, <1>8, <1>10, <1>11, <1>12, <1>13, <2>1, StepBlocks DEF CacheInv
  <1>15. RoomInv'
    <2> SUFFICES ASSUME kvAware' PROVE HasRoom(ToSet(running'))
      BY DEF RoomInv, HasRoom
    <2>1. kvAware
      BY DEF Admit, settings
    <2>2. IsFiniteSet(S \cup chosen) /\ S \cup chosen \subseteq Requests
      BY <1>8, QueueFinite
    <2> QED
      BY <1>7, <1>14, <2>1, <2>2, RoomOfPart
  <1> QED
    BY <1>14, <1>15 DEF CacheInv

LEMMA DecodeCache ==
    ASSUME QueuesInv, QueuesInv', CacheInv, Decode
    PROVE  CacheInv'
  <1> DEFINE n == Kept
             kept == SubSeq(running, 1, n)
             victims == SubSeq(running, n + 1, Len(running))
             here == [r \in Requests |-> IF r \in ToSet(kept) THEN Needed[r] ELSE 0]
  <1>1. PICK heldBack \in SUBSET (ToSet(kept) \ due), forgotten \in {{}, ToSet(victims)} :
            \E eos \in SUBSET (ToSet(kept) \ heldBack) :
                Step(ToSet(kept) \ heldBack, eos, kept, here,
                     (due \ forgotten) \cup ToSet(kept))
    BY DEF Decode
  <1> DEFINE ran == ToSet(kept) \ heldBack
             nowDue == (due \ forgotten) \cup ToSet(kept)
  <1>2. PICK eos \in SUBSET ran : Step(ran, eos, kept, here, nowDue)
    BY <1>1
  <1>3. n \in 0 .. Len(running) /\ running \in Seq(Requests)
    BY KeptNumber DEF QueuesInv, TypesInv
  <1> HIDE DEF n
  <1>4. kept \in Seq(Requests) /\ ToSet(kept) \subseteq ToSet(running)
    BY <1>3, CutOnce
  <1> HIDE DEF kept, nowDue
  <1>5. ToSet(kept) \subseteq Requests /\ ran \in SUBSET ToSet(kept)
    BY <1>4, QueueFinite
  <1>6. /\ here \in [Requests -> Nat]
        /\ \A r \in ToSet(kept) : here[r] = CeilDiv(len[r]) /\ CeilDiv(len[r]) \in Nat
        /\ \A r \in Requests \ ToSet(kept) : here[r] = 0
    <2>1. \A r \in Requests : Needed[r] = CeilDiv(len[r]) /\ Needed[r] \in Nat
      BY CeilDivFacts DEF Needed, CacheInv, BlocksInv
    <2> QED
      BY <1>5, <2>1
  <1> HIDE DEF here
  <1>7. /\ \A r \in ran : CeilDiv(len[r]) <= here[r]
        /\ \A r \in ToSet(kept) : CeilDiv(len[r]) <= here[r] + 1
    <2> SUFFICES ASSUME NEW r \in ToSet(kept)
                 PROVE  CeilDiv(len[r]) <= here[r] /\ CeilDiv(len[r]) <= here[r] + 1
      BY <1>5
    <2>1. here[r] = CeilDiv(len[r]) /\ CeilDiv(len[r]) \in Nat
      BY <1>6
    <2> QED
      BY <2>1
  <1> HIDE DEF ran
  <1>8. BlocksInv' /\ ToSet(running') \subseteq ToSet(kept)
    BY <1>2, <1>4, <1>5, <1>6, <1>7, StepBlocks DEF CacheInv
  <1>9. RoomInv'
    <2> SUFFICES ASSUME kvAware' PROVE HasRoom(ToSet(running'))
      BY DEF RoomInv, HasRoom
    <2>1. kvAware
      BY DEF Decode, settings
    <2>2. IsFiniteSet(ToSet(running)) /\ ToSet(running) \subseteq Requests
      BY <1>3, QueueFinite
    <2> QED
      BY <1>4, <1>8, <2>1, <2>2, RoomOfPart DEF CacheInv, RoomInv
  <1> QED
    BY <1>8, <1>9 DEF CacheInv

LEMMA NextCache == QueuesInv /\ QueuesInv' /\ CacheInv /\ [Next]_vars => CacheInv'
  <1> SUFFICES ASSUME QueuesInv, QueuesInv', CacheInv, [Next]_vars PROVE CacheInv'
    OBVIOUS
  <1>1. CASE UNCHANGED vars \/ GetsLate \/ GetsAged
    <2>1. UNCHANGED <<running, len, blocks, kvAware>>
      BY <1>1 DEF vars, GetsLate, GetsAged, settings
    <2> QED
      BY <2>1 DEF CacheInv, BlocksInv, RoomInv, HasRoom, CeilDiv
  <1> QED
    BY <1>1, ArriveCache, AdmitCache, DecodeCache DEF Next

\* KV-aware admission keeps the lifetimes of the running requests within the
\* cache, up to one block for all but one of them.
THEOREM LifetimesCovered == Spec => []KvRoom
  <1>1. QueuesInv /\ CacheInv => KvRoom
    <2> SUFFICES ASSUME QueuesInv, CacheInv, kvAware, running # <<>>
                 PROVE  Total(Lifetimes, ToSet(running)) <= Blocks + Len(running) - 1
      BY DEF KvRoom
    <2>1. Cardinality(ToSet(running)) = Len(running)
      BY OnceAsSet DEF QueuesInv, TypesInv, OnceInv
    <2>2. ToSet(running) # {}
      <3>1. 1 \in DOMAIN running
        BY DEF QueuesInv, TypesInv
      <3> QED
        BY <3>1 DEF ToSet
    <2> QED
      BY <2>1, <2>2 DEF CacheInv, RoomInv, HasRoom
  <1> QED
    BY <1>1, InitQueues, NextQueues, InitCache, NextCache, PTL DEF Spec

-----------------------------------------------------------------------------
(***************************************************************************)
(* Slots for adapters.                                                     *)
(***************************************************************************)

\* The adapters whose first request in queue comes before the first for a.
Ahead(queue, a) ==
    {b \in Loras(queue) : \E i \in DOMAIN queue :
        /\ AdapterOf[queue[i]] = b
        /\ \A j \in 1 .. i : AdapterOf[queue[j]] # a}

\* The adapters of the queue that find a slot beside those of R.
Placed(queue, R) ==
    {a \in Loras(queue) : Cardinality(R \cup Ahead(queue, a)) < MaxLoras}

\* F is the place of the first request for each adapter.
FirstOf(queue, F) ==
    \A a \in Loras(queue) :
        /\ F[a] \in DOMAIN queue /\ AdapterOf[queue[F[a]]] = a
        /\ \A j \in DOMAIN queue : AdapterOf[queue[j]] = a => F[a] <= j

LEMMA LorasOf ==
    ASSUME NEW q \in Seq(Requests)
    PROVE  /\ Loras(q) = {AdapterOf[r] : r \in ToSet(q)} \ {0}
           /\ IsFiniteSet(Loras(q))
  <1> DEFINE all == {AdapterOf[r] : r \in ToSet(q)}
             f == [r \in ToSet(q) |-> AdapterOf[r]]
  <1>1. Loras(q) = all \ {0}
    BY DEF Loras, ToSet
  <1>2. IsFiniteSet(ToSet(q))
    BY QueueFinite
  <1>3. f \in Surjection(ToSet(q), all)
    BY DEF Surjection
  <1>4. IsFiniteSet(all)
    BY <1>2, <1>3, FS_Surjection
  <1> QED
    BY <1>1, <1>4, FS_Subset

LEMMA FirstOfExists ==
    ASSUME NEW queue \in Seq(Requests)
    PROVE  \E F : FirstOf(queue, F)
  <1> DEFINE place(a) == {i \in DOMAIN queue : AdapterOf[queue[i]] = a}
             isFirst(a, m) == m \in place(a) /\ \A i \in place(a) : m <= i
             F == [a \in Loras(queue) |-> CHOOSE m : isFirst(a, m)]
  <1>1. Len(queue) \in Nat /\ DOMAIN queue = 1 .. Len(queue)
    OBVIOUS
  <1>2. ASSUME NEW a \in Loras(queue) PROVE \E m : isFirst(a, m)
    <2>1. place(a) \in SUBSET (1 .. Len(queue)) /\ place(a) # {}
      BY <1>1 DEF Loras
    <2> HIDE DEF place
    <2> QED
      BY <1>1, <2>1, FirstPlace
  <1>3. ASSUME NEW a \in Loras(queue) PROVE isFirst(a, F[a])
    <2> HIDE DEF isFirst
    <2> QED
      BY <1>2
  <1> HIDE DEF F
  <1> QED
    BY <1>3 DEF FirstOf

\* The adapters ahead are those that come first earlier.
LEMMA AheadOrder ==
    ASSUME NEW queue \in Seq(Requests), NEW F, FirstOf(queue, F)
    PROVE  /\ \A a \in Loras(queue) :
                Ahead(queue, a) = {b \in Loras(queue) : F[b] < F[a]}
           /\ \A a, b \in Loras(queue) : F[a] = F[b] => a = b
           /\ \A a \in Loras(queue) : F[a] \in 1 .. Len(queue)
  <1>1. Len(queue) \in Nat /\ DOMAIN queue = 1 .. Len(queue)
    OBVIOUS
  <1>2. ASSUME NEW a \in Loras(queue), NEW b \in Loras(queue)
        PROVE  b \in Ahead(queue, a) <=> F[b] < F[a]
    <2>1. /\ F[a] \in 1 .. Len(queue) /\ AdapterOf[queue[F[a]]] = a
          /\ F[b] \in 1 .. Len(queue) /\ AdapterOf[queue[F[b]]] = b
          /\ \A j \in 1 .. Len(queue) : AdapterOf[queue[j]] = a => F[a] <= j
          /\ \A j \in 1 .. Len(queue) : AdapterOf[queue[j]] = b => F[b] <= j
      BY <1>1 DEF FirstOf
    <2>2. ASSUME b \in Ahead(queue, a) PROVE F[b] < F[a]
      <3>1. PICK i \in 1 .. Len(queue) :
                AdapterOf[queue[i]] = b /\ \A j \in 1 .. i : AdapterOf[queue[j]] # a
        BY <1>1, <2>2 DEF Ahead
      <3>2. F[a] \notin 1 .. i /\ F[b] <= i
        BY <2>1, <3>1
      <3> QED
        BY <2>1, <3>1, <3>2
    <2>3. ASSUME F[b] < F[a] PROVE b \in Ahead(queue, a)
      <3>1. \A j \in 1 .. F[b] : AdapterOf[queue[j]] # a
        <4> SUFFICES ASSUME NEW j \in 1 .. F[b], AdapterOf[queue[j]] = a PROVE FALSE
          OBVIOUS
        <4>1. j \in 1 .. Len(queue) /\ j < F[a]
          BY <1>1, <2>1, <2>3
        <4> QED
          BY <1>1, <2>1, <4>1
      <3> QED
        BY <1>1, <2>1, <3>1 DEF Ahead
    <2> QED
      BY <2>2, <2>3
  <1>3. \A a \in Loras(queue) : F[a] \in 1 .. Len(queue) /\ AdapterOf[queue[F[a]]] = a
    BY <1>1 DEF FirstOf
  <1>4. \A a \in Loras(queue) : Ahead(queue, a) \subseteq Loras(queue)
    BY DEF Ahead
  <1> QED
    BY <1>2, <1>3, <1>4

\* Beside those of R, no more adapters are placed than there are slots.
LEMMA PlacedFit ==
    ASSUME NEW queue \in Seq(Requests), NEW R, IsFiniteSet(R), Cardinality(R) <= MaxLoras
    PROVE  /\ IsFiniteSet(R \cup Placed(queue, R))
           /\ Cardinality(R \cup Placed(queue, R)) <= MaxLoras
  <1> DEFINE N == Placed(queue, R)
             L == Loras(queue)
  <1>1. PICK F : FirstOf(queue, F)
    BY FirstOfExists
  <1>2. IsFiniteSet(L) /\ N \subseteq L /\ IsFiniteSet(N) /\ IsFiniteSet(R \cup N)
    <2>1. IsFiniteSet(L) /\ N \subseteq L
      BY LorasOf DEF Placed
    <2> QED
      BY <2>1, FS_Subset, FS_Union
  <1>3. CASE N = {}
    BY <1>2, <1>3
  <1>4. CASE N # {}
    <2> DEFINE I == {F[a] : a \in N}
    <2>1. I \in SUBSET (1 .. Len(queue)) /\ I # {} /\ Len(queue) \in Nat
      BY <1>1, <1>2, <1>4, AheadOrder
    <2>2. PICK m \in I : \A i \in I : i <= m
      BY <2>1, LastPlace
    <2>3. PICK b \in N : m = F[b]
      BY <2>2
    <2> DEFINE A == Ahead(queue, b)
    <2>4. A = {c \in L : F[c] < F[b]} /\ \A c \in L : F[c] = F[b] => c = b
      BY <1>1, <1>2, <2>3, AheadOrder
    <2>5. N \subseteq A \cup {b}
      <3> SUFFICES ASSUME NEW c \in N PROVE c \in A \/ c = b
        OBVIOUS
      <3>1. F[c] <= F[b] /\ F[c] \in Int /\ F[b] \in Int
        BY <1>1, <1>2, <2>2, <2>3, AheadOrder
      <3>2. F[c] < F[b] \/ F[c] = F[b]
        BY <3>1
      <3> QED
        BY <1>2, <2>4, <3>2
    <2>6. IsFiniteSet(R \cup A) /\ Cardinality(R \cup A) < MaxLoras
      <3>1. IsFiniteSet(A)
        BY <1>2, FS_Subset DEF Ahead
      <3> QED
        BY <2>3, <3>1, FS_Union DEF Placed
    <2>7. /\ IsFiniteSet((R \cup A) \cup {b})
          /\ Cardinality((R \cup A) \cup {b}) <= Cardinality(R \cup A) + 1
      <3> DEFINE X == R \cup A
      <3> HIDE DEF X
      <3>1. IsFiniteSet(X) /\ Cardinality(X) \in Nat
        BY <2>6, FS_CardinalityType DEF X
      <3>2. /\ IsFiniteSet(X \cup {b})
            /\ Cardinality(X \cup {b}) = IF b \in X THEN Cardinality(X) ELSE Cardinality(X) + 1
        BY <3>1, FS_AddElement
      <3>3. Cardinality(X \cup {b}) <= Cardinality(X) + 1
        BY <3>1, <3>2
      <3> QED
        BY <3>2, <3>3 DEF X
    <2>8. R \cup N \subseteq (R \cup A) \cup {b}
      BY <2>5
    <2> HIDE DEF A, N
    <2>9. Cardinality(R \cup N) <= Cardinality((R \cup A) \cup {b})
      BY <2>7, <2>8, FS_Subset
    <2>10. /\ Cardinality(R \cup N) \in Nat /\ Cardinality(R \cup A) \in Nat
           /\ Cardinality((R \cup A) \cup {b}) \in Nat /\ MaxLoras \in Nat
      BY <1>2, <2>6, <2>7, FS_CardinalityType, AdmissionAssumption
    <2>11. Cardinality(R \cup N) <= MaxLoras
      BY <2>6, <2>7, <2>9, <2>10
    <2> QED
      BY <1>2, <2>11 DEF N
  <1> QED
    BY <1>3, <1>4

\* Where an adapter is not placed, the slots go to those of R and to the ones
\* placed ahead of it.
LEMMA SlotsTaken ==
    ASSUME NEW queue \in Seq(Requests), NEW R, IsFiniteSet(R),
           NEW a \in Loras(queue), a \notin Placed(queue, R)
    PROVE  Cardinality(R \cup (Placed(queue, R) \cap Ahead(queue, a))) >= MaxLoras
  <1> DEFINE N == Placed(queue, R)
             L == Loras(queue)
             U == L \ N
  <1>1. PICK F : FirstOf(queue, F)
    BY FirstOfExists
  <1> DEFINE J == {F[c] : c \in U}
  <1>2. J \in SUBSET (1 .. Len(queue)) /\ J # {} /\ Len(queue) \in Nat
    BY <1>1, AheadOrder
  <1>3. PICK m \in J : \A i \in J : m <= i
    BY <1>2, FirstPlace
  <1>4. PICK c \in U : m = F[c]
    BY <1>3
  <1>5. \A b \in L : F[b] \in Int
    BY <1>1, AheadOrder
  <1> DEFINE A == Ahead(queue, c)
             B == Ahead(queue, a)
  <1>6. A = {b \in L : F[b] < F[c]} /\ B = {b \in L : F[b] < F[a]}
    BY <1>1, AheadOrder
  <1>7. F[c] <= F[a]
    BY <1>3, <1>4
  <1>8. A \subseteq N \cap B
    <2> SUFFICES ASSUME NEW b \in A PROVE b \in N /\ b \in B
      OBVIOUS
    <2>1. b \in L /\ F[b] < F[c]
      BY <1>6
    <2>2. b \in B
      BY <1>5, <1>6, <1>7, <2>1
    <2>3. b \in N
      <3> SUFFICES ASSUME b \notin N PROVE FALSE
        OBVIOUS
      <3>1. F[c] <= F[b]
        BY <1>3, <1>4, <2>1
      <3> QED
        BY <1>5, <2>1, <3>1
    <2> QED
      BY <2>2, <2>3
  <1>9. IsFiniteSet(L)
    BY LorasOf
  <1>10. IsFiniteSet(R \cup A) /\ IsFiniteSet(R \cup (N \cap B)) /\ IsFiniteSet(A)
    <2>1. IsFiniteSet(A) /\ IsFiniteSet(N \cap B)
      BY <1>6, <1>9, FS_Subset
    <2> QED
      BY <2>1, FS_Union
  <1>11. ~(Cardinality(R \cup A) < MaxLoras)
    BY <1>4 DEF Placed
  <1>12. Cardinality(R \cup A) <= Cardinality(R \cup (N \cap B))
    <2>1. R \cup A \subseteq R \cup (N \cap B)
      BY <1>8
    <2> HIDE DEF N, A, B
    <2> QED
      BY <1>10, <2>1, FS_Subset
  <1>13. /\ Cardinality(R \cup A) \in Nat /\ Cardinality(R \cup (N \cap B)) \in Nat
         /\ MaxLoras \in Nat
    <2> HIDE DEF N, A, B
    <2> QED
      BY <1>10, FS_CardinalityType, AdmissionAssumption
  <1> HIDE DEF N, A, B
  <1>14. Cardinality(R \cup (N \cap B)) >= MaxLoras
    BY <1>11, <1>12, <1>13
  <1> QED
    BY <1>14 DEF N, B

\* The adapters that the loop lets through.
LEMMA SlottedFacts ==
    ASSUME NEW queue
    PROVE  Slotted(queue) = {0} \cup Loras(running) \cup Placed(queue, Loras(running))
  BY DEF Slotted, Placed, Ahead

-----------------------------------------------------------------------------
(***************************************************************************)
(* The running requests have no more adapters than there are slots, and    *)
(* aged requests are not overtaken.                                        *)
(***************************************************************************)

LorasInv == Cardinality(Loras(running)) <= MaxLoras

LEMMA FewerLoras ==
    ASSUME NEW S, IsFiniteSet(S), Cardinality(S) <= MaxLoras, NEW T \in SUBSET S
    PROVE  Cardinality(T) <= MaxLoras
  <1>1. IsFiniteSet(T) /\ Cardinality(T) <= Cardinality(S)
    BY FS_Subset
  <1>2. Cardinality(T) \in Nat /\ Cardinality(S) \in Nat /\ MaxLoras \in Nat
    BY <1>1, FS_CardinalityType, AdmissionAssumption
  <1> QED
    BY <1>1, <1>2

\* Who stays or finishes is of the requests that the step began with.
LEMMA StepRunning ==
    ASSUME NEW queue \in Seq(Requests), NEW ran, NEW eos, NEW nowDue, NEW held,
           Step(ran, eos, queue, held, nowDue)
    PROVE  running' \in Seq(Requests) /\ ToSet(running') \subseteq ToSet(queue)
  <1>1. PICK done : running' = Without(queue, done)
    BY DEF Step
  <1> QED
    BY <1>1, WithoutOnce

\* What a tick that admits does to the queue.
LEMMA AdmitFacts ==
    ASSUME QueuesInv, Admit
    PROVE  \E queue \in Seq(Requests), chosen \in SUBSET ToSet(waiting) :
              /\ IsInjective(queue)
              /\ ToSet(queue) = {r \in ToSet(waiting) : AdapterOf[r] \notin draining'}
              /\ grouped => \A k, l \in DOMAIN queue :
                                k < l => <<queue[l], queue[k]>> \notin ByAdapter
              /\ chosen = Admitted(queue, Slotted(queue))
              /\ ToSet(waiting') = ToSet(waiting) \ chosen
              /\ running' \in Seq(Requests)
              /\ ToSet(running') \subseteq ToSet(running) \cup chosen
  <1>1. PICK held \in Holdouts, order \in {IF grouped THEN ByAdapter ELSE {}} :
        \E queue \in {WithoutHeld(SortedBy(waiting, order), held)} :
        \E slotted \in {Slotted(queue)} : \E chosen \in {Admitted(queue, slotted)} :
            /\ draining' = held
            /\ waiting' = LeftWaiting(chosen, held)
            /\ Step(chosen, {}, running \o Only(queue, chosen),
                    [r \in Requests |-> IF r \in chosen THEN Needed[r] ELSE blocks[r]],
                    due)
    BY DEF Admit
  <1> DEFINE sorted == SortedBy(waiting, order)
             queue == WithoutHeld(sorted, held)
             chosen == Admitted(queue, Slotted(queue))
             here == [r \in Requests |-> IF r \in chosen THEN Needed[r] ELSE blocks[r]]
             p == running \o Only(queue, chosen)
  <1>2. /\ draining' = held /\ waiting' = LeftWaiting(chosen, held)
        /\ Step(chosen, {}, p, here, due)
    BY <1>1
  <1>3. order = IF grouped THEN ByAdapter ELSE {}
    OBVIOUS
  <1>4. /\ queue \in Seq(Requests) /\ IsInjective(queue)
        /\ ToSet(queue) = {r \in ToSet(waiting) : AdapterOf[r] \notin held}
    BY <1>3, QueueFacts DEF QueuesInv
  <1>5. ASSUME grouped, NEW k \in DOMAIN queue, NEW l \in DOMAIN queue, k < l
        PROVE  <<queue[l], queue[k]>> \notin ByAdapter
    <2>1. order = ByAdapter /\ waiting \in Seq(Requests) /\ IsOrderOf(ByAdapter, ToSet(waiting))
      BY <1>3, <1>5, ByAdapterOrders DEF QueuesInv, TypesInv
    <2>2. /\ sorted \in Seq(Requests)
          /\ \A i, j \in DOMAIN sorted : i < j => <<sorted[j], sorted[i]>> \notin ByAdapter
      BY <2>1, SortedByFacts
    <2> HIDE DEF sorted
    <2> DEFINE S == {r \in Requests : AdapterOf[r] \notin held}
    <2>3. queue = Only(sorted, S)
      BY DEF WithoutHeld
    <2>4. \E at : Filters(Only(sorted, S), sorted, S, at)
      BY <2>2, OnlyFacts
    <2> HIDE DEF queue, S
    <2>5. PICK at : Filters(queue, sorted, S, at)
      BY <2>3, <2>4
    <2>6. /\ at[k] \in DOMAIN sorted /\ at[l] \in DOMAIN sorted /\ at[k] < at[l]
          /\ queue[k] = sorted[at[k]] /\ queue[l] = sorted[at[l]]
      BY <1>5, <2>5 DEF Filters
    <2> QED
      BY <2>2, <2>6
  <1> HIDE DEF queue
  <1>6. chosen \subseteq ToSet(queue)
    BY <1>4, AdmittedFacts
  <1> HIDE DEF chosen, here
  <1>7. ToSet(waiting') = ToSet(waiting) \ chosen
    BY <1>2, LeftFacts DEF QueuesInv
  <1>8. p \in Seq(Requests) /\ ToSet(p) = ToSet(running) \cup chosen
    <2>1. ToSet(queue) \cap chosen = chosen
      BY <1>6
    <2>2. Only(queue, chosen) \in Seq(Requests) /\ ToSet(Only(queue, chosen)) = chosen
      BY <1>4, <2>1, OnlyOnce
    <2> QED
      BY <2>2, ConcatOnce DEF QueuesInv, TypesInv
  <1> HIDE DEF p
  <1>9. running' \in Seq(Requests) /\ ToSet(running') \subseteq ToSet(running) \cup chosen
    BY <1>2, <1>8, StepRunning
  <1>10. chosen \in SUBSET ToSet(waiting)
    BY <1>4, <1>6
  <1>11. chosen = Admitted(queue, Slotted(queue))
    BY DEF chosen
  <1> QED
    BY <1>2, <1>4, <1>5, <1>7, <1>9, <1>10, <1>11

LEMMA AdmitLoras == ASSUME QueuesInv, LorasInv, Admit PROVE LorasInv'
  <1> DEFINE R == Loras(running)
  <1>1. PICK queue \in Seq(Requests), chosen \in SUBSET ToSet(waiting) :
            /\ IsInjective(queue)
            /\ chosen = Admitted(queue, Slotted(queue))
            /\ running' \in Seq(Requests)
            /\ ToSet(running') \subseteq ToSet(running) \cup chosen
    BY AdmitFacts
  <1>2. IsFiniteSet(R) /\ R = {AdapterOf[r] : r \in ToSet(running)} \ {0}
    BY LorasOf DEF QueuesInv, TypesInv
  <1>3. \A r \in chosen : AdapterOf[r] \in {0} \cup R \cup Placed(queue, R)
    <2>1. \A r \in chosen : AdapterOf[r] \in Slotted(queue)
      BY <1>1, AdmittedFacts
    <2> QED
      BY <2>1, SlottedFacts
  <1>4. Loras(running') \subseteq R \cup Placed(queue, R)
    <2>1. Loras(running') = {AdapterOf[r] : r \in ToSet(running')} \ {0}
      BY <1>1, LorasOf
    <2> HIDE DEF R
    <2> QED
      BY <1>1, <1>2, <1>3, <2>1
  <1>5. /\ IsFiniteSet(R \cup Placed(queue, R))
        /\ Cardinality(R \cup Placed(queue, R)) <= MaxLoras
    BY <1>2, PlacedFit DEF LorasInv
  <1>6. Cardinality(Loras(running')) <= MaxLoras
    BY <1>4, <1>5, FewerLoras
  <1> QED
    BY <1>6 DEF LorasInv, Loras

LEMMA DecodeLoras == ASSUME QueuesInv, LorasInv, Decode PROVE LorasInv'
  <1> DEFINE n == Kept
             kept == SubSeq(running, 1, n)
  <1>1. n \in 0 .. Len(running) /\ running \in Seq(Requests)
    BY KeptNumber DEF QueuesInv, TypesInv
  <1>2. \E ran, eos, here, nowDue : Step(ran, eos, kept, here, nowDue)
    BY DEF Decode
  <1> HIDE DEF n
  <1>3. kept \in Seq(Requests) /\ ToSet(kept) \subseteq ToSet(running)
    BY <1>1, CutOnce
  <1> HIDE DEF kept
  <1>4. running' \in Seq(Requests) /\ ToSet(running') \subseteq ToSet(kept)
    BY <1>2, <1>3, StepRunning
  <1>5. Loras(running') \subseteq Loras(running)
    BY <1>1, <1>3, <1>4, LorasOf
  <1>6. Cardinality(Loras(running')) <= MaxLoras
    BY <1>1, <1>5, LorasOf, FewerLoras DEF LorasInv
  <1> QED
    BY <1>6 DEF LorasInv, Loras

LEMMA InitLoras == Init => LorasInv
  <1> SUFFICES ASSUME Init PROVE LorasInv
    OBVIOUS
  <1>1. Loras(running) = {}
    BY DEF Init, Loras
  <1> QED
    BY <1>1, FS_EmptySet, AdmissionAssumption DEF LorasInv

LEMMA NextLoras == QueuesInv /\ LorasInv /\ [Next]_vars => LorasInv'
  <1> SUFFICES ASSUME QueuesInv, LorasInv, [Next]_vars PROVE LorasInv'
    OBVIOUS
  <1>1. CASE running' = running
    BY <1>1 DEF LorasInv, Loras
  <1> QED
    BY <1>1, AdmitLoras, DecodeLoras DEF Next, Arrive, GetsLate, GetsAged, vars

\* A tick passes over an aged request only when its adapter is drained, or all
\* slots are taken by adapters of requests that run or came earlier.
LEMMA AgedNotOvertaken ==
    ASSUME QueuesInv, LorasInv, Admit, grouped,
           NEW r \in ToSet(waiting'), NEW s \in ToSet(waiting) \ ToSet(waiting'),
           Rank(r) <= aged, Earlier(r, s), AdapterOf[r] \notin draining'
    PROVE  LET admitted == ToSet(waiting) \ ToSet(waiting')
               ahead == {AdapterOf[x] : x \in ToSet(running)
                                              \cup {y \in admitted : Earlier(y, r)}}
           IN  AdapterOf[r] \notin ahead \cup {0} /\ Cardinality(ahead \ {0}) = MaxLoras
  <1> DEFINE R == Loras(running)
             a == AdapterOf[r]
  <1>1. PICK queue \in Seq(Requests), chosen \in SUBSET ToSet(waiting) :
            /\ IsInjective(queue)
            /\ ToSet(queue) = {x \in ToSet(waiting) : AdapterOf[x] \notin draining'}
            /\ \A k, l \in DOMAIN queue :
                    k < l => <<queue[l], queue[k]>> \notin ByAdapter
            /\ chosen = Admitted(queue, Slotted(queue))
            /\ ToSet(waiting') = ToSet(waiting) \ chosen
    BY AdmitFacts
  <1> DEFINE N == Placed(queue, R)
             ahead == {AdapterOf[x] : x \in ToSet(running) \cup {y \in chosen : Earlier(y, r)}}
  <1>2. ToSet(waiting) \ ToSet(waiting') = chosen
    BY <1>1
  <1>3. /\ chosen \subseteq ToSet(queue)
        /\ \A x \in chosen : AdapterOf[x] \in {0} \cup R \cup N
        /\ \A j, k \in DOMAIN queue :
                j < k /\ AdapterOf[queue[j]] \in {0} \cup R \cup N /\ queue[k] \in chosen
                    => queue[j] \in chosen
    <2>1. Slotted(queue) = {0} \cup R \cup N
      BY SlottedFacts
    <2> QED
      BY <1>1, <2>1, AdmittedFacts
  <1>4. r \in ToSet(waiting) /\ r \notin chosen /\ r \in ToSet(queue) /\ s \in chosen
    BY <1>1, <1>2
  <1>5. /\ IsFiniteSet(R) /\ R = {AdapterOf[x] : x \in ToSet(running)} \ {0}
        /\ Loras(queue) = {AdapterOf[x] : x \in ToSet(queue)} \ {0}
    BY LorasOf DEF QueuesInv, TypesInv
  <1> HIDE DEF R, N
  <1>6. PICK i \in DOMAIN queue, k \in DOMAIN queue : queue[i] = r /\ queue[k] = s
    BY <1>3, <1>4 DEF ToSet
  <1>7. DOMAIN queue = 1 .. Len(queue) /\ Len(queue) \in Nat
    OBVIOUS
  \* The requests before r in the queue are the earlier ones.
  <1>8. ASSUME NEW j \in DOMAIN queue
        PROVE  /\ Earlier(r, queue[j]) => i < j
               /\ j < i => Earlier(queue[j], r)
    <2>1. queue[j] \in ToSet(waiting) /\ queue[j] \in ToSet(arrived) /\ r \in ToSet(arrived)
      <3>1. queue[j] \in ToSet(waiting)
        BY <1>1 DEF ToSet
      <3> QED
        BY <1>4, <3>1 DEF QueuesInv, OnceInv
    <2>2. /\ Rank(r) \in Nat /\ Rank(queue[j]) \in Nat
          /\ Rank(r) = Rank(queue[j]) => r = queue[j]
      <3>1. DOMAIN arrived \subseteq Nat
        BY DEF QueuesInv, TypesInv
      <3> QED
        BY <2>1, <3>1, RankFacts DEF QueuesInv, TypesInv, OnceInv
    <2>3. /\ <<r, queue[j]>> \in ByAdapter <=> Earlier(r, queue[j])
          /\ <<queue[j], r>> \in ByAdapter <=> Earlier(queue[j], r)
      BY <1>4, <2>1 DEF ByAdapter, Before
    <2>4. Earlier(r, queue[j]) => ~(j < i) /\ j # i
      <3>1. j < i => <<queue[i], queue[j]>> \notin ByAdapter
        BY <1>1
      <3>2. ~Earlier(r, r)
        BY <2>2 DEF Earlier
      <3> QED
        BY <1>6, <2>3, <3>1, <3>2
    <2>5. j < i => ~Earlier(r, queue[j]) /\ r # queue[j]
      <3>1. j < i => <<queue[i], queue[j]>> \notin ByAdapter
        BY <1>1
      <3>2. j < i => j # i
        BY <1>7
      <3> QED
        BY <1>1, <1>6, <2>3, <3>1, <3>2 DEF IsInjective
    <2>6. ~Earlier(r, queue[j]) /\ r # queue[j] => Earlier(queue[j], r)
      BY <2>2 DEF Earlier
    <2> QED
      BY <1>7, <2>4, <2>5, <2>6
  <1>9. i < k
    BY <1>6, <1>8
  <1>10. a \notin {0} \cup R \cup N
    BY <1>3, <1>4, <1>6, <1>9
  <1>11. a \in Loras(queue)
    BY <1>4, <1>5, <1>10
  <1>12. a \notin ahead \cup {0}
    <2>1. \A x \in ToSet(running) : AdapterOf[x] \in {0} \cup R
      BY <1>5
    <2> QED
      BY <1>3, <1>10, <2>1
  <1>13. Cardinality(ahead \ {0}) <= MaxLoras
    <2>1. \A x \in ToSet(running) : AdapterOf[x] \in {0} \cup R
      BY <1>5
    <2>2. ahead \ {0} \subseteq R \cup N
      BY <1>3, <2>1
    <2>3. IsFiniteSet(R \cup N) /\ Cardinality(R \cup N) <= MaxLoras
      BY <1>5, PlacedFit DEF LorasInv, N, R
    <2> HIDE DEF ahead
    <2> QED
      BY <2>2, <2>3, FewerLoras
  <1>14. Cardinality(ahead \ {0}) >= MaxLoras
    <2> DEFINE A == Ahead(queue, a)
               taken == R \cup (N \cap A)
    <2>1. Cardinality(taken) >= MaxLoras
      BY <1>5, <1>10, <1>11, SlotsTaken DEF N
    <2>2. taken \subseteq ahead \ {0}
      <3>1. R \subseteq ahead \ {0}
        BY <1>5
      <3>2. ASSUME NEW b \in N \cap A PROVE b \in ahead \ {0}
        <4>1. PICK j \in DOMAIN queue :
                 AdapterOf[queue[j]] = b /\ \A l \in 1 .. j : AdapterOf[queue[l]] # a
          BY DEF Ahead
        <4>2. ~(i <= j)
          BY <1>6, <1>7, <4>1
        <4>3. j < i /\ j < k
          BY <1>7, <1>9, <4>2
        <4>4. queue[j] \in chosen
          BY <1>3, <1>4, <1>6, <4>1, <4>3
        <4>5. Earlier(queue[j], r)
          BY <1>8, <4>3
        <4>6. b # 0
          BY DEF Ahead, Loras
        <4> QED
          BY <4>1, <4>4, <4>5, <4>6
      <3> QED
        BY <3>1, <3>2
    <2>3. IsFiniteSet(ahead \ {0})
      <3>1. ahead \ {0} \subseteq R \cup N
        <4>1. \A x \in ToSet(running) : AdapterOf[x] \in {0} \cup R
          BY <1>5
        <4> QED
          BY <1>3, <4>1
      <3>2. IsFiniteSet(R \cup N)
        BY <1>5, PlacedFit DEF LorasInv, N, R
      <3> HIDE DEF ahead
      <3> QED
        BY <3>1, <3>2, FS_Subset
    <2> HIDE DEF ahead, taken
    <2>4. /\ Cardinality(taken) <= Cardinality(ahead \ {0})
          /\ Cardinality(taken) \in Nat /\ Cardinality(ahead \ {0}) \in Nat
      BY <2>2, <2>3, FS_Subset, FS_CardinalityType
    <2> QED
      BY <2>1, <2>4, AdmissionAssumption
  <1>15. Cardinality(ahead \ {0}) \in Int /\ MaxLoras \in Int
    <2>1. ahead \ {0} \subseteq R \cup N
      <3>1. \A x \in ToSet(running) : AdapterOf[x] \in {0} \cup R
        BY <1>5
      <3> QED
        BY <1>3, <3>1
    <2>2. IsFiniteSet(R \cup N)
      BY <1>5, PlacedFit DEF LorasInv, N, R
    <2> HIDE DEF ahead
    <2> QED
      BY <2>1, <2>2, FS_Subset, FS_CardinalityType, AdmissionAssumption
  <1>16. Cardinality(ahead \ {0}) = MaxLoras
    <2> HIDE DEF ahead
    <2> QED
      BY <1>13, <1>14, <1>15
  <1> QED
    BY <1>2, <1>12, <1>16

\* Grouping by adapter keeps aged requests in front: a later request overtakes
\* one only when its adapter is drained or finds no slot.
THEOREM AgedKeepTheirTurn == Spec => AgedFirst
  <1>1. QueuesInv /\ LorasInv /\ Admit /\ grouped =>
            LET admitted == ToSet(waiting) \ ToSet(waiting')
                ahead(r) == {AdapterOf[x] : x \in ToSet(running)
                                                  \cup {y \in admitted : Earlier(y, r)}}
            IN  \A r \in ToSet(waiting') : \A s \in admitted :
                    Rank(r) <= aged /\ Earlier(r, s)
                        => \/ AdapterOf[r] \in draining'
                           \/ /\ AdapterOf[r] \notin ahead(r) \cup {0}
                              /\ Cardinality(ahead(r) \ {0}) = MaxLoras
    BY AgedNotOvertaken
  <1> QED
    BY <1>1, InitQueues, NextQueues, InitLoras, NextLoras, PTL DEF Spec, AgedFirst

=============================================================================
