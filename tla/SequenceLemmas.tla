---------------------------- MODULE SequenceLemmas ----------------------------
(***************************************************************************)
(* What the operations of a deque, a list or an ordered dict return, for   *)
(* the proofs: the entries that are left, and that each is there once.     *)
(***************************************************************************)
EXTENDS Integers, Sequences, FiniteSets, SequencesExt, Queues, SequenceTheorems,
        FunctionTheorems, FiniteSetTheorems, TLAPS

\* deque without its i-th entry (the rebuilt queue of preempt_and_hold, and
\* shadow.remove): one entry shorter, the later entries one place earlier.
LEMMA RemoveAtFacts ==
    ASSUME NEW S, NEW q \in Seq(S), NEW i \in 1 .. Len(q)
    PROVE  /\ RemoveAt(q, i) \in Seq(S)
           /\ Len(RemoveAt(q, i)) = Len(q) - 1
           /\ \A j \in 1 .. Len(q) - 1 :
                RemoveAt(q, i)[j] = IF j < i THEN q[j] ELSE q[j + 1]
  <1> DEFINE left == SubSeq(q, 1, i - 1)
             right == SubSeq(q, i + 1, Len(q))
  <1>1. /\ left \in Seq(S) /\ Len(left) = i - 1
        /\ \A j \in 1 .. i - 1 : left[j] = q[j]
    OBVIOUS
  <1>2. /\ right \in Seq(S) /\ Len(right) = Len(q) - i
        /\ \A j \in 1 .. Len(q) - i : right[j] = q[i + j]
    OBVIOUS
  <1>3. RemoveAt(q, i) = left \o right
    BY DEF RemoveAt
  <1> HIDE DEF left, right
  <1>4. /\ left \o right \in Seq(S)
        /\ Len(left \o right) = Len(left) + Len(right)
        /\ \A j \in 1 .. Len(left) + Len(right) : (left \o right)[j] =
                IF j <= Len(left) THEN left[j] ELSE right[j - Len(left)]
    BY <1>1, <1>2, ConcatProperties
  <1>5. Len(q) \in Nat
    OBVIOUS
  <1> QED
    BY <1>1, <1>2, <1>3, <1>4, <1>5

\* append of a new entry.
LEMMA AppendOnce ==
    ASSUME NEW S, NEW q \in Seq(S), NEW e \in S
    PROVE  /\ Append(q, e) \in Seq(S)
           /\ Len(Append(q, e)) = Len(q) + 1
           /\ ToSet(Append(q, e)) = ToSet(q) \cup {e}
           /\ IsInjective(q) /\ e \notin ToSet(q) => IsInjective(Append(q, e))
  <1> DEFINE p == Append(q, e)
  <1>1. /\ p \in Seq(S) /\ Len(p) = Len(q) + 1
        /\ \A i \in 1 .. Len(q) : p[i] = q[i]
        /\ p[Len(q) + 1] = e
    OBVIOUS
  <1>2. DOMAIN p = 1 .. Len(q) + 1 /\ DOMAIN q = 1 .. Len(q) /\ Len(q) \in Nat
    BY <1>1
  <1> HIDE DEF p
  <1>3. \A i \in DOMAIN p : (i \in DOMAIN q /\ p[i] = q[i]) \/ (i = Len(q) + 1 /\ p[i] = e)
    BY <1>1, <1>2
  <1>4. \A i \in DOMAIN q : i \in DOMAIN p /\ p[i] = q[i]
    BY <1>1, <1>2
  <1>5. Len(q) + 1 \in DOMAIN p /\ p[Len(q) + 1] = e
    BY <1>1, <1>2
  <1>6. ToSet(p) = ToSet(q) \cup {e}
    BY <1>3, <1>4, <1>5 DEF ToSet
  <1>7. IsInjective(q) /\ e \notin ToSet(q) => IsInjective(p)
    BY <1>3 DEF IsInjective, ToSet
  <1> QED
    BY <1>1, <1>6, <1>7 DEF p

\* A list cut in two: the parts hold the same entries, none of them twice.
LEMMA CutOnce ==
    ASSUME NEW S, NEW q \in Seq(S), NEW n \in 0 .. Len(q)
    PROVE  LET left == SubSeq(q, 1, n)
               right == SubSeq(q, n + 1, Len(q))
           IN  /\ left \in Seq(S) /\ right \in Seq(S)
               /\ Len(left) = n /\ Len(right) = Len(q) - n
               /\ ToSet(left) \cup ToSet(right) = ToSet(q)
               /\ IsInjective(q) => /\ IsInjective(left) /\ IsInjective(right)
                                    /\ ToSet(left) \cap ToSet(right) = {}
  <1> DEFINE left == SubSeq(q, 1, n)
             right == SubSeq(q, n + 1, Len(q))
  <1>1. /\ left \in Seq(S) /\ Len(left) = n
        /\ \A j \in 1 .. n : left[j] = q[j]
    OBVIOUS
  <1>2. /\ right \in Seq(S) /\ Len(right) = Len(q) - n
        /\ \A j \in 1 .. Len(q) - n : right[j] = q[n + j]
    OBVIOUS
  <1>3. /\ DOMAIN left = 1 .. n /\ DOMAIN right = 1 .. Len(q) - n
        /\ DOMAIN q = 1 .. Len(q) /\ Len(q) \in Nat /\ n \in Nat /\ n <= Len(q)
    BY <1>1, <1>2
  <1> HIDE DEF left, right
  <1>4. \A j \in DOMAIN left : j \in DOMAIN q /\ j <= n /\ left[j] = q[j]
    BY <1>1, <1>3
  <1>5. \A j \in DOMAIN right : n + j \in DOMAIN q /\ n + j > n /\ right[j] = q[n + j]
    BY <1>2, <1>3
  <1>6. \A j \in DOMAIN q : \/ j \in DOMAIN left /\ left[j] = q[j]
                            \/ j - n \in DOMAIN right /\ right[j - n] = q[j]
    BY <1>1, <1>2, <1>3
  <1>7. ToSet(left) \cup ToSet(right) = ToSet(q)
    BY <1>4, <1>5, <1>6 DEF ToSet
  <1>8. ASSUME IsInjective(q)
        PROVE  /\ IsInjective(left) /\ IsInjective(right)
               /\ ToSet(left) \cap ToSet(right) = {}
    <2>1. IsInjective(left)
      BY <1>4, <1>8 DEF IsInjective
    <2>2. IsInjective(right)
      BY <1>3, <1>5, <1>8 DEF IsInjective
    <2>3. \A i \in DOMAIN left, j \in DOMAIN right : left[i] # right[j]
      BY <1>3, <1>4, <1>5, <1>8 DEF IsInjective
    <2> QED
      BY <2>1, <2>2, <2>3 DEF ToSet
  <1> QED
    BY <1>1, <1>2, <1>7, <1>8 DEF left, right

\* Two lists, one after the other.
LEMMA ConcatOnce ==
    ASSUME NEW S, NEW p \in Seq(S), NEW q \in Seq(S)
    PROVE  /\ p \o q \in Seq(S)
           /\ ToSet(p \o q) = ToSet(p) \cup ToSet(q)
           /\ IsInjective(p) /\ IsInjective(q) /\ ToSet(p) \cap ToSet(q) = {}
                => IsInjective(p \o q)
  <1> DEFINE c == p \o q
             m == Len(p)
             n == Len(q)
  <1>1. /\ c \in Seq(S) /\ Len(c) = m + n
        /\ \A i \in 1 .. m + n : c[i] = IF i <= m THEN p[i] ELSE q[i - m]
    BY ConcatProperties
  <1>2. /\ DOMAIN c = 1 .. m + n /\ DOMAIN p = 1 .. m /\ DOMAIN q = 1 .. n
        /\ m \in Nat /\ n \in Nat
    BY <1>1
  <1> HIDE DEF c, m, n
  <1>3. \A i \in DOMAIN c : \/ i \in DOMAIN p /\ c[i] = p[i]
                            \/ i \in Nat /\ i - m \in DOMAIN q /\ c[i] = q[i - m]
    BY <1>1, <1>2
  <1>4. \A i \in DOMAIN p : i \in DOMAIN c /\ c[i] = p[i]
    BY <1>1, <1>2
  <1>5. \A i \in DOMAIN q : i + m \in DOMAIN c /\ c[i + m] = q[i]
    BY <1>1, <1>2
  <1>6. ToSet(c) = ToSet(p) \cup ToSet(q)
    BY <1>3, <1>4, <1>5 DEF ToSet
  <1>7. ASSUME IsInjective(p), IsInjective(q), ToSet(p) \cap ToSet(q) = {},
               NEW i \in DOMAIN c, NEW j \in DOMAIN c, c[i] = c[j]
        PROVE  i = j
    <2>1. \A k \in DOMAIN p, l \in DOMAIN q : p[k] # q[l]
      BY <1>7 DEF ToSet
    <2>2. \A k, l \in DOMAIN p : p[k] = p[l] => k = l
      BY <1>7 DEF IsInjective
    <2>3. \A k, l \in DOMAIN q : q[k] = q[l] => k = l
      BY <1>7 DEF IsInjective
    <2>4. CASE i \in DOMAIN p /\ c[i] = p[i]
      BY <1>3, <1>7, <2>1, <2>2, <2>4
    <2>5. CASE i \in Nat /\ i - m \in DOMAIN q /\ c[i] = q[i - m]
      <3>1. j \in Nat /\ j - m \in DOMAIN q /\ c[j] = q[j - m]
        BY <1>3, <1>7, <2>1, <2>5
      <3>2. i - m = j - m
        BY <1>7, <2>3, <2>5, <3>1
      <3> QED
        BY <1>2, <2>5, <3>1, <3>2
    <2> QED
      BY <1>3, <2>4, <2>5
  <1> QED
    BY <1>1, <1>6, <1>7 DEF c, IsInjective

\* The first entry and the others.
LEMMA TailOnce ==
    ASSUME NEW S, NEW q \in Seq(S), q # <<>>
    PROVE  /\ Head(q) \in S /\ Head(q) \in ToSet(q)
           /\ Tail(q) \in Seq(S) /\ ToSet(Tail(q)) \subseteq ToSet(q)
  <1>1. /\ Tail(q) \in Seq(S) /\ DOMAIN Tail(q) = 1 .. Len(q) - 1 /\ DOMAIN q = 1 .. Len(q)
        /\ Len(q) \in Nat /\ 1 \in 1 .. Len(q) /\ Head(q) = q[1] /\ q[1] \in S
        /\ \A i \in 1 .. Len(q) - 1 : Tail(q)[i] = q[i + 1] /\ i + 1 \in 1 .. Len(q)
    OBVIOUS
  <1> QED
    BY <1>1 DEF ToSet

\* popitem(): the last entry and the others.
LEMMA PopOnce ==
    ASSUME NEW S, NEW q \in Seq(S), q # <<>>
    PROVE  /\ Front(q) \in Seq(S) /\ Last(q) \in S
           /\ ToSet(q) = ToSet(Front(q)) \cup {Last(q)}
           /\ IsInjective(q) => IsInjective(Front(q)) /\ Last(q) \notin ToSet(Front(q))
  <1> DEFINE n == Len(q) - 1
             right == SubSeq(q, n + 1, Len(q))
  <1>1. n \in 0 .. Len(q) /\ Len(q) \in Nat /\ Len(q) > 0 /\ Last(q) \in S
    BY EmptySeq DEF Last
  <1>2. Len(right) = 1 /\ DOMAIN right = 1 .. 1 /\ right[1] = Last(q)
    BY <1>1 DEF Last
  <1>3. ToSet(right) = {Last(q)}
    BY <1>2 DEF ToSet
  <1>4. Front(q) = SubSeq(q, 1, n)
    BY DEF Front
  <1> HIDE DEF n, right
  <1>5. /\ Front(q) \in Seq(S)
        /\ ToSet(Front(q)) \cup ToSet(right) = ToSet(q)
        /\ IsInjective(q) => /\ IsInjective(Front(q))
                             /\ ToSet(Front(q)) \cap ToSet(right) = {}
    BY <1>1, <1>4, CutOnce DEF right
  <1> QED
    BY <1>1, <1>3, <1>5

\* deletion of an entry: the others stay, each once.
LEMMA RemoveOnce ==
    ASSUME NEW S, NEW q \in Seq(S), NEW i \in DOMAIN q
    PROVE  LET r == RemoveAt(q, i) IN
           /\ r \in Seq(S) /\ Len(r) = Len(q) - 1
           /\ ToSet(r) \cup {q[i]} = ToSet(q)
           /\ IsInjective(q) => IsInjective(r) /\ q[i] \notin ToSet(r)
  <1> DEFINE r == RemoveAt(q, i)
  <1>1. i \in 1 .. Len(q) /\ q[i] \in S /\ Len(q) \in Nat /\ DOMAIN q = 1 .. Len(q)
    OBVIOUS
  <1>2. /\ r \in Seq(S) /\ Len(r) = Len(q) - 1
        /\ \A j \in 1 .. Len(q) - 1 : r[j] = IF j < i THEN q[j] ELSE q[j + 1]
    BY <1>1, RemoveAtFacts
  <1>3. DOMAIN r = 1 .. Len(q) - 1
    BY <1>2
  <1> HIDE DEF r
  <1>4. \A j \in DOMAIN r : \/ j < i /\ j \in DOMAIN q /\ r[j] = q[j]
                            \/ j >= i /\ j + 1 \in DOMAIN q /\ r[j] = q[j + 1]
    BY <1>1, <1>2, <1>3
  <1>5. \A j \in DOMAIN q : \/ j = i
                            \/ j \in DOMAIN r /\ r[j] = q[j]
                            \/ j - 1 \in DOMAIN r /\ r[j - 1] = q[j]
    BY <1>1, <1>2, <1>3
  <1>6. ToSet(r) \cup {q[i]} = ToSet(q)
    BY <1>4, <1>5 DEF ToSet
  <1>7. ASSUME IsInjective(q) PROVE IsInjective(r) /\ q[i] \notin ToSet(r)
    <2>1. IsInjective(r)
      BY <1>1, <1>3, <1>4, <1>7 DEF IsInjective
    <2>2. q[i] \notin ToSet(r)
      BY <1>1, <1>3, <1>4, <1>7 DEF IsInjective, ToSet
    <2> QED
      BY <2>1, <2>2
  <1> QED
    BY <1>2, <1>6, <1>7 DEF r

\* move_to_end(): the same entries in another order.
LEMMA MoveToEndOnce ==
    ASSUME NEW S, NEW q \in Seq(S), NEW i \in DOMAIN q
    PROVE  LET p == Append(RemoveAt(q, i), q[i]) IN
           /\ p \in Seq(S) /\ Len(p) = Len(q)
           /\ ToSet(p) = ToSet(q)
           /\ IsInjective(q) => IsInjective(p)
  <1> DEFINE r == RemoveAt(q, i)
  <1>1. q[i] \in S /\ Len(q) \in Nat
    OBVIOUS
  <1>2. /\ r \in Seq(S) /\ Len(r) = Len(q) - 1
        /\ ToSet(r) \cup {q[i]} = ToSet(q)
        /\ IsInjective(q) => IsInjective(r) /\ q[i] \notin ToSet(r)
    BY RemoveOnce
  <1> HIDE DEF r
  <1>3. LET p == Append(r, q[i]) IN
        /\ p \in Seq(S) /\ Len(p) = Len(r) + 1
        /\ ToSet(p) = ToSet(r) \cup {q[i]}
        /\ IsInjective(r) /\ q[i] \notin ToSet(r) => IsInjective(p)
    BY <1>1, <1>2, AppendOnce
  <1> QED
    BY <1>1, <1>2, <1>3 DEF r

-----------------------------------------------------------------------------
(***************************************************************************)
(* Counting and induction.                                                 *)
(***************************************************************************)

\* In a finite set with a strict total order R, the number of elements before
\* an element tells the elements apart and takes every value.
LEMMA Ranks ==
    ASSUME NEW P, IsFiniteSet(P), NEW R,
           \A x \in P : <<x, x>> \notin R,
           \A x, y, z \in P : <<x, y>> \in R /\ <<y, z>> \in R => <<x, z>> \in R,
           \A x, y \in P : x # y => <<x, y>> \in R \/ <<y, x>> \in R
    PROVE  LET rank(x) == Cardinality({y \in P : <<y, x>> \in R}) IN
           /\ Cardinality(P) \in Nat
           /\ \A x \in P : rank(x) \in 0 .. Cardinality(P) - 1
           /\ \A x, y \in P : rank(x) < rank(y) <=> <<x, y>> \in R
           /\ \A x, y \in P : rank(x) = rank(y) => x = y
           /\ \A k \in 1 .. Cardinality(P) : \E x \in P : rank(x) = k - 1
  <1> DEFINE below(x) == {y \in P : <<y, x>> \in R}
             rank(x) == Cardinality(below(x))
             n == Cardinality(P)
  <1>1. n \in Nat
    BY FS_CardinalityType
  <1>2. \A x \in P : below(x) \in SUBSET P /\ below(x) # P
    OBVIOUS
  <1>3. \A x \in P : IsFiniteSet(below(x)) /\ rank(x) \in Nat /\ rank(x) <= n /\ rank(x) # n
    BY <1>2, FS_Subset, FS_CardinalityType
  <1>4. \A x \in P : rank(x) \in 0 .. n - 1
    BY <1>1, <1>3
  <1>5. ASSUME NEW x \in P, NEW y \in P, <<x, y>> \in R
        PROVE  rank(x) < rank(y)
    <2>1. below(x) \in SUBSET below(y) /\ below(x) # below(y)
      BY <1>5
    <2>2. rank(x) <= rank(y) /\ rank(x) # rank(y)
      BY <1>3, <2>1, FS_Subset
    <2> QED
      BY <1>3, <2>2
  <1> HIDE DEF rank, n
  <1>6. \A x \in P : rank(x) \in Nat
    BY <1>3
  <1>7. ASSUME NEW x \in P, NEW y \in P
        PROVE  /\ rank(x) < rank(y) <=> <<x, y>> \in R
               /\ rank(x) = rank(y) => x = y
    <2>1. rank(x) \in Nat /\ rank(y) \in Nat
      BY <1>6
    <2>2. CASE x = y
      BY <2>1, <2>2
    <2>3. CASE <<x, y>> \in R
      BY <1>5, <2>1, <2>3
    <2>4. CASE <<y, x>> \in R
      <3>1. rank(y) < rank(x)
        BY <1>5, <2>4
      <3>2. <<x, y>> \notin R
        BY <2>4
      <3> QED
        BY <2>1, <3>1, <3>2
    <2> QED
      BY <2>2, <2>3, <2>4
  <1>8. \A x, y \in P : rank(x) = rank(y) => x = y
    BY <1>7
  <1>9. \A k \in 1 .. n : \E x \in P : rank(x) = k - 1
    <2> DEFINE T == 0 .. n - 1
               f == [x \in P |-> rank(x)]
    <2>1. IsFiniteSet(T) /\ Cardinality(T) = n
      <3>1. 0 \in Int /\ n - 1 \in Int
        BY <1>1
      <3>2. IsFiniteSet(T) /\ Cardinality(T) = IF 0 > n - 1 THEN 0 ELSE n - 1 - 0 + 1
        BY <3>1, FS_Interval
      <3> QED
        BY <1>1, <3>2
    <2>2. f \in [P -> T] /\ \A x, y \in P : f[x] = f[y] => x = y
      BY <1>4, <1>8
    <2>3. f \in Injection(P, T)
      BY <2>2, Fun_IsInj
    <2>4. f \in Surjection(P, T)
      BY <2>1, <2>3, FS_Injection DEF n
    <2>5. \A k \in 1 .. n : k - 1 \in T
      BY <1>1
    <2>6. \A x \in P : f[x] = rank(x)
      OBVIOUS
    <2> HIDE DEF f, T
    <2>7. \A t \in T : \E x \in P : f[x] = t
      BY <2>4, Fun_SurjectionProperties
    <2> QED
      BY <2>5, <2>6, <2>7
  <1> QED
    BY <1>1, <1>4, <1>7, <1>8, <1>9 DEF rank, n

LEMMA UpTo ==
    ASSUME NEW n \in Nat
    PROVE  IsFiniteSet(1 .. n) /\ Cardinality(1 .. n) = n
  <1>1. IsFiniteSet(1 .. n) /\ Cardinality(1 .. n) = IF 1 > n THEN 0 ELSE n - 1 + 1
    BY FS_Interval
  <1> QED
    BY <1>1

LEMMA Quotient ==
    ASSUME NEW n \in Nat \ {0}, NEW x \in Nat
    PROVE  x \div n \in Nat /\ x % n \in 0 .. n - 1 /\ x = n * (x \div n) + (x % n)
  OBVIOUS

LEMMA Wraps ==
    ASSUME NEW n \in Nat \ {0}, NEW k \in Nat, NEW s \in 0 .. n - 1
    PROVE  (n * k + s) % n = s
  OBVIOUS

\* Induction, for a set where NaturalsInduction has an operator: a number that
\* is missing would let 0 .. x be mapped into 1 .. x without a collision.
LEMMA SetInduction ==
    ASSUME NEW T, 0 \in T, \A n \in Nat : n \in T => n + 1 \in T
    PROVE  Nat \subseteq T
  <1> SUFFICES ASSUME NEW x \in Nat, x \notin T PROVE FALSE
    OBVIOUS
  <1> DEFINE f == [i \in 0 .. x |-> IF i \in T THEN i + 1 ELSE i]
  <1>1. f \in [0 .. x -> 1 .. x]
    OBVIOUS
  <1>2. IsFiniteSet(0 .. x) /\ Cardinality(0 .. x) = x + 1
    BY FS_Interval
  <1>3. IsFiniteSet(1 .. x) /\ Cardinality(1 .. x) = x
    BY FS_Interval
  <1>4. PICK i \in 0 .. x, j \in 0 .. x : i # j /\ f[i] = f[j]
    <2> HIDE DEF f
    <2>1. Cardinality(1 .. x) < Cardinality(0 .. x)
      BY <1>2, <1>3
    <2> QED
      BY <1>1, <1>2, <1>3, <2>1, FS_PigeonHole
  <1>5. i \in Nat /\ j \in Nat
    OBVIOUS
  <1> QED
    BY <1>4, <1>5

-----------------------------------------------------------------------------
(***************************************************************************)
(* What a list comprehension and a sort return.                            *)
(***************************************************************************)

\* The same over the subsets of a finite set.
LEMMA FiniteInduction ==
    ASSUME NEW S, IsFiniteSet(S), NEW F, {} \in F,
           \A T \in SUBSET S : \A x \in S : T \in F => T \cup {x} \in F
    PROVE  S \in F
  <1>1. PICK n \in Nat : ExistsBijection(1 .. n, S)
    BY FS_NatBijection
  <1>2. PICK f \in Bijection(1 .. n, S) : TRUE
    BY <1>1 DEF ExistsBijection
  <1>3. /\ \A i \in 1 .. n : f[i] \in S
        /\ \A x \in S : \E i \in 1 .. n : f[i] = x
    BY DEF Bijection, Injection, Surjection
  <1> DEFINE first(k) == {f[i] : i \in 1 .. k}
             K == {k \in Nat : k <= n => first(k) \in F}
  <1>4. 0 \in K
    <2>1. first(0) = {}
      OBVIOUS
    <2> QED
      BY <2>1
  <1>5. ASSUME NEW k \in Nat, k \in K PROVE k + 1 \in K
    <2> SUFFICES ASSUME k + 1 <= n PROVE first(k + 1) \in F
      OBVIOUS
    <2>1. first(k) \in F /\ k + 1 \in 1 .. n
      BY <1>5
    <2>2. \A i : i \in 1 .. k + 1 <=> i \in 1 .. k \/ i = k + 1
      OBVIOUS
    <2>3. first(k + 1) = first(k) \cup {f[k + 1]}
      BY <2>2
    <2>4. first(k) \in SUBSET S /\ f[k + 1] \in S
      BY <1>3, <2>1
    <2>5. \A T \in SUBSET S, x \in S : T \in F => T \cup {x} \in F
      OBVIOUS
    <2> HIDE DEF first
    <2> QED
      BY <2>1, <2>3, <2>4, <2>5
  <1>6. Nat \subseteq K
    <2> HIDE DEF K
    <2> QED
      BY <1>4, <1>5, SetInduction
  <1>7. first(n) \in F
    BY <1>6
  <1>8. first(n) = S
    BY <1>3
  <1> QED
    BY <1>7, <1>8

\* A set of places has a last one.
LEMMA LastPlace ==
    ASSUME NEW n \in Nat, NEW I \in SUBSET (1 .. n), I # {}
    PROVE  \E m \in I : \A i \in I : i <= m
  <1> DEFINE T == {k \in Nat : \A J \in SUBSET (1 .. k) :
                                   J # {} => \E m \in J : \A i \in J : i <= m}
  <1>1. 0 \in T
    <2>1. \A J \in SUBSET (1 .. 0) : J = {}
      OBVIOUS
    <2> QED
      BY <2>1
  <1>2. ASSUME NEW k \in Nat, k \in T PROVE k + 1 \in T
    <2> SUFFICES ASSUME NEW J \in SUBSET (1 .. k + 1), J # {}
                 PROVE  \E m \in J : \A i \in J : i <= m
      OBVIOUS
    <2>1. CASE k + 1 \in J
      BY <2>1
    <2>2. CASE k + 1 \notin J
      <3>1. J \in SUBSET (1 .. k)
        BY <2>2
      <3> QED
        BY <1>2, <3>1
    <2> QED
      BY <2>1, <2>2
  <1>3. Nat \subseteq T
    <2> HIDE DEF T
    <2> QED
      BY <1>1, <1>2, SetInduction
  <1> QED
    BY <1>3

\* And a first one.
LEMMA FirstPlace ==
    ASSUME NEW n \in Nat, NEW I \in SUBSET (1 .. n), I # {}
    PROVE  \E m \in I : \A i \in I : m <= i
  <1> DEFINE T == {k \in Nat : \A J \in SUBSET (1 .. k) :
                                   J # {} => \E m \in J : \A i \in J : m <= i}
  <1>1. 0 \in T
    <2>1. \A J \in SUBSET (1 .. 0) : J = {}
      OBVIOUS
    <2> QED
      BY <2>1
  <1>2. ASSUME NEW k \in Nat, k \in T PROVE k + 1 \in T
    <2> SUFFICES ASSUME NEW J \in SUBSET (1 .. k + 1), J # {}
                 PROVE  \E m \in J : \A i \in J : m <= i
      OBVIOUS
    <2> DEFINE low == J \cap (1 .. k)
    <2>1. \A i \in J : i \in low \/ i = k + 1
      OBVIOUS
    <2>2. CASE low = {}
      <3>1. \A i \in J : i = k + 1
        BY <2>1, <2>2
      <3>2. \A i \in J : i <= i
        BY <3>1
      <3> QED
        BY <3>1, <3>2
    <2>3. CASE low # {}
      <3>1. PICK m \in low : \A i \in low : m <= i
        BY <1>2, <2>3
      <3>2. m \in J /\ m \in 1 .. k
        BY <3>1
      <3>3. \A i \in J : m <= i
        BY <2>1, <3>1, <3>2
      <3> QED
        BY <3>2, <3>3
    <2> QED
      BY <2>2, <2>3
  <1>3. Nat \subseteq T
    <2> HIDE DEF T
    <2> QED
      BY <1>1, <1>2, SetInduction
  <1> QED
    BY <1>3

\* The equation of the recursive function of Only.
KeptSoFar(kept, q, S) ==
    kept = [n \in 0 .. Len(q) |->
                IF n = 0 THEN <<>>
                ELSE IF q[n] \in S THEN Append(kept[n - 1], q[n]) ELSE kept[n - 1]]

\* It has a solution, which Only takes its last value from.
LEMMA OnlyEquation ==
    ASSUME NEW q, NEW S, Len(q) \in Nat
    PROVE  \E kept : Only(q, S) = kept[Len(q)] /\ KeptSoFar(kept, q, S)
  <1> DEFINE Step(g, n) == IF n = 0 THEN <<>>
                           ELSE IF q[n] \in S THEN Append(g[n - 1], q[n]) ELSE g[n - 1]
             Solves(g, m) == g = [n \in 0 .. m |-> Step(g, n)]
             T == {m \in Nat : \E g : Solves(g, m)}
  <1>1. 0 \in T
    <2>1. Solves([n \in 0 .. 0 |-> <<>>], 0)
      OBVIOUS
    <2> HIDE DEF Solves
    <2> QED
      BY <2>1
  <1>2. ASSUME NEW m \in Nat, m \in T
        PROVE  m + 1 \in T
    <2>1. PICK g : Solves(g, m)
      BY <1>2
    <2> DEFINE h == [n \in 0 .. m + 1 |-> IF n <= m THEN g[n] ELSE Step(g, n)]
    <2>2. \A n \in 0 .. m : h[n] = g[n]
      OBVIOUS
    <2>3. \A n \in 0 .. m : g[n] = Step(g, n)
      <3> HIDE DEF Step
      <3> QED
        BY <2>1
    <2>4. \A n \in 0 .. m + 1 : h[n] = Step(g, n)
      <3> HIDE DEF Step
      <3> QED
        BY <2>3
    <2>5. \A n \in 0 .. m + 1 : Step(h, n) = Step(g, n)
      <3>1. \A n \in 0 .. m + 1 : n # 0 => n - 1 \in 0 .. m
        OBVIOUS
      <3> HIDE DEF h
      <3> QED
        BY <2>2, <3>1
    <2>6. Solves(h, m + 1)
      <3>1. h = [n \in 0 .. m + 1 |-> h[n]]
        OBVIOUS
      <3> HIDE DEF h, Step
      <3> QED
        BY <2>4, <2>5, <3>1
    <2> HIDE DEF Solves, h
    <2> QED
      BY <2>6
  <1>3. Nat \subseteq T
    <2> HIDE DEF T
    <2> QED
      BY <1>1, <1>2, SetInduction
  <1>4. \E g : Solves(g, Len(q))
    BY <1>3
  <1> DEFINE kept == CHOOSE g : Solves(g, Len(q))
  <1>5. Solves(kept, Len(q))
    <2> HIDE DEF Solves
    <2> QED
      BY <1>4
  <1>6. Only(q, S) = kept[Len(q)]
    BY DEF Only
  <1> HIDE DEF kept
  <1>7. KeptSoFar(kept, q, S)
    BY <1>5 DEF KeptSoFar
  <1> QED
    BY <1>6, <1>7

\* Where p takes its entries from, when it is q filtered by S.
Filters(p, q, S, at) ==
    /\ at \in [DOMAIN p -> DOMAIN q]
    /\ \A k \in DOMAIN p : p[k] = q[at[k]] /\ q[at[k]] \in S
    /\ \A k, l \in DOMAIN p : k < l => at[k] < at[l]
    /\ \A i \in DOMAIN q : q[i] \in S => \E k \in DOMAIN p : at[k] = i

\* [e for e in q if e in S]: the entries of q that are in S, in their order.
LEMMA OnlyFacts ==
    ASSUME NEW T, NEW q \in Seq(T), NEW S
    PROVE  /\ Only(q, S) \in Seq(T)
           /\ \E at : Filters(Only(q, S), q, S, at)
  <1> DEFINE upto(n) == [i \in 1 .. n |-> q[i]]
  <1>1. Len(q) \in Nat /\ DOMAIN q = 1 .. Len(q) /\ \A i \in 1 .. Len(q) : q[i] \in T
    OBVIOUS
  <1>0. PICK kept : Only(q, S) = kept[Len(q)] /\ KeptSoFar(kept, q, S)
    BY <1>1, OnlyEquation
  <1>2. \A n \in 0 .. Len(q) : kept[n] =
            IF n = 0 THEN <<>>
            ELSE IF q[n] \in S THEN Append(kept[n - 1], q[n]) ELSE kept[n - 1]
    BY <1>0 DEF KeptSoFar
  <1> DEFINE Good(n) == /\ kept[n] \in Seq(T)
                        /\ \E at : Filters(kept[n], upto(n), S, at)
             N == {n \in Nat : n <= Len(q) => Good(n)}
  <1>3. 0 \in N
    <2>1. kept[0] = <<>>
      BY <1>1, <1>2
    <2>2. Filters(<<>>, upto(0), S, <<>>)
      BY DEF Filters
    <2>3. Good(0)
      <3>1. upto(0) = <<>>
        OBVIOUS
      <3> QED
        BY <2>1, <2>2, <3>1
    <2> HIDE DEF Good
    <2> QED
      BY <2>3
  <1>4. ASSUME NEW n \in Nat, n \in N
        PROVE  n + 1 \in N
    <2> SUFFICES ASSUME n + 1 <= Len(q) PROVE Good(n + 1)
      <3> HIDE DEF Good
      <3> QED
        OBVIOUS
    <2> DEFINE p == kept[n]
               m == Len(p)
    <2>0. Good(n)
      <3> HIDE DEF Good
      <3> QED
        BY <1>1, <1>4
    <2>1. p \in Seq(T) /\ \E at : Filters(p, upto(n), S, at)
      BY <2>0
    <2>2. PICK at : Filters(p, upto(n), S, at)
      BY <2>1
    <2>3. n + 1 \in 0 .. Len(q) /\ n + 1 # 0 /\ n + 1 - 1 = n
          /\ DOMAIN upto(n) = 1 .. n /\ DOMAIN upto(n + 1) = 1 .. n + 1
          /\ (\A i \in 1 .. n : upto(n + 1)[i] = upto(n)[i])
          /\ upto(n + 1)[n + 1] = q[n + 1] /\ q[n + 1] \in T
      BY <1>1
    <2>4. kept[n + 1] = IF q[n + 1] \in S THEN Append(p, q[n + 1]) ELSE p
      <3> DEFINE k == n + 1
      <3>1. k \in 0 .. Len(q) /\ k # 0 /\ k - 1 = n
        BY <2>3
      <3> HIDE DEF k
      <3>2. kept[k] = IF q[k] \in S THEN Append(kept[k - 1], q[k]) ELSE kept[k - 1]
        BY <1>2, <3>1
      <3> QED
        BY <3>1, <3>2 DEF k
    <2>5. m \in Nat /\ DOMAIN p = 1 .. m
      BY <2>1
    <2> HIDE DEF p, upto, Good
    <2>6. CASE q[n + 1] \in S
      <3> DEFINE r == Append(p, q[n + 1])
                 on == [k \in 1 .. m + 1 |-> IF k <= m THEN at[k] ELSE n + 1]
      <3>1. r \in Seq(T) /\ DOMAIN r = 1 .. m + 1
            /\ (\A k \in 1 .. m : r[k] = p[k]) /\ r[m + 1] = q[n + 1]
        BY <2>1, <2>3
      <3>2. /\ \A k \in 1 .. m : at[k] \in 1 .. n
            /\ \A k \in 1 .. m : p[k] = upto(n)[at[k]] /\ upto(n)[at[k]] \in S
            /\ \A k, l \in 1 .. m : k < l => at[k] < at[l]
            /\ \A i \in 1 .. n : upto(n)[i] \in S => \E k \in 1 .. m : at[k] = i
        BY <2>2, <2>3, <2>5 DEF Filters
      <3>3. (\A k \in 1 .. m : on[k] = at[k]) /\ on[m + 1] = n + 1 /\ DOMAIN on = 1 .. m + 1
        BY <2>5
      <3>4. \A k \in 1 .. m + 1 : k \in 1 .. m \/ k = m + 1
        BY <2>5
      <3>5. 1 .. m \subseteq 1 .. m + 1 /\ m + 1 \in 1 .. m + 1
            /\ 1 .. n \subseteq 1 .. n + 1 /\ n + 1 \in 1 .. n + 1
            /\ m + 1 \notin 1 .. m
        BY <2>5
      <3>6. on = [k \in 1 .. m + 1 |-> on[k]]
        OBVIOUS
      <3> HIDE DEF r, on
      <3>7. \A k \in 1 .. m + 1 : on[k] \in 1 .. n + 1
        BY <3>2, <3>3, <3>4, <3>5
      <3>8. \A k \in 1 .. m + 1 : r[k] = upto(n + 1)[on[k]] /\ upto(n + 1)[on[k]] \in S
        BY <2>3, <2>6, <3>1, <3>2, <3>3, <3>4
      <3>9. \A k, l \in 1 .. m + 1 : k < l => on[k] < on[l]
        <4>1. \A k, l \in 1 .. m + 1 : k < l => k \in 1 .. m
          BY <2>5
        <4>2. \A k \in 1 .. m : on[k] < n + 1
          BY <3>2, <3>3
        <4> QED
          BY <3>2, <3>3, <3>4, <4>1, <4>2
      <3>10. \A i \in 1 .. n + 1 : upto(n + 1)[i] \in S => \E k \in 1 .. m + 1 : on[k] = i
        <4>1. \A i \in 1 .. n + 1 : i \in 1 .. n \/ i = n + 1
          OBVIOUS
        <4> QED
          BY <2>3, <3>2, <3>3, <3>5, <4>1
      <3>11. Filters(r, upto(n + 1), S, on)
        <4>1. on \in [DOMAIN r -> DOMAIN upto(n + 1)]
          BY <2>3, <3>1, <3>6, <3>7
        <4> QED
          BY <2>3, <3>1, <3>8, <3>9, <3>10, <4>1 DEF Filters
      <3> QED
        BY <2>4, <2>6, <3>1, <3>11 DEF Good, r
    <2>7. CASE q[n + 1] \notin S
      <3>1. \A i \in 1 .. n + 1 : i \in 1 .. n \/ i = n + 1
        OBVIOUS
      <3>2. 1 .. n \subseteq 1 .. n + 1
        OBVIOUS
      <3>3. Filters(p, upto(n + 1), S, at)
        BY <2>2, <2>3, <2>7, <3>1, <3>2 DEF Filters
      <3> QED
        BY <2>1, <2>4, <2>7, <3>3 DEF Good
    <2> QED
      BY <2>6, <2>7
  <1>5. Nat \subseteq N
    <2> HIDE DEF N
    <2> QED
      BY <1>3, <1>4, SetInduction
  <1>6. Good(Len(q))
    <2> HIDE DEF Good
    <2> QED
      BY <1>1, <1>5
  <1>7. upto(Len(q)) = q
    OBVIOUS
  <1> HIDE DEF upto
  <1> QED
    BY <1>0, <1>6, <1>7

\* The filtered list has the entries that are in S, each as often as before.
LEMMA OnlyOnce ==
    ASSUME NEW T, NEW q \in Seq(T), NEW S
    PROVE  /\ Only(q, S) \in Seq(T)
           /\ ToSet(Only(q, S)) = ToSet(q) \cap S
           /\ IsInjective(q) => IsInjective(Only(q, S))
  <1> DEFINE p == Only(q, S)
  <1>1. PICK at : Filters(p, q, S, at)
    BY OnlyFacts
  <1>2. p \in Seq(T)
    BY OnlyFacts
  <1> HIDE DEF p
  <1>3. \A k \in DOMAIN p : at[k] \in DOMAIN q /\ p[k] = q[at[k]] /\ p[k] \in S
    BY <1>1 DEF Filters
  <1>4. \A i \in DOMAIN q : q[i] \in S => \E k \in DOMAIN p : p[k] = q[i]
    BY <1>1 DEF Filters
  <1>5. ToSet(p) = ToSet(q) \cap S
    BY <1>3, <1>4 DEF ToSet
  <1>6. ASSUME IsInjective(q), NEW k \in DOMAIN p, NEW l \in DOMAIN p, p[k] = p[l]
        PROVE  k = l
    <2>1. at[k] = at[l]
      BY <1>3, <1>6 DEF IsInjective
    <2>2. k \in Nat /\ l \in Nat /\ at[k] \in Nat
      BY <1>2, <1>3
    <2>3. ~(k < l) /\ ~(l < k)
      BY <1>1, <2>1, <2>2 DEF Filters
    <2> QED
      BY <2>2, <2>3
  <1> QED
    BY <1>2, <1>5, <1>6 DEF p, IsInjective

\* [e for e in q if e not in S], likewise.
LEMMA WithoutOnce ==
    ASSUME NEW T, NEW q \in Seq(T), NEW S
    PROVE  /\ Without(q, S) \in Seq(T)
           /\ ToSet(Without(q, S)) = ToSet(q) \ S
           /\ IsInjective(q) => IsInjective(Without(q, S))
  <1> DEFINE others == {q[i] : i \in DOMAIN q} \ S
  <1>1. Without(q, S) = Only(q, others)
    BY DEF Without
  <1>2. ToSet(q) \cap others = ToSet(q) \ S
    BY DEF ToSet
  <1> HIDE DEF others
  <1> QED
    BY <1>1, <1>2, OnlyOnce

\* [e for e in q if e in S] is q when every entry is in S.
LEMMA OnlyAll ==
    ASSUME NEW T, NEW q \in Seq(T), NEW S, \A i \in DOMAIN q : q[i] \in S
    PROVE  Only(q, S) = q
  <1> DEFINE upto(n) == [i \in 1 .. n |-> q[i]]
  <1>1. Len(q) \in Nat /\ DOMAIN q = 1 .. Len(q) /\ \A i \in 1 .. Len(q) : q[i] \in T
    OBVIOUS
  <1>0. PICK kept : Only(q, S) = kept[Len(q)] /\ KeptSoFar(kept, q, S)
    BY <1>1, OnlyEquation
  <1>2. \A n \in 0 .. Len(q) : kept[n] =
            IF n = 0 THEN <<>>
            ELSE IF q[n] \in S THEN Append(kept[n - 1], q[n]) ELSE kept[n - 1]
    BY <1>0 DEF KeptSoFar
  <1> DEFINE N == {n \in Nat : n <= Len(q) => kept[n] = upto(n)}
  <1>3. 0 \in N
    <2>1. kept[0] = <<>> /\ upto(0) = <<>>
      BY <1>1, <1>2
    <2> QED
      BY <2>1
  <1>4. ASSUME NEW n \in Nat, n \in N PROVE n + 1 \in N
    <2> SUFFICES ASSUME n + 1 <= Len(q) PROVE kept[n + 1] = upto(n + 1)
      OBVIOUS
    <2> DEFINE k == n + 1
    <2>1. kept[n] = upto(n)
      BY <1>1, <1>4
    <2>2. k \in 0 .. Len(q) /\ k # 0 /\ k - 1 = n /\ k \in DOMAIN q /\ q[k] \in T
      BY <1>1
    <2>3. kept[k] = Append(kept[n], q[k])
      <3> HIDE DEF k
      <3> QED
        BY <1>2, <2>2
    <2>4. Append(upto(n), q[k]) = upto(k)
      <3>1. upto(n) \in Seq(T) /\ Len(upto(n)) = n
        BY <1>1
      <3> QED
        BY <2>2, <3>1
    <2> QED
      BY <2>1, <2>3, <2>4
  <1>5. Nat \subseteq N
    <2> HIDE DEF N
    <2> QED
      BY <1>3, <1>4, SetInduction
  <1>6. kept[Len(q)] = upto(Len(q))
    BY <1>1, <1>5
  <1>7. upto(Len(q)) = q
    OBVIOUS
  <1> QED
    BY <1>0, <1>6, <1>7

\* Where a sorted list takes its entries from: every place of q, once.
Sorts(p, q, at) ==
    /\ DOMAIN p = DOMAIN q
    /\ at \in [DOMAIN q -> DOMAIN q]
    /\ \A k \in DOMAIN q : p[k] = q[at[k]]
    /\ \A k, l \in DOMAIN q : at[k] = at[l] => k = l
    /\ \A i \in DOMAIN q : \E k \in DOMAIN q : at[k] = i

\* Whether R orders the members of S, up to ties.
IsOrderOf(R, S) ==
    /\ \A x \in S : <<x, x>> \notin R
    /\ \A x, y, z \in S : <<x, y>> \in R /\ <<y, z>> \in R => <<x, z>> \in R
    /\ \A x, y, z \in S : <<x, z>> \in R => <<x, y>> \in R \/ <<y, z>> \in R

\* list.sort: a permutation, in order.
LEMMA SortedByFacts ==
    ASSUME NEW T, NEW q \in Seq(T), NEW R, IsOrderOf(R, ToSet(q))
    PROVE  LET p == SortedBy(q, R) IN
           /\ p \in Seq(T)
           /\ \E at : Sorts(p, q, at)
           /\ \A k, l \in DOMAIN p : k < l => <<p[l], p[k]>> \notin R
  <1> DEFINE D == DOMAIN q
             before(j, i) == <<q[j], q[i]>> \in R \/ (<<q[i], q[j]>> \notin R /\ j < i)
             B == {r \in D \X D : before(r[1], r[2])}
             rank(i) == Cardinality({j \in D : before(j, i)})
             nth(k) == CHOOSE i \in D : rank(i) = k - 1
             p == SortedBy(q, R)
             n == Len(q)
  <1>1. D = 1 .. n /\ n \in Nat /\ (\A i \in D : q[i] \in T /\ q[i] \in ToSet(q))
    BY DEF ToSet
  <1>2. IsFiniteSet(D) /\ Cardinality(D) = n
    <2> HIDE DEF D, n
    <2>1. IsFiniteSet(1 .. n) /\ Cardinality(1 .. n) = IF 1 > n THEN 0 ELSE n - 1 + 1
      BY <1>1, FS_Interval
    <2> QED
      BY <1>1, <2>1
  <1>3. \A i, j \in D : <<j, i>> \in B <=> before(j, i)
    OBVIOUS
  <1>4. /\ \A x \in D : ~before(x, x)
        /\ \A x, y, z \in D : before(x, y) /\ before(y, z) => before(x, z)
        /\ \A x, y \in D : x # y => before(x, y) \/ before(y, x)
    <2>1. \A x \in D : ~before(x, x)
      BY <1>1 DEF IsOrderOf
    <2>2. ASSUME NEW x \in D, NEW y \in D, NEW z \in D, before(x, y), before(y, z)
          PROVE  before(x, z)
      <3>0. x \in Nat /\ y \in Nat /\ z \in Nat
        BY <1>1
      <3>1. CASE <<q[x], q[y]>> \in R /\ <<q[y], q[z]>> \in R
        BY <1>1, <3>1 DEF IsOrderOf
      <3>2. CASE <<q[x], q[y]>> \in R /\ <<q[z], q[y]>> \notin R
        BY <1>1, <3>2 DEF IsOrderOf
      <3>3. CASE <<q[y], q[x]>> \notin R /\ <<q[y], q[z]>> \in R
        BY <1>1, <3>3 DEF IsOrderOf
      <3>4. CASE /\ <<q[y], q[x]>> \notin R /\ x < y
                 /\ <<q[z], q[y]>> \notin R /\ y < z
        <4>1. <<q[z], q[x]>> \notin R
          BY <1>1, <3>4 DEF IsOrderOf
        <4> QED
          BY <3>0, <3>4, <4>1
      <3> QED
        BY <2>2, <3>1, <3>2, <3>3, <3>4
    <2>3. ASSUME NEW x \in D, NEW y \in D, x # y
          PROVE  before(x, y) \/ before(y, x)
      <3>1. x < y \/ y < x
        BY <1>1, <2>3
      <3> QED
        BY <3>1
    <2> QED
      BY <2>1, <2>2, <2>3
  <1>5. /\ \A k \in 1 .. n : \E i \in D : rank(i) = k - 1
        /\ \A i \in D : rank(i) \in 0 .. n - 1
        /\ \A i, j \in D : rank(i) = rank(j) => i = j
        /\ \A i, j \in D : rank(i) < rank(j) <=> before(i, j)
    <2>1. \A i \in D : {j \in D : before(j, i)} = {j \in D : <<j, i>> \in B}
      BY <1>3
    <2>2. /\ \A x \in D : <<x, x>> \notin B
          /\ \A x, y, z \in D : <<x, y>> \in B /\ <<y, z>> \in B => <<x, z>> \in B
          /\ \A x, y \in D : x # y => <<x, y>> \in B \/ <<y, x>> \in B
      <3> HIDE DEF B, before
      <3> QED
        BY <1>3, <1>4
    <2> HIDE DEF B, before, D
    <2>3. LET rk(x) == Cardinality({y \in D : <<y, x>> \in B}) IN
           /\ \A x \in D : rk(x) \in 0 .. Cardinality(D) - 1
           /\ \A x, y \in D : rk(x) < rk(y) <=> <<x, y>> \in B
           /\ \A x, y \in D : rk(x) = rk(y) => x = y
           /\ \A k \in 1 .. Cardinality(D) : \E x \in D : rk(x) = k - 1
      BY <1>2, <2>2, Ranks
    <2>4. \A i \in D : rank(i) = Cardinality({j \in D : <<j, i>> \in B})
      BY <2>1
    <2> QED
      BY <1>2, <1>3, <2>3, <2>4
  <1>6. p = [k \in 1 .. n |-> q[nth(k)]]
    BY DEF SortedBy
  <1> HIDE DEF rank
  <1>7. \A k \in 1 .. n : nth(k) \in D /\ rank(nth(k)) = k - 1
    BY <1>5
  <1> HIDE DEF nth, p, n, D
  <1> DEFINE at == [k \in D |-> nth(k)]
  <1>8. /\ DOMAIN p = 1 .. n
        /\ \A k \in 1 .. n : p[k] = q[at[k]] /\ at[k] = nth(k) /\ p[k] \in T
    BY <1>1, <1>6, <1>7
  <1>9. p \in Seq(T)
    BY <1>1, <1>6, <1>8
  <1>10. at \in [D -> D]
    BY <1>1, <1>7
  <1>11. \A k, l \in 1 .. n : k < l <=> before(nth(k), nth(l))
    <2>1. ASSUME NEW k \in 1 .. n, NEW l \in 1 .. n
          PROVE  k < l <=> rank(nth(k)) < rank(nth(l))
      <3>1. rank(nth(k)) = k - 1 /\ rank(nth(l)) = l - 1
        BY <1>7
      <3>2. k < l <=> k - 1 < l - 1
        BY <1>1
      <3> QED
        BY <3>1, <3>2
    <2> HIDE DEF before
    <2> QED
      BY <1>5, <1>7, <2>1
  <1>12. \A k, l \in 1 .. n : at[k] = at[l] => k = l
    <2>1. ASSUME NEW k \in 1 .. n, NEW l \in 1 .. n, nth(k) = nth(l) PROVE k = l
      <3>1. k - 1 = l - 1
        BY <1>7, <2>1
      <3> QED
        BY <1>1, <3>1
    <2> HIDE DEF at
    <2> QED
      BY <1>8, <2>1
  <1>13. ASSUME NEW i \in D PROVE \E k \in D : at[k] = i
    <2> DEFINE k == rank(i) + 1
    <2>1. k \in 1 .. n /\ k - 1 = rank(i)
      BY <1>1, <1>5
    <2> HIDE DEF k, at
    <2>2. nth(k) = i
      BY <1>5, <1>7, <2>1
    <2> QED
      BY <1>1, <1>8, <2>1, <2>2
  <1>14. \E on : Sorts(p, q, on)
    <2> HIDE DEF at
    <2>1. Sorts(p, q, at)
      BY <1>1, <1>8, <1>10, <1>12, <1>13 DEF Sorts, D
    <2> QED
      BY <2>1
  <1>15. ASSUME NEW k \in DOMAIN p, NEW l \in DOMAIN p, k < l
         PROVE  <<p[l], p[k]>> \notin R
    <2>1. before(nth(k), nth(l))
      BY <1>8, <1>11, <1>15
    <2>2. p[k] = q[nth(k)] /\ p[l] = q[nth(l)] /\ nth(k) \in D /\ nth(l) \in D
      BY <1>7, <1>8
    <2>3. CASE <<p[k], p[l]>> \in R
      <3>1. p[k] \in ToSet(q) /\ p[l] \in ToSet(q)
        BY <1>1, <2>2
      <3> QED
        BY <2>3, <3>1 DEF IsOrderOf
    <2> QED
      BY <2>1, <2>2, <2>3
  <1> QED
    BY <1>9, <1>14, <1>15 DEF p

-----------------------------------------------------------------------------
(***************************************************************************)
(* Sums over finite sets.                                                  *)
(***************************************************************************)

\* The cells that Total counts.
Cells(n, S) == UNION {{r} \X (1 .. n[r]) : r \in S}

Counts(n, S) == \A r \in S : n[r] \in Nat

LEMMA CellOf ==
    ASSUME NEW n, NEW S, NEW c
    PROVE  c \in Cells(n, S) <=> \E r \in S : \E i \in 1 .. n[r] : c = <<r, i>>
  BY DEF Cells

LEMMA ColumnCells ==
    ASSUME NEW n, NEW x, n[x] \in Nat
    PROVE  IsFiniteSet(Cells(n, {x})) /\ Total(n, {x}) = n[x]
  <1>1. IsFiniteSet(1 .. n[x]) /\ Cardinality(1 .. n[x]) = n[x]
    BY UpTo
  <1> DEFINE f == [i \in 1 .. n[x] |-> <<x, i>>]
  <1>2. \A c : c \in Cells(n, {x}) <=> \E i \in 1 .. n[x] : c = <<x, i>>
    BY CellOf
  <1>3. f \in [1 .. n[x] -> Cells(n, {x})]
    BY <1>2
  <1>4. \A i, j \in 1 .. n[x] : f[i] = f[j] => i = j
    OBVIOUS
  <1>5. \A c \in Cells(n, {x}) : \E i \in 1 .. n[x] : f[i] = c
    BY <1>2
  <1> HIDE DEF f
  <1>6. f \in Bijection(1 .. n[x], Cells(n, {x}))
    BY <1>3, <1>4, <1>5 DEF Bijection, Injection, Surjection, IsInjective
  <1>7. ExistsBijection(1 .. n[x], Cells(n, {x}))
    BY <1>6 DEF ExistsBijection
  <1> QED
    BY <1>1, <1>7, FS_Bijection DEF Total, Cells

LEMMA CellsFinite ==
    ASSUME NEW S, IsFiniteSet(S), NEW n, Counts(n, S)
    PROVE  IsFiniteSet(Cells(n, S)) /\ Total(n, S) \in Nat
  <1> DEFINE F == {T \in SUBSET S : IsFiniteSet(Cells(n, T))}
  <1>1. {} \in F
    <2>1. Cells(n, {}) = {}
      BY DEF Cells
    <2> QED
      BY <2>1, FS_EmptySet
  <1>2. ASSUME NEW T \in SUBSET S, NEW x \in S, T \in F PROVE T \cup {x} \in F
    <2>1. Cells(n, T \cup {x}) = Cells(n, T) \cup Cells(n, {x})
      BY CellOf
    <2>2. IsFiniteSet(Cells(n, T)) /\ IsFiniteSet(Cells(n, {x}))
      BY <1>2, ColumnCells DEF Counts
    <2> QED
      BY <2>1, <2>2, FS_Union
  <1>3. S \in F
    <2> HIDE DEF F
    <2> QED
      BY <1>1, <1>2, FiniteInduction
  <1> QED
    BY <1>3, FS_CardinalityType DEF Total, Cells

LEMMA TotalOfNone == ASSUME NEW n PROVE Total(n, {}) = 0
  BY FS_EmptySet DEF Total

LEMMA TotalUnion ==
    ASSUME NEW S, IsFiniteSet(S), NEW T, IsFiniteSet(T), S \cap T = {},
           NEW n, Counts(n, S \cup T)
    PROVE  Total(n, S \cup T) = Total(n, S) + Total(n, T)
  <1>1. Cells(n, S \cup T) = Cells(n, S) \cup Cells(n, T)
    BY CellOf
  <1>2. Cells(n, S) \cap Cells(n, T) = {}
    <2>1. ASSUME NEW c \in Cells(n, S), c \in Cells(n, T) PROVE FALSE
      <3>1. PICK r \in S : \E i \in 1 .. n[r] : c = <<r, i>>
        BY CellOf
      <3>2. PICK s \in T : \E i \in 1 .. n[s] : c = <<s, i>>
        BY <2>1, CellOf
      <3> QED
        BY <3>1, <3>2
    <2> QED
      BY <2>1
  <1>3. IsFiniteSet(Cells(n, S)) /\ IsFiniteSet(Cells(n, T))
    BY CellsFinite DEF Counts
  <1> DEFINE A == Cells(n, S)
             B == Cells(n, T)
  <1> HIDE DEF A, B
  <1>4. IsFiniteSet(A) /\ IsFiniteSet(B) /\ Cardinality(A \cap B) = 0
    BY <1>2, <1>3, FS_EmptySet DEF A, B
  <1>5. Cardinality(A) \in Nat /\ Cardinality(B) \in Nat
    BY <1>4, FS_CardinalityType
  <1>6. Cardinality(A \cup B) = Cardinality(A) + Cardinality(B) - Cardinality(A \cap B)
    BY <1>4, FS_Union
  <1>7. Cardinality(A \cup B) = Cardinality(A) + Cardinality(B)
    BY <1>4, <1>5, <1>6
  <1> QED
    BY <1>1, <1>7 DEF Total, Cells, A, B

LEMMA TotalAdd ==
    ASSUME NEW S, IsFiniteSet(S), NEW x, x \notin S, NEW n, Counts(n, S \cup {x})
    PROVE  Total(n, S \cup {x}) = Total(n, S) + n[x]
  <1>1. S \cap {x} = {} /\ IsFiniteSet({x})
    BY FS_Singleton
  <1>2. Total(n, {x}) = n[x]
    BY ColumnCells DEF Counts
  <1> QED
    BY <1>1, <1>2, TotalUnion

LEMMA TotalPart ==
    ASSUME NEW S, IsFiniteSet(S), NEW T \in SUBSET S, NEW n, Counts(n, S)
    PROVE  /\ IsFiniteSet(T) /\ IsFiniteSet(S \ T)
           /\ Total(n, T) \in Nat /\ Total(n, S \ T) \in Nat
           /\ Total(n, S) = Total(n, T) + Total(n, S \ T)
  <1>1. IsFiniteSet(T) /\ IsFiniteSet(S \ T) /\ T \cup (S \ T) = S /\ T \cap (S \ T) = {}
    BY FS_Subset
  <1>2. Total(n, T) \in Nat /\ Total(n, S \ T) \in Nat
    BY <1>1, CellsFinite DEF Counts
  <1> QED
    BY <1>1, <1>2, TotalUnion

\* Elements without a cell do not count.
LEMMA TotalOfRest ==
    ASSUME NEW S, NEW T \in SUBSET S, NEW n, \A r \in S \ T : n[r] = 0
    PROVE  Total(n, S) = Total(n, T)
  <1>1. Cells(n, S) = Cells(n, T)
    <2>1. \A r \in S \ T : 1 .. n[r] = {}
      OBVIOUS
    <2>2. \A c : c \in Cells(n, S) => c \in Cells(n, T)
      BY <2>1, CellOf
    <2>3. \A c : c \in Cells(n, T) => c \in Cells(n, S)
      BY CellOf
    <2> HIDE DEF Cells
    <2> QED
      BY <2>2, <2>3
  <1> QED
    BY <1>1 DEF Total, Cells

\* Each element has at least one cell.
LEMMA TotalAtLeast ==
    ASSUME NEW S, IsFiniteSet(S), NEW n, Counts(n, S), \A r \in S : n[r] >= 1
    PROVE  Cardinality(S) <= Total(n, S)
  <1> DEFINE f == [r \in S |-> <<r, 1>>]
  <1>1. f \in Injection(S, Cells(n, S))
    <2>1. \A r \in S : 1 \in 1 .. n[r]
      BY DEF Counts
    <2>2. f \in [S -> Cells(n, S)]
      BY <2>1, CellOf
    <2>3. \A r, s \in S : f[r] = f[s] => r = s
      OBVIOUS
    <2> HIDE DEF f
    <2> QED
      BY <2>2, <2>3 DEF Injection, IsInjective
  <1>2. IsFiniteSet(Cells(n, S))
    BY CellsFinite
  <1> QED
    BY <1>1, <1>2, FS_Injection DEF Total, Cells

\* Sums of what is at most one short, one by one.
LEMMA TotalBound ==
    ASSUME NEW S, IsFiniteSet(S), NEW n, NEW m, NEW k,
           Counts(n, S), Counts(m, S), Counts(k, S),
           \A r \in S : n[r] <= m[r] + k[r] + 1
    PROVE  Total(n, S) <= Total(m, S) + Total(k, S) + Cardinality(S)
  <1> DEFINE F == {T \in SUBSET S :
                    Total(n, T) <= Total(m, T) + Total(k, T) + Cardinality(T)}
  <1>1. {} \in F
    BY TotalOfNone, FS_EmptySet
  <1>2. ASSUME NEW T \in SUBSET S, NEW x \in S, T \in F PROVE T \cup {x} \in F
    <2>1. CASE x \in T
      <3>1. T \cup {x} = T
        BY <2>1
      <3> QED
        BY <1>2, <3>1
    <2>2. CASE x \notin T
      <3>1. IsFiniteSet(T)
        BY FS_Subset
      <3>2. Cardinality(T) \in Nat /\ Cardinality(T \cup {x}) = Cardinality(T) + 1
        BY <2>2, <3>1, FS_CardinalityType, FS_AddElement
      <3>3. /\ Total(n, T \cup {x}) = Total(n, T) + n[x]
            /\ Total(m, T \cup {x}) = Total(m, T) + m[x]
            /\ Total(k, T \cup {x}) = Total(k, T) + k[x]
        BY <2>2, <3>1, TotalAdd DEF Counts
      <3>4. Total(n, T) \in Nat /\ Total(m, T) \in Nat /\ Total(k, T) \in Nat
        BY <3>1, CellsFinite DEF Counts
      <3>5. /\ n[x] \in Nat /\ m[x] \in Nat /\ k[x] \in Nat
            /\ n[x] <= m[x] + k[x] + 1
        BY DEF Counts
      <3>6. Total(n, T) <= Total(m, T) + Total(k, T) + Cardinality(T)
        BY <1>2
      <3> HIDE DEF F
      <3>7. Total(n, T \cup {x})
                <= Total(m, T \cup {x}) + Total(k, T \cup {x}) + Cardinality(T \cup {x})
        BY <3>2, <3>3, <3>4, <3>5, <3>6
      <3> QED
        BY <3>7 DEF F
    <2> QED
      BY <2>1, <2>2
  <1>3. S \in F
    <2> HIDE DEF F
    <2> QED
      BY <1>1, <1>2, FiniteInduction
  <1> QED
    BY <1>3

\* Of two sums, the one whose terms are matched with terms as large.
LEMMA TotalMatched ==
    ASSUME NEW S, IsFiniteSet(S), NEW T, IsFiniteSet(T), NEW n, NEW m,
           Counts(n, S), Counts(m, T), NEW f \in [S -> T],
           \A x, y \in S : f[x] = f[y] => x = y,
           \A x \in S : n[x] <= m[f[x]]
    PROVE  Total(n, S) <= Total(m, T)
  <1> DEFINE A == Cells(n, S)
             B == Cells(m, T)
             g == [c \in A |-> <<f[c[1]], c[2]>>]
  <1>1. \A c \in A : c[1] \in S /\ c[2] \in 1 .. n[c[1]] /\ c = <<c[1], c[2]>>
    BY CellOf
  <1>2. \A c \in A : g[c] \in B
    <2> SUFFICES ASSUME NEW c \in A PROVE g[c] \in B
      OBVIOUS
    <2>1. f[c[1]] \in T /\ n[c[1]] \in Nat /\ m[f[c[1]]] \in Nat /\ n[c[1]] <= m[f[c[1]]]
      BY <1>1 DEF Counts
    <2>2. c[2] \in 1 .. m[f[c[1]]]
      BY <1>1, <2>1
    <2> QED
      BY <2>1, <2>2, CellOf
  <1>3. \A c, d \in A : g[c] = g[d] => c = d
    BY <1>1
  <1>4. g \in [A -> B]
    BY <1>2
  <1> HIDE DEF g, A, B
  <1>5. g \in Injection(A, B)
    BY <1>3, <1>4, Fun_IsInj
  <1>6. IsFiniteSet(B)
    BY CellsFinite DEF B
  <1> QED
    BY <1>5, <1>6, FS_Injection DEF Total, Cells, A, B

=============================================================================
