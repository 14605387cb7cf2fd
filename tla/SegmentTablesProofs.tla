-------------------------- MODULE SegmentTablesProofs --------------------------
(***************************************************************************)
(* Theorems about SegmentTables, for every number of LoRA slots, size of a *)
(* tile, capture sizes and batches: what the grids over the tables of a    *)
(* step do to its rows, and what the tables say of its runs.               *)
(***************************************************************************)
EXTENDS SegmentTables, SequenceLemmas

-----------------------------------------------------------------------------
(***************************************************************************)
(* Runs and the slots of their tokens.                                     *)
(***************************************************************************)

StartsUpTo(ids, i) == {j \in RunStarts(ids) : j <= i}

LEMMA StartsFinite ==
    ASSUME NEW T, NEW ids \in Seq(T), NEW i
    PROVE  /\ IsFiniteSet(RunStarts(ids)) /\ Cardinality(RunStarts(ids)) \in Nat
           /\ IsFiniteSet(StartsUpTo(ids, i)) /\ Cardinality(StartsUpTo(ids, i)) \in Nat
           /\ RunStarts(ids) \subseteq 1 .. Len(ids)
  <1>1. DOMAIN ids = 1 .. Len(ids) /\ Len(ids) \in Nat
    OBVIOUS
  <1>2. RunStarts(ids) \in SUBSET (1 .. Len(ids)) /\ StartsUpTo(ids, i) \in SUBSET (1 .. Len(ids))
    BY <1>1 DEF RunStarts, StartsUpTo
  <1>3. IsFiniteSet(1 .. Len(ids))
    BY <1>1, UpTo
  <1> QED
    BY <1>2, <1>3, FS_Subset, FS_CardinalityType

\* Without a start between them, tokens are of one run and have one adapter.
LEMMA NoStartBetween ==
    ASSUME NEW T, NEW ids \in Seq(T), NEW i \in DOMAIN ids, NEW j \in DOMAIN ids, i <= j,
           \A k \in RunStarts(ids) : ~(i < k /\ k <= j)
    PROVE  ids[i] = ids[j]
  <1> DEFINE K == {d \in Nat : i + d <= j => ids[i + d] = ids[i]}
  <1>1. DOMAIN ids = 1 .. Len(ids) /\ Len(ids) \in Nat /\ i \in Nat /\ j \in Nat /\ i >= 1
    OBVIOUS
  <1>2. 0 \in K
    BY <1>1
  <1>3. ASSUME NEW d \in Nat, d \in K PROVE d + 1 \in K
    <2>1. CASE i + (d + 1) <= j
      <3>1. i + (d + 1) \in DOMAIN ids /\ i + (d + 1) # 1 /\ (i + (d + 1)) - 1 = i + d
        BY <1>1, <2>1
      <3>2. i + (d + 1) \notin RunStarts(ids)
        BY <1>1, <2>1
      <3>3. ids[i + (d + 1)] = ids[i + d]
        BY <3>1, <3>2 DEF RunStarts
      <3>4. ids[i + d] = ids[i]
        BY <1>1, <1>3, <2>1
      <3> QED
        BY <3>3, <3>4
    <2> QED
      BY <2>1
  <1>4. Nat \subseteq K
    <2> HIDE DEF K
    <2> QED
      BY <1>2, <1>3, SetInduction
  <1>5. j - i \in Nat /\ i + (j - i) = j
    BY <1>1
  <1>6. j - i \in K
    BY <1>4, <1>5
  <1> QED
    BY <1>5, <1>6

LEMMA SlotsNumber == n_loras \in Nat /\ n_loras >= 2 /\ \A s \in Slots : s \in Nat
  BY TablesAssumption DEF n_loras, Slots

\* The slots follow the tokens in order; while the runs fit into the table, the
\* tokens of a slot are those of one run.
LEMMA SlotFacts ==
    ASSUME NEW T, NEW ids \in Seq(T), NEW i \in DOMAIN ids, NEW j \in DOMAIN ids
    PROVE  /\ SlotOf(ids, i) \in Slots
           /\ i <= j => SlotOf(ids, i) <= SlotOf(ids, j)
           /\ Cardinality(RunStarts(ids)) <= n_loras =>
                /\ SlotOf(ids, i) = Cardinality(StartsUpTo(ids, i)) - 1
                /\ SlotOf(ids, i) = SlotOf(ids, j) => ids[i] = ids[j]
  <1> DEFINE c(k) == Cardinality(StartsUpTo(ids, k))
             runs == Cardinality(RunStarts(ids))
  <1>1. \A k \in DOMAIN ids : SlotOf(ids, k) = Smaller(c(k) - 1, n_loras - 1)
    BY DEF SlotOf, StartsUpTo
  <1>2. \A k \in DOMAIN ids : /\ c(k) \in Nat /\ c(k) >= 1 /\ c(k) <= runs
                              /\ IsFiniteSet(StartsUpTo(ids, k))
    <2> SUFFICES ASSUME NEW k \in DOMAIN ids
                 PROVE  c(k) \in Nat /\ c(k) >= 1 /\ c(k) <= runs /\ IsFiniteSet(StartsUpTo(ids, k))
      OBVIOUS
    <2>1. 1 \in StartsUpTo(ids, k)
      BY DEF StartsUpTo, RunStarts
    <2>2. StartsUpTo(ids, k) \in SUBSET RunStarts(ids)
      BY DEF StartsUpTo
    <2>3. IsFiniteSet(RunStarts(ids)) /\ IsFiniteSet(StartsUpTo(ids, k)) /\ c(k) \in Nat
      BY StartsFinite
    <2>4. c(k) # 0
      BY <2>1, <2>3, FS_EmptySet
    <2>5. c(k) <= runs
      BY <2>2, <2>3, FS_Subset
    <2> QED
      BY <2>3, <2>4, <2>5
  <1>3. \A k, m \in DOMAIN ids : k <= m => c(k) <= c(m) /\ (c(k) = c(m) => ids[k] = ids[m])
    <2> SUFFICES ASSUME NEW k \in DOMAIN ids, NEW m \in DOMAIN ids, k <= m
                 PROVE  c(k) <= c(m) /\ (c(k) = c(m) => ids[k] = ids[m])
      OBVIOUS
    <2>1. StartsUpTo(ids, k) \in SUBSET StartsUpTo(ids, m)
      <3>1. RunStarts(ids) \subseteq 1 .. Len(ids)
        BY StartsFinite
      <3> QED
        BY <3>1 DEF StartsUpTo
    <2>2. /\ c(k) <= c(m)
          /\ c(k) = c(m) => StartsUpTo(ids, k) = StartsUpTo(ids, m)
      BY <1>2, <2>1, FS_Subset
    <2>3. ASSUME StartsUpTo(ids, k) = StartsUpTo(ids, m) PROVE ids[k] = ids[m]
      <3>1. \A x \in RunStarts(ids) : ~(k < x /\ x <= m)
        <4> SUFFICES ASSUME NEW x \in RunStarts(ids), k < x, x <= m PROVE FALSE
          OBVIOUS
        <4>1. x \in StartsUpTo(ids, k)
          BY <2>3 DEF StartsUpTo
        <4>2. RunStarts(ids) \subseteq 1 .. Len(ids)
          BY StartsFinite
        <4>3. x \in Nat /\ k \in Nat /\ x <= k
          BY <4>1, <4>2 DEF StartsUpTo
        <4> QED
          BY <4>3
      <3> QED
        BY <3>1, NoStartBetween
    <2> QED
      BY <2>2, <2>3
  <1>4. runs \in Nat
    BY StartsFinite
  <1>5. i \in Nat /\ j \in Nat
    OBVIOUS
  <1> HIDE DEF c, runs
  <1>6. c(i) \in Nat /\ c(j) \in Nat /\ c(i) >= 1 /\ c(j) >= 1 /\ c(i) <= runs /\ c(j) <= runs
    BY <1>2
  <1>7. SlotOf(ids, i) \in Slots /\ (i <= j => SlotOf(ids, i) <= SlotOf(ids, j))
    BY <1>1, <1>3, <1>6, SlotsNumber DEF Smaller, Slots
  <1>8. ASSUME runs <= n_loras
        PROVE  SlotOf(ids, i) = c(i) - 1 /\ (SlotOf(ids, i) = SlotOf(ids, j) => ids[i] = ids[j])
    <2>1. SlotOf(ids, i) = c(i) - 1 /\ SlotOf(ids, j) = c(j) - 1
      BY <1>1, <1>4, <1>6, <1>8, SlotsNumber DEF Smaller
    <2>2. SlotOf(ids, i) = SlotOf(ids, j) => c(i) = c(j)
      BY <1>6, <2>1
    <2>3. c(i) = c(j) => ids[i] = ids[j]
      BY <1>3, <1>5
    <2> QED
      BY <2>1, <2>2, <2>3
  <1> QED
    BY <1>7, <1>8 DEF c, runs

-----------------------------------------------------------------------------
(***************************************************************************)
(* The segment table.                                                      *)
(***************************************************************************)

\* A set of numbers without a gap is the interval from its least element.
LEMMA Interval ==
    ASSUME NEW n \in Nat, NEW S \in SUBSET (1 .. n), S # {},
           \A i, k \in S, j \in 1 .. n : i <= j /\ j <= k => j \in S
    PROVE  /\ Min(S) \in S /\ Cardinality(S) \in Nat
           /\ S = Min(S) .. Min(S) + Cardinality(S) - 1
           /\ Min(S) + Cardinality(S) - 1 <= n
  <1>1. PICK a \in S : \A i \in S : a <= i
    BY FirstPlace
  <1>2. PICK b \in S : \A i \in S : i <= b
    BY LastPlace
  <1>3. S = a .. b /\ a \in Nat /\ b \in Nat /\ a <= b /\ b <= n
    <2>1. a \in Nat /\ b \in Nat /\ a <= b /\ b <= n /\ 1 <= a
      BY <1>1, <1>2
    <2>2. ASSUME NEW i \in S PROVE i \in a .. b
      BY <1>1, <1>2, <2>1
    <2>3. ASSUME NEW i \in a .. b PROVE i \in S
      <3>1. i \in 1 .. n /\ a <= i /\ i <= b
        BY <2>1
      <3> QED
        BY <3>1
    <2> QED
      BY <2>1, <2>2, <2>3
  <1>4. Min(S) = a
    BY <1>1, <1>3 DEF Min
  <1>5. Cardinality(S) = b - a + 1
    BY <1>3, FS_Interval
  <1> QED
    BY <1>3, <1>4, <1>5

\* What the host leaves in the table: per slot the interval of its tokens and the
\* adapter of one of them, or -1 if it has none.
Describes(sg, ids) ==
    /\ sg.start \in [Slots -> Nat] /\ sg.length \in [Slots -> Nat]
    /\ \A s \in Slots :
          /\ TokensOf(ids, s) = sg.start[s] + 1 .. sg.start[s] + sg.length[s]
          /\ TokensOf(ids, s) = {} => sg.lora[s] = -1
          /\ TokensOf(ids, s) # {} => \E i \in TokensOf(ids, s) : sg.lora[s] = ids[i]

LEMMA TokensInterval ==
    ASSUME NEW T, NEW ids \in Seq(T), NEW s \in Slots, TokensOf(ids, s) # {}
    PROVE  LET S == TokensOf(ids, s)
           IN  /\ Min(S) \in S /\ Min(S) \in Nat /\ Min(S) - 1 \in Nat /\ Cardinality(S) \in Nat
               /\ S = Min(S) .. Min(S) + Cardinality(S) - 1
  <1> DEFINE S == TokensOf(ids, s)
  <1>1. DOMAIN ids = 1 .. Len(ids) /\ Len(ids) \in Nat
    OBVIOUS
  <1>2. S \in SUBSET (1 .. Len(ids))
    BY <1>1 DEF TokensOf
  <1>3. ASSUME NEW i \in S, NEW k \in S, NEW j \in 1 .. Len(ids), i <= j, j <= k
        PROVE  j \in S
    <2>1. i \in DOMAIN ids /\ j \in DOMAIN ids /\ k \in DOMAIN ids
      BY <1>1, <1>2
    <2>2. SlotOf(ids, i) = s /\ SlotOf(ids, k) = s
      BY DEF TokensOf
    <2>3. SlotOf(ids, i) <= SlotOf(ids, j) /\ SlotOf(ids, j) \in Slots
      BY <1>3, <2>1, SlotFacts
    <2>4. SlotOf(ids, j) <= SlotOf(ids, k)
      BY <1>3, <2>1, SlotFacts
    <2>5. SlotOf(ids, j) = s
      BY <2>2, <2>3, <2>4, SlotsNumber
    <2> QED
      BY <2>1, <2>5 DEF TokensOf
  <1> HIDE DEF S
  <1>4. /\ Min(S) \in S /\ Cardinality(S) \in Nat
        /\ S = Min(S) .. Min(S) + Cardinality(S) - 1
    BY <1>1, <1>2, <1>3, Interval DEF S
  <1>5. Min(S) \in 1 .. Len(ids)
    BY <1>2, <1>4
  <1> QED
    BY <1>4, <1>5 DEF S

LEMMA TableDescribes ==
    ASSUME NEW T, NEW ids \in Seq(T), NEW sg \in SegmentTablesOf(ids)
    PROVE  Describes(sg, ids)
  <1> DEFINE tokens(s) == TokensOf(ids, s)
             start == [s \in Slots |-> IF tokens(s) = {} THEN 0 ELSE Min(tokens(s)) - 1]
             length == [s \in Slots |-> Cardinality(tokens(s))]
             lora(last) == [s \in Slots |->
                 IF tokens(s) = {} THEN -1
                 ELSE IF s = n_loras - 1 THEN last ELSE ids[Min(tokens(s))]]
             lasts == {ids[i] : i \in tokens(n_loras - 1)}
                         \cup (IF tokens(n_loras - 1) = {} THEN {-1} ELSE {})
  <1>1. PICK last \in lasts : sg = [start |-> start, length |-> length, lora |-> lora(last)]
    BY DEF SegmentTablesOf
  <1>2. sg.start = start /\ sg.length = length /\ sg.lora = lora(last)
    BY <1>1
  <1>3. ASSUME NEW s \in Slots
        PROVE  /\ start[s] \in Nat /\ length[s] \in Nat
               /\ tokens(s) = start[s] + 1 .. start[s] + length[s]
               /\ tokens(s) = {} => lora(last)[s] = -1
               /\ tokens(s) # {} => \E i \in tokens(s) : lora(last)[s] = ids[i]
    <2>1. CASE tokens(s) = {}
      <3>1. start[s] = 0 /\ length[s] = 0 /\ lora(last)[s] = -1
        BY <2>1, FS_EmptySet
      <3>2. start[s] + 1 .. start[s] + length[s] = {}
        BY <3>1
      <3> QED
        BY <2>1, <3>1, <3>2
    <2>2. CASE tokens(s) # {}
      <3> DEFINE S == TokensOf(ids, s)
      <3>1. /\ Min(S) \in S /\ Min(S) \in Nat /\ Min(S) - 1 \in Nat /\ Cardinality(S) \in Nat
            /\ S = Min(S) .. Min(S) + Cardinality(S) - 1
        BY <2>2, TokensInterval
      <3>2. start[s] = Min(S) - 1 /\ length[s] = Cardinality(S)
        BY <2>2
      <3>3. lora(last)[s] = IF s = n_loras - 1 THEN last ELSE ids[Min(S)]
        BY <2>2
      <3>4. \E i \in S : lora(last)[s] = ids[i]
        <4>1. CASE s = n_loras - 1
          BY <2>2, <3>3, <4>1
        <4>2. CASE s # n_loras - 1
          BY <3>1, <3>3, <4>2
        <4> QED
          BY <4>1, <4>2
      <3>5. Min(S) = start[s] + 1 /\ Min(S) + Cardinality(S) - 1 = start[s] + length[s]
        <4>1. ASSUME NEW m \in Nat, NEW c \in Nat, start[s] = m - 1, length[s] = c
              PROVE  m = start[s] + 1 /\ m + c - 1 = start[s] + length[s]
          <5> HIDE DEF start, length
          <5> QED
            BY <4>1
        <4> HIDE DEF S, start, length
        <4> QED
          BY <3>1, <3>2, <4>1
      <3> HIDE DEF start, length, lora, S
      <3>6. S = start[s] + 1 .. start[s] + length[s]
        BY <3>1, <3>5
      <3> QED
        BY <2>2, <3>1, <3>2, <3>4, <3>6 DEF S
    <2> QED
      BY <2>1, <2>2
  <1>4. start = [s \in Slots |-> start[s]] /\ length = [s \in Slots |-> length[s]]
    OBVIOUS
  <1> HIDE DEF start, length, lora, lasts
  <1>5. start \in [Slots -> Nat] /\ length \in [Slots -> Nat]
    BY <1>3, <1>4
  <1> QED
    BY <1>2, <1>3, <1>5 DEF Describes

-----------------------------------------------------------------------------
(***************************************************************************)
(* Which programs write a row.                                             *)
(***************************************************************************)

LEMMA QuotientIs ==
    ASSUME NEW b \in Nat \ {0}, NEW m \in Nat, NEW x \in Nat
    PROVE  x \in m * b .. m * b + b - 1 <=> m = x \div b
  <1> DEFINE k == x \div b
  <1>1. k \in Nat /\ x = b * k + (x % b) /\ x % b \in 0 .. b - 1
    BY Quotient
  <1> HIDE DEF k
  <1>2. m * b \in Nat /\ b * k \in Nat /\ m * b = b * m
    BY <1>1
  <1>3. CASE m = k
    BY <1>1, <1>2, <1>3
  <1>4. CASE m < k
    <2>1. b * (m + 1) <= b * k
      BY <1>1, <1>4
    <2>2. b * (m + 1) = b * m + b
      OBVIOUS
    <2> QED
      BY <1>1, <1>2, <1>4, <2>1, <2>2
  <1>5. CASE m > k
    <2>1. b * (k + 1) <= b * m
      BY <1>1, <1>5
    <2>2. b * (k + 1) = b * k + b
      BY <1>1
    <2> QED
      BY <1>1, <1>2, <1>5, <2>1, <2>2
  <1> QED
    BY <1>1, <1>3, <1>4, <1>5 DEF k

\* The tile of its slot in which a row lies.
TileOf(r) == ((r - 1) - seg.start[SlotOf(idx, r)]) \div BM

\* The rows of a tile: those of its slot that lie in it.
LEMMA RowsOfTile ==
    ASSUME NEW T, idx \in Seq(T), Describes(seg, idx),
           NEW s \in Slots, NEW m \in Nat, NEW r \in DOMAIN idx
    PROVE  /\ r \in Rows(s, m, BM) <=>
                /\ seg.lora[s] # -1
                /\ SlotOf(idx, r) = s /\ m = TileOf(r)
           /\ SlotOf(idx, r) = s => /\ r - 1 - seg.start[s] \in 0 .. seg.length[s] - 1
                                    /\ TileOf(r) \in Nat
  <1> DEFINE start == seg.start[s]
             length == seg.length[s]
             x == (r - 1) - start
  <1>1. start \in Nat /\ length \in Nat /\ r \in Nat /\ BM \in Nat \ {0} /\ s \in Nat
    BY TablesAssumption, SlotsNumber DEF Describes
  <1>2. SlotOf(idx, r) = s <=> r \in start + 1 .. start + length
    <2>1. SlotOf(idx, r) = s <=> r \in TokensOf(idx, s)
      BY DEF TokensOf
    <2>2. TokensOf(idx, s) = start + 1 .. start + length
      BY DEF Describes
    <2> QED
      BY <2>1, <2>2
  <1>3. SlotOf(idx, r) = s => TileOf(r) = x \div BM
    BY DEF TileOf
  <1>4. r \in Rows(s, m, BM) <=>
            /\ seg.lora[s] # -1 /\ m * BM < length
            /\ r - 1 \in start + m * BM .. start + m * BM + BM - 1
            /\ r - 1 < start + length
    <2>1. m * BM \in Nat
      BY <1>1
    <2>2. m * BM >= length <=> ~(m * BM < length)
      BY <1>1, <2>1
    <2>3. ~(s < 0) /\ s >= 0
      BY <1>1
    <2> QED
      BY <2>2, <2>3 DEF Rows
  <1> HIDE DEF start, length, x
  <1>5. m * BM \in Nat
    BY <1>1
  <1>6. CASE r \in start + 1 .. start + length
    <2>1. x \in Nat /\ x < length
      BY <1>1, <1>6 DEF x
    <2>2. x \in m * BM .. m * BM + BM - 1 <=> m = x \div BM
      BY <1>1, <2>1, QuotientIs
    <2>3. r - 1 \in start + m * BM .. start + m * BM + BM - 1
            <=> x \in m * BM .. m * BM + BM - 1
      BY <1>1, <1>5, <2>1 DEF x
    <2>4. x \in m * BM .. m * BM + BM - 1 => m * BM < length
      BY <1>1, <1>5, <2>1
    <2>5. r - 1 < start + length
      BY <1>1, <1>6
    <2>6. x \div BM \in Nat
      BY <1>1, <2>1, Quotient
    <2>7. SlotOf(idx, r) = s /\ TileOf(r) = x \div BM
      BY <1>2, <1>3, <1>6
    <2>8. r - 1 - seg.start[s] = x
      BY DEF x, start
    <2>9. r \in Rows(s, m, BM) <=> seg.lora[s] # -1 /\ SlotOf(idx, r) = s /\ m = TileOf(r)
      BY <1>4, <2>2, <2>3, <2>4, <2>5, <2>7
    <2>10. r - 1 - seg.start[s] \in 0 .. seg.length[s] - 1
      BY <1>1, <2>1, <2>8 DEF length
    <2> QED
      BY <2>6, <2>7, <2>9, <2>10
  <1>7. CASE r \notin start + 1 .. start + length
    <2>1. ~(r - 1 \in start + m * BM .. start + m * BM + BM - 1 /\ r - 1 < start + length)
      BY <1>1, <1>5, <1>7
    <2> QED
      BY <1>2, <1>4, <1>7, <2>1
  <1> QED
    BY <1>6, <1>7

\* A grid that has every tile with a row in it, and each tile once.
CoversRows(items) ==
    /\ \A p \in DOMAIN items : items[p].seg \in Slots \cup {-1} /\ items[p].m \in Nat
    /\ \A p, q \in DOMAIN items :
          items[p].seg # -1 /\ items[p].seg = items[q].seg /\ items[p].m = items[q].m => p = q
    /\ \A r \in DOMAIN idx : \E p \in DOMAIN items :
          items[p].seg = SlotOf(idx, r) /\ items[p].m = TileOf(r)

\* The programs of one tile write all parts of the row, with one adapter.
Whole(writes, parts, a) ==
    \E p : writes = {[prog |-> p, part |-> x, lora |-> a] : x \in parts}

AllParts(ns, sk) == {[slice |-> i, split |-> k] : i \in 0 .. ns - 1, k \in 0 .. sk - 1}

LEMMA PartsOfGrid ==
    ASSUME NEW ns \in Nat, NEW sk \in Nat \ {0}
    PROVE  {SliceAndSplit(q, ns, sk) : q \in 0 .. ns * sk - 1} = AllParts(ns, sk)
  <1>1. ASSUME NEW q \in 0 .. ns * sk - 1
        PROVE  SliceAndSplit(q, ns, sk) \in AllParts(ns, sk)
    <2>0. ns * sk \in Nat /\ q \in Nat /\ q < ns * sk
      OBVIOUS
    <2> DEFINE i == q \div sk
    <2>1. i \in Nat /\ q % sk \in 0 .. sk - 1 /\ q = sk * i + (q % sk)
      BY <2>0, Quotient
    <2>2. i < ns
      <3> SUFFICES ASSUME i >= ns PROVE FALSE
        BY <2>1
      <3> HIDE DEF i
      <3>1. sk * ns <= sk * i
        BY <2>1
      <3>2. sk * i \in Nat /\ sk * i <= q /\ sk * ns = ns * sk
        BY <2>0, <2>1
      <3> QED
        BY <2>0, <3>1, <3>2
    <2> QED
      BY <2>1, <2>2 DEF SliceAndSplit, AllParts
  <1>2. ASSUME NEW i \in 0 .. ns - 1, NEW k \in 0 .. sk - 1
        PROVE  \E q \in 0 .. ns * sk - 1 : SliceAndSplit(q, ns, sk) = [slice |-> i, split |-> k]
    <2> DEFINE q == sk * i + k
    <2>1. sk * i \in Nat /\ q \in Nat
      OBVIOUS
    <2>2. sk * (i + 1) <= sk * ns /\ sk * (i + 1) = sk * i + sk /\ sk * ns = ns * sk
      OBVIOUS
    <2>3. q \in 0 .. ns * sk - 1
      BY <2>1, <2>2
    <2>4. q % sk = k
      BY Wraps
    <2>5. i * sk = sk * i
      OBVIOUS
    <2>6. q \in i * sk .. i * sk + sk - 1
      BY <2>1, <2>5
    <2>7. q \div sk = i
      BY <2>1, <2>6, QuotientIs
    <2> HIDE DEF q
    <2> QED
      BY <2>3, <2>4, <2>7 DEF SliceAndSplit
  <1> QED
    BY <1>1, <1>2 DEF AllParts

\* Then the row is written once and all of it.
LEMMA WholeFacts ==
    ASSUME NEW writes, NEW parts, NEW a, Whole(writes, parts, a)
    PROVE  /\ {w.part : w \in writes} = parts
           /\ \A v, w \in writes : v.prog = w.prog
           /\ \A w \in writes : w.lora = a
           /\ IsFiniteSet(parts) => Cardinality(writes) = Cardinality(parts)
  <1>1. PICK p : writes = {[prog |-> p, part |-> x, lora |-> a] : x \in parts}
    BY DEF Whole
  <1> DEFINE f == [x \in parts |-> [prog |-> p, part |-> x, lora |-> a]]
  <1>2. \A w \in writes : \E x \in parts : w = f[x]
    BY <1>1
  <1>3. \A x \in parts : f[x] \in writes /\ f[x].part = x /\ f[x].prog = p /\ f[x].lora = a
    BY <1>1
  <1>4. f \in [parts -> writes]
    BY <1>3
  <1> HIDE DEF f
  <1>5. \A w \in writes : w.part \in parts /\ w.prog = p /\ w.lora = a
    BY <1>2, <1>3
  <1>6. {w.part : w \in writes} = parts
    BY <1>3, <1>5
  <1>7. f \in Bijection(parts, writes)
    <2>1. \A x, y \in parts : f[x] = f[y] => x = y
      BY <1>3
    <2> QED
      BY <1>2, <1>4, <2>1, Fun_IsBij
  <1>8. IsFiniteSet(parts) => Cardinality(writes) = Cardinality(parts)
    BY <1>7, FS_Bijection DEF ExistsBijection
  <1> QED
    BY <1>5, <1>6, <1>8

LEMMA PartsFinite ==
    ASSUME NEW ns \in Nat, NEW sk \in Nat
    PROVE  IsFiniteSet(AllParts(ns, sk))
  <1> DEFINE P == (0 .. ns - 1) \X (0 .. sk - 1)
             f == [x \in P |-> [slice |-> x[1], split |-> x[2]]]
  <1>1. IsFiniteSet(0 .. ns - 1) /\ IsFiniteSet(0 .. sk - 1)
    BY FS_Interval
  <1>2. IsFiniteSet(P)
    BY <1>1, FS_Product
  <1>3. \A x \in P : x[1] \in 0 .. ns - 1 /\ x[2] \in 0 .. sk - 1
    OBVIOUS
  <1>4. \A i \in 0 .. ns - 1, k \in 0 .. sk - 1 : f[<<i, k>>] = [slice |-> i, split |-> k] /\ <<i, k>> \in P
    OBVIOUS
  <1>5. f \in Surjection(P, AllParts(ns, sk))
    <2>1. \A x \in P : f[x] \in AllParts(ns, sk)
      BY <1>3 DEF AllParts
    <2>2. f \in [P -> AllParts(ns, sk)]
      BY <2>1
    <2>3. \A y \in AllParts(ns, sk) : \E x \in P : f[x] = y
      <3> SUFFICES ASSUME NEW y \in AllParts(ns, sk) PROVE \E x \in P : f[x] = y
        OBVIOUS
      <3>1. PICK i \in 0 .. ns - 1, k \in 0 .. sk - 1 : y = [slice |-> i, split |-> k]
        BY DEF AllParts
      <3>2. f[<<i, k>>] = y /\ <<i, k>> \in P
        BY <1>4, <3>1
      <3> HIDE DEF f, P
      <3> QED
        BY <3>2
    <2> HIDE DEF f, P
    <2> QED
      BY <2>2, <2>3, Fun_IsSurj
  <1> QED
    BY <1>2, <1>5, FS_Surjection

LEMMA GridWrites ==
    ASSUME NEW T, idx \in Seq(T), Describes(seg, idx), NEW items, CoversRows(items),
           NEW ns \in Nat, NEW sk \in Nat \ {0}, NEW r \in DOMAIN idx
    PROVE  LET a == seg.lora[SlotOf(idx, r)]
           IN  IF a = -1 THEN Written(items, BM, ns, sk)[r] = {}
               ELSE Whole(Written(items, BM, ns, sk)[r], AllParts(ns, sk), a)
  <1> DEFINE s == SlotOf(idx, r)
             a == seg.lora[s]
             Q == 0 .. ns * sk - 1
             hits(p) == r \in Rows(items[p].seg, items[p].m, BM)
             entry(g) == [prog |-> g[1], part |-> SliceAndSplit(g[2], ns, sk),
                          lora |-> seg.lora[items[g[1]].seg]]
  <1>1. s \in Slots
    BY SlotFacts
  <1>2. \A p \in DOMAIN items :
            hits(p) <=> a # -1 /\ items[p].seg = s /\ items[p].m = TileOf(r)
    <2> SUFFICES ASSUME NEW p \in DOMAIN items
                 PROVE  hits(p) <=> a # -1 /\ items[p].seg = s /\ items[p].m = TileOf(r)
      OBVIOUS
    <2>1. CASE items[p].seg = -1
      <3>1. ~hits(p)
        BY <2>1 DEF Rows
      <3>2. s # -1
        BY <1>1, SlotsNumber
      <3> QED
        BY <2>1, <3>1, <3>2
    <2>2. CASE items[p].seg \in Slots
      <3>1. items[p].m \in Nat
        BY DEF CoversRows
      <3> QED
        BY <2>2, <3>1, RowsOfTile
    <2> QED
      BY <2>1, <2>2 DEF CoversRows
  <1>3. Written(items, BM, ns, sk)[r] = {entry(g) : g \in {g \in (DOMAIN items) \X Q : hits(g[1])}}
    BY DEF Written
  <1>4. PICK p \in DOMAIN items : items[p].seg = s /\ items[p].m = TileOf(r)
    BY DEF CoversRows
  <1>5. \A q \in DOMAIN items : items[q].seg = s /\ items[q].m = TileOf(r) => q = p
    <2>1. s # -1
      BY <1>1, SlotsNumber
    <2> QED
      BY <1>4, <2>1 DEF CoversRows
  <1> HIDE DEF hits, Q
  <1>6. CASE a = -1
    <2>1. \A q \in DOMAIN items : ~hits(q)
      BY <1>2, <1>6
    <2>2. {g \in (DOMAIN items) \X Q : hits(g[1])} = {}
      BY <2>1
    <2> HIDE DEF entry
    <2>3. Written(items, BM, ns, sk)[r] = {}
      BY <1>3, <2>2
    <2> QED
      BY <1>6, <2>3
  <1>7. CASE a # -1
    <2>1. {g \in (DOMAIN items) \X Q : hits(g[1])} = {p} \X Q
      BY <1>2, <1>4, <1>5, <1>7
    <2>2. \A q \in Q : entry(<<p, q>>) = [prog |-> p, part |-> SliceAndSplit(q, ns, sk), lora |-> a]
      BY <1>4
    <2>3. {entry(g) : g \in {p} \X Q}
              = {[prog |-> p, part |-> SliceAndSplit(q, ns, sk), lora |-> a] : q \in Q}
      <3>1. \A g \in {p} \X Q : g[2] \in Q /\ g = <<p, g[2]>>
        OBVIOUS
      <3>2. \A q \in Q : <<p, q>> \in {p} \X Q
        OBVIOUS
      <3> DEFINE all == [q \in Q |-> [prog |-> p, part |-> SliceAndSplit(q, ns, sk), lora |-> a]]
      <3>3. \A q \in Q : entry(<<p, q>>) = all[q]
        BY <2>2
      <3>4. {[prog |-> p, part |-> SliceAndSplit(q, ns, sk), lora |-> a] : q \in Q} = {all[q] : q \in Q}
        OBVIOUS
      <3> HIDE DEF entry, all
      <3>5. ASSUME NEW e PROVE e \in {entry(g) : g \in {p} \X Q} <=> e \in {all[q] : q \in Q}
        <4>1. ASSUME NEW g \in {p} \X Q PROVE entry(g) \in {all[q] : q \in Q}
          BY <3>1, <3>3
        <4>2. ASSUME NEW q \in Q PROVE all[q] \in {entry(g) : g \in {p} \X Q}
          BY <3>2, <3>3
        <4> QED
          BY <4>1, <4>2
      <3>6. {entry(g) : g \in {p} \X Q} = {all[q] : q \in Q}
        BY <3>5
      <3> QED
        BY <3>4, <3>6
    <2>4. {[prog |-> p, part |-> SliceAndSplit(q, ns, sk), lora |-> a] : q \in Q}
              = {[prog |-> p, part |-> x, lora |-> a] : x \in AllParts(ns, sk)}
      <3>1. {SliceAndSplit(q, ns, sk) : q \in Q} = AllParts(ns, sk)
        BY PartsOfGrid DEF Q
      <3> HIDE DEF a
      <3> QED
        BY <3>1
    <2>5. Whole(Written(items, BM, ns, sk)[r], AllParts(ns, sk), a)
      <3> HIDE DEF entry, a
      <3> QED
        BY <1>3, <2>1, <2>3, <2>4 DEF Whole
    <2> QED
      BY <1>7, <2>5
  <1> QED
    BY <1>6, <1>7

-----------------------------------------------------------------------------
(***************************************************************************)
(* The grids.                                                              *)
(***************************************************************************)

LEMMA CdivFacts ==
    ASSUME NEW x \in Nat
    PROVE  /\ cdiv(x, BM) \in Nat
           /\ cdiv(x, BM) * BM \in x .. x + BM - 1
           /\ \A y \in 0 .. x - 1 : y \div BM \in 0 .. cdiv(x, BM) - 1
  <1> DEFINE c == (x + BM - 1) \div BM
  <1>1. BM \in Nat \ {0} /\ x + BM - 1 \in Nat
    BY TablesAssumption
  <1>2. c \in Nat /\ (x + BM - 1) % BM \in 0 .. BM - 1 /\ x + BM - 1 = BM * c + ((x + BM - 1) % BM)
    BY <1>1, Quotient
  <1>3. cdiv(x, BM) = c
    BY DEF cdiv
  <1> HIDE DEF c
  <1>4. BM * c \in Nat /\ BM * c = c * BM
    BY <1>1, <1>2
  <1>5. c * BM \in x .. x + BM - 1
    BY <1>1, <1>2, <1>4
  <1>6. ASSUME NEW y \in 0 .. x - 1 PROVE y \div BM \in 0 .. c - 1
    <2> DEFINE d == y \div BM
    <2>0. y \in Nat
      OBVIOUS
    <2>1. d \in Nat /\ y % BM \in 0 .. BM - 1 /\ y = BM * d + (y % BM)
      BY <1>1, <2>0, Quotient
    <2> HIDE DEF d
    <2>2. d < c
      <3> SUFFICES ASSUME d >= c PROVE FALSE
        BY <1>2, <2>1
      <3>1. BM * c <= BM * d /\ BM * d \in Nat
        BY <1>1, <1>2, <2>1
      <3> QED
        BY <1>1, <1>4, <1>5, <1>6, <2>0, <2>1, <3>1
    <2> QED
      BY <1>2, <2>1, <2>2 DEF d
  <1> QED
    BY <1>2, <1>3, <1>5, <1>6

\* Larger numbers have no fewer tiles.
LEMMA CdivGrows ==
    ASSUME NEW x \in Nat, NEW y \in Nat, x <= y
    PROVE  cdiv(x, BM) <= cdiv(y, BM)
  <1> DEFINE c == cdiv(x, BM)
             d == cdiv(y, BM)
  <1>1. c \in Nat /\ d \in Nat /\ c * BM <= x + BM - 1 /\ d * BM >= y
    BY CdivFacts
  <1>2. BM \in Nat \ {0}
    BY TablesAssumption
  <1> HIDE DEF c, d
  <1>3. ASSUME d + 1 <= c PROVE FALSE
    <2>1. (d + 1) * BM <= c * BM
      BY <1>1, <1>2, <1>3
    <2>2. (d + 1) * BM = d * BM + BM /\ d * BM \in Nat /\ c * BM \in Nat
      BY <1>1, <1>2
    <2> QED
      BY <1>1, <1>2, <2>1, <2>2
  <1> QED
    BY <1>1, <1>3 DEF c, d

\* The tiles of each slot, and those of the slots before it.
TilesOf(length) == [s \in Slots |-> cdiv(length[s], BM)]
TilesBefore(length, s) == Total(TilesOf(length), 0 .. s - 1)

LEMMA TilesInOrder ==
    ASSUME NEW length \in [Slots -> Nat]
    PROVE  /\ \A s \in Slots :
                 /\ TilesBefore(length, s) \in Nat /\ TilesOf(length)[s] \in Nat
                 /\ Total(TilesOf(length), 0 .. s) = TilesBefore(length, s) + TilesOf(length)[s]
                 /\ TilesBefore(length, s) + TilesOf(length)[s] <= Total(TilesOf(length), Slots)
           /\ \A s, t \in Slots :
                 s < t => TilesBefore(length, s) + TilesOf(length)[s] <= TilesBefore(length, t)
           /\ Total(TilesOf(length), Slots) \in Nat
  <1> DEFINE n == TilesOf(length)
  <1>1. \A s \in Slots : n[s] \in Nat
    BY CdivFacts DEF TilesOf
  <1>2. IsFiniteSet(Slots)
    BY SlotsNumber, FS_Interval DEF Slots
  <1> HIDE DEF n
  <1>3. ASSUME NEW S \in SUBSET Slots, NEW T \in SUBSET S
        PROVE  Total(n, T) \in Nat /\ Total(n, S) \in Nat /\ Total(n, T) <= Total(n, S)
    <2>1. IsFiniteSet(S) /\ Counts(n, S)
      BY <1>1, <1>2, FS_Subset DEF Counts
    <2>2. /\ Total(n, T) \in Nat /\ Total(n, S \ T) \in Nat
          /\ Total(n, S) = Total(n, T) + Total(n, S \ T)
      BY <2>1, TotalPart
    <2> QED
      BY <2>2
  <1>4. ASSUME NEW s \in Slots
        PROVE  /\ TilesBefore(length, s) \in Nat
               /\ Total(n, 0 .. s) = TilesBefore(length, s) + n[s]
               /\ Total(n, 0 .. s) <= Total(n, Slots)
    <2>1. s \in Nat /\ 0 .. s - 1 \in SUBSET Slots /\ 0 .. s \in SUBSET Slots
          /\ 0 .. s = (0 .. s - 1) \cup {s} /\ s \notin 0 .. s - 1
      BY SlotsNumber DEF Slots
    <2>2. IsFiniteSet(0 .. s - 1) /\ Counts(n, (0 .. s - 1) \cup {s})
      BY <1>1, <1>2, <2>1, FS_Subset DEF Counts
    <2>3. Total(n, (0 .. s - 1) \cup {s}) = Total(n, 0 .. s - 1) + n[s]
      BY <2>1, <2>2, TotalAdd
    <2>4. TilesBefore(length, s) = Total(n, 0 .. s - 1)
      BY DEF TilesBefore, n
    <2> QED
      BY <1>3, <2>1, <2>3, <2>4
  <1>5. ASSUME NEW s \in Slots, NEW t \in Slots, s < t
        PROVE  Total(n, 0 .. s) <= TilesBefore(length, t)
    <2>1. 0 .. s \in SUBSET (0 .. t - 1) /\ 0 .. t - 1 \in SUBSET Slots
      BY <1>5, SlotsNumber DEF Slots
    <2>2. TilesBefore(length, t) = Total(n, 0 .. t - 1)
      BY DEF TilesBefore, n
    <2> QED
      BY <1>3, <2>1, <2>2
  <1>6. Total(n, Slots) \in Nat
    BY <1>3
  <1> QED
    BY <1>1, <1>4, <1>5, <1>6 DEF n

\* The entry of each position in use: the slot its position lies in, found by
\* counting the slots that end before it.
LEMMA EntryFacts ==
    ASSUME NEW length \in [Slots -> Nat], NEW size \in Nat, NEW pos \in 0 .. size - 1
    PROVE  LET e == build_tile_map(length, size)[pos]
           IN  /\ pos >= Total(TilesOf(length), Slots) => e = [seg |-> -1, m |-> 0]
               /\ pos < Total(TilesOf(length), Slots) =>
                     /\ e.seg \in Slots /\ e.m \in Nat
                     /\ pos = TilesBefore(length, e.seg) + e.m
                     /\ e.m < TilesOf(length)[e.seg]
  <1> DEFINE n == TilesOf(length)
             cum == [s \in Slots |-> Total(n, 0 .. s)]
             ended == {s \in Slots : cum[s] <= pos}
             t == Smaller(Cardinality(ended), n_loras - 1)
             last == n_loras - 1
             e == build_tile_map(length, size)[pos]
  <1>1. e = IF pos < cum[last] THEN [seg |-> t, m |-> pos - (cum[t] - n[t])]
            ELSE [seg |-> -1, m |-> 0]
    BY DEF build_tile_map, TilesOf
  <1>2. \A s \in Slots : cum[s] = Total(n, 0 .. s)
    OBVIOUS
  <1>3. last \in Slots /\ Slots = 0 .. last /\ pos \in Nat /\ last \in Nat
    BY SlotsNumber DEF Slots
  <1> HIDE DEF n, cum, last, t
  <1>4. /\ \A s \in Slots :
              /\ TilesBefore(length, s) \in Nat /\ n[s] \in Nat
              /\ cum[s] \in Nat /\ cum[s] = TilesBefore(length, s) + n[s]
        /\ \A s, u \in Slots : s < u => cum[s] <= TilesBefore(length, u)
        /\ cum[last] = Total(n, Slots)
    <2>1. /\ \A s \in Slots :
                /\ TilesBefore(length, s) \in Nat /\ n[s] \in Nat
                /\ Total(n, 0 .. s) = TilesBefore(length, s) + n[s]
          /\ \A s, u \in Slots :
                s < u => TilesBefore(length, s) + n[s] <= TilesBefore(length, u)
      BY TilesInOrder DEF n
    <2>2. \A s \in Slots : cum[s] \in Nat /\ cum[s] = TilesBefore(length, s) + n[s]
      BY <1>2, <2>1
    <2>3. cum[last] = Total(n, Slots)
      BY <1>2, <1>3
    <2> QED
      BY <2>1, <2>2, <2>3
  <1>5. ASSUME pos < cum[last]
        PROVE  t \in Slots /\ TilesBefore(length, t) <= pos /\ pos < cum[t]
    <2>0. last \in Slots \ ended /\ Slots \ ended \in SUBSET Slots
      BY <1>3, <1>4, <1>5
    <2>1. PICK u \in Slots \ ended : \A s \in Slots \ ended : u <= s
      <3> DEFINE J == {s + 1 : s \in Slots \ ended}
      <3>1. J \in SUBSET (1 .. last + 1) /\ J # {} /\ last + 1 \in Nat
        BY <1>3, <2>0
      <3>2. PICK j \in J : \A i \in J : j <= i
        BY <3>1, FirstPlace
      <3>3. PICK u \in Slots \ ended : j = u + 1
        BY <3>2
      <3>4. \A s \in Slots \ ended : s + 1 \in J
        OBVIOUS
      <3>5. \A s \in Slots \ ended : u + 1 <= s + 1 /\ s \in Nat
        <4> HIDE DEF ended, J
        <4>1. \A s \in Slots \ ended : u + 1 <= s + 1
          BY <3>2, <3>3, <3>4
        <4>2. \A s \in Slots \ ended : s \in Nat
          BY <1>3
        <4> QED
          BY <4>1, <4>2
      <3> QED
        BY <1>3, <3>3, <3>5
    <2>2. u \in 0 .. last /\ pos < cum[u]
      BY <1>3, <1>4, <2>1
    <2>3. ended = 0 .. u - 1
      <3>1. ASSUME NEW s \in ended PROVE s \in 0 .. u - 1
        <4>1. s \in 0 .. last /\ cum[s] <= pos
          BY <1>3
        <4>2. ASSUME s > u PROVE FALSE
          <5>0. u \in Slots /\ s \in Slots /\ u < s
            BY <1>3, <2>2, <4>1, <4>2
          <5> HIDE DEF ended
          <5>1. cum[u] <= TilesBefore(length, s) /\ TilesBefore(length, s) <= cum[s]
            BY <1>4, <5>0
          <5> QED
            BY <1>3, <1>4, <2>2, <4>1, <5>1
        <4>3. s # u
          BY <2>1, <3>1
        <4> QED
          BY <2>2, <4>1, <4>2, <4>3
      <3>2. ASSUME NEW s \in 0 .. u - 1 PROVE s \in ended
        <4>1. s \in Slots /\ ~(u <= s)
          BY <1>3, <2>2
        <4> QED
          BY <2>1, <4>1
      <3> QED
        BY <3>1, <3>2
    <2>4. Cardinality(ended) = u
      <3> HIDE DEF ended
      <3> QED
        BY <2>2, <2>3, FS_Interval
    <2>5. t = u
      <3> HIDE DEF ended
      <3> QED
        BY <1>3, <2>2, <2>4 DEF t, Smaller, last
    <2>6. TilesBefore(length, u) <= pos
      <3>1. CASE u = 0
        <4>1. 0 .. u - 1 = {}
          BY <3>1
        <4>2. TilesBefore(length, u) = 0
          BY <4>1, TotalOfNone DEF TilesBefore
        <4> QED
          BY <1>3, <4>2
      <3>2. CASE u # 0
        <4>1. u - 1 \in 0 .. u - 1 /\ u - 1 \in Slots /\ u \in Slots /\ u - 1 < u
          BY <1>3, <2>2, <3>2
        <4>2. cum[u - 1] <= pos
          BY <2>3, <4>1
        <4>3. ASSUME NEW x, x = u - 1 PROVE TilesOf(length)[x] \in Nat
          BY <1>4, <4>1, <4>3 DEF n
        <4>4. TilesBefore(length, u) = cum[u - 1]
          <5>1. TilesBefore(length, u) = Total(n, 0 .. u - 1)
            BY DEF TilesBefore, n
          <5> QED
            BY <1>2, <4>1, <5>1
        <4> QED
          BY <4>2, <4>4
      <3> QED
        BY <3>1, <3>2
    <2> QED
      BY <1>3, <2>2, <2>5, <2>6
  <1>6. CASE pos < cum[last]
    <2>1. e.seg = t /\ e.m = pos - (cum[t] - n[t])
      BY <1>1, <1>6
    <2>2. cum[t] - n[t] = TilesBefore(length, t)
      BY <1>4, <1>5, <1>6
    <2>3. e.m = pos - TilesBefore(length, t) /\ TilesBefore(length, t) \in Nat
      BY <1>4, <1>5, <1>6, <2>1, <2>2
    <2>4. e.m \in Nat /\ pos = TilesBefore(length, t) + e.m /\ e.m < n[t]
      <3>1. t \in Slots /\ TilesBefore(length, t) <= pos /\ pos < cum[t]
        BY <1>5, <1>6
      <3>2. cum[t] = TilesBefore(length, t) + n[t] /\ n[t] \in Nat
        BY <1>4, <3>1
      <3> HIDE DEF e
      <3> QED
        BY <1>3, <2>3, <3>1, <3>2
    <2>5. pos < Total(n, Slots) /\ ~(pos >= Total(n, Slots)) /\ t \in Slots
      BY <1>3, <1>4, <1>5, <1>6
    <2>6. e.seg \in Slots /\ e.m \in Nat /\ pos = TilesBefore(length, e.seg) + e.m /\ e.m < n[e.seg]
      <3> HIDE DEF e
      <3> QED
        BY <2>1, <2>4, <2>5
    <2> QED
      BY <2>5, <2>6 DEF n
  <1>7. CASE ~(pos < cum[last])
    <2>1. e = [seg |-> -1, m |-> 0]
      BY <1>1, <1>7
    <2> HIDE DEF e
    <2> QED
      BY <1>4, <1>7, <2>1 DEF n, e
  <1> QED
    BY <1>6, <1>7

\* The work list has each tile of each slot at one place.
LEMMA EntryOf ==
    ASSUME NEW length \in [Slots -> Nat], NEW size \in Nat, NEW s \in Slots,
           NEW m \in 0 .. TilesOf(length)[s] - 1, NEW pos \in 0 .. size - 1,
           pos = TilesBefore(length, s) + m
    PROVE  build_tile_map(length, size)[pos].seg = s /\ build_tile_map(length, size)[pos].m = m
  <1> DEFINE e == build_tile_map(length, size)[pos]
             n == TilesOf(length)
  <1>1. /\ \A x \in Slots : /\ TilesBefore(length, x) \in Nat /\ n[x] \in Nat
                            /\ TilesBefore(length, x) + n[x] <= Total(n, Slots)
        /\ \A x, y \in Slots : x < y => TilesBefore(length, x) + n[x] <= TilesBefore(length, y)
        /\ Total(n, Slots) \in Nat
    BY TilesInOrder
  <1>2. pos < Total(n, Slots) => /\ e.seg \in Slots /\ e.m \in Nat
                                 /\ pos = TilesBefore(length, e.seg) + e.m
                                 /\ e.m < n[e.seg]
    BY EntryFacts
  <1>3. m \in Nat /\ m < n[s]
    BY <1>1
  <1>4. pos < Total(n, Slots)
    BY <1>1, <1>3
  <1> HIDE DEF e, n
  <1>5. ~(e.seg < s)
    <2> SUFFICES ASSUME e.seg < s PROVE FALSE
      OBVIOUS
    <2>1. TilesBefore(length, e.seg) + n[e.seg] <= TilesBefore(length, s)
      BY <1>1, <1>2, <1>4
    <2> QED
      BY <1>1, <1>2, <1>3, <1>4, <2>1
  <1>6. ~(s < e.seg)
    <2> SUFFICES ASSUME s < e.seg PROVE FALSE
      OBVIOUS
    <2>1. TilesBefore(length, s) + n[s] <= TilesBefore(length, e.seg)
      BY <1>1, <1>2, <1>4
    <2> QED
      BY <1>1, <1>2, <1>3, <1>4, <2>1
  <1>7. e.seg = s
    BY <1>2, <1>4, <1>5, <1>6, SlotsNumber
  <1>8. e.m = m
    BY <1>1, <1>2, <1>3, <1>4, <1>7
  <1> QED
    BY <1>7, <1>8 DEF e

\* The slots share out the tokens.
LEMMA LengthsFit ==
    ASSUME NEW T, NEW ids \in Seq(T), NEW sg, Describes(sg, ids)
    PROVE  Total(sg.length, Slots) <= Len(ids)
  <1> DEFINE n == sg.length
             C == Cells(n, Slots)
             f == [c \in C |-> sg.start[c[1]] + c[2]]
  <1>1. Len(ids) \in Nat /\ DOMAIN ids = 1 .. Len(ids)
    OBVIOUS
  <1>2. ASSUME NEW c \in C
        PROVE  c[1] \in Slots /\ c[2] \in 1 .. n[c[1]] /\ c = <<c[1], c[2]>>
    BY CellOf
  <1>3. ASSUME NEW s \in Slots
        PROVE  sg.start[s] \in Nat /\ n[s] \in Nat
               /\ TokensOf(ids, s) = sg.start[s] + 1 .. sg.start[s] + n[s]
    BY DEF Describes
  <1>4. ASSUME NEW c \in C PROVE f[c] \in TokensOf(ids, c[1])
    <2> DEFINE s == c[1]
               k == c[2]
    <2>1. s \in Slots /\ k \in 1 .. n[s] /\ f[c] = sg.start[s] + k
      BY <1>2
    <2>2. sg.start[s] \in Nat /\ n[s] \in Nat
          /\ TokensOf(ids, s) = sg.start[s] + 1 .. sg.start[s] + n[s]
      BY <1>3, <2>1
    <2> HIDE DEF s, k, n, f
    <2>3. f[c] \in TokensOf(ids, s)
      BY <2>1, <2>2
    <2> QED
      BY <2>3 DEF s
  <1>5. \A c \in C : f[c] \in 1 .. Len(ids) /\ SlotOf(ids, f[c]) = c[1]
    BY <1>1, <1>4 DEF TokensOf
  <1>6. ASSUME NEW c \in C, NEW d \in C, f[c] = f[d] PROVE c = d
    <2>1. c[1] = d[1]
      BY <1>5, <1>6
    <2>2. sg.start[c[1]] + c[2] = sg.start[c[1]] + d[2]
      BY <1>6, <2>1
    <2>3. c[1] \in Slots /\ c[2] \in 1 .. n[c[1]] /\ d[2] \in 1 .. n[c[1]]
      BY <1>2, <2>1
    <2>4. sg.start[c[1]] \in Nat /\ n[c[1]] \in Nat
      BY <1>3, <2>3
    <2>5. c[2] = d[2]
      BY <2>2, <2>3, <2>4
    <2> QED
      BY <1>2, <2>1, <2>5
  <1>7. f \in [C -> 1 .. Len(ids)]
    BY <1>5
  <1>8. IsFiniteSet(1 .. Len(ids)) /\ Cardinality(1 .. Len(ids)) = Len(ids)
    BY <1>1, UpTo
  <1>9. Cardinality(C) <= Len(ids)
    <2> HIDE DEF C, f
    <2>1. f \in Injection(C, 1 .. Len(ids))
      BY <1>6, <1>7, Fun_IsInj
    <2> QED
      BY <1>8, <2>1, FS_Injection
  <1> QED
    BY <1>9 DEF Total, Cells

\* A slot has at most one tile that is not full.
LEMMA TilesFit ==
    ASSUME NEW T, NEW ids \in Seq(T), NEW sg, Describes(sg, ids)
    PROVE  Total(TilesOf(sg.length), Slots) <= cdiv(Len(ids), BM) + n_loras
  <1> DEFINE n == sg.length
             t == TilesOf(n)
             F == {U \in SUBSET Slots :
                      /\ IsFiniteSet(U) /\ Total(t, U) \in Nat /\ Total(n, U) \in Nat
                      /\ Total(t, U) * BM <= Total(n, U) + Cardinality(U) * (BM - 1)}
             c == cdiv(Len(ids), BM)
  <1>1. IsFiniteSet(Slots) /\ Cardinality(Slots) = n_loras
    BY SlotsNumber, FS_Interval DEF Slots
  <1>2. \A s \in Slots : n[s] \in Nat /\ t[s] \in Nat /\ t[s] * BM <= n[s] + BM - 1
    <2> SUFFICES ASSUME NEW s \in Slots
                 PROVE  n[s] \in Nat /\ t[s] \in Nat /\ t[s] * BM <= n[s] + BM - 1
      OBVIOUS
    <2>1. n[s] \in Nat
      BY DEF Describes
    <2>2. t[s] = cdiv(n[s], BM)
      BY DEF TilesOf
    <2>3. /\ cdiv(n[s], BM) \in Nat
          /\ cdiv(n[s], BM) * BM \in n[s] .. n[s] + BM - 1
      BY <2>1, CdivFacts
    <2> HIDE DEF n, t
    <2> QED
      BY <2>1, <2>2, <2>3, TablesAssumption
  <1>3. BM \in Nat \ {0} /\ n_loras \in Nat /\ Len(ids) \in Nat
    BY TablesAssumption, SlotsNumber
  <1>4. c \in Nat /\ Len(ids) <= c * BM
    BY <1>3, CdivFacts
  <1>5. Total(n, Slots) <= Len(ids)
    BY LengthsFit
  <1> HIDE DEF n, t, c
  <1>6. {} \in F
    <2>1. IsFiniteSet({}) /\ Cardinality({}) = 0
      BY FS_EmptySet
    <2>2. Total(t, {}) = 0 /\ Total(n, {}) = 0
      BY TotalOfNone
    <2> QED
      BY <1>3, <2>1, <2>2
  <1>7. ASSUME NEW U \in SUBSET Slots, NEW s \in Slots, U \in F PROVE U \cup {s} \in F
    <2>1. CASE s \in U
      <3>1. U \cup {s} = U
        BY <2>1
      <3> QED
        BY <1>7, <3>1
    <2>2. CASE s \notin U
      <3>1. IsFiniteSet(U) /\ Counts(t, U \cup {s}) /\ Counts(n, U \cup {s})
        BY <1>2 , <1>7 DEF Counts
      <3>2. Total(t, U \cup {s}) = Total(t, U) + t[s] /\ Total(n, U \cup {s}) = Total(n, U) + n[s]
        BY <2>2, <3>1, TotalAdd
      <3>3. /\ IsFiniteSet(U \cup {s}) /\ Cardinality(U \cup {s}) = Cardinality(U) + 1
            /\ Cardinality(U) \in Nat
        BY <2>2, <3>1, FS_AddElement, FS_CardinalityType
      <3>4. ASSUME NEW a \in Nat, NEW b \in Nat, NEW k \in Nat, NEW x \in Nat, NEW y \in Nat,
                   a * BM <= b + k * (BM - 1), x * BM <= y + BM - 1
            PROVE  (a + x) * BM <= (b + y) + (k + 1) * (BM - 1)
        <4>1. (a + x) * BM = a * BM + x * BM /\ (k + 1) * (BM - 1) = k * (BM - 1) + BM - 1
          BY <1>3
        <4>2. a * BM \in Int /\ x * BM \in Int /\ k * (BM - 1) \in Int
          BY <1>3
        <4> QED
          BY <1>3, <3>4, <4>1, <4>2
      <3>5. (Total(t, U) + t[s]) * BM
                <= (Total(n, U) + n[s]) + (Cardinality(U) + 1) * (BM - 1)
        BY <1>2, <1>7, <3>3, <3>4
      <3>6. Total(t, U \cup {s}) \in Nat /\ Total(n, U \cup {s}) \in Nat
        BY <1>2, <1>7, <3>2
      <3> QED
        BY <3>2, <3>3, <3>5, <3>6
    <2> QED
      BY <2>1, <2>2
  <1>8. Slots \in F
    <2> HIDE DEF F
    <2> QED
      BY <1>1, <1>6, <1>7, FiniteInduction
  <1>9. ASSUME NEW a \in Nat, NEW b \in Nat, b <= Len(ids),
               a * BM <= b + n_loras * (BM - 1)
        PROVE  a <= c + n_loras
    <2>1. n_loras * (BM - 1) = n_loras * BM - n_loras /\ (c + n_loras) * BM = c * BM + n_loras * BM
      BY <1>3, <1>4
    <2>2. n_loras * BM \in Nat /\ c * BM \in Nat /\ a * BM \in Nat
      BY <1>3, <1>4
    <2>3. a * BM <= (c + n_loras) * BM
      BY <1>3, <1>4, <1>9, <2>1, <2>2
    <2>4. ASSUME c + n_loras + 1 <= a PROVE FALSE
      <3>1. (c + n_loras + 1) * BM <= a * BM
        BY <1>3, <1>4, <2>4
      <3>2. (c + n_loras + 1) * BM = (c + n_loras) * BM + BM /\ (c + n_loras) * BM \in Nat
        BY <1>3, <1>4
      <3> QED
        BY <1>3, <2>2, <2>3, <3>1, <3>2
    <2> QED
      BY <1>3, <1>4, <2>4
  <1>10. Total(t, Slots) <= c + n_loras
    BY <1>1, <1>5, <1>8, <1>9
  <1> QED
    BY <1>10 DEF n, t, c

LEMMA TileCapFacts ==
    ASSUME NEW n \in Nat, NEW m \in Nat, n <= m
    PROVE  TileCap(n) \in Nat /\ TileCap(n) <= TileCap(m)
  <1>1. cdiv(n, BM) \in Nat /\ cdiv(m, BM) \in Nat /\ cdiv(n, BM) <= cdiv(m, BM)
    BY CdivFacts, CdivGrows
  <1> QED
    BY <1>1, SlotsNumber DEF TileCap

LEMMA RowsLieInTiles ==
    ASSUME NEW T, idx \in Seq(T), Describes(seg, idx), NEW r \in DOMAIN idx
    PROVE  /\ SlotOf(idx, r) \in Slots
           /\ TileOf(r) \in 0 .. TilesOf(seg.length)[SlotOf(idx, r)] - 1
           /\ TileOf(r) \in 0 .. cdiv(Len(idx), BM) - 1
  <1> DEFINE s == SlotOf(idx, r)
             x == r - 1 - seg.start[s]
  <1>1. s \in Slots
    BY SlotFacts
  <1>2. x \in 0 .. seg.length[s] - 1
    BY <1>1, RowsOfTile, TablesAssumption
  <1>3. seg.length[s] \in Nat /\ seg.start[s] \in Nat /\ Len(idx) \in Nat /\ r \in 1 .. Len(idx)
    BY <1>1 DEF Describes
  <1>4. x \in 0 .. Len(idx) - 1
    BY <1>2, <1>3
  <1>5. TileOf(r) = x \div BM
    BY DEF TileOf
  <1> HIDE DEF x
  <1>6. x \div BM \in 0 .. cdiv(seg.length[s], BM) - 1
    BY <1>2, <1>3, CdivFacts
  <1>7. x \div BM \in 0 .. cdiv(Len(idx), BM) - 1
    BY <1>3, <1>4, CdivFacts
  <1> QED
    BY <1>1, <1>5, <1>6, <1>7 DEF TilesOf

LEMMA StaticGridCovers ==
    ASSUME NEW T, idx \in Seq(T), Describes(seg, idx)
    PROVE  CoversRows(StaticGrid)
  <1> DEFINE grid == Slots \X (0 .. cdiv(Len(idx), BM) - 1)
  <1>1. DOMAIN StaticGrid = grid /\ \A p \in grid : StaticGrid[p] = [seg |-> p[1], m |-> p[2]]
    BY DEF StaticGrid
  <1>2. cdiv(Len(idx), BM) \in Nat
    BY CdivFacts
  <1>3. \A p \in grid : p[1] \in Slots /\ p[2] \in Nat /\ p = <<p[1], p[2]>>
    BY <1>2
  <1>4. ASSUME NEW r \in DOMAIN idx
        PROVE  \E p \in grid : StaticGrid[p].seg = SlotOf(idx, r) /\ StaticGrid[p].m = TileOf(r)
    <2> DEFINE p == <<SlotOf(idx, r), TileOf(r)>>
    <2>1. p \in grid /\ p[1] = SlotOf(idx, r) /\ p[2] = TileOf(r)
      BY RowsLieInTiles
    <2> HIDE DEF p, grid
    <2> QED
      BY <1>1, <2>1
  <1> HIDE DEF grid
  <1> QED
    BY <1>1, <1>3, <1>4 DEF CoversRows

\* The grid over the work list is large enough and meets no tile twice.
LEMMA TileGridCovers ==
    ASSUME NEW T, idx \in Seq(T), Describes(seg, idx), NEW cap \in Nat, NEW size \in Nat,
           TileCap(Len(idx)) <= cap, cap <= size
    PROVE  CoversRows(TileGrid(build_tile_map(seg.length, size), cap))
  <1> DEFINE L == seg.length
             map == build_tile_map(L, size)
             items == TileGrid(map, cap)
             all == Total(TilesOf(L), Slots)
  <1>1. L \in [Slots -> Nat]
    BY DEF Describes
  <1>2. DOMAIN items = 0 .. cap - 1 /\ \A p \in 0 .. cap - 1 : items[p] = map[p]
    BY DEF TileGrid
  <1>3. 0 .. cap - 1 \subseteq 0 .. size - 1
    OBVIOUS
  <1>4. ASSUME NEW p \in 0 .. cap - 1
        PROVE  /\ p >= all => items[p] = [seg |-> -1, m |-> 0]
               /\ p < all =>
                     /\ items[p].seg \in Slots /\ items[p].m \in Nat
                     /\ p = TilesBefore(L, items[p].seg) + items[p].m
    <2>1. p \in 0 .. size - 1 /\ items[p] = map[p]
      BY <1>2, <1>3
    <2> HIDE DEF items, L
    <2> QED
      BY <1>1, <2>1, EntryFacts
  <1>5. all \in Nat /\ \A s \in Slots : /\ TilesBefore(L, s) \in Nat /\ TilesOf(L)[s] \in Nat
                                        /\ TilesBefore(L, s) + TilesOf(L)[s] <= all
    BY <1>1, TilesInOrder
  <1>6. all <= cap
    <2>1. all <= cdiv(Len(idx), BM) + n_loras
      BY TilesFit
    <2>2. cdiv(Len(idx), BM) \in Nat
      BY CdivFacts
    <2> HIDE DEF all
    <2> QED
      BY <1>5, <2>1, <2>2, SlotsNumber DEF TileCap
  <1> HIDE DEF items, all, L
  <1>7. \A p \in DOMAIN items : items[p].seg \in Slots \cup {-1} /\ items[p].m \in Nat
    <2> SUFFICES ASSUME NEW p \in DOMAIN items
                 PROVE  items[p].seg \in Slots \cup {-1} /\ items[p].m \in Nat
      OBVIOUS
    <2>1. p \in Nat /\ (p < all \/ p >= all) /\ p \in 0 .. cap - 1
      BY <1>2, <1>5
    <2> QED
      BY <1>4, <2>1
  <1>8. ASSUME NEW p \in DOMAIN items, NEW q \in DOMAIN items,
               items[p].seg # -1, items[p].seg = items[q].seg, items[p].m = items[q].m
        PROVE  p = q
    <2>1. p \in 0 .. cap - 1 /\ q \in 0 .. cap - 1
      BY <1>2
    <2>2. p < all /\ q < all
      <3>1. ~(p >= all) /\ ~(q >= all)
        BY <1>4, <1>8, <2>1
      <3> QED
        BY <1>5, <2>1, <3>1
    <2> QED
      BY <1>4, <1>8, <2>1, <2>2
  <1>9. ASSUME NEW r \in DOMAIN idx
        PROVE  \E p \in DOMAIN items : items[p].seg = SlotOf(idx, r) /\ items[p].m = TileOf(r)
    <2> DEFINE s == SlotOf(idx, r)
               m == TileOf(r)
               pos == TilesBefore(L, s) + m
    <2>1. s \in Slots /\ m \in 0 .. TilesOf(L)[s] - 1
      BY RowsLieInTiles DEF L
    <2> HIDE DEF s, m
    <2>2. TilesBefore(L, s) \in Nat /\ TilesOf(L)[s] \in Nat /\ TilesBefore(L, s) + TilesOf(L)[s] <= all
      BY <1>5, <2>1
    <2>3. pos \in 0 .. cap - 1
      BY <1>5, <1>6, <2>1, <2>2
    <2>4. pos \in 0 .. size - 1
      BY <1>3, <2>3
    <2>5. map[pos].seg = s /\ map[pos].m = m
      <3> HIDE DEF pos
      <3>1. pos = TilesBefore(L, s) + m
        BY DEF pos
      <3> QED
        BY <1>1, <2>1, <2>4, <3>1, EntryOf
    <2> HIDE DEF pos, map
    <2> QED
      BY <1>2, <2>3, <2>5 DEF s, m
  <1>10. items = TileGrid(build_tile_map(seg.length, size), cap)
    BY DEF items, L
  <1> HIDE DEF map
  <1>11. CoversRows(items)
    BY <1>7, <1>8, <1>9 DEF CoversRows
  <1> QED
    BY <1>10, <1>11

-----------------------------------------------------------------------------
(***************************************************************************)
(* The inductive invariant.                                                *)
(***************************************************************************)

Ids == -1 .. LoraSlots - 1

\* The size the work list is allocated with, which no batch outgrows.
ListSize == TileCap(TileMapTokens)

\* What the settings, the flags and the work list can be.
Kinds ==
    /\ mode \in Modes /\ prefillGrouped \in BOOLEAN
    /\ isPrefill \in BOOLEAN /\ prefillOk \in BOOLEAN
    /\ idx \in Seq(Ids)
    /\ phase \in {"start", "idle", "loaded", "ran"}
    /\ tiles = <<>> \/ \E map : tiles = <<map>> /\ DOMAIN map = 0 .. ListSize - 1

\* A captured graph holds the grid of its own size and the work list that later
\* steps rebuild in place.
GraphsHold ==
    /\ DOMAIN graphs = CaptureSizes
    /\ \A b \in CaptureSizes :
          \/ graphs[b] = NoGraph /\ phase = "start"
          \/ graphs[b].captured /\ (mode >= 2 => graphs[b].cap = TileCap(b) /\ graphs[b].tiles = 1)

\* Before and after a projection, the tables that its kernels read are those of
\* its batch, and the batch is one that the work list holds.
TablesFresh ==
    phase \in {"loaded", "ran"} =>
        /\ idx # <<>>
        /\ ~isPrefill => Len(idx) <= MaxDecode
        /\ prefillOk => isPrefill /\ Groupable(idx)
        /\ ~isPrefill \/ prefillOk => seg \in SegmentTablesOf(idx)
        /\ (~isPrefill /\ mode >= 2) \/ prefillOk =>
              /\ tiles = <<build_tile_map(seg.length, ListSize)>>
              /\ tileCap = TileCap(Len(idx))

\* A row is written by the programs of one tile, all parts of it and with one
\* adapter, its own if the runs fit; or not at all where there is no adapter.
RowWritten(r) ==
    \E a : /\ IF a = -1 THEN applied[r] = {} ELSE Whole(applied[r], Parts, a)
           /\ isPrefill \/ Cardinality(RunStarts(idx)) <= n_loras => a = idx[r]

RowsWritten ==
    phase = "ran" => slices \in 1 .. 3 /\ \A r \in DOMAIN idx : RowWritten(r)

TablesInv == Kinds /\ GraphsHold /\ TablesFresh /\ RowsWritten

LEMMA ListSizeIs == ListSize \in Nat /\ \A n : MapSize(n) = ListSize
  BY TablesAssumption, TileCapFacts DEF ListSize, MapSize

LEMMA TablesStart == Init => TablesInv
  <1> SUFFICES ASSUME Init PROVE TablesInv
    OBVIOUS
  <1>1. Kinds
    <2>1. prefillGrouped \in BOOLEAN
      BY TablesAssumption, Zenon DEF Init
    <2>2. isPrefill \in BOOLEAN /\ prefillOk \in BOOLEAN
      BY DEF Init
    <2>3. idx \in Seq(Ids) /\ tiles = <<>> /\ phase = "start" /\ mode \in Modes
      BY DEF Init
    <2> QED
      BY <2>1, <2>2, <2>3, Zenon DEF Kinds
  <1>2. GraphsHold
    BY DEF Init, GraphsHold
  <1>3. TablesFresh /\ RowsWritten
    BY DEF Init, TablesFresh, RowsWritten
  <1> QED
    BY <1>1, <1>2, <1>3 DEF TablesInv

\* The work list is rebuilt in the allocation it has.
LEMMA TilesRebuilt ==
    ASSUME Kinds, NEW ids, _refresh_tiles(ids)
    PROVE  /\ tiles' = <<build_tile_map(seg'.length, ListSize)>>
           /\ tileCap' = TileCap(Len(ids))
           /\ DOMAIN tiles'[1] = 0 .. ListSize - 1
  <1> DEFINE grow == tiles = <<>> \/ (tiles # <<>> /\ Cardinality(DOMAIN Last(tiles)) < MapSize(Len(ids)))
             size == IF grow THEN MapSize(Len(ids)) ELSE Cardinality(DOMAIN Last(tiles))
             map == build_tile_map(seg'.length, size)
  <1>1. /\ tileCap' = TileCap(Len(ids))
        /\ tiles' = IF grow THEN Append(tiles, map) ELSE Append(Front(tiles), map)
    BY DEF _refresh_tiles
  <1>2. ListSize \in Nat /\ MapSize(Len(ids)) = ListSize
    BY ListSizeIs
  <1>3. DOMAIN build_tile_map(seg'.length, ListSize) = 0 .. ListSize - 1
    BY DEF build_tile_map
  <1> HIDE DEF map
  <1>4. CASE tiles = <<>>
    <2>1. grow /\ size = ListSize
      BY <1>2, <1>4
    <2>2. Append(tiles, map) = <<map>>
      BY <1>4
    <2> HIDE DEF grow, size
    <2> QED
      BY <1>1, <1>3, <2>1, <2>2 DEF map
  <1>5. ASSUME NEW m, tiles = <<m>>, DOMAIN m = 0 .. ListSize - 1
        PROVE  ~grow /\ size = ListSize /\ Append(Front(tiles), map) = <<map>>
    <2>1. tiles # <<>> /\ Last(tiles) = m /\ Front(tiles) = <<>>
      BY <1>5 DEF Last, Front
    <2>2. Cardinality(DOMAIN m) = ListSize
      BY <1>2, <1>5, FS_Interval
    <2>3. ~grow
      BY <1>2, <2>1, <2>2
    <2> QED
      BY <1>2, <2>1, <2>2, <2>3
  <1>6. CASE tiles # <<>>
    <2>1. PICK m : tiles = <<m>> /\ DOMAIN m = 0 .. ListSize - 1
      BY <1>6 DEF Kinds
    <2>2. ~grow /\ size = ListSize /\ Append(Front(tiles), map) = <<map>>
      BY <1>5, <2>1
    <2> HIDE DEF grow, size
    <2> QED
      BY <1>1, <1>3, <2>2 DEF map
  <1> QED
    BY <1>4, <1>6

\* What update_metadata leaves for a batch that is not empty.
LEMMA TablesRefreshed ==
    ASSUME Kinds, NEW ids \in Seq(Ids), ids # <<>>, NEW prefill \in BOOLEAN,
           update_metadata(ids, prefill),
           ~prefill => Len(ids) <= MaxDecode,
           phase' \in {"start", "loaded"}, UNCHANGED settings
    PROVE  /\ Kinds' /\ TablesFresh' /\ RowsWritten'
           /\ ~prefill /\ mode >= 2 => Len(tiles') = 1 /\ tileCap' = TileCap(Len(ids))
  <1>1. idx' = ids /\ isPrefill' = prefill /\ mode' = mode /\ prefillGrouped' = prefillGrouped
    BY DEF update_metadata, settings
  <1>2. RowsWritten'
    BY DEF RowsWritten
  <1>3. CASE ~prefill
    <2>1. /\ seg' \in SegmentTablesOf(ids) /\ prefillOk' = FALSE
          /\ IF mode >= 2 THEN _refresh_tiles(ids) ELSE UNCHANGED <<tiles, tileCap>>
      BY <1>3 DEF update_metadata, _refresh_segments, PrefillReset
    <2>2. CASE mode >= 2
      <3>1. /\ tiles' = <<build_tile_map(seg'.length, ListSize)>>
            /\ tileCap' = TileCap(Len(ids))
            /\ DOMAIN tiles'[1] = 0 .. ListSize - 1
        BY <2>1, <2>2, TilesRebuilt
      <3>2. Len(tiles') = 1 /\ tiles' = <<tiles'[1]>>
        BY <3>1
      <3>3. Kinds'
        BY <1>1, <2>1, <3>1, <3>2 DEF Kinds
      <3>4. TablesFresh'
        BY <1>1, <1>3, <2>1, <3>1 DEF TablesFresh
      <3> QED
        BY <1>2, <3>1, <3>2, <3>3, <3>4
    <2>3. CASE ~(mode >= 2)
      <3>1. tiles' = tiles
        BY <2>1, <2>3
      <3>2. Kinds'
        BY <1>1, <2>1, <3>1 DEF Kinds
      <3>3. TablesFresh'
        BY <1>1, <1>3, <2>1, <2>3 DEF TablesFresh
      <3> QED
        BY <1>2, <2>3, <3>2, <3>3
    <2> QED
      BY <2>2, <2>3
  <1>4. CASE prefill /\ mode = 3 /\ prefillGrouped /\ Groupable(ids)
    <2>1. seg' \in SegmentTablesOf(ids) /\ prefillOk' = TRUE /\ _refresh_tiles(ids)
      BY <1>4 DEF update_metadata, _refresh_segments
    <2>2. /\ tiles' = <<build_tile_map(seg'.length, ListSize)>>
          /\ tileCap' = TileCap(Len(ids))
          /\ DOMAIN tiles'[1] = 0 .. ListSize - 1
      BY <2>1, TilesRebuilt
    <2>3. tiles' = <<tiles'[1]>>
      BY <2>2
    <2>4. Kinds'
      BY <1>1, <2>1, <2>2, <2>3 DEF Kinds
    <2>5. TablesFresh'
      BY <1>1, <1>4, <2>1, <2>2 DEF TablesFresh, Groupable
    <2> QED
      BY <1>2, <1>4, <2>4, <2>5
  <1>5. CASE prefill /\ ~(mode = 3 /\ prefillGrouped /\ Groupable(ids))
    <2>1. prefillOk' = FALSE /\ tiles' = tiles
      BY <1>5 DEF update_metadata, PrefillReset, tables
    <2>2. Kinds'
      BY <1>1, <2>1 DEF Kinds
    <2>3. TablesFresh'
      BY <1>1, <1>5, <2>1 DEF TablesFresh
    <2> QED
      BY <1>2, <1>5, <2>2, <2>3
  <1> QED
    BY <1>3, <1>4, <1>5

LEMMA BatchesAreSequences ==
    ASSUME NEW max \in Nat, NEW ids \in Batches(max)
    PROVE  ids \in Seq(Ids) /\ ids # <<>> /\ Len(ids) \in 1 .. max
  <1>1. PICK n \in 1 .. max : ids \in [1 .. n -> Ids]
    BY DEF Batches, Ids
  <1>2. n \in Nat /\ n >= 1
    OBVIOUS
  <1>3. ids \in Seq(Ids) /\ Len(ids) = n
    BY <1>1, <1>2
  <1> QED
    BY <1>3

\* Padding makes a captured size of a batch, or leaves it alone.
LEMMA PaddedFacts ==
    ASSUME NEW ids \in Batches(MaxDecode)
    PROVE  /\ Padded(ids) \in Seq(Ids) /\ Padded(ids) # <<>>
           /\ Len(Padded(ids)) <= MaxDecode
  <1> DEFINE fits == {b \in CaptureSizes : b >= Len(ids)}
  <1>1. ids \in Seq(Ids) /\ ids # <<>> /\ Len(ids) \in 1 .. MaxDecode /\ MaxDecode \in Nat
    BY BatchesAreSequences, TablesAssumption
  <1>2. CASE fits = {}
    <2>1. Padded(ids) = ids
      BY <1>2 DEF Padded
    <2> QED
      BY <1>1, <2>1
  <1>3. CASE fits # {}
    <2>1. fits \in SUBSET (1 .. MaxDecode)
      BY TablesAssumption
    <2>2. PICK b \in fits : \A i \in fits : b <= i
      BY <1>1, <1>3, <2>1, FirstPlace
    <2>3. Min(fits) \in fits
      <3> HIDE DEF fits
      <3> QED
        BY <2>2 DEF Min
    <2> DEFINE k == Min(fits) - Len(ids)
               padding == [i \in 1 .. k |-> -1]
    <2>4. Min(fits) \in 1 .. MaxDecode /\ Min(fits) >= Len(ids)
      BY <2>1, <2>3
    <2>5. k \in Nat /\ Len(ids) + k <= MaxDecode
      <3> HIDE DEF fits
      <3> QED
        BY <1>1, <2>4
    <2>6. Padded(ids) = ids \o padding
      BY <1>3 DEF Padded
    <2> HIDE DEF k
    <2>7. padding \in Seq(Ids) /\ Len(padding) = k
      BY <2>5, TablesAssumption DEF Ids
    <2> HIDE DEF padding
    <2>8. /\ ids \o padding \in Seq(Ids)
          /\ Len(ids \o padding) = Len(ids) + k
      BY <1>1, <2>7
    <2> QED
      BY <1>1, <2>5, <2>6, <2>8
  <1> QED
    BY <1>2, <1>3

LEMMA CaptureKeeps ==
    ASSUME TablesInv, Capture
    PROVE  TablesInv'
  <1> DEFINE left == {b \in CaptureSizes : graphs[b] = NoGraph}
             b == Max(left)
             ids == [i \in 1 .. b |-> -1]
  <1>1. Kinds /\ GraphsHold /\ phase = "start" /\ UNCHANGED settings
    BY DEF TablesInv, Capture
  <1>2. CASE left = {}
    <2>1. /\ phase' = "idle" /\ UNCHANGED <<idx, isPrefill, prefillOk, tables, graphs>>
      BY <1>2 DEF Capture
    <2>2. Kinds'
      BY <1>1, <2>1 DEF Kinds, tables, settings
    <2>3. \A c \in CaptureSizes : graphs[c] # NoGraph
      BY <1>2
    <2>4. GraphsHold'
      BY <1>1, <2>1, <2>3 DEF GraphsHold, settings
    <2>5. TablesFresh' /\ RowsWritten'
      BY <2>1 DEF TablesFresh, RowsWritten
    <2> QED
      BY <2>2, <2>4, <2>5 DEF TablesInv
  <1>3. CASE left # {}
    <2>1. /\ update_metadata(ids, FALSE)
          /\ graphs' = [graphs EXCEPT ![b] =
                           [captured |-> TRUE, cap |-> tileCap', tiles |-> Len(tiles')]]
          /\ phase' = phase
      BY <1>3 DEF Capture
    <2>2. left \in SUBSET (1 .. MaxDecode)
      BY TablesAssumption
    <2>3. PICK c \in left : \A i \in left : i <= c
      BY <1>3, <2>2, LastPlace, TablesAssumption
    <2>4. b \in left
      <3> HIDE DEF left
      <3>1. \E x \in left : \A y \in left : x >= y
        <4>1. \A y \in left : c >= y
          BY <2>2, <2>3
        <4> QED
          BY <4>1
      <3> QED
        BY <3>1 DEF Max
    <2>5. b \in 1 .. MaxDecode /\ b \in CaptureSizes
      BY <2>2, <2>4
    <2> HIDE DEF b
    <2>6. ids \in Seq(Ids) /\ ids # <<>> /\ Len(ids) = b /\ b <= MaxDecode
      BY <2>5, TablesAssumption DEF Ids
    <2> HIDE DEF ids
    <2>7. phase' \in {"start", "loaded"}
      BY <1>1, <2>1
    <2>8. /\ Kinds' /\ TablesFresh' /\ RowsWritten'
          /\ mode >= 2 => Len(tiles') = 1 /\ tileCap' = TileCap(b)
      BY <1>1, <2>1, <2>6, <2>7, TablesRefreshed
    <2>9. GraphsHold'
      <3> SUFFICES ASSUME NEW x \in CaptureSizes
                   PROVE  \/ graphs'[x] = NoGraph /\ phase' = "start"
                          \/ /\ graphs'[x].captured
                             /\ mode' >= 2 => graphs'[x].cap = TileCap(x) /\ graphs'[x].tiles = 1
        BY <1>1, <2>1 DEF GraphsHold
      <3>1. CASE x = b
        <4>1. graphs'[x] = [captured |-> TRUE, cap |-> tileCap', tiles |-> Len(tiles')]
          BY <1>1, <2>1, <3>1 DEF GraphsHold
        <4> QED
          BY <1>1, <2>8, <3>1, <4>1 DEF settings
      <3>2. CASE x # b
        <4>1. graphs'[x] = graphs[x]
          BY <1>1, <2>1, <3>2 DEF GraphsHold
        <4> QED
          BY <1>1, <2>1, <4>1 DEF GraphsHold, settings
      <3> QED
        BY <3>1, <3>2
    <2> QED
      BY <2>8, <2>9 DEF TablesInv
  <1> QED
    BY <1>2, <1>3

LEMMA LoadKeeps ==
    ASSUME TablesInv, NEW ids, NEW prefill \in BOOLEAN, Load(ids, prefill),
           ids \in Batches(IF prefill THEN MaxPrefill ELSE MaxDecode)
    PROVE  TablesInv'
  <1> DEFINE all == IF prefill THEN ids ELSE Padded(ids)
  <1>1. /\ Kinds /\ GraphsHold /\ phase = "idle" /\ phase' = "loaded"
        /\ update_metadata(all, prefill) /\ UNCHANGED <<settings, graphs>>
    BY DEF TablesInv, Load
  <1>2. all \in Seq(Ids) /\ all # <<>> /\ (~prefill => Len(all) <= MaxDecode)
    <2>1. CASE prefill
      BY <2>1, BatchesAreSequences, TablesAssumption
    <2>2. CASE ~prefill
      BY <2>2, PaddedFacts
    <2> QED
      BY <2>1, <2>2
  <1> HIDE DEF all
  <1>3. UNCHANGED settings /\ phase' \in {"start", "loaded"}
    BY <1>1
  <1>4. Kinds' /\ TablesFresh' /\ RowsWritten'
    BY <1>1, <1>2, <1>3, TablesRefreshed
  <1>5. GraphsHold'
    BY <1>1 DEF GraphsHold, settings
  <1> QED
    BY <1>4, <1>5 DEF TablesInv

\* A grid that covers the rows leaves them written as they should be.
LEMMA GridOutcome ==
    ASSUME NEW T, idx \in Seq(T), seg \in SegmentTablesOf(idx), NEW items, CoversRows(items),
           NEW ns \in 1 .. 3, NEW sk \in {1, 2},
           isPrefill /\ prefillOk => Cardinality(RunStarts(idx)) <= n_loras,
           isPrefill => prefillOk, NEW r \in DOMAIN idx
    PROVE  \E a : /\ IF a = -1 THEN Written(items, BM, ns, sk)[r] = {}
                     ELSE Whole(Written(items, BM, ns, sk)[r], AllParts(ns, sk), a)
                  /\ isPrefill \/ Cardinality(RunStarts(idx)) <= n_loras => a = idx[r]
  <1> DEFINE s == SlotOf(idx, r)
             a == seg.lora[s]
  <1>1. Describes(seg, idx)
    BY TableDescribes
  <1>2. ns \in Nat /\ sk \in Nat \ {0}
    OBVIOUS
  <1>3. IF a = -1 THEN Written(items, BM, ns, sk)[r] = {}
        ELSE Whole(Written(items, BM, ns, sk)[r], AllParts(ns, sk), a)
    BY <1>1, <1>2, GridWrites
  <1>4. ASSUME Cardinality(RunStarts(idx)) <= n_loras PROVE a = idx[r]
    <2>1. s \in Slots /\ r \in TokensOf(idx, s)
      BY SlotFacts DEF TokensOf
    <2>2. PICK i \in TokensOf(idx, s) : a = idx[i]
      BY <1>1, <2>1 DEF Describes
    <2>3. i \in DOMAIN idx /\ SlotOf(idx, i) = SlotOf(idx, r)
      BY DEF TokensOf
    <2>4. idx[i] = idx[r]
      BY <1>4, <2>3, SlotFacts
    <2> QED
      BY <2>2, <2>4
  <1> HIDE DEF a
  <1> QED
    BY <1>3, <1>4

LEMMA StockOutcome ==
    ASSUME NEW ns \in 1 .. 3, NEW sk \in {1, 2}, NEW r \in DOMAIN idx
    PROVE  IF idx[r] = -1 THEN Stock(ns, sk)[r] = {}
           ELSE Whole(Stock(ns, sk)[r], AllParts(ns, sk), idx[r])
  <1>1. CASE idx[r] = -1
    BY <1>1 DEF Stock
  <1>2. CASE idx[r] # -1
    <2> DEFINE W(x) == [prog |-> 0, part |-> x, lora |-> idx[r]]
               P(i, k) == [slice |-> i, split |-> k]
    <2>1. Stock(ns, sk)[r] = {W(P(i, k)) : i \in 0 .. ns - 1, k \in 0 .. sk - 1}
      BY <1>2 DEF Stock
    <2>2. AllParts(ns, sk) = {P(i, k) : i \in 0 .. ns - 1, k \in 0 .. sk - 1}
      BY DEF AllParts
    <2> HIDE DEF P
    <2>3. {W(P(i, k)) : i \in 0 .. ns - 1, k \in 0 .. sk - 1} = {W(x) : x \in AllParts(ns, sk)}
      <3> HIDE DEF W
      <3> QED
        BY <2>2
    <2>4. Stock(ns, sk)[r] = {[prog |-> 0, part |-> x, lora |-> idx[r]] : x \in AllParts(ns, sk)}
      BY <2>1, <2>3
    <2> QED
      BY <1>2, <2>4 DEF Whole
  <1> QED
    BY <1>1, <1>2

LEMMA RunKeeps ==
    ASSUME TablesInv, NEW ns \in 1 .. 3, Run(ns)
    PROVE  TablesInv'
  <1> DEFINE graph == ~isPrefill /\ Len(idx) \in CaptureSizes
             map == IF graph /\ mode >= 2 THEN tiles[graphs[Len(idx)].tiles]
                    ELSE IF tiles = <<>> THEN <<>> ELSE Last(tiles)
             cap == IF graph THEN graphs[Len(idx)].cap ELSE tileCap
             items == TileGrid(map, cap)
             out == Projection(ns, map, cap)
  <1>1. /\ phase = "loaded" /\ phase' = "ran" /\ slices' = ns /\ applied' = out
        /\ UNCHANGED <<settings, idx, isPrefill, prefillOk, tables, graphs>>
    BY DEF Run
  <1>2. Kinds /\ GraphsHold /\ TablesFresh
    BY DEF TablesInv
  <1>3. Kinds' /\ GraphsHold' /\ TablesFresh'
    <2>1. Kinds'
      BY <1>1, <1>2 DEF Kinds, settings, tables
    <2>2. GraphsHold'
      BY <1>1, <1>2 DEF GraphsHold, settings
    <2>3. TablesFresh'
      BY <1>1, <1>2 DEF TablesFresh, settings, tables, Groupable
    <2> QED
      BY <2>1, <2>2, <2>3
  <1>4. idx \in Seq(Ids) /\ Len(idx) \in Nat /\ mode \in {1, 2, 3} /\ SplitK \in {1, 2}
    BY <1>2, TablesAssumption DEF Kinds, SplitK
  <1>5. Parts' = AllParts(ns, SplitK)
    BY <1>1 DEF Parts, AllParts, SplitK
  <1>6. /\ ~isPrefill => Len(idx) <= MaxDecode
        /\ prefillOk => isPrefill /\ Groupable(idx)
        /\ ~isPrefill \/ prefillOk => seg \in SegmentTablesOf(idx)
        /\ (~isPrefill /\ mode >= 2) \/ prefillOk =>
              /\ tiles = <<build_tile_map(seg.length, ListSize)>>
              /\ tileCap = TileCap(Len(idx))
    BY <1>1, <1>2 DEF TablesFresh
  <1>7. isPrefill /\ prefillOk => Cardinality(RunStarts(idx)) <= n_loras
    BY <1>6 DEF Groupable
  <1>8. ASSUME (~isPrefill /\ mode >= 2) \/ prefillOk
        PROVE  CoversRows(items)
    <2>1. /\ tiles = <<build_tile_map(seg.length, ListSize)>>
          /\ tileCap = TileCap(Len(idx)) /\ seg \in SegmentTablesOf(idx)
      BY <1>6, <1>8
    <2>2. Len(idx) <= TileMapTokens /\ TileMapTokens \in Nat
      BY <1>4, <1>6, <1>8, TablesAssumption DEF Groupable
    <2>3. graph => mode >= 2 /\ graphs[Len(idx)].cap = TileCap(Len(idx)) /\ graphs[Len(idx)].tiles = 1
      BY <1>1, <1>2, <1>6, <1>8 DEF GraphsHold
    <2>4. map = build_tile_map(seg.length, ListSize) /\ cap = TileCap(Len(idx))
      <3>1. tiles # <<>> /\ Last(tiles) = tiles[1] /\ tiles[1] = build_tile_map(seg.length, ListSize)
        BY <2>1 DEF Last
      <3> QED
        BY <2>1, <2>3, <3>1
    <2>5. /\ TileCap(Len(idx)) \in Nat /\ ListSize \in Nat
          /\ TileCap(Len(idx)) <= TileCap(Len(idx)) /\ TileCap(Len(idx)) <= ListSize
      BY <1>4, <2>2, TileCapFacts DEF ListSize
    <2>6. Describes(seg, idx)
      BY <1>4, <2>1, TableDescribes
    <2> HIDE DEF map, cap
    <2>7. CoversRows(TileGrid(build_tile_map(seg.length, ListSize), TileCap(Len(idx))))
      BY <1>4, <2>5, <2>6, TileGridCovers
    <2> QED
      BY <2>4, <2>7
  <1> HIDE DEF map, cap
  <1>9. ASSUME NEW r \in DOMAIN idx
        PROVE  \E a : /\ IF a = -1 THEN out[r] = {} ELSE Whole(out[r], AllParts(ns, SplitK), a)
                      /\ isPrefill \/ Cardinality(RunStarts(idx)) <= n_loras => a = idx[r]
    <2>1. CASE _use_multislice(Len(idx)) \/ (_use_grouped(Len(idx)) /\ mode = 2)
      <3>1. (~isPrefill /\ mode >= 2) \/ (isPrefill /\ prefillOk)
        BY <2>1 DEF _use_multislice, _use_grouped
      <3>2. seg \in SegmentTablesOf(idx) /\ CoversRows(items) /\ (isPrefill => prefillOk)
        BY <1>6, <1>8, <3>1
      <3>3. ~(_use_grouped(Len(idx)) /\ mode = 1)
        BY <2>1 DEF _use_multislice, _use_grouped
      <3>4. out = Written(items, BM, ns, SplitK)
        BY <2>1, <3>3 DEF Projection
      <3> HIDE DEF items, out
      <3>5. \E a : /\ IF a = -1 THEN Written(items, BM, ns, SplitK)[r] = {}
                      ELSE Whole(Written(items, BM, ns, SplitK)[r], AllParts(ns, SplitK), a)
                   /\ isPrefill \/ Cardinality(RunStarts(idx)) <= n_loras => a = idx[r]
        BY <1>4, <1>7, <3>2, GridOutcome
      <3> QED
        BY <3>4, <3>5
    <2>2. CASE /\ ~(_use_multislice(Len(idx)) \/ (_use_grouped(Len(idx)) /\ mode = 2))
               /\ _use_grouped(Len(idx)) /\ mode = 1
      <3>1. ~isPrefill /\ seg \in SegmentTablesOf(idx)
        BY <1>6, <2>2 DEF _use_grouped
      <3>2. CoversRows(StaticGrid)
        BY <1>4, <3>1, TableDescribes, StaticGridCovers
      <3>3. out = Written(StaticGrid, BM, ns, SplitK)
        BY <2>2 DEF Projection
      <3>4. \E a : /\ IF a = -1 THEN Written(StaticGrid, BM, ns, SplitK)[r] = {}
                      ELSE Whole(Written(StaticGrid, BM, ns, SplitK)[r], AllParts(ns, SplitK), a)
                   /\ isPrefill \/ Cardinality(RunStarts(idx)) <= n_loras => a = idx[r]
        BY <1>4, <1>7, <3>1, <3>2, GridOutcome
      <3> HIDE DEF out
      <3> QED
        BY <3>3, <3>4
    <2>3. CASE /\ ~(_use_multislice(Len(idx)) \/ (_use_grouped(Len(idx)) /\ mode = 2))
               /\ ~(_use_grouped(Len(idx)) /\ mode = 1)
      <3>1. out = Stock(ns, SplitK)
        BY <2>3 DEF Projection
      <3> HIDE DEF out
      <3>2. IF idx[r] = -1 THEN out[r] = {} ELSE Whole(out[r], AllParts(ns, SplitK), idx[r])
        BY <1>4, <3>1, StockOutcome
      <3> QED
        BY <3>2
    <2> QED
      BY <2>1, <2>2, <2>3
  <1> HIDE DEF out
  <1>10. RowsWritten'
    <2> SUFFICES ASSUME NEW r \in DOMAIN idx PROVE RowWritten(r)'
      BY <1>1 DEF RowsWritten
    <2> QED
      BY <1>1, <1>5, <1>9 DEF RowWritten
  <1> QED
    BY <1>3, <1>10 DEF TablesInv

LEMMA TablesKept == TablesInv /\ [Next]_vars => TablesInv'
  <1> SUFFICES ASSUME TablesInv, [Next]_vars PROVE TablesInv'
    OBVIOUS
  <1>1. CASE Capture
    BY <1>1, CaptureKeeps
  <1>2. ASSUME NEW ids \in Batches(MaxDecode), Load(ids, FALSE) PROVE TablesInv'
    <2>1. ids \in Batches(IF FALSE THEN MaxPrefill ELSE MaxDecode) /\ FALSE \in BOOLEAN
      OBVIOUS
    <2> QED
      BY <1>2, <2>1, LoadKeeps
  <1>3. ASSUME NEW ids \in Batches(MaxPrefill), Load(ids, TRUE) PROVE TablesInv'
    <2>1. ids \in Batches(IF TRUE THEN MaxPrefill ELSE MaxDecode) /\ TRUE \in BOOLEAN
      OBVIOUS
    <2> QED
      BY <1>3, <2>1, LoadKeeps
  <1>4. ASSUME NEW ns \in 1 .. 3, Run(ns) PROVE TablesInv'
    BY <1>4, RunKeeps
  <1>5. CASE StepDone
    <2>1. phase = "ran" /\ phase' = "idle" /\ idx' = <<>>
          /\ UNCHANGED <<settings, isPrefill, prefillOk, tables, graphs>>
      BY <1>5 DEF StepDone
    <2>2. Kinds'
      BY <2>1 DEF TablesInv, Kinds, settings, tables
    <2>3. GraphsHold'
      BY <2>1 DEF TablesInv, GraphsHold, settings
    <2>4. TablesFresh' /\ RowsWritten'
      BY <2>1 DEF TablesFresh, RowsWritten
    <2> QED
      BY <2>2, <2>3, <2>4 DEF TablesInv
  <1>6. CASE UNCHANGED vars
    <2>1. Kinds' /\ GraphsHold'
      BY <1>6 DEF TablesInv, Kinds, GraphsHold, vars, settings, tables
    <2>2. TablesFresh'
      BY <1>6 DEF TablesInv, TablesFresh, Groupable, vars, settings, tables
    <2>3. RowsWritten'
      <3>1. phase' = phase /\ slices' = slices /\ applied' = applied /\ idx' = idx
            /\ isPrefill' = isPrefill
        BY <1>6 DEF vars, result
      <3>2. Parts' = Parts
        BY <3>1 DEF Parts, SplitK
      <3> SUFFICES ASSUME phase = "ran"
                   PROVE  slices \in 1 .. 3 /\ \A r \in DOMAIN idx : RowWritten(r)'
        BY <3>1 DEF RowsWritten
      <3>3. slices \in 1 .. 3 /\ \A r \in DOMAIN idx : RowWritten(r)
        BY DEF TablesInv, RowsWritten
      <3>4. \A r : RowWritten(r)' <=> RowWritten(r)
        BY <3>1, <3>2 DEF RowWritten
      <3> QED
        BY <3>3, <3>4
    <2> QED
      BY <2>1, <2>2, <2>3 DEF TablesInv
  <1> QED
    BY <1>1, <1>2, <1>3, <1>4, <1>5, <1>6 DEF Next

LEMMA TablesInvariant == Spec => []TablesInv
  <1> QED
    BY TablesStart, TablesKept, PTL DEF Spec

\* RowsOnce: for every batch, number of LoRA slots, tile and split, in a captured
\* graph or not, the programs of a projection do not write a row twice, nor a
\* part of it only.
THEOREM RowsWrittenOnce == Spec => []RowsOnce
  <1>1. TablesInv => RowsOnce
    <2> SUFFICES ASSUME TablesInv, phase = "ran", NEW r \in DOMAIN idx
                 PROVE  /\ \A v, w \in applied[r] : v.prog = w.prog
                        /\ Cardinality(applied[r]) = Cardinality(PartsOf(r))
                        /\ PartsOf(r) \in {{}, Parts}
      BY DEF RowsOnce
    <2>1. PICK a : IF a = -1 THEN applied[r] = {} ELSE Whole(applied[r], Parts, a)
      BY DEF TablesInv, RowsWritten, RowWritten
    <2>2. IsFiniteSet(Parts)
      <3>1. slices \in Nat /\ SplitK \in Nat /\ Parts = AllParts(slices, SplitK)
        BY DEF TablesInv, RowsWritten, SplitK, Parts, AllParts
      <3> QED
        BY <3>1, PartsFinite
    <2>3. CASE a = -1
      <3>1. applied[r] = {} /\ PartsOf(r) = {}
        BY <2>1, <2>3 DEF PartsOf
      <3> QED
        BY <3>1
    <2>4. CASE a # -1
      BY <2>1, <2>2, <2>4, WholeFacts DEF PartsOf
    <2> QED
      BY <2>3, <2>4
  <1> QED
    BY <1>1, TablesInvariant, PTL

\* EachRowItsAdapter: a projection gives each row the LoRA of its own token,
\* whole and once, unless a decode batch has more runs than the table has slots.
THEOREM RowsGetTheirAdapter == Spec => []EachRowItsAdapter
  <1>1. TablesInv => EachRowItsAdapter
    <2> SUFFICES ASSUME TablesInv, phase = "ran",
                        isPrefill \/ Cardinality(RunStarts(idx)) <= n_loras,
                        NEW r \in DOMAIN idx
                 PROVE  OwnAdapter(r)
      BY DEF EachRowItsAdapter
    <2>1. PICK a : /\ IF a = -1 THEN applied[r] = {} ELSE Whole(applied[r], Parts, a)
                   /\ isPrefill \/ Cardinality(RunStarts(idx)) <= n_loras => a = idx[r]
      BY DEF TablesInv, RowsWritten, RowWritten
    <2>2. a = idx[r]
      BY <2>1
    <2>3. CASE a = -1
      BY <2>1, <2>2, <2>3 DEF OwnAdapter
    <2>4. CASE a # -1
      BY <2>1, <2>2, <2>4, WholeFacts DEF OwnAdapter, PartsOf
    <2> QED
      BY <2>3, <2>4
  <1> QED
    BY <1>1, TablesInvariant, PTL

-----------------------------------------------------------------------------
(***************************************************************************)
(* The runs of a batch, and the metrics read off them.                     *)
(***************************************************************************)

RunTokens(q, b) == b .. b + RunLength(q, b) - 1

\* A run goes from its start up to the next.
LEMMA RunFacts ==
    ASSUME NEW T, NEW q \in Seq(T), NEW b \in RunStarts(q)
    PROVE  /\ RunLength(q, b) \in Nat \ {0}
           /\ b \in DOMAIN q /\ RunTokens(q, b) \subseteq DOMAIN q
           /\ \A i \in DOMAIN q :
                 i \in RunTokens(q, b) <=> b <= i /\ \A j \in RunStarts(q) : ~(b < j /\ j <= i)
  <1> DEFINE later == {j \in RunStarts(q) : j > b}
             stop == IF later = {} THEN Len(q) + 1 ELSE Min(later)
  <1>1. DOMAIN q = 1 .. Len(q) /\ Len(q) \in Nat /\ RunStarts(q) \subseteq 1 .. Len(q)
    BY StartsFinite
  <1>2. b \in 1 .. Len(q) /\ RunLength(q, b) = stop - b
    BY <1>1 DEF RunLength
  <1>3. /\ stop \in b + 1 .. Len(q) + 1
        /\ \A i \in 1 .. Len(q) :
              b <= i => (i < stop <=> \A j \in RunStarts(q) : ~(b < j /\ j <= i))
    <2>1. CASE later = {}
      <3>1. stop = Len(q) + 1 /\ \A j \in RunStarts(q) : ~(b < j)
        BY <1>1, <1>2, <2>1
      <3> HIDE DEF stop
      <3> QED
        BY <1>1, <1>2, <3>1
    <2>2. CASE later # {}
      <3>1. PICK m \in later : \A j \in later : m <= j
        <4>1. later \in SUBSET (1 .. Len(q))
          BY <1>1
        <4> HIDE DEF later
        <4> QED
          BY <1>1, <2>2, <4>1, FirstPlace
      <3>2. Min(later) \in later /\ \A j \in later : Min(later) <= j
        <4> HIDE DEF later
        <4> QED
          BY <3>1 DEF Min
      <3>3. stop = Min(later)
        BY <2>2
      <3>4. /\ stop \in RunStarts(q) /\ b < stop /\ \A j \in RunStarts(q) : j > b => stop <= j
        BY <3>2, <3>3
      <3> HIDE DEF stop, later
      <3>5. stop \in b + 1 .. Len(q) + 1
        BY <1>1, <1>2, <3>4
      <3> QED
        BY <1>1, <1>2, <3>4, <3>5
    <2> QED
      BY <2>1, <2>2
  <1> HIDE DEF stop
  <1>4. RunTokens(q, b) = b .. stop - 1
    <2>1. b + RunLength(q, b) - 1 = stop - 1
      BY <1>2, <1>3
    <2> QED
      BY <2>1 DEF RunTokens
  <1>5. ASSUME NEW i \in DOMAIN q
        PROVE  i \in RunTokens(q, b) <=> b <= i /\ \A j \in RunStarts(q) : ~(b < j /\ j <= i)
    <2>1. i \in RunTokens(q, b) <=> b <= i /\ i < stop
      BY <1>1, <1>2, <1>3, <1>4
    <2>2. b <= i => (i < stop <=> \A j \in RunStarts(q) : ~(b < j /\ j <= i))
      BY <1>1, <1>3
    <2> QED
      BY <2>1, <2>2
  <1>6. RunLength(q, b) \in Nat \ {0} /\ b .. stop - 1 \subseteq 1 .. Len(q)
    BY <1>1, <1>2, <1>3
  <1> QED
    BY <1>1, <1>2, <1>4, <1>5, <1>6

\* Every token is of one run.
LEMMA RunOf ==
    ASSUME NEW T, NEW q \in Seq(T), NEW i \in DOMAIN q
    PROVE  /\ \E b \in RunStarts(q) : i \in RunTokens(q, b)
           /\ \A b, c \in RunStarts(q) : i \in RunTokens(q, b) /\ i \in RunTokens(q, c) => b = c
  <1>1. DOMAIN q = 1 .. Len(q) /\ Len(q) \in Nat /\ RunStarts(q) \subseteq 1 .. Len(q)
    BY StartsFinite
  <1>2. StartsUpTo(q, i) \in SUBSET (1 .. Len(q)) /\ 1 \in StartsUpTo(q, i)
    BY <1>1 DEF StartsUpTo, RunStarts
  <1>3. PICK b \in StartsUpTo(q, i) : \A j \in StartsUpTo(q, i) : j <= b
    BY <1>1, <1>2, LastPlace
  <1>4. b \in RunStarts(q) /\ b <= i
    BY DEF StartsUpTo
  <1>5. ASSUME NEW j \in RunStarts(q), b < j, j <= i PROVE FALSE
    <2>1. j \in StartsUpTo(q, i)
      BY <1>5 DEF StartsUpTo
    <2> QED
      BY <1>1, <1>3, <1>4, <1>5, <2>1
  <1>6. i \in RunTokens(q, b)
    BY <1>4, <1>5, RunFacts
  <1>7. ASSUME NEW c \in RunStarts(q), NEW d \in RunStarts(q),
               i \in RunTokens(q, c), i \in RunTokens(q, d)
        PROVE  c = d
    <2>1. c <= i /\ ~(c < d /\ d <= i)
      BY <1>7, RunFacts
    <2>2. d <= i /\ ~(d < c /\ c <= i)
      BY <1>7, RunFacts
    <2> QED
      BY <1>1, <2>1, <2>2
  <1> QED
    BY <1>4, <1>6, <1>7

\* The tokens of runs of at least n tokens.
LongTokens(q, n) == {i \in DOMAIN q : \E b \in RunStarts(q) : i \in RunTokens(q, b) /\ RunLength(q, b) >= n}

LEMMA LongTokensFinite ==
    ASSUME NEW T, NEW q \in Seq(T), NEW n
    PROVE  /\ IsFiniteSet(LongTokens(q, n)) /\ Cardinality(LongTokens(q, n)) \in Nat
           /\ LongTokens(q, n) \subseteq 1 .. Len(q)
  <1>1. LongTokens(q, n) \in SUBSET (1 .. Len(q)) /\ Len(q) \in Nat
    BY DEF LongTokens
  <1> QED
    BY <1>1, UpTo, FS_Subset, FS_CardinalityType

\* The sum over the runs counts them.
LEMMA RunsCountTokens ==
    ASSUME NEW T, NEW q \in Seq(T), NEW n \in Int
    PROVE  TokensInRuns(q, n) = Cardinality(LongTokens(q, n))
  <1> DEFINE length == [i \in RunStarts(q) |-> RunLength(q, i)]
             long == {i \in RunStarts(q) : length[i] >= n}
             C == Cells(length, long)
             f == [c \in C |-> c[1] + c[2] - 1]
  <1>1. TokensInRuns(q, n) = Cardinality(C)
    BY DEF TokensInRuns, Total, Cells
  <1>2. \A b \in long : b \in RunStarts(q) /\ length[b] = RunLength(q, b) /\ RunLength(q, b) >= n
    OBVIOUS
  <1>3. ASSUME NEW b \in long
        PROVE  RunLength(q, b) \in Nat /\ b \in Nat /\ b \in DOMAIN q /\ RunTokens(q, b) \subseteq DOMAIN q
    BY <1>2, RunFacts
  <1>4. ASSUME NEW c \in C
        PROVE  c[1] \in long /\ c[2] \in 1 .. length[c[1]] /\ c = <<c[1], c[2]>>
    <2> HIDE DEF length, long
    <2>1. PICK b \in long : \E k \in 1 .. length[b] : c = <<b, k>>
      BY CellOf
    <2> QED
      BY <2>1
  <1>5. \A b \in long : \A k \in 1 .. length[b] : <<b, k>> \in C
    BY CellOf
  <1> HIDE DEF length, long
  <1>6. ASSUME NEW c \in C
        PROVE  f[c] \in RunTokens(q, c[1]) /\ f[c] \in LongTokens(q, n)
    <2> DEFINE b == c[1]
               k == c[2]
    <2>1. b \in long /\ k \in 1 .. RunLength(q, b) /\ f[c] = b + k - 1
      BY <1>2, <1>4
    <2> HIDE DEF b, k, f, C
    <2>2. b + k - 1 \in RunTokens(q, b)
      BY <1>3, <2>1 DEF RunTokens
    <2>3. f[c] \in DOMAIN q
      BY <1>3, <2>1, <2>2
    <2>4. f[c] \in LongTokens(q, n)
      BY <1>2, <2>1, <2>2, <2>3 DEF LongTokens
    <2> QED
      BY <2>1, <2>2, <2>4 DEF b
  <1>7. ASSUME NEW c \in C, NEW d \in C, f[c] = f[d] PROVE c = d
    <2>1. f[c] \in DOMAIN q /\ c[1] \in RunStarts(q) /\ d[1] \in RunStarts(q)
      BY <1>2, <1>4, <1>6 DEF LongTokens
    <2>2. c[1] = d[1]
      <3> HIDE DEF f
      <3> QED
        BY <1>6, <1>7, <2>1, RunOf
    <2>3. c[1] + c[2] - 1 = c[1] + d[2] - 1
      BY <1>7, <2>2
    <2>4. c[1] \in Nat /\ c[2] \in 1 .. RunLength(q, c[1]) /\ d[2] \in 1 .. RunLength(q, c[1])
          /\ RunLength(q, c[1]) \in Nat
      BY <1>2, <1>3, <1>4, <2>2
    <2>5. c[2] = d[2]
      BY <2>3, <2>4
    <2> QED
      BY <1>4, <2>2, <2>5
  <1>8. ASSUME NEW i \in LongTokens(q, n) PROVE \E c \in C : f[c] = i
    <2>1. PICK b \in RunStarts(q) : i \in RunTokens(q, b) /\ RunLength(q, b) >= n
      BY DEF LongTokens
    <2>2. b \in long /\ length[b] = RunLength(q, b)
      BY <2>1 DEF long, length
    <2> DEFINE k == i - b + 1
    <2>3. RunLength(q, b) \in Nat /\ b \in Nat
      BY <1>3, <2>2
    <2>4. k \in 1 .. RunLength(q, b) /\ b + k - 1 = i
      BY <2>1, <2>3 DEF RunTokens
    <2> HIDE DEF k
    <2>5. <<b, k>> \in C
      BY <1>5, <2>2, <2>4
    <2>6. f[<<b, k>>] = i
      BY <2>4, <2>5
    <2> HIDE DEF f, C
    <2> QED
      BY <2>5, <2>6
  <1>9. f \in [C -> LongTokens(q, n)]
    BY <1>6
  <1> HIDE DEF f, C
  <1>10. f \in Bijection(C, LongTokens(q, n))
    BY <1>7, <1>8, <1>9, Fun_IsBij
  <1>11. ExistsBijection(LongTokens(q, n), C)
    BY <1>10, Fun_BijInverse DEF ExistsBijection
  <1>12. IsFiniteSet(LongTokens(q, n))
    BY LongTokensFinite
  <1> QED
    BY <1>1, <1>11, <1>12, FS_Bijection

\* So does GWAR, for every threshold.
LEMMA GwarCounts ==
    ASSUME NEW T, NEW q \in Seq(T), q # <<>>, NEW n \in Nat \ {0}
    PROVE  /\ compute_gwar(q, n) = Cardinality(LongTokens(q, n))
           /\ compute_gwar(q, n) = TokensInRuns(q, n)
           /\ gwar_curve(q, n) = Cardinality(LongTokens(q, n))
  <1>1. TokensInRuns(q, n) = Cardinality(LongTokens(q, n))
    BY RunsCountTokens
  <1>2. CASE n = 1
    <2>1. LongTokens(q, n) = 1 .. Len(q)
      <3>1. ASSUME NEW i \in DOMAIN q PROVE i \in LongTokens(q, n)
        <4>1. PICK b \in RunStarts(q) : i \in RunTokens(q, b)
          BY RunOf
        <4>2. RunLength(q, b) \in Nat \ {0}
          BY RunFacts
        <4>3. RunLength(q, b) >= n
          BY <1>2, <4>2
        <4> QED
          BY <4>1, <4>3 DEF LongTokens
      <3>2. DOMAIN q = 1 .. Len(q)
        OBVIOUS
      <3> QED
        BY <3>1, <3>2, LongTokensFinite
    <2>2. Cardinality(LongTokens(q, n)) = Len(q)
      BY <2>1, UpTo
    <2> QED
      BY <1>1, <1>2, <2>2 DEF compute_gwar, gwar_curve
  <1>3. CASE n # 1
    <2>1. ~(n <= 0) /\ ~(n <= 1)
      BY <1>3
    <2> QED
      BY <1>1, <1>3, <2>1 DEF compute_gwar, gwar_curve
  <1> QED
    BY <1>2, <1>3

\* The tokens of a warp, and the adapters it reads.
LEMMA WarpTokens ==
    ASSUME NEW T, NEW q \in Seq(T), NEW n \in Nat \ {0}, NEW j \in 0 .. (Len(q) \div n) - 1
    PROVE  /\ j * n \in Nat /\ j * n + n <= Len(q)
           /\ ToSet(SubSeq(q, j * n + 1, (j + 1) * n)) = {q[i] : i \in j * n + 1 .. j * n + n}
           /\ j * n + 1 .. j * n + n \subseteq DOMAIN q
  <1> DEFINE a == j * n
             w == Len(q) \div n
             s == SubSeq(q, a + 1, a + n)
  <1>1. Len(q) \in Nat /\ w \in Nat /\ j \in Nat /\ j + 1 <= w
        /\ Len(q) % n \in 0 .. n - 1 /\ Len(q) = n * w + (Len(q) % n)
    <2>1. Len(q) \in Nat /\ n \in Nat
      OBVIOUS
    <2>2. w \in Nat /\ Len(q) % n \in 0 .. n - 1 /\ Len(q) = n * w + (Len(q) % n)
      BY <2>1, Quotient
    <2> QED
      BY <2>1, <2>2
  <1> HIDE DEF w
  <1>2. a \in Nat /\ (j + 1) * n = a + n /\ a + n <= Len(q)
    <2>1. (j + 1) * n <= w * n /\ w * n = n * w /\ (j + 1) * n = j * n + n /\ j * n \in Nat
      BY <1>1
    <2> QED
      BY <1>1, <2>1
  <1> HIDE DEF a
  <1>3. a + 1 .. a + n \subseteq DOMAIN q
    BY <1>1, <1>2
  <1>4. ToSet(s) = {q[i] : i \in a + 1 .. a + n}
    <2>1. Len(s) = n /\ DOMAIN s = 1 .. n /\ \A k \in 1 .. n : s[k] = q[a + k]
      BY <1>1, <1>2
    <2>2. ASSUME NEW k \in 1 .. n PROVE a + k \in a + 1 .. a + n
      BY <1>2
    <2>3. ASSUME NEW i \in a + 1 .. a + n PROVE i - a \in 1 .. n /\ a + (i - a) = i
      BY <1>2
    <2> HIDE DEF s
    <2>4. \A k \in 1 .. n : \E i \in a + 1 .. a + n : s[k] = q[i]
      BY <2>1, <2>2
    <2>5. \A i \in a + 1 .. a + n : \E k \in 1 .. n : s[k] = q[i]
      <3> TAKE i \in a + 1 .. a + n
      <3>1. i - a \in 1 .. n /\ s[i - a] = q[a + (i - a)] /\ a + (i - a) = i
        BY <2>1, <2>3
      <3> QED
        BY <3>1
    <2>6. ToSet(s) = {s[k] : k \in 1 .. n}
      BY <2>1 DEF ToSet
    <2> DEFINE read == {q[i] : i \in a + 1 .. a + n}
    <2>7. ASSUME NEW e \in ToSet(s) PROVE e \in read
      BY <2>4, <2>6
    <2>8. ASSUME NEW e \in read PROVE e \in ToSet(s)
      BY <2>5, <2>6
    <2> HIDE DEF read
    <2>9. ToSet(s) = read
      BY <2>7, <2>8
    <2> QED
      BY <2>9 DEF read
  <1>5. SubSeq(q, a + 1, (j + 1) * n) = s
    BY <1>2
  <1>6. ToSet(SubSeq(q, a + 1, (j + 1) * n)) = {q[i] : i \in a + 1 .. a + n}
    BY <1>4, <1>5
  <1> QED
    BY <1>2, <1>3, <1>6 DEF a

\* The tokens of a homogeneous warp lie in one run, which has as many at least.
LEMMA WarpsLieInRuns ==
    ASSUME NEW T, NEW q \in Seq(T), NEW n \in Nat \ {0}, NEW j \in AlignedWarps(q, n),
           NEW k \in 1 .. n
    PROVE  j * n + k \in LongTokens(q, n)
  <1> DEFINE a == j * n
             S == ToSet(SubSeq(q, a + 1, (j + 1) * n))
  <1>1. j \in 0 .. (Len(q) \div n) - 1 /\ Cardinality(S) = 1
    BY DEF AlignedWarps
  <1>2. /\ a \in Nat /\ a + n <= Len(q) /\ a + 1 .. a + n \subseteq DOMAIN q
        /\ S = {q[i] : i \in a + 1 .. a + n}
    BY <1>1, WarpTokens
  <1> HIDE DEF a, S
  <1>3. IsFiniteSet(S)
    <2> DEFINE W == a + 1 .. a + n
               f == [i \in W |-> q[i]]
    <2>1. IsFiniteSet(W)
      BY <1>2, FS_Interval
    <2>2. f \in [W -> S] /\ \A x \in S : \E i \in W : f[i] = x
      BY <1>2
    <2> HIDE DEF f, W
    <2>3. f \in Surjection(W, S)
      BY <2>2, Fun_IsSurj
    <2> QED
      BY <2>1, <2>3, FS_Surjection
  <1>4. PICK x : S = {x}
    BY <1>1, <1>3, FS_Singleton
  <1>5. \A i \in a + 1 .. a + n : q[i] = x
    BY <1>2, <1>4
  <1>6. a + 1 \in DOMAIN q /\ a + k \in DOMAIN q /\ a + n \in DOMAIN q
        /\ a + 1 \in a + 1 .. a + n
    BY <1>2
  <1>7. PICK b \in RunStarts(q) : a + 1 \in RunTokens(q, b)
    BY <1>6, RunOf
  <1>8. ASSUME NEW i \in RunStarts(q), a + 1 < i, i <= a + n PROVE FALSE
    <2>1. i \in DOMAIN q /\ i \in Int /\ (i = 1 \/ q[i] # q[i - 1])
      BY DEF RunStarts
    <2>2. i \in a + 1 .. a + n /\ i - 1 \in a + 1 .. a + n /\ i # 1
      BY <1>2, <1>8, <2>1
    <2> QED
      BY <1>5, <2>1, <2>2
  <1>9. /\ b \in DOMAIN q /\ RunLength(q, b) \in Nat /\ b <= a + 1
        /\ \A i \in RunStarts(q) : ~(b < i /\ i <= a + 1)
    BY <1>6, <1>7, RunFacts
  <1>10. \A i \in RunStarts(q) : ~(b < i /\ i <= a + n)
    <2> SUFFICES ASSUME NEW i \in RunStarts(q), b < i, i <= a + n PROVE FALSE
      OBVIOUS
    <2>1. i \in Int
      BY DEF RunStarts
    <2> QED
      BY <1>2, <1>8, <1>9, <2>1
  <1>11. b \in Nat /\ b <= a + n /\ b <= a + k /\ \A i \in RunStarts(q) : ~(b < i /\ i <= a + k)
    <2>1. b \in Nat /\ b <= a + n /\ b <= a + k /\ a + k <= a + n
      BY <1>2, <1>9
    <2>2. ASSUME NEW i \in RunStarts(q), b < i, i <= a + k PROVE FALSE
      <3>1. i \in Int
        BY DEF RunStarts
      <3> QED
        BY <1>2, <1>10, <2>1, <2>2, <3>1
    <2> QED
      BY <2>1, <2>2
  <1>12. a + n \in RunTokens(q, b) /\ a + k \in RunTokens(q, b)
    BY <1>6, <1>10, <1>11, RunFacts
  <1>13. RunLength(q, b) >= n
    BY <1>2, <1>9, <1>11, <1>12 DEF RunTokens
  <1>14. a + k \in LongTokens(q, n)
    BY <1>6, <1>12, <1>13 DEF LongTokens
  <1> QED
    BY <1>14 DEF a

LEMMA WarpsBoundGwar ==
    ASSUME NEW T, NEW q \in Seq(T), NEW n \in Nat \ {0}
    PROVE  n * Cardinality(AlignedWarps(q, n)) <= Cardinality(LongTokens(q, n))
  <1> DEFINE A == AlignedWarps(q, n)
             P == A \X (1 .. n)
             f == [p \in P |-> p[1] * n + p[2]]
  <1>1. A \in SUBSET (0 .. (Len(q) \div n) - 1) /\ Len(q) \div n \in Nat
    <2>1. Len(q) \in Nat
      OBVIOUS
    <2>2. Len(q) \div n \in Nat
      BY <2>1, Quotient
    <2> QED
      BY <2>2 DEF AlignedWarps
  <1>2. IsFiniteSet(A) /\ Cardinality(A) \in Nat
    <2>1. 0 \in Int /\ (Len(q) \div n) - 1 \in Int
      BY <1>1
    <2>2. IsFiniteSet(0 .. (Len(q) \div n) - 1)
      BY <2>1, FS_Interval
    <2> HIDE DEF A
    <2> QED
      BY <1>1, <2>2, FS_Subset, FS_CardinalityType
  <1>3. IsFiniteSet(1 .. n) /\ Cardinality(1 .. n) = n
    BY UpTo
  <1>4. Cardinality(P) = Cardinality(A) * n
    BY <1>2, <1>3, FS_Product
  <1>5. \A p \in P : p[1] \in A /\ p[1] \in Nat /\ p[2] \in 1 .. n /\ p = <<p[1], p[2]>>
    BY <1>1
  <1>6. ASSUME NEW p \in P PROVE f[p] \in LongTokens(q, n) /\ f[p] = p[1] * n + p[2]
    BY <1>5, WarpsLieInRuns
  <1>7. ASSUME NEW p \in P PROVE p[1] = (f[p] - 1) \div n
    <2>1. p[1] \in Nat /\ p[2] \in 1 .. n /\ f[p] = p[1] * n + p[2] /\ p[1] * n \in Nat
      BY <1>5, <1>6
    <2> HIDE DEF f
    <2>2. f[p] - 1 \in Nat /\ f[p] - 1 \in p[1] * n .. p[1] * n + n - 1
      BY <2>1
    <2> QED
      BY <2>1, <2>2, QuotientIs
  <1>8. ASSUME NEW p \in P, NEW r \in P, f[p] = f[r] PROVE p = r
    <2>1. p[1] = r[1]
      BY <1>7, <1>8
    <2>2. p[1] * n \in Nat /\ p[2] \in 1 .. n /\ r[2] \in 1 .. n /\ p[1] * n + p[2] = p[1] * n + r[2]
      BY <1>5, <1>6, <1>8, <2>1
    <2>3. p[2] = r[2]
      BY <2>2
    <2> QED
      BY <1>5, <2>1, <2>3
  <1>9. f \in [P -> LongTokens(q, n)]
    BY <1>6
  <1> HIDE DEF f, P, A
  <1>10. f \in Injection(P, LongTokens(q, n))
    BY <1>8, <1>9, Fun_IsInj
  <1>11. Cardinality(P) <= Cardinality(LongTokens(q, n))
    BY <1>10, LongTokensFinite, FS_Injection
  <1>12. Cardinality(A) * n = n * Cardinality(A)
    BY <1>2
  <1> QED
    BY <1>4, <1>11, <1>12 DEF A

\* A set of adapters has one member if its least is its greatest.
LEMMA OneAdapter ==
    ASSUME NEW S \in SUBSET Ids, S # {}
    PROVE  Cardinality(S) = 1 <=> Min(S) = Max(S)
  <1>1. LoraSlots \in Nat
    BY TablesAssumption
  <1>2. IsFiniteSet(S) /\ \A x \in S : x \in Int /\ x + 2 \in 1 .. LoraSlots + 1
    <2>1. IsFiniteSet(Ids)
      BY <1>1, FS_Interval DEF Ids
    <2>2. IsFiniteSet(S)
      BY <2>1, FS_Subset
    <2>3. \A x \in S : x \in Int /\ x + 2 \in 1 .. LoraSlots + 1
      BY <1>1 DEF Ids
    <2> QED
      BY <2>2, <2>3
  <1> DEFINE J == {x + 2 : x \in S}
  <1>3. J \in SUBSET (1 .. LoraSlots + 1) /\ J # {} /\ LoraSlots + 1 \in Nat
    BY <1>1, <1>2
  <1>4. PICK c \in J : \A j \in J : c <= j
    BY <1>3, FirstPlace
  <1>5. PICK d \in J : \A j \in J : j <= d
    BY <1>3, LastPlace
  <1>6. \E x \in S : \A y \in S : x <= y
    <2>1. PICK x \in S : c = x + 2
      OBVIOUS
    <2>2. \A y \in S : x + 2 <= y + 2
      BY <1>4, <2>1
    <2> QED
      BY <1>2, <2>2
  <1>7. \E x \in S : \A y \in S : x >= y
    <2>1. PICK x \in S : d = x + 2
      OBVIOUS
    <2>2. \A y \in S : y + 2 <= x + 2
      BY <1>5, <2>1
    <2> QED
      BY <1>2, <2>2
  <1> HIDE DEF J
  <1>8. Min(S) \in S /\ \A y \in S : Min(S) <= y
    BY <1>6 DEF Min
  <1>9. Max(S) \in S /\ \A y \in S : Max(S) >= y
    BY <1>7 DEF Max
  <1>10. ASSUME Cardinality(S) = 1 PROVE Min(S) = Max(S)
    <2>1. PICK x : S = {x}
      BY <1>2, <1>10, FS_Singleton
    <2> QED
      BY <1>8, <1>9, <2>1
  <1>11. ASSUME Min(S) = Max(S) PROVE Cardinality(S) = 1
    <2> DEFINE x == Min(S)
    <2>1. x \in S /\ x \in Int /\ \A y \in S : x <= y /\ x >= y /\ y \in Int
      BY <1>2, <1>8, <1>9, <1>11
    <2> HIDE DEF x
    <2>2. \A y \in S : y = x
      BY <2>1
    <2>3. S = {x}
      BY <2>1, <2>2
    <2> QED
      BY <2>3, FS_Singleton
  <1> QED
    BY <1>10, <1>11

\* MetricsAgree: the two functions that compute GWAR agree and do not increase
\* with the threshold, WAR's homogeneous warps lie in runs that GWAR counts, and
\* the two functions that compute WAR find the same warps, for every batch.
THEOREM MetricsAgreeAlways == Spec => []MetricsAgree
  <1>1. TablesInv => MetricsAgree
    <2> SUFFICES ASSUME TablesInv, phase = "loaded", NEW n \in 1 .. Len(idx) + 1
                 PROVE  /\ compute_gwar(idx, n) = gwar_curve(idx, n)
                        /\ compute_gwar(idx, n) >= compute_gwar(idx, n + 1)
                        /\ n * Cardinality(AlignedWarps(idx, n)) <= compute_gwar(idx, n)
                        /\ AlignedWarps(idx, n) = AlignedRows(idx, n)
      BY DEF MetricsAgree
    <2>1. idx \in Seq(Ids) /\ idx # <<>>
      BY DEF TablesInv, Kinds, TablesFresh
    <2>2. Len(idx) \in Nat /\ n \in Nat \ {0} /\ n + 1 \in Nat \ {0} /\ n \in Int /\ n + 1 \in Int
      BY <2>1
    <2>3. /\ compute_gwar(idx, n) = Cardinality(LongTokens(idx, n))
          /\ gwar_curve(idx, n) = Cardinality(LongTokens(idx, n))
          /\ compute_gwar(idx, n + 1) = Cardinality(LongTokens(idx, n + 1))
      BY <2>1, <2>2, GwarCounts
    <2>4. compute_gwar(idx, n) >= compute_gwar(idx, n + 1)
      <3>1. LongTokens(idx, n + 1) \in SUBSET LongTokens(idx, n)
        <4> SUFFICES ASSUME NEW i \in LongTokens(idx, n + 1) PROVE i \in LongTokens(idx, n)
          OBVIOUS
        <4>1. PICK b \in RunStarts(idx) : i \in RunTokens(idx, b) /\ RunLength(idx, b) >= n + 1
          BY DEF LongTokens
        <4>2. RunLength(idx, b) \in Nat
          BY <2>1, RunFacts
        <4>3. RunLength(idx, b) >= n
          BY <2>2, <4>1, <4>2
        <4> QED
          BY <4>1, <4>3 DEF LongTokens
      <3>2. /\ IsFiniteSet(LongTokens(idx, n)) /\ Cardinality(LongTokens(idx, n)) \in Nat
            /\ Cardinality(LongTokens(idx, n + 1)) \in Nat
        BY <2>1, LongTokensFinite
      <3>3. Cardinality(LongTokens(idx, n + 1)) <= Cardinality(LongTokens(idx, n))
        BY <3>1, <3>2, FS_Subset
      <3> QED
        BY <2>3, <3>2, <3>3
    <2>5. n * Cardinality(AlignedWarps(idx, n)) <= compute_gwar(idx, n)
      BY <2>1, <2>2, <2>3, WarpsBoundGwar
    <2>6. AlignedWarps(idx, n) = AlignedRows(idx, n)
      <3> DEFINE S(j) == ToSet(SubSeq(idx, j * n + 1, (j + 1) * n))
      <3>1. ASSUME NEW j \in 0 .. (Len(idx) \div n) - 1
            PROVE  Cardinality(S(j)) = 1 <=> Min(S(j)) = Max(S(j))
        <4>1. /\ j * n \in Nat /\ j * n + 1 .. j * n + n \subseteq DOMAIN idx
              /\ S(j) = {idx[i] : i \in j * n + 1 .. j * n + n}
          BY <2>1, <2>2, WarpTokens
        <4> HIDE DEF S
        <4>2. j * n + 1 \in j * n + 1 .. j * n + n
          BY <2>2, <4>1
        <4>3. S(j) \in SUBSET Ids
          <5>1. \A i \in DOMAIN idx : idx[i] \in Ids
            BY <2>1
          <5> QED
            BY <4>1, <5>1
        <4>4. S(j) # {}
          BY <4>1, <4>2
        <4> QED
          BY <4>3, <4>4, OneAdapter
      <3>2. /\ AlignedWarps(idx, n) = {j \in 0 .. (Len(idx) \div n) - 1 : Cardinality(S(j)) = 1}
            /\ AlignedRows(idx, n) = {j \in 0 .. (Len(idx) \div n) - 1 : Min(S(j)) = Max(S(j))}
        BY DEF AlignedWarps, AlignedRows
      <3> HIDE DEF S
      <3> QED
        BY <3>1, <3>2
    <2> QED
      BY <2>3, <2>4, <2>5, <2>6
  <1> QED
    BY <1>1, TablesInvariant, PTL

-----------------------------------------------------------------------------
(***************************************************************************)
(* The device's tables and the host's scan.                                *)
(***************************************************************************)

\* A set of numbers in order: the k-th has k - 1 before it.
LEMMA InOrderFacts ==
    ASSUME NEW n \in Nat, NEW S \in SUBSET (1 .. n)
    PROVE  /\ Cardinality(S) \in Nat /\ DOMAIN InOrder(S) = 1 .. Cardinality(S)
           /\ \A k \in 1 .. Cardinality(S) :
                 /\ InOrder(S)[k] \in S
                 /\ Cardinality({j \in S : j <= InOrder(S)[k]}) = k
           /\ \A x, y \in S : Cardinality({j \in S : j <= x}) = Cardinality({j \in S : j <= y}) => x = y
           /\ \A x \in S : Cardinality({j \in S : j <= x}) \in 1 .. Cardinality(S)
  <1> DEFINE R == {e \in S \X S : e[1] < e[2]}
             rank(x) == Cardinality({y \in S : <<y, x>> \in R})
             below(x) == Cardinality({j \in S : j < x})
             upto(x) == Cardinality({j \in S : j <= x})
  <1>1. IsFiniteSet(S) /\ \A x \in S : x \in Nat
    <2>1. IsFiniteSet(S)
      BY UpTo, FS_Subset
    <2>2. \A x \in S : x \in Nat
      OBVIOUS
    <2> QED
      BY <2>1, <2>2
  <1>2. \A x, y \in S : <<x, y>> \in R <=> x < y
    OBVIOUS
  <1>3. \A x \in S : rank(x) = below(x)
    <2> SUFFICES ASSUME NEW x \in S PROVE rank(x) = below(x)
      OBVIOUS
    <2>1. {y \in S : <<y, x>> \in R} = {j \in S : j < x}
      BY <1>2
    <2> QED
      BY <2>1
  <1>4. /\ \A x \in S : <<x, x>> \notin R
        /\ \A x, y, z \in S : <<x, y>> \in R /\ <<y, z>> \in R => <<x, z>> \in R
        /\ \A x, y \in S : x # y => <<x, y>> \in R \/ <<y, x>> \in R
    <2> HIDE DEF R
    <2> QED
      BY <1>1, <1>2
  <1>5. /\ Cardinality(S) \in Nat
        /\ \A x \in S : rank(x) \in 0 .. Cardinality(S) - 1
        /\ \A x, y \in S : rank(x) = rank(y) => x = y
        /\ \A k \in 1 .. Cardinality(S) : \E x \in S : rank(x) = k - 1
    <2> HIDE DEF R
    <2> QED
      BY <1>1, <1>4, Ranks
  <1> HIDE DEF rank, R
  <1>6. /\ DOMAIN InOrder(S) = 1 .. Cardinality(S)
        /\ \A k \in 1 .. Cardinality(S) : InOrder(S)[k] = CHOOSE i \in S : below(i) = k - 1
    BY DEF InOrder
  <1> HIDE DEF below
  <1>7. ASSUME NEW k \in 1 .. Cardinality(S)
        PROVE  InOrder(S)[k] \in S /\ below(InOrder(S)[k]) = k - 1
    <2>1. \E x \in S : below(x) = k - 1
      BY <1>3, <1>5
    <2> QED
      BY <1>6, <2>1
  <1>8. ASSUME NEW x \in S
        PROVE  upto(x) = below(x) + 1 /\ below(x) \in 0 .. Cardinality(S) - 1
    <2>1. {j \in S : j <= x} = {j \in S : j < x} \cup {x} /\ x \notin {j \in S : j < x}
      <3>1. \A j \in S : (j <= x <=> j < x \/ j = x) /\ ~(x < x)
        BY <1>1
      <3> QED
        BY <3>1
    <2>2. IsFiniteSet({j \in S : j < x})
      BY <1>1, FS_Subset
    <2>3. Cardinality({j \in S : j < x} \cup {x}) = Cardinality({j \in S : j < x}) + 1
      BY <2>1, <2>2, FS_AddElement
    <2>4. below(x) \in 0 .. Cardinality(S) - 1
      BY <1>3, <1>5
    <2> QED
      BY <2>1, <2>3, <2>4 DEF below
  <1> HIDE DEF upto
  <1>9. ASSUME NEW k \in 1 .. Cardinality(S)
        PROVE  upto(InOrder(S)[k]) = k
    <2> DEFINE y == InOrder(S)[k]
    <2>1. y \in S /\ below(y) = k - 1
      BY <1>7
    <2> HIDE DEF y
    <2>2. upto(y) = (k - 1) + 1
      BY <1>8, <2>1
    <2>3. (k - 1) + 1 = k
      BY <1>5
    <2> QED
      BY <2>2, <2>3 DEF y
  <1>10. ASSUME NEW x \in S, NEW y \in S, upto(x) = upto(y)
         PROVE  x = y
    <2>1. below(x) = below(y)
      BY <1>5, <1>8, <1>10
    <2> QED
      BY <1>3, <1>5, <2>1
  <1>11. ASSUME NEW x \in S PROVE upto(x) \in 1 .. Cardinality(S)
    BY <1>5, <1>8
  <1>12. /\ Cardinality(S) \in Nat /\ DOMAIN InOrder(S) = 1 .. Cardinality(S)
         /\ \A k \in 1 .. Cardinality(S) : InOrder(S)[k] \in S /\ upto(InOrder(S)[k]) = k
         /\ \A x, y \in S : upto(x) = upto(y) => x = y
         /\ \A x \in S : upto(x) \in 1 .. Cardinality(S)
    BY <1>5, <1>6, <1>7, <1>9, <1>10, <1>11
  <1> QED
    BY <1>12 DEF upto

\* While the runs fit into the table, the r-th of them has the r-th slot.
LEMMA SlotsAreRuns ==
    ASSUME NEW T, NEW ids \in Seq(T), Cardinality(RunStarts(ids)) <= n_loras,
           NEW r \in 1 .. Cardinality(RunStarts(ids))
    PROVE  LET b == InOrder(RunStarts(ids))[r]
           IN  /\ r - 1 \in Slots /\ b \in RunStarts(ids)
               /\ TokensOf(ids, r - 1) = RunTokens(ids, b)
  <1> DEFINE S == RunStarts(ids)
             b == InOrder(S)[r]
             c(x) == Cardinality(StartsUpTo(ids, x))
  <1>1. S \in SUBSET (1 .. Len(ids)) /\ Len(ids) \in Nat /\ Cardinality(S) \in Nat
    BY StartsFinite
  <1>2. \A x : c(x) = Cardinality({j \in S : j <= x})
    BY DEF StartsUpTo
  <1> HIDE DEF S, c
  <1>3. b \in S /\ c(b) = r /\ \A x, y \in S : c(x) = c(y) => x = y
    BY <1>1, <1>2, InOrderFacts DEF S
  <1>4. r - 1 \in Slots
    BY <1>1, SlotsNumber DEF Slots, S
  <1> HIDE DEF b
  <1>5. ASSUME NEW i \in DOMAIN ids PROVE SlotOf(ids, i) = r - 1 <=> c(i) = r
    <2>1. SlotOf(ids, i) = c(i) - 1
      BY SlotFacts DEF c
    <2>2. c(i) \in Nat
      BY StartsFinite DEF c
    <2> QED
      BY <2>1, <2>2
  <1>6. ASSUME NEW d \in S, NEW i \in RunTokens(ids, d) PROVE i \in DOMAIN ids /\ c(i) = c(d)
    <2>1. i \in DOMAIN ids /\ d \in DOMAIN ids
      BY RunFacts DEF S
    <2>2. d <= i /\ \A j \in S : ~(d < j /\ j <= i)
      BY <2>1, RunFacts DEF S
    <2>3. StartsUpTo(ids, i) = StartsUpTo(ids, d)
      <3>1. ASSUME NEW j \in S PROVE j <= i <=> j <= d
        BY <1>1, <2>1, <2>2
      <3> QED
        BY <3>1 DEF StartsUpTo, S
    <2> QED
      BY <2>1, <2>3 DEF c
  <1>7. ASSUME NEW i \in TokensOf(ids, r - 1) PROVE i \in RunTokens(ids, b)
    <2>1. i \in DOMAIN ids /\ c(i) = r
      BY <1>5 DEF TokensOf
    <2>2. PICK d \in S : i \in RunTokens(ids, d)
      BY <2>1, RunOf DEF S
    <2>3. d = b
      BY <1>3, <1>6, <2>1, <2>2
    <2> QED
      BY <2>2, <2>3
  <1>8. ASSUME NEW i \in RunTokens(ids, b) PROVE i \in TokensOf(ids, r - 1)
    <2>1. i \in DOMAIN ids /\ c(i) = r
      BY <1>3, <1>6
    <2> QED
      BY <1>5, <2>1 DEF TokensOf
  <1>9. TokensOf(ids, r - 1) = RunTokens(ids, b)
    BY <1>7, <1>8
  <1> QED
    BY <1>3, <1>4, <1>9 DEF b, S

\* The tokens a slot holds.
Held(sg, s) == {sg.start[s] + i : i \in 1 .. sg.length[s]}

\* So the table holds the start, the length and the adapter of each run.
LEMMA TableOfRun ==
    ASSUME NEW T, NEW ids \in Seq(T), NEW sg, Describes(sg, ids),
           Cardinality(RunStarts(ids)) <= n_loras,
           NEW r \in 1 .. Cardinality(RunStarts(ids))
    PROVE  LET b == InOrder(RunStarts(ids))[r]
           IN  /\ sg.start[r - 1] = b - 1 /\ sg.length[r - 1] = RunLength(ids, b)
               /\ sg.lora[r - 1] = ids[b]
               /\ Held(sg, r - 1) = RunTokens(ids, b)
  <1> DEFINE b == InOrder(RunStarts(ids))[r]
             n == RunLength(ids, b)
             x == sg.start[r - 1]
             y == sg.length[r - 1]
             s == r - 1
  <1>1. s \in Slots /\ b \in RunStarts(ids) /\ TokensOf(ids, s) = RunTokens(ids, b)
    BY SlotsAreRuns
  <1>2. x \in Nat /\ y \in Nat /\ TokensOf(ids, s) = x + 1 .. x + y
    BY <1>1 DEF Describes
  <1>3. b \in Nat /\ b >= 1 /\ n \in Nat /\ n >= 1 /\ b \in DOMAIN ids
        /\ RunTokens(ids, b) = b .. b + n - 1
    <2>1. RunLength(ids, b) \in Nat \ {0} /\ b \in DOMAIN ids
      BY <1>1, RunFacts
    <2> HIDE DEF b
    <2> QED
      BY <2>1 DEF RunTokens
  <1>4. sg.lora[s] = ids[b]
    <2>1. b \in TokensOf(ids, s)
      <3> HIDE DEF b, n, s
      <3> QED
        BY <1>1, <1>3
    <2>2. PICK i \in TokensOf(ids, s) : sg.lora[s] = ids[i]
      BY <1>1, <2>1 DEF Describes
    <2>3. i \in DOMAIN ids /\ SlotOf(ids, i) = SlotOf(ids, b)
      BY <2>1 DEF TokensOf
    <2>4. ids[i] = ids[b]
      <3> HIDE DEF b, s
      <3> QED
        BY <1>3, <2>3, SlotFacts
    <2> QED
      BY <2>2, <2>4
  <1> HIDE DEF b, n, x, y, s
  <1>5. x + 1 .. x + y = b .. b + n - 1
    BY <1>1, <1>2, <1>3
  <1>6. b \in x + 1 .. x + y /\ b + n - 1 \in x + 1 .. x + y
    <2>1. b \in b .. b + n - 1 /\ b + n - 1 \in b .. b + n - 1
      BY <1>3
    <2> QED
      BY <1>5, <2>1
  <1>7. x + 1 \in b .. b + n - 1 /\ x + y \in b .. b + n - 1
    BY <1>2, <1>3, <1>5, <1>6
  <1>8. x = b - 1 /\ y = n
    BY <1>2, <1>3, <1>6, <1>7
  <1>9. {x + i : i \in 1 .. y} = x + 1 .. x + y
    <2>1. ASSUME NEW i \in 1 .. y PROVE x + i \in x + 1 .. x + y
      BY <1>2
    <2>2. ASSUME NEW e \in x + 1 .. x + y PROVE e - x \in 1 .. y /\ e = x + (e - x)
      BY <1>2
    <2>3. \A e \in x + 1 .. x + y : \E i \in 1 .. y : e = x + i
      BY <2>2
    <2> QED
      BY <2>1, <2>3
  <1>10. Held(sg, s) = RunTokens(ids, b)
    <2>1. Held(sg, s) = {x + i : i \in 1 .. y}
      BY DEF Held, x, y, s
    <2> QED
      BY <1>1, <1>2, <1>9, <2>1
  <1> QED
    BY <1>4, <1>8, <1>10 DEF b, n, x, y, s

\* And a sum over the slots that hold long runs is the sum over those runs.
LEMMA SlotsSumRuns ==
    ASSUME NEW T, NEW ids \in Seq(T), NEW sg, Describes(sg, ids),
           Cardinality(RunStarts(ids)) <= n_loras, NEW n \in Nat \ {0}
    PROVE  Total(sg.length, {s \in Slots : sg.length[s] >= n}) = TokensInRuns(ids, n)
  <1> DEFINE S == RunStarts(ids)
             p == InOrder(S)
             c(x) == Cardinality({j \in S : j <= x})
             runLength == [i \in S |-> RunLength(ids, i)]
             long == {i \in S : runLength[i] >= n}
             L == sg.length
             slots == {s \in Slots : L[s] >= n}
             f == [b \in long |-> c(b) - 1]
             g == [s \in slots |-> p[s + 1]]
  <1>1. TokensInRuns(ids, n) = Total(runLength, long)
    BY DEF TokensInRuns
  <1>2. S \in SUBSET (1 .. Len(ids)) /\ Len(ids) \in Nat /\ IsFiniteSet(S)
    BY StartsFinite
  <1>3. /\ Cardinality(S) \in Nat
        /\ \A k \in 1 .. Cardinality(S) : p[k] \in S /\ c(p[k]) = k
        /\ \A x, y \in S : c(x) = c(y) => x = y
        /\ \A x \in S : c(x) \in 1 .. Cardinality(S)
    <2> HIDE DEF S
    <2> QED
      BY <1>2, InOrderFacts
  <1>4. \A s \in Slots : L[s] \in Nat
    BY DEF Describes
  <1>5. \A i \in S : runLength[i] = RunLength(ids, i) /\ RunLength(ids, i) \in Nat
    BY RunFacts
  <1>6. ASSUME NEW k \in 1 .. Cardinality(S)
        PROVE  k - 1 \in Slots /\ L[k - 1] = RunLength(ids, p[k])
    BY SlotsAreRuns, TableOfRun
  <1>7. ASSUME NEW s \in slots PROVE s + 1 \in 1 .. Cardinality(S) /\ s \in Nat
    <2>1. s \in Slots /\ s \in Nat /\ L[s] \in Nat /\ L[s] >= n
      BY <1>4, SlotsNumber
    <2>2. sg.start[s] \in Nat /\ TokensOf(ids, s) = sg.start[s] + 1 .. sg.start[s] + L[s]
      BY <2>1 DEF Describes
    <2>3. sg.start[s] + 1 \in TokensOf(ids, s)
      <3> HIDE DEF L
      <3> QED
        BY <2>1, <2>2
    <2>4. PICK i \in DOMAIN ids : SlotOf(ids, i) = s
      BY <2>3 DEF TokensOf
    <2>5. s = Cardinality(StartsUpTo(ids, i)) - 1
      BY <2>4, SlotFacts
    <2>6. StartsUpTo(ids, i) \in SUBSET S
      BY DEF StartsUpTo
    <2>7. Cardinality(StartsUpTo(ids, i)) \in Nat /\ Cardinality(StartsUpTo(ids, i)) <= Cardinality(S)
      BY <1>2, <2>6, FS_Subset, FS_CardinalityType
    <2> HIDE DEF S
    <2> QED
      BY <1>3, <2>1, <2>5, <2>7
  <1> HIDE DEF S, p, c, runLength, L
  <1>8. ASSUME NEW b \in long
        PROVE  f[b] \in slots /\ L[f[b]] = runLength[b]
    <2>1. b \in S /\ runLength[b] >= n /\ f[b] = c(b) - 1
      OBVIOUS
    <2>2. c(b) \in 1 .. Cardinality(S) /\ p[c(b)] = b
      BY <1>3, <2>1
    <2>3. f[b] \in Slots /\ L[f[b]] = RunLength(ids, b)
      BY <1>6, <2>1, <2>2
    <2>4. runLength[b] = RunLength(ids, b)
      BY <1>5, <2>1
    <2> HIDE DEF f
    <2> QED
      BY <2>1, <2>3, <2>4
  <1>9. ASSUME NEW s \in slots
        PROVE  g[s] \in long /\ runLength[g[s]] = L[s]
    <2>1. s + 1 \in 1 .. Cardinality(S) /\ s \in Nat /\ L[s] >= n /\ g[s] = p[s + 1]
      BY <1>7
    <2>2. L[(s + 1) - 1] = RunLength(ids, p[s + 1]) /\ (s + 1) - 1 = s
      BY <1>6, <2>1
    <2>3. p[s + 1] \in S /\ runLength[p[s + 1]] = RunLength(ids, p[s + 1])
      BY <1>3, <1>5, <2>1
    <2> HIDE DEF g
    <2> QED
      BY <2>1, <2>2, <2>3
  <1>10. ASSUME NEW a \in long, NEW b \in long, f[a] = f[b] PROVE a = b
    <2>1. a \in S /\ b \in S /\ c(a) - 1 = c(b) - 1
      BY <1>10
    <2>2. c(a) = c(b)
      BY <1>3, <2>1
    <2> QED
      BY <1>3, <2>1, <2>2
  <1>11. ASSUME NEW s \in slots, NEW t \in slots, g[s] = g[t] PROVE s = t
    <2>1. p[s + 1] = p[t + 1] /\ s + 1 \in 1 .. Cardinality(S) /\ t + 1 \in 1 .. Cardinality(S)
          /\ s \in Nat /\ t \in Nat
      BY <1>7, <1>11
    <2>2. s + 1 = t + 1
      BY <1>3, <2>1
    <2> QED
      BY <2>1, <2>2
  <1>12. IsFiniteSet(long) /\ IsFiniteSet(slots)
    <2>1. IsFiniteSet(Slots)
      BY SlotsNumber, FS_Interval DEF Slots
    <2> QED
      BY <1>2, <2>1, FS_Subset
  <1>13. Counts(runLength, long) /\ Counts(L, slots)
    BY <1>4, <1>5 DEF Counts
  <1>14. /\ f \in [long -> slots] /\ g \in [slots -> long]
         /\ \A b \in long : runLength[b] <= L[f[b]]
         /\ \A s \in slots : L[s] <= runLength[g[s]]
    <2>1. f \in [long -> slots] /\ g \in [slots -> long]
      BY <1>8, <1>9
    <2> HIDE DEF f, g
    <2>2. ASSUME NEW b \in long PROVE runLength[b] <= L[f[b]]
      BY <1>5, <1>8
    <2>3. ASSUME NEW s \in slots PROVE L[s] <= runLength[g[s]]
      BY <1>4, <1>9
    <2> QED
      BY <2>1, <2>2, <2>3
  <1> HIDE DEF f, g, long, slots
  <1>15. Total(runLength, long) <= Total(L, slots)
    BY <1>10, <1>12, <1>13, <1>14, TotalMatched
  <1>16. Total(L, slots) <= Total(runLength, long)
    BY <1>11, <1>12, <1>13, <1>14, TotalMatched
  <1>17. Total(L, slots) \in Nat /\ Total(runLength, long) \in Nat
    BY <1>12, <1>13, CellsFinite
  <1>18. Total(L, slots) = Total(runLength, long)
    BY <1>15, <1>16, <1>17
  <1> QED
    BY <1>1, <1>18 DEF L, slots

\* What TablesMatchRuns says of a table and its batch.
MatchesScan(sg, ids) ==
    /\ \A r \in DOMAIN Runs(ids) :
          /\ sg.length[r - 1] = Runs(ids)[r].size /\ sg.lora[r - 1] = Runs(ids)[r].adapter
          /\ Held(sg, r - 1) = segment_and_promote(ids, [i \in DOMAIN ids |-> FALSE])[r].seq_ids
    /\ \A n \in 1 .. Len(ids) + 1 :
          compute_gwar(ids, n) = Total(sg.length, {s \in Slots : sg.length[s] >= n})

LEMMA TableMatchesScan ==
    ASSUME NEW T, NEW ids \in Seq(T), ids # <<>>, NEW sg, Describes(sg, ids),
           Cardinality(RunStarts(ids)) <= n_loras
    PROVE  MatchesScan(sg, ids)
  <1> DEFINE p == InOrder(RunStarts(ids))
             flags == [i \in DOMAIN ids |-> FALSE]
  <1>1. RunStarts(ids) \in SUBSET (1 .. Len(ids)) /\ Len(ids) \in Nat
    BY StartsFinite
  <1>2. DOMAIN p = 1 .. Cardinality(RunStarts(ids))
    BY <1>1, InOrderFacts
  <1>3. ~Mixed(ids, flags)
    <2> SUFFICES ASSUME NEW i \in DOMAIN ids, i > 1, flags[i] # flags[i - 1]
                 PROVE  FALSE
      BY DEF Mixed
    <2>1. i \in 1 .. Len(ids) /\ DOMAIN ids = 1 .. Len(ids) /\ Len(ids) \in Nat
      OBVIOUS
    <2>2. i - 1 \in DOMAIN ids
      BY <2>1
    <2> QED
      BY <2>2
  <1>4. ASSUME NEW r \in DOMAIN Runs(ids)
        PROVE  /\ sg.length[r - 1] = Runs(ids)[r].size /\ sg.lora[r - 1] = Runs(ids)[r].adapter
               /\ Held(sg, r - 1) = segment_and_promote(ids, flags)[r].seq_ids
    <2>1. r \in 1 .. Cardinality(RunStarts(ids)) /\ r \in DOMAIN p
      BY <1>2 DEF Runs
    <2>2. Runs(ids)[r] = [adapter |-> ids[p[r]], size |-> RunLength(ids, p[r])]
      BY <2>1 DEF Runs
    <2>3. segment_and_promote(ids, flags)[r].seq_ids = RunTokens(ids, p[r])
      BY <1>3, <2>1 DEF segment_and_promote, RunTokens
    <2>4. /\ sg.length[r - 1] = RunLength(ids, p[r]) /\ sg.lora[r - 1] = ids[p[r]]
          /\ Held(sg, r - 1) = RunTokens(ids, p[r])
      BY <2>1, TableOfRun
    <2> HIDE DEF p, flags
    <2> QED
      BY <2>2, <2>3, <2>4
  <1>5. ASSUME NEW n \in 1 .. Len(ids) + 1
        PROVE  compute_gwar(ids, n) = Total(sg.length, {s \in Slots : sg.length[s] >= n})
    <2>1. n \in Nat \ {0}
      BY <1>1
    <2>2. compute_gwar(ids, n) = TokensInRuns(ids, n)
      BY <2>1, GwarCounts
    <2>3. Total(sg.length, {s \in Slots : sg.length[s] >= n}) = TokensInRuns(ids, n)
      BY <2>1, SlotsSumRuns
    <2> QED
      BY <2>2, <2>3
  <1> QED
    BY <1>4, <1>5 DEF MatchesScan

\* TablesMatchRuns: as long as the runs of a decode batch fit into the table, the
\* segments the device computes are those of the host's scan, in its order, and
\* GWAR can be read off their lengths.
THEOREM TablesAreRuns == Spec => []TablesMatchRuns
  <1>1. TablesInv => TablesMatchRuns
    <2> SUFFICES ASSUME TablesInv, phase = "loaded", ~isPrefill,
                        Cardinality(RunStarts(idx)) <= n_loras,
                        NEW ids, ids = idx, NEW sg, sg = seg
                 PROVE  MatchesScan(sg, ids)
      BY DEF TablesMatchRuns, MatchesScan, Held
    <2>1. ids \in Seq(Ids) /\ ids # <<>> /\ sg \in SegmentTablesOf(ids)
      BY DEF TablesInv, Kinds, TablesFresh
    <2>2. Describes(sg, ids) /\ Cardinality(RunStarts(ids)) <= n_loras
      BY <2>1, TableDescribes
    <2> QED
      BY <2>1, <2>2, TableMatchesScan
  <1> QED
    BY <1>1, TablesInvariant, PTL

-----------------------------------------------------------------------------
(***************************************************************************)
(* The batches of the scheduler.  They may have more runs than the table   *)
(* has slots (DecodeRowsTheirAdapter fails); how many they can have.       *)
(***************************************************************************)

LEMMA EntriesFinite ==
    ASSUME NEW ids \in Seq(Ids)
    PROVE  IsFiniteSet(ToSet(ids))
  <1>1. DOMAIN ids = 1 .. Len(ids) /\ Len(ids) \in Nat
    OBVIOUS
  <1>2. IsFiniteSet(1 .. Len(ids))
    BY <1>1, UpTo
  <1>3. ids \in Surjection(1 .. Len(ids), ToSet(ids))
    BY <1>1 DEF Surjection, ToSet
  <1> QED
    BY <1>2, <1>3, FS_Surjection

\* A part of a batch with one run for each entry has no more runs than there
\* are entries.
LEMMA RunsOfPart ==
    ASSUME NEW ids \in Seq(Ids), NEW lo \in 1 .. Len(ids) + 1, NEW hi \in 0 .. Len(ids),
           \A s \in Ids :
              Cardinality({r \in RunStarts(SubSeq(ids, lo, hi)) : ids[lo + r - 1] = s}) <= 1
    PROVE  LET P == {r \in RunStarts(ids) : lo <= r /\ r <= hi}
           IN  IsFiniteSet(P) /\ Cardinality(P) <= Cardinality(ToSet(ids))
  <1> DEFINE P == {r \in RunStarts(ids) : lo <= r /\ r <= hi}
             part == SubSeq(ids, lo, hi)
             same(s) == {r \in RunStarts(part) : ids[lo + r - 1] = s}
             entry == [r \in P |-> ids[r]]
  <1>1. /\ DOMAIN ids = 1 .. Len(ids) /\ Len(ids) \in Nat /\ lo \in Nat /\ hi \in Nat
        /\ lo >= 1 /\ hi <= Len(ids) /\ \A r \in DOMAIN ids : ids[r] \in Ids
    OBVIOUS
  <1>2. P \in SUBSET (1 .. Len(ids)) /\ IsFiniteSet(P)
    <2>1. RunStarts(ids) \subseteq 1 .. Len(ids) /\ IsFiniteSet(RunStarts(ids))
      BY StartsFinite
    <2> QED
      BY <2>1, FS_Subset
  <1>3. ASSUME NEW r \in P
        PROVE  r - lo + 1 \in RunStarts(part) /\ lo + (r - lo + 1) - 1 = r
    <2>1. r \in Nat /\ lo <= r /\ r <= hi /\ (r = 1 \/ ids[r] # ids[r - 1])
      BY <1>1, <1>2 DEF RunStarts
    <2>2. /\ part \in Seq(Ids) /\ Len(part) = hi - lo + 1
          /\ \A k \in 1 .. hi - lo + 1 : part[k] = ids[lo + k - 1]
      BY <1>1, <2>1
    <2> HIDE DEF part
    <2> DEFINE k == r - lo + 1
    <2>3. k \in 1 .. hi - lo + 1 /\ lo + k - 1 = r
      BY <1>1, <2>1
    <2>4. k # 1 => r # 1 /\ k - 1 \in 1 .. hi - lo + 1 /\ lo + (k - 1) - 1 = r - 1
      BY <1>1, <2>1
    <2>5. DOMAIN part = 1 .. hi - lo + 1
      BY <2>2
    <2> HIDE DEF k
    <2>6. k \in DOMAIN part /\ part[k] = ids[r]
      BY <2>2, <2>3, <2>5
    <2>7. k # 1 => part[k - 1] = ids[r - 1] /\ ids[r] # ids[r - 1]
      BY <2>1, <2>2, <2>4
    <2>8. k \in RunStarts(part)
      BY <2>6, <2>7 DEF RunStarts
    <2> QED
      BY <2>3, <2>8 DEF k
  <1>4. \A s : IsFiniteSet(same(s))
    <2>1. part \in Seq(Ids)
      BY <1>1
    <2> HIDE DEF part
    <2>2. IsFiniteSet(RunStarts(part)) /\ \A s : same(s) \in SUBSET RunStarts(part)
      BY <2>1, StartsFinite
    <2> QED
      BY <2>2, FS_Subset
  <1>5. ASSUME NEW q \in P, NEW r \in P, ids[q] = ids[r] PROVE q = r
    <2> DEFINE x == q - lo + 1
               y == r - lo + 1
               s == ids[q]
               S == same(s)
    <2>1. x \in S /\ y \in S
      BY <1>3, <1>5
    <2>2. Cardinality(S) <= 1 /\ IsFiniteSet(S)
      <3>1. s \in Ids
        BY <1>1, <1>2
      <3> QED
        BY <1>4, <3>1
    <2> HIDE DEF S, x, y, part
    <2>3. x = y
      <3>1. CASE x # y
        <4> DEFINE X == {x}
                   Y == X \cup {y}
        <4>1. Cardinality(X) = 1 /\ IsFiniteSet(X)
          BY FS_Singleton
        <4>2. y \notin X /\ Y \in SUBSET S
          BY <2>1, <3>1
        <4> HIDE DEF X
        <4>3. Cardinality(Y) = Cardinality(X) + 1
          BY <4>1, <4>2, FS_AddElement
        <4> HIDE DEF Y
        <4>4. Cardinality(Y) <= Cardinality(S) /\ Cardinality(S) \in Nat
          BY <2>2, <4>2, FS_Subset, FS_CardinalityType
        <4> QED
          BY <2>2, <4>1, <4>3, <4>4
      <3> QED
        BY <3>1
    <2>4. lo + x - 1 = q /\ lo + y - 1 = r
      BY <1>3 DEF x, y
    <2> QED
      BY <2>3, <2>4
  <1>6. IsFiniteSet(ToSet(ids))
    BY EntriesFinite
  <1>7. entry \in Injection(P, ToSet(ids))
    <2>1. \A r \in P : ids[r] \in ToSet(ids)
      BY <1>1, <1>2 DEF ToSet
    <2>2. entry \in [P -> ToSet(ids)]
      BY <2>1
    <2>3. \A q, r \in P : entry[q] = entry[r] => q = r
      BY <1>5
    <2> HIDE DEF entry, P
    <2> QED
      BY <2>2, <2>3 DEF Injection, IsInjective
  <1> HIDE DEF P, entry
  <1>8. Cardinality(P) <= Cardinality(ToSet(ids))
    BY <1>6, <1>7, FS_Injection DEF ExistsInjection
  <1> QED
    BY <1>2, <1>8 DEF P

\* The scheduler's batches have two runs for each entry, one among the aligned
\* groups and one among the dispatched ones, and the padding.
LEMMA EmittedRuns ==
    ASSUME NEW ids \in Seq(Ids), Emitted(ids)
    PROVE  Cardinality(RunStarts(ids)) <= 2 * Cardinality(ToSet(ids)) + 1
  <1> DEFINE one(lo, hi) ==
                \A s \in Ids :
                    Cardinality({r \in RunStarts(SubSeq(ids, lo, hi)) : ids[lo + r - 1] = s}) <= 1
             P(lo, hi) == {r \in RunStarts(ids) : lo <= r /\ r <= hi}
             n == Cardinality(ToSet(ids))
  <1>1. PICK i \in 0 .. Len(ids), j \in 0 .. Len(ids) :
            /\ i <= j /\ one(1, i) /\ one(i + 1, j)
            /\ \A r \in j + 1 .. Len(ids) : ids[r] = -1
    BY DEF Emitted, Ids
  <1>2. Len(ids) \in Nat /\ i \in Nat /\ j \in Nat /\ DOMAIN ids = 1 .. Len(ids)
    OBVIOUS
  <1>3. IsFiniteSet(P(1, i)) /\ Cardinality(P(1, i)) <= n
    <2>1. 1 \in 1 .. Len(ids) + 1
      BY <1>2
    <2> QED
      BY <1>1, <2>1, RunsOfPart
  <1>4. IsFiniteSet(P(i + 1, j)) /\ Cardinality(P(i + 1, j)) <= n
    <2>1. i + 1 \in 1 .. Len(ids) + 1
      BY <1>1, <1>2
    <2> QED
      BY <1>1, <2>1, RunsOfPart
  <1>5. RunStarts(ids) \subseteq (P(1, i) \cup P(i + 1, j)) \cup {j + 1}
    <2> SUFFICES ASSUME NEW r \in RunStarts(ids), ~(1 <= r /\ r <= i), ~(i + 1 <= r /\ r <= j)
                 PROVE  r = j + 1
      OBVIOUS
    <2>1. r \in 1 .. Len(ids) /\ (r = 1 \/ ids[r] # ids[r - 1])
      BY <1>2 DEF RunStarts
    <2>2. r > j
      BY <1>1, <1>2, <2>1
    <2>3. CASE r > j + 1
      <3>1. r \in j + 1 .. Len(ids) /\ r - 1 \in j + 1 .. Len(ids) /\ r # 1
        BY <1>2, <2>1, <2>3
      <3> QED
        BY <1>1, <2>1, <3>1
    <2> QED
      BY <1>2, <2>1, <2>2, <2>3
  <1> DEFINE A == P(1, i)
             B == P(i + 1, j)
  <1>6. /\ IsFiniteSet(A) /\ Cardinality(A) <= n /\ IsFiniteSet(B) /\ Cardinality(B) <= n
        /\ RunStarts(ids) \subseteq (A \cup B) \cup {j + 1}
    BY <1>3, <1>4, <1>5
  <1> HIDE DEF A, B
  <1>7. IsFiniteSet(A \cup B) /\ Cardinality(A \cup B) <= Cardinality(A) + Cardinality(B)
    <2>1. /\ IsFiniteSet(A \cup B)
          /\ Cardinality(A \cup B) = Cardinality(A) + Cardinality(B) - Cardinality(A \cap B)
      BY <1>6, FS_Union
    <2>2. Cardinality(A) \in Nat /\ Cardinality(B) \in Nat /\ Cardinality(A \cap B) \in Nat
      BY <1>6, FS_Intersection, FS_CardinalityType
    <2> QED
      BY <2>1, <2>2
  <1> DEFINE C == A \cup B
             k == j + 1
  <1> HIDE DEF C, k
  <1>8. IsFiniteSet(C \cup {k}) /\ Cardinality(C \cup {k}) <= Cardinality(C) + 1
    <2>1. IsFiniteSet(C) /\ Cardinality(C) \in Nat
      BY <1>7, FS_CardinalityType DEF C
    <2>2. /\ IsFiniteSet(C \cup {k})
          /\ Cardinality(C \cup {k}) = IF k \in C THEN Cardinality(C) ELSE Cardinality(C) + 1
      BY <2>1, FS_AddElement
    <2> DEFINE c == Cardinality(C)
               d == Cardinality(C \cup {k})
    <2>3. c \in Nat /\ (d = c \/ d = c + 1)
      BY <2>1, <2>2
    <2> HIDE DEF c, d
    <2>4. d <= c + 1
      BY <2>3
    <2> QED
      BY <2>2, <2>4 DEF c, d
  <1>9. Cardinality(RunStarts(ids)) <= Cardinality(C \cup {k})
    <2>1. RunStarts(ids) \in SUBSET (C \cup {k})
      BY <1>6 DEF C, k
    <2> QED
      BY <1>8, <2>1, FS_Subset
  <1>10. /\ Cardinality(RunStarts(ids)) \in Nat /\ n \in Nat
         /\ Cardinality(A) \in Nat /\ Cardinality(B) \in Nat
         /\ Cardinality(C) \in Nat /\ Cardinality(C \cup {k}) \in Nat
         /\ Cardinality(C) <= Cardinality(A) + Cardinality(B)
    <2>1. IsFiniteSet(RunStarts(ids)) /\ IsFiniteSet(ToSet(ids))
      BY StartsFinite, EntriesFinite
    <2>2. Cardinality(RunStarts(ids)) \in Nat /\ n \in Nat
      BY <2>1, FS_CardinalityType
    <2>3. Cardinality(A) \in Nat /\ Cardinality(B) \in Nat
      BY <1>6, FS_CardinalityType
    <2>4. IsFiniteSet(C) /\ Cardinality(C) <= Cardinality(A) + Cardinality(B)
      BY <1>7 DEF C
    <2>5. Cardinality(C) \in Nat /\ Cardinality(C \cup {k}) \in Nat
      BY <1>8, <2>4, FS_CardinalityType
    <2> QED
      BY <2>2, <2>3, <2>4, <2>5
  <1> HIDE DEF n
  <1> QED
    BY <1>6, <1>8, <1>9, <1>10 DEF n

\* A batch with at most half as many different entries as there are LoRA slots.
HalfTheSlots == 2 * Cardinality(ToSet(idx)) <= LoraSlots

\* What remains of "the AlignmentBuffer already emits an adapter-contiguous
\* decode batch": no decode batch of the scheduler has a row with the wrong
\* adapter while its entries take up at most half of the slots, for every number
\* of slots, tile and capture size.  The counterexample to
\* DecodeRowsTheirAdapter needs more.
THEOREM HalfTheSlotsSuffice == Spec => [](HalfTheSlots => DecodeRowsTheirAdapter)
  <1>1. TablesInv /\ EachRowItsAdapter => (HalfTheSlots => DecodeRowsTheirAdapter)
    <2> SUFFICES ASSUME TablesInv, EachRowItsAdapter, HalfTheSlots,
                        phase = "ran", Emitted(idx), NEW r \in DOMAIN idx
                 PROVE  OwnAdapter(r)
      BY DEF DecodeRowsTheirAdapter
    <2>1. idx \in Seq(Ids)
      BY DEF TablesInv, Kinds
    <2>2. Cardinality(RunStarts(idx)) <= 2 * Cardinality(ToSet(idx)) + 1
      BY <2>1, EmittedRuns
    <2>3. /\ Cardinality(RunStarts(idx)) \in Nat /\ Cardinality(ToSet(idx)) \in Nat
          /\ LoraSlots \in Nat
      BY <2>1, StartsFinite, EntriesFinite, FS_CardinalityType, TablesAssumption
    <2>4. Cardinality(RunStarts(idx)) <= n_loras
      BY <2>2, <2>3 DEF HalfTheSlots, n_loras
    <2> QED
      BY <2>4 DEF EachRowItsAdapter
  <1> QED
    BY <1>1, TablesInvariant, RowsGetTheirAdapter, PTL

=============================================================================
