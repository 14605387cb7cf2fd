------------------------ MODULE AlignedSchedulerProofs ------------------------
(***************************************************************************)
(* Theorems about AlignmentBuffer, for every set of sequences and adapters *)
(* and every warp size, deadline, budget and method, and then about        *)
(* AlignedScheduler, which calls the same methods: the lemmas on what they *)
(* do to the buffer serve both.                                            *)
(***************************************************************************)
EXTENDS AlignedScheduler, SequenceLemmas

-----------------------------------------------------------------------------
(***************************************************************************)
(* Lemmas about queues: which sequences they hold, and that they hold each *)
(* once, after the deque operations of the code.                           *)
(***************************************************************************)

\* append: the queue holds one sequence more, once if it did not hold it.
LEMMA AppendKeepsOnce ==
    ASSUME NEW S, NEW q \in Seq(S), NEW e \in S
    PROVE  /\ Append(q, e) \in Seq(S)
           /\ \A s : Holds(Append(q, e), s) <=> Holds(q, s) \/ s = e.seq
           /\ EachOnce(q) /\ ~Holds(q, e.seq) => EachOnce(Append(q, e))
           /\ \A a : OwnTokens(q, a) /\ AdapterOf[e.seq] = a
                => OwnTokens(Append(q, e), a)
  <1> DEFINE p == Append(q, e)
  <1>1. /\ p \in Seq(S) /\ Len(p) = Len(q) + 1
        /\ \A i \in 1 .. Len(q) : p[i] = q[i]
        /\ p[Len(q) + 1] = e
    OBVIOUS
  <1>2. DOMAIN p = 1 .. Len(q) + 1 /\ DOMAIN q = 1 .. Len(q) /\ Len(q) \in Nat
    BY <1>1
  <1> HIDE DEF p
  <1>3. \A i \in DOMAIN p : (i \in DOMAIN q /\ p[i] = q[i]) \/ (i = Len(q) + 1 /\ p[i] = e)
    BY <1>1, <1>2
  <1>4. \A s : Holds(p, s) <=> Holds(q, s) \/ s = e.seq
    BY <1>1, <1>2, <1>3 DEF Holds
  <1>5. EachOnce(q) /\ ~Holds(q, e.seq) => EachOnce(p)
    BY <1>2, <1>3 DEF EachOnce, Holds
  <1>6. \A a : OwnTokens(q, a) /\ AdapterOf[e.seq] = a => OwnTokens(p, a)
    BY <1>3 DEF OwnTokens
  <1> QED
    BY <1>1, <1>4, <1>5, <1>6 DEF p

\* appendleft, likewise.
LEMMA PrependKeepsOnce ==
    ASSUME NEW S, NEW q \in Seq(S), NEW e \in S
    PROVE  /\ <<e>> \o q \in Seq(S)
           /\ \A s : Holds(<<e>> \o q, s) <=> Holds(q, s) \/ s = e.seq
           /\ EachOnce(q) /\ ~Holds(q, e.seq) => EachOnce(<<e>> \o q)
           /\ \A a : OwnTokens(q, a) /\ AdapterOf[e.seq] = a
                => OwnTokens(<<e>> \o q, a)
  <1> DEFINE p == <<e>> \o q
  <1>0. <<e>> \in Seq(S) /\ Len(<<e>>) = 1 /\ <<e>>[1] = e
    OBVIOUS
  <1>1. /\ p \in Seq(S) /\ Len(p) = 1 + Len(q)
        /\ p[1] = e
        /\ \A i \in 2 .. Len(q) + 1 : p[i] = q[i - 1]
    BY <1>0, ConcatProperties
  <1>2. DOMAIN p = 1 .. Len(q) + 1 /\ DOMAIN q = 1 .. Len(q) /\ Len(q) \in Nat
    BY <1>1
  <1> HIDE DEF p
  <1>3. \A i \in DOMAIN p : \/ i - 1 \in DOMAIN q /\ p[i] = q[i - 1]
                            \/ i = 1 /\ p[i] = e
    BY <1>1, <1>2
  <1>4. \A i \in DOMAIN q : i + 1 \in DOMAIN p /\ p[i + 1] = q[i]
    BY <1>1, <1>2
  <1>5. ASSUME NEW s PROVE Holds(p, s) <=> Holds(q, s) \/ s = e.seq
    <2>1. Holds(p, s) => Holds(q, s) \/ s = e.seq
      BY <1>3 DEF Holds
    <2>2. Holds(q, s) => Holds(p, s)
      BY <1>4 DEF Holds
    <2>3. 1 \in DOMAIN p
      BY <1>2
    <2> QED
      BY <1>1, <2>1, <2>2, <2>3 DEF Holds
  <1>6. EachOnce(q) /\ ~Holds(q, e.seq) => EachOnce(p)
    BY <1>2, <1>3 DEF EachOnce, Holds
  <1>7. \A a : OwnTokens(q, a) /\ AdapterOf[e.seq] = a => OwnTokens(p, a)
    BY <1>3 DEF OwnTokens
  <1> QED
    BY <1>1, <1>5, <1>6, <1>7 DEF p

\* Removing an entry: a queue that held each sequence once no longer holds the
\* one removed and holds the others.
LEMMA RemoveKeepsOnce ==
    ASSUME NEW S, NEW q \in Seq(S), NEW i \in DOMAIN q, EachOnce(q)
    PROVE  /\ RemoveAt(q, i) \in Seq(S)
           /\ EachOnce(RemoveAt(q, i))
           /\ \A s : Holds(RemoveAt(q, i), s) <=> Holds(q, s) /\ s # q[i].seq
           /\ \A a : OwnTokens(q, a) => OwnTokens(RemoveAt(q, i), a)
  <1> DEFINE p == RemoveAt(q, i)
  <1>0. i \in 1 .. Len(q)
    OBVIOUS
  <1>1. /\ p \in Seq(S) /\ Len(p) = Len(q) - 1
        /\ \A j \in 1 .. Len(q) - 1 : p[j] = IF j < i THEN q[j] ELSE q[j + 1]
    BY <1>0, RemoveAtFacts
  <1>2. /\ DOMAIN p = 1 .. Len(q) - 1 /\ DOMAIN q = 1 .. Len(q)
        /\ Len(q) \in Nat /\ i \in 1 .. Len(q)
    BY <1>1
  <1> HIDE DEF p
  <1>3. \A j \in DOMAIN p : \/ j < i /\ j \in DOMAIN q /\ p[j] = q[j]
                            \/ j >= i /\ j + 1 \in DOMAIN q /\ p[j] = q[j + 1]
    BY <1>1, <1>2
  <1>4. \A j \in DOMAIN q : \/ j = i
                            \/ j < i /\ j \in DOMAIN p /\ p[j] = q[j]
                            \/ j > i /\ j - 1 \in DOMAIN p /\ p[j - 1] = q[j]
    BY <1>1, <1>2
  <1>5. EachOnce(p)
    BY <1>2, <1>3 DEF EachOnce
  <1>6. ASSUME NEW s PROVE Holds(p, s) <=> Holds(q, s) /\ s # q[i].seq
    <2>1. Holds(p, s) => Holds(q, s) /\ s # q[i].seq
      BY <1>2, <1>3 DEF Holds, EachOnce
    <2>2. Holds(q, s) /\ s # q[i].seq => Holds(p, s)
      BY <1>4 DEF Holds
    <2> QED
      BY <2>1, <2>2
  <1>7. \A a : OwnTokens(q, a) => OwnTokens(p, a)
    BY <1>3 DEF OwnTokens
  <1> QED
    BY <1>1, <1>5, <1>6, <1>7 DEF p

\* popleft n times: the rest of the queue, and what left it.
LEMMA RestKeepsOnce ==
    ASSUME NEW S, NEW q \in Seq(S), NEW n \in 0 .. Len(q), EachOnce(q)
    PROVE  LET rest == SubSeq(q, n + 1, Len(q)) IN
           /\ rest \in Seq(S)
           /\ EachOnce(rest)
           /\ \A s : Holds(rest, s) => Holds(q, s)
           /\ \A i \in 1 .. n : ~Holds(rest, q[i].seq)
           /\ \A a : OwnTokens(q, a) => OwnTokens(rest, a)
  <1> DEFINE rest == SubSeq(q, n + 1, Len(q))
  <1>1. /\ rest \in Seq(S) /\ Len(rest) = Len(q) - n
        /\ \A j \in 1 .. Len(q) - n : rest[j] = q[n + j]
    OBVIOUS
  <1>2. DOMAIN rest = 1 .. Len(q) - n /\ DOMAIN q = 1 .. Len(q) /\ Len(q) \in Nat
    BY <1>1
  <1> HIDE DEF rest
  <1>3. \A j \in DOMAIN rest : n + j \in DOMAIN q /\ n + j > n /\ rest[j] = q[n + j]
    BY <1>1, <1>2
  <1>4. EachOnce(rest)
    BY <1>2, <1>3 DEF EachOnce
  <1>5. \A s : Holds(rest, s) => Holds(q, s)
    BY <1>3 DEF Holds
  <1>6. \A i \in 1 .. n : ~Holds(rest, q[i].seq)
    BY <1>2, <1>3 DEF Holds, EachOnce
  <1>7. \A a : OwnTokens(q, a) => OwnTokens(rest, a)
    BY <1>3 DEF OwnTokens
  <1> QED
    BY <1>1, <1>4, <1>5, <1>6, <1>7 DEF rest

\* Time changes the ages only.
LEMMA OlderKeepsOnce ==
    ASSUME NEW q \in Seq(Entries)
    PROVE  /\ OlderQueue(q) \in Seq(Entries)
           /\ EachOnce(q) => EachOnce(OlderQueue(q))
           /\ \A s : Holds(OlderQueue(q), s) <=> Holds(q, s)
           /\ \A a : OwnTokens(q, a) => OwnTokens(OlderQueue(q), a)
  <1>1. TSLO \in Nat
    BY BufferAssumption
  <1>2. \A e \in Entries : [e EXCEPT !.age = Older(@)] \in Entries
                           /\ [e EXCEPT !.age = Older(@)].seq = e.seq
    BY <1>1 DEF Entries, Ages, Older
  <1>3. /\ DOMAIN OlderQueue(q) = DOMAIN q
        /\ \A j \in DOMAIN q : OlderQueue(q)[j] = [q[j] EXCEPT !.age = Older(@)]
    BY DEF OlderQueue
  <1>4. \A j \in DOMAIN q : q[j] \in Entries
    OBVIOUS
  <1>5. OlderQueue(q) \in Seq(Entries)
    BY <1>2, <1>4 DEF OlderQueue
  <1>6. \A j \in DOMAIN q : OlderQueue(q)[j].seq = q[j].seq
    BY <1>2, <1>3, <1>4
  <1> QED
    BY <1>3, <1>5, <1>6 DEF EachOnce, Holds, OwnTokens

\* The number of tokens a queue dispatches is between none and all of them.
LEMMA WarpArithmetic ==
    ASSUME NEW n \in Nat, NEW w \in Nat \ {0}, NEW m \in Nat, m <= n \div w
    PROVE  w * m \in Nat /\ w * m <= n
  <1>1. w * (n \div w) <= n
    OBVIOUS
  <1>2. w * m <= w * (n \div w)
    OBVIOUS
  <1> QED
    BY <1>1, <1>2

LEMMA QuotientNat ==
    ASSUME NEW n \in Nat, NEW w \in Nat \ {0}
    PROVE  n \div w \in Nat
  OBVIOUS

LEMMA DispatchCountBounds ==
    ASSUME TypeOK, NEW a \in Adapters, Left > 0
    PROVE  DispatchCount(a) \in 0 .. Len(queues[a])
  <1> DEFINE n == Len(queues[a])
  <1>1. W \in Nat \ {0} /\ Left \in Nat /\ n \in Nat
    BY BufferAssumption DEF TypeOK, Left
  <1>2. n \div W \in Nat /\ Left \div W \in Nat
    BY <1>1, QuotientNat
  <1>3. CASE Rule(a) = "warps"
    <2>1. WarpsThatFit(a) \in Nat /\ WarpsThatFit(a) <= n \div W
      BY <1>2 DEF WarpsThatFit, Smaller
    <2>2. W * WarpsThatFit(a) \in Nat /\ W * WarpsThatFit(a) <= n
      BY <1>1, <2>1, WarpArithmetic
    <2> QED
      BY <1>1, <1>3, <2>2 DEF DispatchCount
  <1>4. CASE Rule(a) = "hold"
    BY <1>1, <1>4 DEF DispatchCount
  <1>5. CASE Rule(a) # "warps" /\ Rule(a) # "hold"
    BY <1>1, <1>5 DEF DispatchCount, Smaller
  <1> QED
    BY <1>3, <1>4, <1>5

-----------------------------------------------------------------------------
(***************************************************************************)
(* Type correctness.                                                       *)
(***************************************************************************)

\* What the methods do to the stored state keeps its type.
StoreTypeOK ==
    /\ registered \in Seq(Adapters)
    /\ queues \in [Adapters -> Seq(Entries)]
    /\ shadow \in [Adapters -> Seq(Entries)]
    /\ enqueueAge \in [Adapters -> Ages \cup {None}]
    /\ recorded \subseteq Seqs
    /\ outstanding \in Int

LEMMA HeadAgeType ==
    ASSUME NEW q \in Seq(Entries)
    PROVE  HeadAge(q) \in Ages \cup {None}
  <1>1. q # <<>> => q[1] \in Entries
    OBVIOUS
  <1> QED
    BY <1>1 DEF HeadAge, Entries

LEMMA AgesFacts == 0 \in Ages /\ Ages \subseteq Nat /\ TSLO \in Nat
  BY BufferAssumption DEF Ages

LEMMA EnqueueType ==
    ASSUME StoreTypeOK, NEW s \in Seqs, enqueue(s)
    PROVE  StoreTypeOK'
  <1> DEFINE a == AdapterOf[s]
  <1>1. a \in Adapters
    BY BufferAssumption
  <1>2. NewEntry(s) \in Entries
    BY AgesFacts DEF NewEntry, Entries
  <1>3. registered' \in Seq(Adapters)
    BY <1>1 DEF StoreTypeOK, enqueue, AfterRegistering
  <1>4. queues' \in [Adapters -> Seq(Entries)]
    BY <1>1, <1>2 DEF StoreTypeOK, enqueue
  <1>5. enqueueAge' \in [Adapters -> Ages \cup {None}]
    BY <1>1, AgesFacts DEF StoreTypeOK, enqueue
  <1> QED
    BY <1>3, <1>4, <1>5 DEF StoreTypeOK, enqueue

LEMMA PreemptType ==
    ASSUME StoreTypeOK, NEW s \in Seqs, preempt_and_hold(s)
    PROVE  StoreTypeOK'
  <1> DEFINE a == AdapterOf[s]
             q == queues[a]
  <1>1. a \in Adapters /\ q \in Seq(Entries)
    BY BufferAssumption DEF StoreTypeOK
  <1>2. UNCHANGED <<registered, outstanding>>
    BY DEF preempt_and_hold
  <1>3. CASE \E i \in DOMAIN q : HoldEntry(a, i)
    <2>1. PICK i \in DOMAIN q : HoldEntry(a, i)
      BY <1>3
    <2>2. RemoveAt(q, i) \in Seq(Entries) /\ q[i] \in Entries
      BY <1>1, RemoveAtFacts
    <2>3. HeadAge(RemoveAt(q, i)) \in Ages \cup {None}
      BY <2>2, HeadAgeType
    <2> QED
      BY <1>1, <1>2, <2>1, <2>2, <2>3 DEF StoreTypeOK, HoldEntry
  <1>4. CASE /\ enqueueAge' = [enqueueAge EXCEPT ![a] = HeadAge(q)]
             /\ UNCHANGED <<queues, shadow, recorded>>
    <2>1. HeadAge(q) \in Ages \cup {None}
      BY <1>1, HeadAgeType
    <2> QED
      BY <1>1, <1>2, <1>4, <2>1 DEF StoreTypeOK
  <1> QED
    BY <1>3, <1>4 DEF preempt_and_hold

LEMMA ResumeType ==
    ASSUME StoreTypeOK, NEW s \in Seqs, resume_from_shadow(s)
    PROVE  StoreTypeOK'
  <1> DEFINE a == AdapterOf[s]
  <1>1. a \in Adapters /\ queues[a] \in Seq(Entries) /\ shadow[a] \in Seq(Entries)
    BY BufferAssumption DEF StoreTypeOK
  <1>2. PICK i \in DOMAIN shadow[a] :
            /\ shadow' = [shadow EXCEPT ![a] = ShadowWithout(a, i)]
            /\ queues' = [queues EXCEPT ![a] = <<shadow[a][i]>> \o @]
            /\ enqueueAge' = [enqueueAge EXCEPT ![a] = Larger(@, shadow[a][i].age)]
            /\ recorded' = recorded \cup {s}
            /\ UNCHANGED <<registered, outstanding>>
    BY DEF resume_from_shadow
  <1>3. shadow[a][i] \in Entries
    BY <1>1
  <1>4. ShadowWithout(a, i) \in Seq(Entries)
    BY <1>1, RemoveAtFacts DEF ShadowWithout
  <1>5. <<shadow[a][i]>> \o queues[a] \in Seq(Entries)
    BY <1>1, <1>3, PrependKeepsOnce
  <1>6. Larger(enqueueAge[a], shadow[a][i].age) \in Ages \cup {None}
    BY <1>1, <1>3, AgesFacts DEF StoreTypeOK, Larger, Entries
  <1> QED
    BY <1>1, <1>2, <1>4, <1>5, <1>6 DEF StoreTypeOK

LEMMA ElapseType ==
    ASSUME StoreTypeOK, Elapse
    PROVE  StoreTypeOK'
  <1>1. \A a \in Adapters : /\ OlderQueue(queues[a]) \in Seq(Entries)
                            /\ OlderQueue(shadow[a]) \in Seq(Entries)
    BY OlderKeepsOnce DEF StoreTypeOK
  <1>2. \A g \in Ages \cup {None} : Older(g) \in Ages \cup {None}
    BY AgesFacts DEF Ages, None, Older
  <1> QED
    BY <1>1, <1>2 DEF StoreTypeOK, Elapse

CallTypeOK ==
    /\ method \in Methods \cup {"none"}
    /\ todo \in Seq(Adapters)
    /\ budget \in Nat
    /\ batch \in Seq(Tokens)
    /\ deadline \in [Adapters -> Nat]
    /\ nStar \in Nat \ {0}
    /\ merged \subseteq Adapters

LEMMA TypeParts == TypeOK <=> StoreTypeOK /\ CallTypeOK /\ phase \in {"idle", "dispatch"}
  BY DEF TypeOK, StoreTypeOK, CallTypeOK

LEMMA EffNStarType ==
    ASSUME NEW n \in Nat, NEW k \in Nat
    PROVE  EffNStar(n, k) \in Nat \ {0}
  <1> DEFINE kk == Larger(k, 1)
  <1>1. kk \in Nat \ {0}
    BY DEF Larger
  <1>2. W \in Nat
    BY BufferAssumption
  <1> HIDE DEF kk
  <1>3. (2 * W + kk) \div (2 * kk) \in Nat
    BY <1>1, <1>2, QuotientNat
  <1>4. RoundedQuotient(W, kk) \in Int
    BY <1>3 DEF RoundedQuotient
  <1>5. Larger(1, Smaller(n, RoundedQuotient(W, kk))) \in Nat \ {0}
    BY <1>4 DEF Larger, Smaller
  <1> QED
    BY <1>5 DEF EffNStar, kk

LEMMA BeginType ==
    ASSUME StoreTypeOK, NEW m \in Methods, NEW b \in Nat, begin_batch(m, b)
    PROVE  StoreTypeOK' /\ CallTypeOK'
  <1>1. StoreTypeOK'
    BY DEF StoreTypeOK, begin_batch, storeVars
  <1>2. todo' \in Seq(Adapters)
    <2>1. \A r \in [1 .. Len(registered) -> Adapters] : r \in Seq(Adapters)
      <3>1. Len(registered) \in Nat
        BY DEF StoreTypeOK
      <3>2. [1 .. Len(registered) -> Adapters] \in {[1 .. n -> Adapters] : n \in Nat}
        BY <3>1
      <3>3. Seq(Adapters) = UNION {[1 .. n -> Adapters] : n \in Nat}
        BY SeqDef
      <3> QED
        BY <3>2, <3>3, Zenon
    <2> QED
      BY <2>1 DEF begin_batch, VisitOrders, StoreTypeOK
  <1>3. deadline' \in [Adapters -> Nat]
    <2>1. TSLO \in Nat /\ Deadlines \subseteq Nat
      BY BufferAssumption
    <2>2. DeadlineChoices(m) \subseteq [Adapters -> Nat]
      BY <2>1 DEF DeadlineChoices
    <2> QED
      BY <2>2 DEF begin_batch
  <1>4. nStar' \in Nat \ {0} /\ merged' \subseteq Adapters
    <2>1. CASE m = "form_batch_wgkp"
      <3>1. \A n \in NStars : EffNStar(n, Len(registered)) \in Nat \ {0}
        BY BufferAssumption, EffNStarType DEF StoreTypeOK
      <3> QED
        BY <2>1, <3>1, BufferAssumption DEF begin_batch
    <2>2. CASE m # "form_batch_wgkp"
      BY <2>2 DEF begin_batch
    <2> QED
      BY <2>1, <2>2
  <1>5. method' \in Methods /\ budget' \in Nat /\ batch' \in Seq(Tokens)
    BY DEF begin_batch
  <1> QED
    BY <1>1, <1>2, <1>3, <1>4, <1>5 DEF CallTypeOK

\* What a dispatching iteration appends: n tokens, the first n of the queue.
LEMMA ChunkFacts ==
    ASSUME NEW a \in Adapters, queues[a] \in Seq(Entries), NEW n \in 0 .. Len(queues[a])
    PROVE  /\ Chunk(a, n) \in Seq(Tokens)
           /\ Len(Chunk(a, n)) = n
           /\ \A i \in 1 .. n : /\ Chunk(a, n)[i].seq = queues[a][i].seq
                               /\ Chunk(a, n)[i].adapter = a
                               /\ Chunk(a, n)[i].promoted = Promoted(a)
  <1>1. Promoted(a) \in BOOLEAN
    BY DEF Promoted
  <1>2. \A i \in 1 .. n : queues[a][i] \in Entries
    OBVIOUS
  <1>3. \A i \in 1 .. n :
            [adapter |-> a, seq |-> queues[a][i].seq, promoted |-> Promoted(a)] \in Tokens
    BY <1>1, <1>2 DEF Tokens, Entries
  <1>4. n \in Nat
    OBVIOUS
  <1> QED
    BY <1>3, <1>4 DEF Chunk

LEMMA DispatchType ==
    ASSUME TypeOK, DispatchQueue, phase' = phase
    PROVE  TypeOK'
  <1> DEFINE a == Head(todo)
             n == DispatchCount(a)
             rest == SubSeq(queues[a], n + 1, Len(queues[a]))
  <1>1. a \in Adapters /\ Tail(todo) \in Seq(Adapters) /\ queues[a] \in Seq(Entries)
    BY DEF DispatchQueue, TypeOK
  <1>2. n \in 0 .. Len(queues[a])
    BY <1>1, DispatchCountBounds DEF DispatchQueue
  <1>3. /\ batch' = batch \o Chunk(a, n)
        /\ queues' = [queues EXCEPT ![a] = rest]
        /\ enqueueAge' = [enqueueAge EXCEPT ![a] = HeadAge(rest)]
        /\ outstanding' = outstanding - n
        /\ todo' = Tail(todo)
        /\ UNCHANGED <<registered, shadow, recorded>>
        /\ UNCHANGED <<method, budget, deadline, nStar, merged>>
    BY DEF DispatchQueue, CountDispatched, Continue, argVars
  <1> HIDE DEF n
  <1>4. rest \in Seq(Entries)
    BY <1>1, <1>2
  <1>5. HeadAge(rest) \in Ages \cup {None}
    BY <1>4, HeadAgeType
  <1>6. batch' \in Seq(Tokens)
    BY <1>1, <1>2, <1>3, ChunkFacts, ConcatProperties DEF TypeOK
  <1> HIDE DEF a, rest
  <1>7. /\ queues' \in [Adapters -> Seq(Entries)]
        /\ enqueueAge' \in [Adapters -> Ages \cup {None}]
    BY <1>3, <1>4, <1>5 DEF TypeOK
  <1>8. n \in Int
    BY <1>2
  <1>9. StoreTypeOK /\ CallTypeOK /\ phase \in {"idle", "dispatch"}
    BY TypeParts
  <1>10. StoreTypeOK'
    BY <1>3, <1>7, <1>8, <1>9 DEF StoreTypeOK
  <1>11. CallTypeOK'
    BY <1>1, <1>3, <1>6, <1>9 DEF CallTypeOK
  <1> QED
    BY <1>9, <1>10, <1>11 DEF TypeOK, StoreTypeOK, CallTypeOK

LEMMA VisitType ==
    ASSUME TypeOK, Visit
    PROVE  TypeOK'
  <1>1. phase' = phase
    BY DEF Visit
  <1>2. todo # <<>> => Tail(todo) \in Seq(Adapters)
    BY DEF TypeOK
  <1>3. CASE StopFull
    BY <1>1, <1>3 DEF TypeOK, StopFull, argVars, storeVars
  <1>4. CASE NoRoomForAWarp
    BY <1>1, <1>2, <1>4 DEF TypeOK, NoRoomForAWarp, argVars, storeVars, Continue
  <1>5. CASE HoldQueue
    BY <1>1, <1>2, <1>5 DEF TypeOK, HoldQueue, argVars, storeVars, Continue
  <1>6. CASE DispatchQueue
    BY <1>1, <1>6, DispatchType
  <1> QED
    BY <1>3, <1>4, <1>5, <1>6 DEF Visit, visit

LEMMA InitType == Init => TypeOK
  <1> SUFFICES ASSUME Init PROVE TypeOK
    OBVIOUS
  <1>1. StoreTypeOK
    BY AgesFacts DEF Init, StoreInit, StoreTypeOK
  <1>2. CallTypeOK
    BY DEF Init, NoCall, CallTypeOK
  <1> QED
    BY <1>1, <1>2, TypeParts DEF Init

LEMMA NextType ==
    ASSUME TypeOK, [Next]_bufferVars
    PROVE  TypeOK'
  <1>1. CASE Register
    BY <1>1 DEF Register, Call, callVars, register_adapter, TypeOK
  <1>2. CASE Enqueue
    BY <1>2, EnqueueType DEF Enqueue, Call, callVars, TypeOK, StoreTypeOK
  <1>3. CASE Release
    BY <1>3 DEF Release, Call, callVars, release, TypeOK
  <1>4. CASE Preempt
    BY <1>4, PreemptType DEF Preempt, Call, callVars, TypeOK, StoreTypeOK
  <1>5. CASE Resume
    BY <1>5, ResumeType DEF Resume, Call, callVars, TypeOK, StoreTypeOK
  <1>6. CASE Reset
    BY <1>6 DEF Reset, Call, callVars, reset_stats, TypeOK
  <1>7. CASE Tick
    BY <1>7, ElapseType DEF Tick, Call, callVars, TypeOK, StoreTypeOK
  <1>8. CASE FormBatch
    <2>1. W * Len(registered) \in Nat
      BY BufferAssumption DEF TypeOK
    <2> QED
      BY <1>8, <2>1, BeginType DEF FormBatch, TypeOK, StoreTypeOK, CallTypeOK
  <1>9. CASE Visit
    BY <1>9, VisitType
  <1>10. CASE Return
    BY <1>10 DEF Return, return_batch, storeVars, TypeOK
  <1>11. CASE UNCHANGED bufferVars
    BY <1>11 DEF bufferVars, storeVars, callVars, TypeOK
  <1> QED
    BY <1>1, <1>2, <1>3, <1>4, <1>5, <1>6, <1>7, <1>8, <1>9, <1>10, <1>11 DEF Next

\* The buffer's variables keep their types under every sequence of calls.
THEOREM TypeCorrect == Spec => []TypeOK
  BY InitType, NextType, PTL DEF Spec

-----------------------------------------------------------------------------
(***************************************************************************)
(* No drops, no duplicates.  NoDuplicates is inductive together with the   *)
(* types and with an empty batch between calls.                            *)
(***************************************************************************)

OnceInv == TypeOK /\ NoDuplicates /\ (phase = "idle" => batch = <<>>)

LEMMA OwnAdapter == \A s \in Seqs : AdapterOf[s] \in Adapters
  BY BufferAssumption

\* Nothing is held twice in an empty list.
LEMMA EmptyOnce == EachOnce(<<>>) /\ \A s : ~Holds(<<>>, s)
  BY DEF EachOnce, Holds

LEMMA EnqueueKeepsOnce ==
    ASSUME StoreTypeOK, NoDuplicates, batch = <<>>, batch' = batch,
           NEW s \in Seqs, ~Held(s), enqueue(s)
    PROVE  NoDuplicates'
  <1>1. ~Held(s) /\ enqueue(s)
    OBVIOUS
  <1>2. batch' = batch /\ batch = <<>> /\ shadow' = shadow
    BY <1>1 DEF enqueue
  <1> DEFINE k == AdapterOf[s]
  <1>3. /\ s \notin recorded /\ recorded' = recorded \cup {s}
        /\ queues' = [queues EXCEPT ![k] = Append(@, NewEntry(s))]
    BY <1>1 DEF enqueue
  <1>4. k \in Adapters /\ queues \in [Adapters -> Seq(Entries)]
    BY OwnAdapter DEF StoreTypeOK
  <1>5. NewEntry(s) \in Entries /\ NewEntry(s).seq = s
    BY AgesFacts DEF NewEntry, Entries
  <1>6. ~Queued(s)
    BY <1>3 DEF NoDuplicates
  <1>7. /\ \A x : Holds(queues'[k], x) <=> Holds(queues[k], x) \/ x = s
        /\ EachOnce(queues'[k]) /\ OwnTokens(queues'[k], k)
    BY <1>3, <1>4, <1>5, <1>6, AppendKeepsOnce DEF NoDuplicates, Queued
  <1>8. \A a \in Adapters : a # k => queues'[a] = queues[a]
    BY <1>3, <1>4
  <1>9. \A a \in Adapters : EachOnce(queues'[a]) /\ OwnTokens(queues'[a], a)
    BY <1>7, <1>8 DEF NoDuplicates
  <1>10. ASSUME NEW x \in Seqs
         PROVE  /\ Queued(x)' => x \in recorded' /\ ~Held(x)' /\ ~Holds(batch', x)
                /\ Held(x)' => x \notin recorded' /\ ~Holds(batch', x)
    <2>1. Queued(x)' => Queued(x) \/ x = s
      BY <1>7, <1>8, OwnAdapter DEF Queued
    <2>2. Held(x)' <=> Held(x)
      BY <1>2 DEF Held
    <2> QED
      BY <1>1, <1>2, <1>3, <2>1, <2>2, EmptyOnce DEF NoDuplicates
  <1> QED
    BY <1>2, <1>9, <1>10 DEF NoDuplicates

LEMMA EnqueueOnce ==
    ASSUME OnceInv, Enqueue
    PROVE  NoDuplicates'
  <1>1. PICK s \in Seqs : ~Held(s) /\ enqueue(s)
    BY DEF Enqueue, Call
  <1>2. batch' = batch /\ batch = <<>> /\ StoreTypeOK
    BY TypeParts DEF Enqueue, Call, callVars, OnceInv
  <1> QED
    BY <1>1, <1>2, EnqueueKeepsOnce DEF OnceInv

LEMMA PreemptOnce ==
    ASSUME OnceInv, Preempt
    PROVE  NoDuplicates'
  <1>1. PICK s \in Seqs : preempt_and_hold(s)
    BY DEF Preempt, Call
  <1>2. batch' = batch /\ batch = <<>>
    BY DEF Preempt, Call, callVars, OnceInv
  <1> DEFINE k == AdapterOf[s]
             q == queues[k]
  <1>3. k \in Adapters /\ q \in Seq(Entries) /\ shadow[k] \in Seq(Entries)
    BY OwnAdapter DEF OnceInv, TypeOK
  <1>4. CASE UNCHANGED <<queues, shadow, recorded>>
    BY <1>2, <1>4 DEF OnceInv, NoDuplicates, Queued, Held
  <1>5. ASSUME NEW i \in DOMAIN q, q[i].seq = s, ~Holds(shadow[k], s), HoldEntry(k, i)
        PROVE  NoDuplicates'
    <2>1. /\ queues' = [queues EXCEPT ![k] = RemoveAt(q, i)]
          /\ shadow' = [shadow EXCEPT ![k] = Append(shadow[k], q[i])]
          /\ recorded' = recorded \ {s}
      BY <1>5 DEF HoldEntry
    <2>2. q[i] \in Entries /\ EachOnce(q) /\ OwnTokens(q, k)
          /\ EachOnce(shadow[k]) /\ OwnTokens(shadow[k], k)
      BY <1>3 DEF OnceInv, NoDuplicates
    <2>3. /\ EachOnce(queues'[k]) /\ OwnTokens(queues'[k], k)
          /\ \A x : Holds(queues'[k], x) <=> Holds(q, x) /\ x # s
      BY <1>3, <1>5, <2>1, <2>2, RemoveKeepsOnce DEF OnceInv, TypeOK
    <2>4. /\ EachOnce(shadow'[k]) /\ OwnTokens(shadow'[k], k)
          /\ \A x : Holds(shadow'[k], x) <=> Holds(shadow[k], x) \/ x = s
      <3>1. shadow'[k] = Append(shadow[k], q[i])
        BY <1>3, <2>1 DEF OnceInv, TypeOK
      <3>2. q[i] \in Entries /\ q[i].seq = s /\ AdapterOf[s] = k
        BY <1>5, <2>2
      <3> HIDE DEF q
      <3>3. /\ EachOnce(Append(shadow[k], q[i])) /\ OwnTokens(Append(shadow[k], q[i]), k)
            /\ \A x : Holds(Append(shadow[k], q[i]), x) <=> Holds(shadow[k], x) \/ x = s
        BY <1>3, <1>5, <2>2, <3>2, AppendKeepsOnce
      <3> QED
        BY <3>1, <3>3
    <2>5. \A a \in Adapters : a # k => queues'[a] = queues[a] /\ shadow'[a] = shadow[a]
      BY <2>1 DEF OnceInv, TypeOK
    <2>6. \A a \in Adapters : /\ EachOnce(queues'[a]) /\ OwnTokens(queues'[a], a)
                             /\ EachOnce(shadow'[a]) /\ OwnTokens(shadow'[a], a)
      BY <2>3, <2>4, <2>5 DEF OnceInv, NoDuplicates
    <2>7. ASSUME NEW x \in Seqs
          PROVE  /\ Queued(x)' => x \in recorded' /\ ~Held(x)' /\ ~Holds(batch', x)
                 /\ Held(x)' => x \notin recorded' /\ ~Holds(batch', x)
      <3>1. Queued(x)' => Queued(x) /\ x # s
        BY <2>3, <2>5, OwnAdapter DEF Queued
      <3>2. Held(x)' => Held(x) \/ x = s
        BY <2>4, <2>5, OwnAdapter DEF Held
      <3> QED
        BY <1>2, <2>1, <3>1, <3>2, EmptyOnce DEF OnceInv, NoDuplicates
    <2> QED
      BY <1>2, <2>6, <2>7 DEF OnceInv, NoDuplicates
  <1> QED
    BY <1>1, <1>4, <1>5 DEF preempt_and_hold

LEMMA ResumeOnce ==
    ASSUME OnceInv, Resume
    PROVE  NoDuplicates'
  <1>1. PICK s \in Seqs : resume_from_shadow(s)
    BY DEF Resume, Call
  <1>2. batch' = batch /\ batch = <<>>
    BY DEF Resume, Call, callVars, OnceInv
  <1> DEFINE k == AdapterOf[s]
             h == shadow[k]
  <1>3. k \in Adapters /\ queues[k] \in Seq(Entries) /\ h \in Seq(Entries)
    BY OwnAdapter DEF OnceInv, TypeOK
  <1>4. PICK i \in DOMAIN h :
            /\ h[i].seq = s
            /\ shadow' = [shadow EXCEPT ![k] = RemoveAt(h, i)]
            /\ queues' = [queues EXCEPT ![k] = <<h[i]>> \o queues[k]]
            /\ recorded' = recorded \cup {s}
    BY <1>1 DEF resume_from_shadow, ShadowWithout
  <1>5. Held(s) /\ ~Queued(s)
    BY <1>4 DEF Held, Holds, OnceInv, NoDuplicates
  <1>6. h[i] \in Entries /\ EachOnce(h) /\ OwnTokens(h, k)
        /\ EachOnce(queues[k]) /\ OwnTokens(queues[k], k)
    BY <1>3 DEF OnceInv, NoDuplicates
  <1>7. /\ EachOnce(shadow'[k]) /\ OwnTokens(shadow'[k], k)
        /\ \A x : Holds(shadow'[k], x) <=> Holds(h, x) /\ x # s
    BY <1>3, <1>4, <1>6, RemoveKeepsOnce DEF OnceInv, TypeOK
  <1>8. /\ EachOnce(queues'[k]) /\ OwnTokens(queues'[k], k)
        /\ \A x : Holds(queues'[k], x) <=> Holds(queues[k], x) \/ x = s
    <2>1. queues'[k] = <<h[i]>> \o queues[k]
      BY <1>3, <1>4 DEF OnceInv, TypeOK
    <2>2. h[i].seq = s /\ AdapterOf[s] = k /\ ~Holds(queues[k], s)
      BY <1>4, <1>5 DEF Queued
    <2> HIDE DEF h
    <2>3. /\ EachOnce(<<h[i]>> \o queues[k]) /\ OwnTokens(<<h[i]>> \o queues[k], k)
          /\ \A x : Holds(<<h[i]>> \o queues[k], x) <=> Holds(queues[k], x) \/ x = s
      BY <1>3, <1>6, <2>2, PrependKeepsOnce
    <2> QED
      BY <2>1, <2>3
  <1>9. \A a \in Adapters : a # k => queues'[a] = queues[a] /\ shadow'[a] = shadow[a]
    BY <1>4 DEF OnceInv, TypeOK
  <1>10. \A a \in Adapters : /\ EachOnce(queues'[a]) /\ OwnTokens(queues'[a], a)
                            /\ EachOnce(shadow'[a]) /\ OwnTokens(shadow'[a], a)
    BY <1>7, <1>8, <1>9 DEF OnceInv, NoDuplicates
  <1>11. ASSUME NEW x \in Seqs
         PROVE  /\ Queued(x)' => x \in recorded' /\ ~Held(x)' /\ ~Holds(batch', x)
                /\ Held(x)' => x \notin recorded' /\ ~Holds(batch', x)
    <2>1. Queued(x)' => Queued(x) \/ x = s
      BY <1>8, <1>9, OwnAdapter DEF Queued
    <2>2. Held(x)' => Held(x) /\ x # s
      BY <1>7, <1>9, OwnAdapter DEF Held
    <2> QED
      BY <1>2, <1>4, <2>1, <2>2, EmptyOnce DEF OnceInv, NoDuplicates
  <1> QED
    BY <1>2, <1>10, <1>11 DEF OnceInv, NoDuplicates

\* batch.append in a loop: the batch followed by what one queue dispatched.
LEMMA ConcatKeepsOnce ==
    ASSUME NEW S, NEW p \in Seq(S), NEW r \in Seq(S)
    PROVE  /\ \A s : Holds(p \o r, s) <=> Holds(p, s) \/ Holds(r, s)
           /\ EachOnce(p) /\ EachOnce(r) /\ (\A i \in DOMAIN r : ~Holds(p, r[i].seq))
                => EachOnce(p \o r)
  <1> DEFINE c == p \o r
  <1>1. /\ Len(c) = Len(p) + Len(r)
        /\ \A i \in 1 .. Len(p) + Len(r) :
                c[i] = IF i <= Len(p) THEN p[i] ELSE r[i - Len(p)]
        /\ c \in Seq(S)
    BY ConcatProperties
  <1>2. /\ DOMAIN c = 1 .. Len(p) + Len(r) /\ DOMAIN p = 1 .. Len(p)
        /\ DOMAIN r = 1 .. Len(r) /\ Len(p) \in Nat /\ Len(r) \in Nat
    BY <1>1
  <1> HIDE DEF c
  <1>3. \A i \in DOMAIN c : \/ i \in DOMAIN p /\ c[i] = p[i]
                            \/ i > Len(p) /\ i - Len(p) \in DOMAIN r
                               /\ c[i] = r[i - Len(p)]
    BY <1>1, <1>2
  <1>4. \A i \in DOMAIN p : i \in DOMAIN c /\ c[i] = p[i]
    BY <1>1, <1>2
  <1>5. \A i \in DOMAIN r : i + Len(p) \in DOMAIN c /\ c[i + Len(p)] = r[i]
    BY <1>1, <1>2
  <1>6. ASSUME NEW s PROVE Holds(c, s) <=> Holds(p, s) \/ Holds(r, s)
    <2>1. Holds(c, s) => Holds(p, s) \/ Holds(r, s)
      BY <1>3 DEF Holds
    <2>2. Holds(p, s) => Holds(c, s)
      BY <1>4 DEF Holds
    <2>3. Holds(r, s) => Holds(c, s)
      BY <1>5 DEF Holds
    <2> QED
      BY <2>1, <2>2, <2>3
  <1>7. ASSUME EachOnce(p), EachOnce(r), \A i \in DOMAIN r : ~Holds(p, r[i].seq),
               NEW i \in DOMAIN c, NEW j \in DOMAIN c, c[i].seq = c[j].seq
        PROVE  i = j
    <2>1. CASE i \in DOMAIN p /\ c[i] = p[i] /\ j \in DOMAIN p /\ c[j] = p[j]
      BY <1>7, <2>1 DEF EachOnce
    <2>2. CASE /\ i > Len(p) /\ i - Len(p) \in DOMAIN r /\ c[i] = r[i - Len(p)]
               /\ j > Len(p) /\ j - Len(p) \in DOMAIN r /\ c[j] = r[j - Len(p)]
      <3>1. i - Len(p) = j - Len(p)
        BY <1>7, <2>2 DEF EachOnce
      <3> QED
        BY <1>2, <3>1
    <2>3. CASE i \in DOMAIN p /\ c[i] = p[i] /\ j - Len(p) \in DOMAIN r /\ c[j] = r[j - Len(p)]
      BY <1>7, <2>3 DEF Holds
    <2>4. CASE j \in DOMAIN p /\ c[j] = p[j] /\ i - Len(p) \in DOMAIN r /\ c[i] = r[i - Len(p)]
      BY <1>7, <2>4 DEF Holds
    <2> QED
      BY <1>3, <2>1, <2>2, <2>3, <2>4
  <1> QED
    BY <1>6, <1>7 DEF c, EachOnce

LEMMA DispatchOnce ==
    ASSUME TypeOK, NoDuplicates, DispatchQueue
    PROVE  NoDuplicates'
  <1> DEFINE k == Head(todo)
             n == DispatchCount(k)
             q == queues[k]
             rest == SubSeq(q, n + 1, Len(q))
             chunk == Chunk(k, n)
  <1>1. k \in Adapters /\ q \in Seq(Entries) /\ batch \in Seq(Tokens)
        /\ queues \in [Adapters -> Seq(Entries)]
    BY DEF DispatchQueue, TypeOK
  <1>2. n \in 0 .. Len(q)
    BY <1>1, DispatchCountBounds DEF DispatchQueue
  <1>3. /\ batch' = batch \o chunk
        /\ queues' = [queues EXCEPT ![k] = rest]
        /\ UNCHANGED <<shadow, recorded>>
    BY DEF DispatchQueue
  <1>4. /\ chunk \in Seq(Tokens) /\ DOMAIN chunk = 1 .. n /\ DOMAIN q = 1 .. Len(q)
        /\ \A i \in 1 .. n : chunk[i].seq = q[i].seq
    BY <1>1, <1>2, ChunkFacts
  <1>5. EachOnce(q) /\ OwnTokens(q, k) /\ EachOnce(batch)
    BY <1>1 DEF NoDuplicates
  <1>6. \A i \in DOMAIN q : q[i] \in Entries
    BY <1>1
  <1> HIDE DEF n
  <1>7. /\ EachOnce(rest) /\ OwnTokens(rest, k)
        /\ \A s : Holds(rest, s) => Holds(q, s)
        /\ \A i \in 1 .. n : ~Holds(rest, q[i].seq)
    BY <1>1, <1>2, <1>5, RestKeepsOnce
  <1> HIDE DEF chunk, rest
  <1>8. \A i \in 1 .. n : i \in DOMAIN q
    BY <1>2, <1>4
  <1>9. \A i \in 1 .. n : q[i].seq \in Seqs /\ AdapterOf[q[i].seq] = k
    BY <1>5, <1>6, <1>8 DEF OwnTokens, Entries
  <1>10. \A i \in 1 .. n : /\ Queued(q[i].seq) /\ ~Held(q[i].seq)
                          /\ ~Holds(batch, q[i].seq)
    BY <1>8, <1>9 DEF Queued, Holds, NoDuplicates
  <1>11. EachOnce(chunk)
    BY <1>2, <1>4, <1>5, <1>8 DEF EachOnce
  <1>12. \A s : Holds(chunk, s) => \E i \in 1 .. n : s = q[i].seq
    BY <1>4 DEF Holds
  <1>13. EachOnce(batch \o chunk)
    BY <1>1, <1>4, <1>5, <1>10, <1>11, ConcatKeepsOnce
  <1>14. \A s : Holds(batch \o chunk, s) <=> Holds(batch, s) \/ Holds(chunk, s)
    BY <1>1, <1>4, ConcatKeepsOnce
  <1>15. queues'[k] = rest /\ \A a \in Adapters : a # k => queues'[a] = queues[a]
    BY <1>1, <1>3
  <1>16. \A a \in Adapters : EachOnce(queues'[a]) /\ OwnTokens(queues'[a], a)
    BY <1>7, <1>15 DEF NoDuplicates
  <1>17. ASSUME NEW x \in Seqs
         PROVE  /\ Queued(x)' => x \in recorded' /\ ~Held(x)' /\ ~Holds(batch', x)
                /\ Held(x)' => x \notin recorded' /\ ~Holds(batch', x)
    <2>1. Queued(x)' => Queued(x)
      BY <1>7, <1>15, OwnAdapter DEF Queued
    <2>2. Queued(x)' => ~Holds(chunk, x)
      <3>1. \A i \in 1 .. n : x = q[i].seq => ~Holds(queues'[AdapterOf[x]], x)
        BY <1>7, <1>9, <1>15
      <3> QED
        BY <1>12, <3>1 DEF Queued
    <2>3. Held(x)' <=> Held(x)
      BY <1>3 DEF Held
    <2>4. Held(x) => ~Holds(chunk, x)
      BY <1>10, <1>12
    <2> QED
      BY <1>3, <1>14, <2>1, <2>2, <2>3, <2>4 DEF NoDuplicates
  <1> QED
    BY <1>3, <1>13, <1>16, <1>17 DEF NoDuplicates

LEMMA TickOnce ==
    ASSUME OnceInv, Tick
    PROVE  NoDuplicates'
  <1>1. /\ batch' = batch /\ recorded' = recorded
        /\ queues' = [a \in Adapters |-> OlderQueue(queues[a])]
        /\ shadow' = [a \in Adapters |-> OlderQueue(shadow[a])]
    BY DEF Tick, Call, callVars, Elapse
  <1>2. \A a \in Adapters : queues[a] \in Seq(Entries) /\ shadow[a] \in Seq(Entries)
    BY DEF OnceInv, TypeOK
  <1>3. \A a \in Adapters : /\ EachOnce(queues'[a]) /\ OwnTokens(queues'[a], a)
                           /\ EachOnce(shadow'[a]) /\ OwnTokens(shadow'[a], a)
    BY <1>1, <1>2, OlderKeepsOnce DEF OnceInv, NoDuplicates
  <1>4. \A x \in Seqs : (Queued(x)' <=> Queued(x)) /\ (Held(x)' <=> Held(x))
    BY <1>1, <1>2, OwnAdapter, OlderKeepsOnce DEF Queued, Held
  <1> QED
    BY <1>1, <1>3, <1>4 DEF OnceInv, NoDuplicates

LEMMA ReleaseOnce ==
    ASSUME OnceInv, Release
    PROVE  NoDuplicates'
  <1>1. PICK s \in recorded : ~Queued(s) /\ recorded' = recorded \ {s}
    BY DEF Release, Call, release
  <1>2. UNCHANGED <<batch, queues, shadow>>
    BY DEF Release, Call, callVars, release
  <1> QED
    BY <1>1, <1>2 DEF OnceInv, NoDuplicates, Queued, Held

\* Steps that leave the queues and the records alone and at most empty the batch.
LEMMA QuietOnce ==
    ASSUME NoDuplicates, UNCHANGED <<queues, shadow, recorded>>, batch' \in {batch, <<>>}
    PROVE  NoDuplicates'
  BY EmptyOnce DEF NoDuplicates, Queued, Held

LEMMA NextOnce ==
    ASSUME OnceInv, [Next]_bufferVars
    PROVE  OnceInv'
  <1>1. TypeOK'
    BY NextType DEF OnceInv
  <1>2. NoDuplicates'
    <2>1. CASE Register \/ Reset
      BY <2>1, QuietOnce DEF OnceInv, Register, Reset, Call, callVars, register_adapter, reset_stats
    <2>2. CASE FormBatch \/ Return
      BY <2>2, QuietOnce DEF OnceInv, FormBatch, begin_batch, Return, return_batch, storeVars
    <2>3. CASE Visit
      <3>1. CASE StopFull \/ NoRoomForAWarp \/ HoldQueue
        BY <3>1, QuietOnce DEF OnceInv, StopFull, NoRoomForAWarp, HoldQueue, storeVars
      <3>2. CASE DispatchQueue
        BY <3>2, DispatchOnce DEF OnceInv
      <3> QED
        BY <2>3, <3>1, <3>2 DEF Visit, visit
    <2>4. CASE UNCHANGED bufferVars
      BY <2>4, QuietOnce DEF OnceInv, bufferVars, storeVars, callVars
    <2> QED
      BY <2>1, <2>2, <2>3, <2>4, EnqueueOnce, PreemptOnce, ResumeOnce, TickOnce,
         ReleaseOnce DEF Next
  <1>3. phase' = "idle" => batch' = <<>>
    BY DEF OnceInv, Next, Register, Enqueue, Release, Preempt, Resume, Reset, Tick, Call,
           callVars, FormBatch, Visit, Return, return_batch, bufferVars
  <1> QED
    BY <1>1, <1>2, <1>3 DEF OnceInv

\* No drops, no duplicates: whatever the order of enqueue, preempt, resume and
\* form_batch calls, a sequence is at most once in the queue of its adapter,
\* its shadow queue and the batch, and its record says which.
THEOREM NeverDuplicated == Spec => []NoDuplicates
  <1>1. Init => OnceInv
    <2> SUFFICES ASSUME Init PROVE OnceInv
      OBVIOUS
    <2>1. TypeOK
      BY InitType
    <2>2. /\ batch = <<>>
          /\ \A a \in Adapters : queues[a] = <<>> /\ shadow[a] = <<>>
      BY DEF Init, StoreInit, NoCall
    <2>3. \A a : OwnTokens(<<>>, a)
      BY DEF OwnTokens
    <2>4. \A s \in Seqs : ~Queued(s) /\ ~Held(s)
      BY <2>2, OwnAdapter, EmptyOnce DEF Queued, Held
    <2>5. NoDuplicates
      BY <2>2, <2>3, <2>4, EmptyOnce DEF NoDuplicates
    <2> QED
      BY <2>1, <2>5 DEF OnceInv, Init, NoCall
  <1>2. OnceInv /\ [Next]_bufferVars => OnceInv'
    BY NextOnce
  <1>3. OnceInv => NoDuplicates
    BY DEF OnceInv
  <1> QED
    BY <1>1, <1>2, <1>3, PTL DEF Spec

-----------------------------------------------------------------------------
(***************************************************************************)
(* The age of a queue.  AgeIsOfAToken is inductive together with the types,*)
(* and it is what makes every flush justified.                             *)
(***************************************************************************)

\* What AgeIsOfAToken says of one queue q and its age g.
AgeOf(q, g) == IF q = <<>> THEN g = None ELSE \E i \in DOMAIN q : g = q[i].age

\* q[0][1] if q else None: the head's stamp.
LEMMA HeadAgeIsOfAToken ==
    ASSUME NEW q \in Seq(Entries)
    PROVE  AgeOf(q, HeadAge(q))
  <1>1. q # <<>> => 1 \in DOMAIN q
    OBVIOUS
  <1> QED
    BY <1>1 DEF AgeOf, HeadAge

LEMMA EntryAge == \A e \in Entries : e.age \in Nat /\ e.age # None
  <1>1. \A e \in Entries : e.age \in Ages
    BY DEF Entries
  <1>2. \A n \in Nat : n # None
    BY DEF None
  <1> QED
    BY <1>1, <1>2, AgesFacts

LEMMA EnqueueAge ==
    ASSUME StoreTypeOK, AgeIsOfAToken, NEW s \in Seqs, enqueue(s)
    PROVE  AgeIsOfAToken'
  <1> DEFINE k == AdapterOf[s]
             q == queues[k]
             g == enqueueAge[k]
  <1>2. k \in Adapters /\ q \in Seq(Entries) /\ NewEntry(s) \in Entries
        /\ NewEntry(s).age = 0
    BY OwnAdapter, AgesFacts DEF StoreTypeOK, NewEntry, Entries
  <1>3. /\ queues'[k] = Append(q, NewEntry(s))
        /\ enqueueAge'[k] = IF g = None THEN 0 ELSE g
        /\ \A a \in Adapters : a # k => queues'[a] = queues[a] /\ enqueueAge'[a] = enqueueAge[a]
    BY <1>2 DEF enqueue, StoreTypeOK
  <1>4. AgeOf(q, g)
    BY <1>2 DEF AgeIsOfAToken, AgeOf
  <1> HIDE DEF q, g
  <1>5. \A i \in DOMAIN q : i \in DOMAIN Append(q, NewEntry(s))
                            /\ Append(q, NewEntry(s))[i] = q[i]
    BY <1>2
  <1>6. /\ Len(q) + 1 \in DOMAIN Append(q, NewEntry(s))
        /\ Append(q, NewEntry(s))[Len(q) + 1] = NewEntry(s)
        /\ Append(q, NewEntry(s)) # <<>>
    BY <1>2
  <1>7. CASE g = None
    BY <1>2, <1>3, <1>6, <1>7 DEF AgeIsOfAToken
  <1>8. CASE g # None
    <2>1. PICK i \in DOMAIN q : g = q[i].age
      BY <1>4, <1>8 DEF AgeOf
    <2>2. \E j \in DOMAIN queues'[k] : enqueueAge'[k] = queues'[k][j].age
      BY <1>3, <1>5, <1>8, <2>1
    <2> QED
      BY <1>3, <1>6, <2>2 DEF AgeIsOfAToken
  <1> QED
    BY <1>7, <1>8

LEMMA PreemptAge ==
    ASSUME TypeOK, AgeIsOfAToken, Preempt
    PROVE  AgeIsOfAToken'
  <1>1. PICK s \in Seqs : preempt_and_hold(s)
    BY DEF Preempt, Call
  <1> DEFINE k == AdapterOf[s]
             q == queues[k]
  <1>2. k \in Adapters /\ q \in Seq(Entries)
    BY OwnAdapter DEF TypeOK
  <1>3. \E r \in Seq(Entries) : /\ queues' = [queues EXCEPT ![k] = r]
                               /\ enqueueAge' = [enqueueAge EXCEPT ![k] = HeadAge(r)]
    <2>1. CASE \E i \in DOMAIN q : HoldEntry(k, i)
      <3>1. PICK i \in DOMAIN q : HoldEntry(k, i)
        BY <2>1
      <3>2. RemoveAt(q, i) \in Seq(Entries)
        BY <1>2, RemoveAtFacts
      <3> QED
        BY <3>1, <3>2 DEF HoldEntry
    <2>2. CASE /\ enqueueAge' = [enqueueAge EXCEPT ![k] = HeadAge(q)]
               /\ queues' = queues
      <3>1. queues' = [queues EXCEPT ![k] = q]
        BY <2>2 DEF TypeOK
      <3> QED
        BY <1>2, <2>2, <3>1
    <2> QED
      BY <1>1, <2>1, <2>2 DEF preempt_and_hold
  <1>4. PICK r \in Seq(Entries) : /\ queues' = [queues EXCEPT ![k] = r]
                                 /\ enqueueAge' = [enqueueAge EXCEPT ![k] = HeadAge(r)]
    BY <1>3
  <1>5. AgeOf(r, HeadAge(r))
    BY HeadAgeIsOfAToken
  <1> QED
    BY <1>2, <1>4, <1>5 DEF AgeIsOfAToken, AgeOf, TypeOK

LEMMA ResumeAge ==
    ASSUME TypeOK, AgeIsOfAToken, Resume
    PROVE  AgeIsOfAToken'
  <1>1. PICK s \in Seqs : resume_from_shadow(s)
    BY DEF Resume, Call
  <1> DEFINE k == AdapterOf[s]
             q == queues[k]
             g == enqueueAge[k]
  <1>2. k \in Adapters /\ q \in Seq(Entries) /\ shadow[k] \in Seq(Entries)
    BY OwnAdapter DEF TypeOK
  <1>3. PICK e \in Entries : /\ queues' = [queues EXCEPT ![k] = <<e>> \o @]
                            /\ enqueueAge' = [enqueueAge EXCEPT ![k] = Larger(@, e.age)]
    <2>1. \A i \in DOMAIN shadow[k] : shadow[k][i] \in Entries
      BY <1>2
    <2> QED
      BY <1>1, <2>1 DEF resume_from_shadow
  <1>4. /\ queues'[k] = <<e>> \o q
        /\ enqueueAge'[k] = Larger(g, e.age)
        /\ \A a \in Adapters : a # k => queues'[a] = queues[a] /\ enqueueAge'[a] = enqueueAge[a]
    BY <1>2, <1>3 DEF TypeOK
  <1>5. AgeOf(q, g) /\ g \in Ages \cup {None}
    BY <1>2 DEF AgeIsOfAToken, AgeOf, TypeOK
  <1> HIDE DEF q, g
  <1>6. /\ <<e>> \o q # <<>>
        /\ 1 \in DOMAIN (<<e>> \o q) /\ (<<e>> \o q)[1] = e
        /\ \A i \in DOMAIN q : i + 1 \in DOMAIN (<<e>> \o q) /\ (<<e>> \o q)[i + 1] = q[i]
    BY <1>2
  <1>7. \E j \in DOMAIN (<<e>> \o q) : Larger(g, e.age) = (<<e>> \o q)[j].age
    <2>1. CASE q = <<>>
      <3>1. Larger(g, e.age) = e.age
        BY <1>5, <2>1, EntryAge DEF AgeOf, Larger, None
      <3> QED
        BY <1>6, <3>1
    <2>2. CASE q # <<>>
      <3>1. PICK i \in DOMAIN q : g = q[i].age
        BY <1>5, <2>2 DEF AgeOf
      <3>2. Larger(g, e.age) \in {g, e.age}
        BY DEF Larger
      <3> QED
        BY <1>6, <3>1, <3>2
    <2> QED
      BY <2>1, <2>2
  <1> QED
    BY <1>4, <1>6, <1>7 DEF AgeIsOfAToken

LEMMA TickAge ==
    ASSUME TypeOK, AgeIsOfAToken, Tick
    PROVE  AgeIsOfAToken'
  <1> SUFFICES ASSUME NEW a \in Adapters
               PROVE  IF queues'[a] = <<>> THEN enqueueAge'[a] = None
                      ELSE \E i \in DOMAIN queues'[a] : enqueueAge'[a] = queues'[a][i].age
    BY DEF AgeIsOfAToken
  <1>1. queues'[a] = OlderQueue(queues[a]) /\ enqueueAge'[a] = Older(enqueueAge[a])
    BY DEF Tick, Call, Elapse
  <1>2. queues[a] \in Seq(Entries) /\ \A i \in DOMAIN queues[a] : queues[a][i] \in Entries
    BY DEF TypeOK
  <1>3. CASE queues[a] = <<>>
    <2>1. OlderQueue(<<>>) = <<>> /\ Older(None) = None
      BY AgesFacts DEF OlderQueue, Older, None
    <2> QED
      BY <1>1, <1>3, <2>1 DEF AgeIsOfAToken
  <1>4. CASE queues[a] # <<>>
    <2>1. PICK i \in DOMAIN queues[a] : enqueueAge[a] = queues[a][i].age
      BY <1>4 DEF AgeIsOfAToken
    <2>2. OlderQueue(queues[a])[i].age = Older(queues[a][i].age)
      BY <1>2 DEF OlderQueue, Entries
    <2>3. DOMAIN OlderQueue(queues[a]) = DOMAIN queues[a]
      BY DEF OlderQueue
    <2>4. OlderQueue(queues[a]) # <<>>
      BY <2>1, <2>3
    <2> QED
      BY <1>1, <2>1, <2>2, <2>3, <2>4
  <1> QED
    BY <1>3, <1>4

LEMMA DispatchAge ==
    ASSUME TypeOK, AgeIsOfAToken, DispatchQueue
    PROVE  AgeIsOfAToken'
  <1> DEFINE k == Head(todo)
             n == DispatchCount(k)
             rest == SubSeq(queues[k], n + 1, Len(queues[k]))
  <1>1. k \in Adapters /\ queues[k] \in Seq(Entries)
    BY DEF DispatchQueue, TypeOK
  <1>2. n \in 0 .. Len(queues[k])
    BY <1>1, DispatchCountBounds DEF DispatchQueue
  <1>3. /\ queues' = [queues EXCEPT ![k] = rest]
        /\ enqueueAge' = [enqueueAge EXCEPT ![k] = HeadAge(rest)]
    BY DEF DispatchQueue
  <1> HIDE DEF n
  <1>4. rest \in Seq(Entries)
    BY <1>1, <1>2
  <1> HIDE DEF rest
  <1>5. AgeOf(rest, HeadAge(rest))
    BY <1>4, HeadAgeIsOfAToken
  <1> QED
    BY <1>1, <1>3, <1>5 DEF AgeIsOfAToken, AgeOf, TypeOK

LEMMA NextAge ==
    ASSUME TypeOK, AgeIsOfAToken, [Next]_bufferVars
    PROVE  AgeIsOfAToken'
  <1>1. CASE Register \/ Release \/ Reset
    BY <1>1 DEF AgeIsOfAToken, Register, Release, Reset, Call, register_adapter, release, reset_stats
  <1>2. CASE FormBatch \/ Return \/ UNCHANGED bufferVars
    BY <1>2 DEF AgeIsOfAToken, FormBatch, begin_batch, Return, return_batch, bufferVars, storeVars
  <1>3. CASE Visit
    <2>1. CASE StopFull \/ NoRoomForAWarp \/ HoldQueue
      BY <2>1 DEF AgeIsOfAToken, StopFull, NoRoomForAWarp, HoldQueue, storeVars
    <2> QED
      BY <1>3, <2>1, DispatchAge DEF Visit, visit
  <1>4. CASE Enqueue
    BY <1>4, TypeParts, EnqueueAge DEF Enqueue, Call
  <1> QED
    BY <1>1, <1>2, <1>3, <1>4, PreemptAge, ResumeAge, TickAge DEF Next

\* enqueue_time[k] is always the stamp of a token that is still in Q_k, and
\* None when there is none: no deadline ever runs for a token that has left.
THEOREM AgeBelongsToTheQueue == Spec => []AgeIsOfAToken
  <1>1. Init => TypeOK /\ AgeIsOfAToken
    <2>1. Init => AgeIsOfAToken
      BY DEF Init, StoreInit, AgeIsOfAToken
    <2> QED
      BY <2>1, InitType
  <1>2. TypeOK /\ AgeIsOfAToken /\ [Next]_bufferVars => TypeOK' /\ AgeIsOfAToken'
    BY NextType, NextAge
  <1> QED
    BY <1>1, <1>2, PTL DEF Spec

\* The iteration that appends tokens to the batch dispatches one queue.
LEMMA OnlyDispatchGrows ==
    ASSUME TypeOK, [Next]_bufferVars, Len(batch') > Len(batch)
    PROVE  DispatchQueue
  <1>1. CASE UNCHANGED batch
    BY <1>1 DEF TypeOK
  <1>2. CASE batch' = <<>>
    BY <1>2 DEF TypeOK
  <1>3. DispatchQueue \/ UNCHANGED batch \/ batch' = <<>>
    BY DEF Next, Register, Enqueue, Release, Preempt, Resume, Reset, Tick, Call, callVars,
           FormBatch, begin_batch, Return, return_batch, bufferVars,
           Visit, visit, StopFull, NoRoomForAWarp, HoldQueue
  <1> QED
    BY <1>1, <1>2, <1>3

LEMMA FlushReason ==
    ASSUME TypeOK, AgeIsOfAToken, DispatchQueue
    PROVE  LET a == batch'[Len(batch')].adapter
               q == queues[a]
               waited(d, n) == \E i \in DOMAIN q : n * q[i].age >= d
               D == EffectiveDeadline(a)
           IN  \/ (Len(batch') - Len(batch)) % W = 0
               \/ waited(D, 1)
               \/ method = "form_batch_wgkp" /\ Len(q) >= nStar
               \/ method = "form_batch_wgkp" /\ 2 * Len(q) >= nStar /\ waited(D + 1, 2)
  <1> DEFINE k == Head(todo)
             n == DispatchCount(k)
             q == queues[k]
             D == EffectiveDeadline(k)
             waited(d, m) == \E i \in DOMAIN q : m * q[i].age >= d
  <1>1. k \in Adapters /\ q \in Seq(Entries) /\ q # <<>> /\ batch \in Seq(Tokens)
    BY DEF DispatchQueue, TypeOK
  <1>2. n \in 1 .. Len(q)
    BY <1>1, DispatchCountBounds DEF DispatchQueue
  <1>3. batch' = batch \o Chunk(k, n)
    BY DEF DispatchQueue
  <1>4. PICK i \in DOMAIN q : enqueueAge[k] = q[i].age
    BY <1>1 DEF AgeIsOfAToken
  <1>5. q[i].age \in Nat /\ Age(k) = q[i].age
    BY <1>1, <1>4, EntryAge DEF Age
  <1>6. D \in Nat /\ W \in Nat \ {0} /\ nStar \in Nat /\ Len(q) \in Nat
    BY <1>1, BufferAssumption DEF TypeOK, EffectiveDeadline, Smaller
  <1>7. batch'[Len(batch')].adapter = k /\ Len(batch') - Len(batch) = n
    <2>1. /\ Chunk(k, n) \in Seq(Tokens) /\ Len(Chunk(k, n)) = n
          /\ Chunk(k, n)[n].adapter = k
      BY <1>1, <1>2, ChunkFacts
    <2> HIDE DEF n
    <2>2. /\ Len(batch') = Len(batch) + n
          /\ batch'[Len(batch) + n] = Chunk(k, n)[n]
      <3>1. Len(batch) \in Nat /\ n \in Nat /\ n > 0
        BY <1>1, <1>2
      <3> DEFINE c == Chunk(k, n)
      <3> HIDE DEF c
      <3>3. c \in Seq(Tokens) /\ Len(c) = n
        BY <2>1 DEF c
      <3>4. /\ Len(batch \o c) = Len(batch) + Len(c)
            /\ \A j \in 1 .. Len(batch) + Len(c) : (batch \o c)[j] =
                    IF j <= Len(batch) THEN batch[j] ELSE c[j - Len(batch)]
        BY <1>1, <3>3, ConcatProperties
      <3>5. Len(batch) + n \in 1 .. Len(batch) + Len(c)
            /\ ~(Len(batch) + n <= Len(batch)) /\ (Len(batch) + n) - Len(batch) = n
        BY <3>1, <3>3
      <3> QED
        BY <1>3, <3>3, <3>4, <3>5 DEF c
    <2>3. Len(batch) \in Nat /\ n \in Nat
      BY <1>1, <1>2
    <2> QED
      BY <2>1, <2>2, <2>3
  <1>8. \/ n % W = 0
        \/ waited(D, 1)
        \/ method = "form_batch_wgkp" /\ Len(q) >= nStar
        \/ method = "form_batch_wgkp" /\ 2 * Len(q) >= nStar /\ waited(D + 1, 2)
    <2>1. Rule(k) \in {"warps", "nstar", "half", "expired", "hold"}
      BY DEF Rule
    <2>2. CASE Rule(k) = "warps"
      <3>1. Left > 0 /\ Left \in Nat
        BY DEF DispatchQueue, TypeOK, Left
      <3>2. WarpsThatFit(k) \in Nat
        BY <1>6, <3>1, QuotientNat DEF WarpsThatFit, Smaller
      <3>3. n = W * WarpsThatFit(k)
        BY <2>2 DEF DispatchCount
      <3>4. \A m \in Nat : (W * m) % W = 0
        BY <1>6, Z3
      <3> QED
        BY <3>2, <3>3, <3>4
    <2>3. CASE Rule(k) = "nstar"
      BY <2>3 DEF Rule
    <2>4. CASE Rule(k) = "half"
      <3>1. method = "form_batch_wgkp" /\ 2 * Len(q) >= nStar /\ 2 * Age(k) > D
        BY <2>4 DEF Rule
      <3>2. 2 * q[i].age >= D + 1
        BY <1>5, <1>6, <3>1
      <3> QED
        BY <3>1, <3>2
    <2>5. CASE Rule(k) = "expired"
      <3>1. Expired(k)
        BY <2>5 DEF Rule
      <3>2. 1 * q[i].age >= D
        BY <1>5, <1>6, <3>1 DEF Expired
      <3> QED
        BY <3>2
    <2>6. CASE Rule(k) = "hold"
      BY <1>2, <2>6 DEF DispatchCount
    <2> QED
      BY <2>1, <2>2, <2>3, <2>4, <2>5, <2>6
  <1> QED
    BY <1>7, <1>8

\* No partial queue is flushed without a token in it that has waited for its
\* deadline (or, in wgkp mode, without rule 2 or 3 applying): the interplay of
\* preemption, out-of-order resumption and partial dispatches never makes a
\* fresh queue look expired.
THEOREM FlushedForAReason == Spec => NoEarlyFlush
  <1>1. Init => TypeOK /\ AgeIsOfAToken
    <2>1. Init => AgeIsOfAToken
      BY DEF Init, StoreInit, AgeIsOfAToken
    <2> QED
      BY <2>1, InitType
  <1>2. TypeOK /\ AgeIsOfAToken /\ [Next]_bufferVars => TypeOK' /\ AgeIsOfAToken'
    BY NextType, NextAge
  <1>3. TypeOK /\ AgeIsOfAToken /\ [Next]_bufferVars =>
          [Len(batch') > Len(batch) =>
            LET a == batch'[Len(batch')].adapter
                q == queues[a]
                waited(d, n) == \E i \in DOMAIN q : n * q[i].age >= d
                D == EffectiveDeadline(a)
            IN  \/ (Len(batch') - Len(batch)) % W = 0
                \/ waited(D, 1)
                \/ method = "form_batch_wgkp" /\ Len(q) >= nStar
                \/ method = "form_batch_wgkp" /\ 2 * Len(q) >= nStar /\ waited(D + 1, 2)]_bufferVars
    BY OnlyDispatchGrows, FlushReason
  <1> QED
    BY <1>1, <1>2, <1>3, PTL DEF Spec, NoEarlyFlush

-----------------------------------------------------------------------------
(***************************************************************************)
(* Alignment.  An adapter is visited at most once in a call because the    *)
(* adapters still to visit are distinct and none is in the batch yet.      *)
(***************************************************************************)

Distinct(q) == \A i, j \in DOMAIN q : q[i] = q[j] => i = j

AlignInv ==
    /\ TypeOK
    /\ Distinct(registered) /\ Distinct(todo)
    /\ \A i \in DOMAIN batch, j \in DOMAIN todo : batch[i].adapter # todo[j]
    /\ BatchAligned

LEMMA RegisterDistinct ==
    ASSUME NEW a \in Adapters, registered \in Seq(Adapters), Distinct(registered)
    PROVE  Distinct(AfterRegistering(a))
  <1>1. CASE IsRegistered(a)
    BY <1>1 DEF AfterRegistering
  <1>2. CASE ~IsRegistered(a)
    <2> DEFINE r == Append(registered, a)
    <2>1. /\ DOMAIN r = 1 .. Len(registered) + 1
          /\ DOMAIN registered = 1 .. Len(registered) /\ Len(registered) \in Nat
          /\ \A i \in 1 .. Len(registered) : r[i] = registered[i]
          /\ r[Len(registered) + 1] = a
      OBVIOUS
    <2> HIDE DEF r
    <2>2. \A i \in DOMAIN r : \/ i \in DOMAIN registered /\ r[i] = registered[i]
                              \/ i = Len(registered) + 1 /\ r[i] = a
      BY <2>1
    <2>3. \A i \in DOMAIN registered : registered[i] # a
      BY <1>2 DEF IsRegistered
    <2>4. Distinct(r)
      BY <2>2, <2>3 DEF Distinct
    <2> QED
      BY <1>2, <2>4 DEF AfterRegistering, r
  <1> QED
    BY <1>1, <1>2

LEMMA TailFacts ==
    ASSUME NEW S, NEW q \in Seq(S), q # <<>>, Distinct(q)
    PROVE  /\ Tail(q) \in Seq(S) /\ Distinct(Tail(q))
           /\ \A j \in DOMAIN Tail(q) : Tail(q)[j] # Head(q)
           /\ \A j \in DOMAIN Tail(q) : \E i \in DOMAIN q : Tail(q)[j] = q[i]
  <1> DEFINE t == Tail(q)
  <1>1. /\ t \in Seq(S) /\ DOMAIN q = 1 .. Len(q) /\ Len(q) \in Nat /\ Len(q) >= 1
        /\ DOMAIN t = 1 .. Len(q) - 1 /\ Head(q) = q[1]
        /\ \A j \in 1 .. Len(q) - 1 : t[j] = q[j + 1]
    OBVIOUS
  <1> HIDE DEF t
  <1>2. \A j \in DOMAIN t : j + 1 \in DOMAIN q /\ j + 1 # 1 /\ t[j] = q[j + 1] /\ j \in Nat
    BY <1>1
  <1>3. Distinct(t)
    BY <1>2 DEF Distinct
  <1>4. \A j \in DOMAIN t : t[j] # Head(q)
    BY <1>1, <1>2 DEF Distinct
  <1> QED
    BY <1>1, <1>2, <1>3, <1>4 DEF t

LEMMA DispatchAligned ==
    ASSUME AlignInv, DispatchQueue
    PROVE  /\ BatchAligned'
           /\ \A i \in DOMAIN batch', j \in DOMAIN todo' : batch'[i].adapter # todo'[j]
  <1> DEFINE k == Head(todo)
             n == DispatchCount(k)
             c == Chunk(k, n)
             m == Len(batch)
  <1>1. k \in Adapters /\ queues[k] \in Seq(Entries) /\ batch \in Seq(Tokens)
        /\ todo \in Seq(Adapters) /\ todo # <<>>
    BY DEF DispatchQueue, AlignInv, TypeOK
  <1>2. n \in 0 .. Len(queues[k])
    BY <1>1, DispatchCountBounds DEF DispatchQueue, AlignInv
  <1>3. batch' = batch \o c /\ todo' = Tail(todo)
    BY DEF DispatchQueue, Continue
  <1> HIDE DEF n
  <1>4. /\ c \in Seq(Tokens) /\ Len(c) = n
        /\ \A i \in 1 .. n : c[i].adapter = k /\ c[i].promoted = Promoted(k)
    BY <1>1, <1>2, ChunkFacts
  <1> HIDE DEF c
  <1>5. /\ batch' \in Seq(Tokens) /\ Len(batch') = m + n
        /\ \A i \in 1 .. m + n : batch'[i] = IF i <= m THEN batch[i] ELSE c[i - m]
    BY <1>1, <1>3, <1>4, ConcatProperties
  <1>6. m \in Nat /\ n \in Nat /\ DOMAIN batch = 1 .. m /\ DOMAIN batch' = 1 .. m + n
    BY <1>1, <1>2, <1>5
  <1>7. 1 \in DOMAIN todo /\ k = todo[1]
    BY <1>1
  <1>8. \A i \in DOMAIN batch : batch[i].adapter # k
    BY <1>7 DEF AlignInv
  <1> HIDE DEF k, m
  <1>9. \A i \in DOMAIN batch' : i <= m => i \in DOMAIN batch /\ batch'[i] = batch[i]
    BY <1>5, <1>6
  <1>10. \A i \in DOMAIN batch' : i > m => /\ batch'[i].adapter = k
                                          /\ batch'[i].promoted = Promoted(k)
    <2>1. \A i \in 1 .. m + n : i > m => batch'[i] = c[i - m] /\ i - m \in 1 .. n
      BY <1>5, <1>6
    <2> QED
      BY <1>4, <1>6, <2>1
  <1>11. ASSUME NEW i \in DOMAIN batch', NEW j \in DOMAIN batch',
                batch'[i].adapter = batch'[j].adapter
         PROVE  /\ batch'[i].promoted = batch'[j].promoted
                /\ \A x \in i .. j : batch'[x].adapter = batch'[i].adapter
    <2>1. i \in Nat /\ j \in Nat /\ \A x \in i .. j : x \in DOMAIN batch' /\ i <= x /\ x <= j
      BY <1>6
    <2>2. CASE i <= m /\ j <= m
      <3>1. i \in DOMAIN batch /\ j \in DOMAIN batch /\ batch'[i] = batch[i] /\ batch'[j] = batch[j]
        BY <1>9, <2>2
      <3>2. \A x \in i .. j : x <= m
        BY <1>6, <2>1, <2>2
      <3>3. \A x \in i .. j : batch'[x] = batch[x]
        BY <1>9, <2>1, <3>2
      <3> QED
        BY <1>11, <3>1, <3>3 DEF AlignInv, BatchAligned
    <2>3. CASE i > m /\ j > m
      <3>1. \A x \in i .. j : x > m
        BY <1>6, <2>1, <2>3
      <3> QED
        BY <1>10, <2>1, <2>3, <3>1
    <2>4. CASE (i <= m /\ j > m) \/ (i > m /\ j <= m)
      BY <1>8, <1>9, <1>10, <1>11, <2>4
    <2> QED
      BY <1>6, <2>1, <2>2, <2>3, <2>4
  <1>12. ASSUME NEW i \in DOMAIN batch', NEW j \in DOMAIN todo'
         PROVE  batch'[i].adapter # todo'[j]
    <2>1. todo'[j] # k /\ \E x \in DOMAIN todo : todo'[j] = todo[x]
      BY <1>1, <1>3, TailFacts DEF AlignInv, k
    <2>2. CASE i <= m
      BY <1>9, <2>1, <2>2 DEF AlignInv
    <2>3. CASE i > m
      BY <1>10, <2>1, <2>3
    <2> QED
      BY <1>6, <2>2, <2>3
  <1> QED
    BY <1>11, <1>12 DEF BatchAligned

\* Steps of the loop that add nothing to the batch.
LEMMA SkipAligned ==
    ASSUME AlignInv, batch' = batch, todo # <<>>, todo' \in {Tail(todo), <<>>}
    PROVE  /\ BatchAligned'
           /\ \A i \in DOMAIN batch', j \in DOMAIN todo' : batch'[i].adapter # todo'[j]
  <1>1. BatchAligned'
    BY DEF AlignInv, BatchAligned
  <1>2. \A j \in DOMAIN todo' : \E x \in DOMAIN todo : todo'[j] = todo[x]
    <2>1. CASE todo' = <<>>
      BY <2>1
    <2>2. CASE todo' = Tail(todo)
      <3>1. todo \in Seq(Adapters) /\ Distinct(todo)
        BY DEF AlignInv, TypeOK
      <3> QED
        BY <2>2, <3>1, TailFacts
    <2> QED
      BY <2>1, <2>2
  <1> QED
    BY <1>1, <1>2 DEF AlignInv

LEMMA VisitAligned ==
    ASSUME AlignInv, Visit
    PROVE  /\ Distinct(todo')
           /\ BatchAligned'
           /\ \A i \in DOMAIN batch', j \in DOMAIN todo' : batch'[i].adapter # todo'[j]
  <1>1. todo # <<>> /\ todo' \in {Tail(todo), <<>>}
    BY DEF Visit, visit, StopFull, NoRoomForAWarp, HoldQueue, DispatchQueue, Continue
  <1>2. Distinct(todo')
    <2>1. CASE todo' = <<>>
      BY <2>1 DEF Distinct
    <2>2. CASE todo' = Tail(todo)
      <3>1. todo \in Seq(Adapters) /\ Distinct(todo)
        BY DEF AlignInv, TypeOK
      <3> QED
        BY <1>1, <2>2, <3>1, TailFacts
    <2> QED
      BY <1>1, <2>1, <2>2
  <1>3. batch' = batch \/ DispatchQueue
    BY DEF Visit, visit, StopFull, NoRoomForAWarp, HoldQueue
  <1> QED
    BY <1>1, <1>2, <1>3, SkipAligned, DispatchAligned

LEMMA NextAligned ==
    ASSUME AlignInv, [Next]_bufferVars
    PROVE  AlignInv'
  <1>1. TypeOK'
    BY NextType DEF AlignInv
  <1>2. Distinct(registered')
    <2>1. CASE Register
      <3>1. PICK a \in Adapters : register_adapter(a)
        BY <2>1 DEF Register, Call
      <3>2. registered' = AfterRegistering(a)
        BY <3>1 DEF register_adapter, AfterRegistering
      <3> QED
        BY <3>2, RegisterDistinct DEF AlignInv, TypeOK
    <2>2. CASE Enqueue
      <3>1. PICK s \in Seqs : registered' = AfterRegistering(AdapterOf[s])
        BY <2>2 DEF Enqueue, Call, enqueue
      <3> QED
        BY <3>1, OwnAdapter, RegisterDistinct DEF AlignInv, TypeOK
    <2>3. CASE UNCHANGED registered
      BY <2>3 DEF AlignInv
    <2> QED
      BY <2>1, <2>2, <2>3 DEF Next, Release, release, Preempt, preempt_and_hold, Resume,
         resume_from_shadow, Reset, reset_stats, Tick, Elapse, Call, FormBatch, begin_batch,
         Visit, visit, StopFull, NoRoomForAWarp, HoldQueue, DispatchQueue,
         Return, return_batch, bufferVars, storeVars
  <1>3. /\ Distinct(todo')
        /\ BatchAligned'
        /\ \A i \in DOMAIN batch', j \in DOMAIN todo' : batch'[i].adapter # todo'[j]
    <2>1. CASE UNCHANGED <<todo, batch>>
      BY <2>1 DEF AlignInv, BatchAligned
    <2>2. CASE FormBatch
      <3>1. batch' = <<>> /\ \E m \in Methods : todo' \in VisitOrders(m)
        BY <2>2 DEF FormBatch, begin_batch
      <3>2. Distinct(todo')
        BY <3>1 DEF VisitOrders, Distinct, AlignInv
      <3> QED
        BY <3>1, <3>2 DEF BatchAligned
    <2>3. CASE Return
      BY <2>3 DEF Return, return_batch, Distinct, BatchAligned
    <2>4. CASE Visit
      BY <2>4, VisitAligned
    <2> QED
      BY <2>1, <2>2, <2>3, <2>4 DEF Next, Register, Enqueue, Release, Preempt, Resume, Reset,
         Tick, Call, callVars, bufferVars
  <1> QED
    BY <1>1, <1>2, <1>3 DEF AlignInv

\* Every list form_batch* builds is adapter-contiguous with one promotion flag
\* per adapter, in every visiting order: no kernel segment is split, and
\* segment_and_promote never sees a mixed run.
THEOREM AlwaysAligned == Spec => []BatchAligned
  <1>1. Init => AlignInv
    <2>1. Init => registered = <<>> /\ todo = <<>> /\ batch = <<>>
      BY DEF Init, StoreInit, NoCall
    <2> QED
      BY <2>1, InitType DEF AlignInv, Distinct, BatchAligned
  <1>2. AlignInv /\ [Next]_bufferVars => AlignInv'
    BY NextAligned
  <1>3. AlignInv => BatchAligned
    BY DEF AlignInv
  <1> QED
    BY <1>1, <1>2, <1>3, PTL DEF Spec

-----------------------------------------------------------------------------
(***************************************************************************)
(* How many tokens are pending.                                            *)
(***************************************************************************)

\* A queue of q by another of r tokens changes the total by r - q.
LEMMA PendingUpdate ==
    ASSUME NEW qs \in [Adapters -> Seq(Entries)], NEW a \in Adapters,
           NEW r \in Seq(Entries)
    PROVE  /\ PendingTotal(qs) \in Nat
           /\ Len(qs[a]) <= PendingTotal(qs)
           /\ PendingTotal([qs EXCEPT ![a] = r]) = PendingTotal(qs) - Len(qs[a]) + Len(r)
  <1> DEFINE places == [b \in Adapters |-> {b} \X DOMAIN qs[b]]
             families == {places[b] : b \in Adapters \ {a}}
             others == UNION families
             mine(q) == {a} \X DOMAIN q
             new == [qs EXCEPT ![a] = r]
  <1>1. \A b \in Adapters : IsFiniteSet(places[b])
    <2> SUFFICES ASSUME NEW b \in Adapters PROVE IsFiniteSet({b} \X DOMAIN qs[b])
      OBVIOUS
    <2>1. Len(qs[b]) \in Nat /\ DOMAIN qs[b] = 1 .. Len(qs[b])
      OBVIOUS
    <2>2. IsFiniteSet({b})
      BY FS_Singleton
    <2>3. IsFiniteSet(DOMAIN qs[b])
      BY <2>1, FS_Interval
    <2> QED
      BY <2>2, <2>3, FS_Product
  <1>2. IsFiniteSet(others)
    <2>1. IsFiniteSet(Adapters \ {a})
      BY BufferAssumption, FS_Difference
    <2> DEFINE f == [b \in Adapters \ {a} |-> places[b]]
    <2>2. f \in Surjection(Adapters \ {a}, families)
      <3> HIDE DEF places
      <3>1. f \in [Adapters \ {a} -> families]
        OBVIOUS
      <3>2. \A t \in families : \E b \in Adapters \ {a} : f[b] = t
        OBVIOUS
      <3> QED
        BY <3>1, <3>2, Fun_IsSurj
    <2>3. IsFiniteSet(families)
      BY <2>1, <2>2, FS_Surjection
    <2>4. \A t \in families : IsFiniteSet(t)
      BY <1>1
    <2> HIDE DEF families
    <2> QED
      BY <2>3, <2>4, FS_UNION
  <1>3. ASSUME NEW q \in Seq(Entries)
        PROVE  /\ IsFiniteSet(mine(q)) /\ Cardinality(mine(q)) = Len(q)
               /\ Cardinality(others \cup mine(q)) = Cardinality(others) + Len(q)
    <2>1. Len(q) \in Nat /\ DOMAIN q = 1 .. Len(q)
      OBVIOUS
    <2>2. IsFiniteSet({a}) /\ Cardinality({a}) = 1
      BY FS_Singleton
    <2>3. IsFiniteSet(DOMAIN q) /\ Cardinality(DOMAIN q) = Len(q)
      <3> DEFINE n == Len(q)
      <3>1. n \in Nat /\ DOMAIN q = 1 .. n
        BY <2>1
      <3> HIDE DEF n
      <3>2. IsFiniteSet(1 .. n) /\ Cardinality(1 .. n) = IF 1 > n THEN 0 ELSE n - 1 + 1
        BY <3>1, FS_Interval
      <3>3. IsFiniteSet(1 .. n) /\ Cardinality(1 .. n) = n
        BY <3>1, <3>2
      <3> QED
        BY <3>1, <3>3 DEF n
    <2>4. IsFiniteSet(mine(q)) /\ Cardinality(mine(q)) = Len(q)
      <3>1. /\ IsFiniteSet({a} \X DOMAIN q)
            /\ Cardinality({a} \X DOMAIN q) = Cardinality({a}) * Cardinality(DOMAIN q)
        BY <2>2, <2>3, FS_Product
      <3>2. \A n \in Nat : 1 * n = n
        OBVIOUS
      <3> QED
        BY <2>1, <2>2, <2>3, <3>1, <3>2
    <2>5. others \cap mine(q) = {}
      OBVIOUS
    <2> HIDE DEF others, mine
    <2>6. Cardinality(others \cup mine(q)) =
              Cardinality(others) + Cardinality(mine(q)) - Cardinality({})
      BY <1>2, <2>4, <2>5, FS_Union
    <2>7. Cardinality({}) = 0 /\ Cardinality(others) \in Nat
      BY <1>2, FS_EmptySet, FS_CardinalityType
    <2> QED
      BY <2>1, <2>4, <2>6, <2>7
  <1>4. UNION {{b} \X DOMAIN qs[b] : b \in Adapters} = others \cup mine(qs[a])
    OBVIOUS
  <1>5. UNION {{b} \X DOMAIN new[b] : b \in Adapters} = others \cup mine(r)
    OBVIOUS
  <1>6. qs[a] \in Seq(Entries) /\ Len(qs[a]) \in Nat /\ Len(r) \in Nat
        /\ Cardinality(others) \in Nat
    BY <1>2, FS_CardinalityType
  <1> HIDE DEF others, mine, new
  <1>7. PendingTotal(qs) = Cardinality(others) + Len(qs[a])
    BY <1>3, <1>4, <1>6 DEF PendingTotal
  <1>8. PendingTotal(new) = Cardinality(others) + Len(r)
    BY <1>3, <1>5, <1>6 DEF PendingTotal
  <1> QED
    BY <1>6, <1>7, <1>8 DEF new

\* What is pending depends on the lengths of the queues only.
LEMMA PendingSame ==
    ASSUME NEW qs, NEW rs, \A a \in Adapters : DOMAIN qs[a] = DOMAIN rs[a]
    PROVE  PendingTotal(qs) = PendingTotal(rs)
  <1>1. {{a} \X DOMAIN qs[a] : a \in Adapters} = {{a} \X DOMAIN rs[a] : a \in Adapters}
    OBVIOUS
  <1> QED
    BY <1>1 DEF PendingTotal

LEMMA PendingType ==
    ASSUME NEW qs \in [Adapters -> Seq(Entries)]
    PROVE  PendingTotal(qs) \in Nat
  <1>1. CASE Adapters = {}
    <2>1. {{b} \X DOMAIN qs[b] : b \in Adapters} = {}
      BY <1>1
    <2>2. UNION {{b} \X DOMAIN qs[b] : b \in Adapters} = {}
      BY <2>1
    <2>3. PendingTotal(qs) = Cardinality({})
      BY <2>2 DEF PendingTotal
    <2> QED
      BY <2>3, FS_EmptySet
  <1>2. ASSUME NEW a \in Adapters PROVE PendingTotal(qs) \in Nat
    <2>1. <<>> \in Seq(Entries)
      OBVIOUS
    <2> QED
      BY <2>1, PendingUpdate
  <1> QED
    BY <1>1, <1>2

\* What each step does to the counters and to the queues.
Balanced ==
    LET total == PendingTotal(queues) + PendingTotal(shadow) IN
    outstanding' - outstanding = total' - total

LEMMA QuietBalanced ==
    ASSUME TypeOK, outstanding' = outstanding,
           \A a \in Adapters : /\ DOMAIN queues'[a] = DOMAIN queues[a]
                               /\ DOMAIN shadow'[a] = DOMAIN shadow[a]
    PROVE  Balanced
  <1> DEFINE p(qs) == PendingTotal(qs)
  <1>1. p(queues') = p(queues) /\ p(shadow') = p(shadow)
    BY PendingSame
  <1> HIDE DEF p
  <1>2. p(queues) \in Int /\ p(shadow) \in Int /\ outstanding \in Int
    BY PendingType DEF TypeOK, p
  <1>3. \A x, y, o \in Int : o - o = (x + y) - (x + y)
    OBVIOUS
  <1>4. outstanding' - outstanding = (p(queues') + p(shadow')) - (p(queues) + p(shadow))
    BY <1>1, <1>2, <1>3
  <1> QED
    BY <1>4 DEF Balanced, p

\* One token more, or n fewer, in one queue.
LEMMA DispatchBalanced ==
    ASSUME TypeOK, DispatchQueue
    PROVE  /\ Balanced
           /\ Left' - PendingTotal(queues') = Left - PendingTotal(queues)
           /\ PendingTotal(queues) \in Nat
  <1> DEFINE a == Head(todo)
             n == DispatchCount(a)
             rest == SubSeq(queues[a], n + 1, Len(queues[a]))
  <1>1. a \in Adapters /\ queues[a] \in Seq(Entries) /\ queues \in [Adapters -> Seq(Entries)]
        /\ batch \in Seq(Tokens)
    BY DEF DispatchQueue, TypeOK
  <1>2. n \in 0 .. Len(queues[a])
    BY <1>1, DispatchCountBounds DEF DispatchQueue
  <1>3. /\ queues' = [queues EXCEPT ![a] = rest]
        /\ outstanding' = outstanding - n
        /\ batch' = batch \o Chunk(a, n)
        /\ UNCHANGED <<shadow, budget>>
    BY DEF DispatchQueue, CountDispatched, argVars
  <1> HIDE DEF n
  <1>4. rest \in Seq(Entries) /\ Len(rest) = Len(queues[a]) - n
    BY <1>1, <1>2
  <1>5. Len(batch') = Len(batch) + n
    <2>1. Chunk(a, n) \in Seq(Tokens) /\ Len(Chunk(a, n)) = n
      BY <1>1, <1>2, ChunkFacts
    <2> QED
      BY <1>1, <1>3, <2>1, ConcatProperties
  <1> HIDE DEF rest, a
  <1>6. /\ PendingTotal(queues) \in Nat
        /\ PendingTotal(queues') = PendingTotal(queues) - Len(queues[a]) + Len(rest)
    BY <1>1, <1>3, <1>4, PendingUpdate
  <1>7. PendingTotal(shadow') = PendingTotal(shadow) /\ PendingTotal(shadow) \in Nat
    <2>1. <<>> \in Seq(Entries) /\ shadow \in [Adapters -> Seq(Entries)]
      BY DEF TypeOK
    <2> QED
      BY <1>1, <1>3, <2>1, PendingUpdate
  <1>8. n \in Nat /\ Len(queues[a]) \in Nat /\ Len(batch) \in Nat /\ budget \in Nat
        /\ outstanding \in Int
    BY <1>1, <1>2 DEF TypeOK
  <1>9. Balanced
    <2> DEFINE P == PendingTotal(queues)
               Q == PendingTotal(queues')
               H == PendingTotal(shadow)
    <2>1. P \in Nat /\ H \in Nat /\ Q = P - n
      <3>1. Len(rest) = Len(queues[a]) - n
        BY <1>4
      <3> QED
        BY <1>6, <1>7, <1>8, <3>1
    <2>2. PendingTotal(shadow') = H /\ outstanding' = outstanding - n
      BY <1>3, <1>7
    <2> HIDE DEF P, Q, H
    <2>3. (outstanding - n) - outstanding = (Q + H) - (P + H)
      BY <1>8, <2>1
    <2> QED
      BY <2>2, <2>3 DEF Balanced, P, Q, H
  <1>10. Left' - PendingTotal(queues') = Left - PendingTotal(queues)
    BY <1>3, <1>4, <1>5, <1>6, <1>8 DEF Left
  <1> QED
    BY <1>6, <1>9, <1>10

LEMMA EnqueueBalanced ==
    ASSUME TypeOK, NEW s \in Seqs, enqueue(s)
    PROVE  Balanced
  <1> DEFINE a == AdapterOf[s]
             r == Append(queues[a], NewEntry(s))
  <1>1. a \in Adapters /\ queues[a] \in Seq(Entries) /\ NewEntry(s) \in Entries
    BY OwnAdapter, AgesFacts DEF TypeOK, NewEntry, Entries
  <1>2. r \in Seq(Entries) /\ Len(r) = Len(queues[a]) + 1 /\ Len(queues[a]) \in Nat
    BY <1>1
  <1>3. queues' = [queues EXCEPT ![a] = r] /\ outstanding' = outstanding + 1 /\ shadow' = shadow
    BY DEF enqueue
  <1> HIDE DEF r, a
  <1>4. /\ PendingTotal(queues) \in Nat /\ PendingTotal(shadow) \in Nat
        /\ PendingTotal(queues') = PendingTotal(queues) - Len(queues[a]) + Len(r)
    BY <1>1, <1>2, <1>3, PendingUpdate DEF TypeOK
  <1>5. outstanding \in Int /\ PendingTotal(shadow') = PendingTotal(shadow)
    BY <1>3 DEF TypeOK
  <1> QED
    BY <1>2, <1>3, <1>4, <1>5 DEF Balanced

\* A token that moves between a queue and its shadow is counted once.
LEMMA MoveBalanced ==
    ASSUME TypeOK, NEW a \in Adapters, NEW q \in Seq(Entries), NEW h \in Seq(Entries),
           queues' = [queues EXCEPT ![a] = q], shadow' = [shadow EXCEPT ![a] = h],
           Len(q) + Len(h) = Len(queues[a]) + Len(shadow[a]), outstanding' = outstanding
    PROVE  Balanced
  <1>1. /\ PendingTotal(queues) \in Nat /\ PendingTotal(shadow) \in Nat
        /\ PendingTotal(queues') = PendingTotal(queues) - Len(queues[a]) + Len(q)
        /\ PendingTotal(shadow') = PendingTotal(shadow) - Len(shadow[a]) + Len(h)
    BY PendingUpdate DEF TypeOK
  <1>2. /\ Len(queues[a]) \in Nat /\ Len(shadow[a]) \in Nat /\ Len(q) \in Nat /\ Len(h) \in Nat
        /\ outstanding \in Int
    BY DEF TypeOK
  <1> DEFINE x == PendingTotal(queues)
             y == PendingTotal(shadow)
             k == Len(q)
             l == Len(h)
             m == Len(queues[a])
             n == Len(shadow[a])
  <1>3. x \in Nat /\ y \in Nat /\ k \in Nat /\ l \in Nat /\ m \in Nat /\ n \in Nat /\ k + l = m + n
    BY <1>1, <1>2
  <1>4. PendingTotal(queues') = x - m + k /\ PendingTotal(shadow') = y - n + l
    BY <1>1
  <1> HIDE DEF x, y, k, l, m, n
  <1>5. (x - m + k) + (y - n + l) = x + y
    BY ONLY <1>3
  <1>6. outstanding' - outstanding = 0 /\ (x + y) - (x + y) = 0
    BY <1>2, <1>3
  <1> QED
    BY <1>4, <1>5, <1>6 DEF Balanced, x, y

LEMMA PreemptBalanced ==
    ASSUME TypeOK, NEW s \in Seqs, preempt_and_hold(s)
    PROVE  Balanced
  <1> DEFINE a == AdapterOf[s]
             q == queues[a]
  <1>1. a \in Adapters /\ q \in Seq(Entries) /\ shadow[a] \in Seq(Entries)
    BY OwnAdapter DEF TypeOK
  <1>2. outstanding' = outstanding
    BY DEF preempt_and_hold
  <1>3. CASE \E i \in DOMAIN q : HoldEntry(a, i)
    <2>1. PICK i \in DOMAIN q : HoldEntry(a, i)
      BY <1>3
    <2>2. i \in 1 .. Len(q) /\ q[i] \in Entries
      BY <1>1
    <2> DEFINE r == RemoveAt(q, i)
               h == Append(shadow[a], q[i])
    <2>3. r \in Seq(Entries) /\ Len(r) = Len(q) - 1
      BY <1>1, <2>2, RemoveAtFacts
    <2>4. h \in Seq(Entries) /\ Len(h) = Len(shadow[a]) + 1
      BY <1>1, <2>2
    <2>5. queues' = [queues EXCEPT ![a] = r] /\ shadow' = [shadow EXCEPT ![a] = h]
      BY <2>1 DEF HoldEntry
    <2>6. Len(q) \in Nat /\ Len(shadow[a]) \in Nat
      BY <1>1
    <2> HIDE DEF r, h
    <2>7. Len(r) + Len(h) = Len(queues[a]) + Len(shadow[a])
      <3>1. \A m, n \in Nat : (m - 1) + (n + 1) = m + n
        OBVIOUS
      <3> QED
        BY <2>3, <2>4, <2>6, <3>1
    <2> HIDE DEF a, q
    <2> QED
      BY <1>1, <1>2, <2>3, <2>4, <2>5, <2>7, MoveBalanced
  <1>4. CASE UNCHANGED <<queues, shadow>>
    BY <1>2, <1>4, QuietBalanced
  <1> QED
    BY <1>3, <1>4 DEF preempt_and_hold

LEMMA ResumeBalanced ==
    ASSUME TypeOK, NEW s \in Seqs, resume_from_shadow(s)
    PROVE  Balanced
  <1> DEFINE a == AdapterOf[s]
             h == shadow[a]
  <1>1. a \in Adapters /\ queues[a] \in Seq(Entries) /\ h \in Seq(Entries)
    BY OwnAdapter DEF TypeOK
  <1>2. PICK i \in DOMAIN h : /\ shadow' = [shadow EXCEPT ![a] = RemoveAt(h, i)]
                              /\ queues' = [queues EXCEPT ![a] = <<h[i]>> \o @]
                              /\ outstanding' = outstanding
    BY DEF resume_from_shadow, ShadowWithout
  <1>3. i \in 1 .. Len(h) /\ h[i] \in Entries
    BY <1>1
  <1> DEFINE r == RemoveAt(h, i)
             q == <<h[i]>> \o queues[a]
  <1>4. r \in Seq(Entries) /\ Len(r) = Len(h) - 1
    BY <1>1, <1>3, RemoveAtFacts
  <1>5. q \in Seq(Entries) /\ Len(q) = Len(queues[a]) + 1
    <2>1. <<h[i]>> \in Seq(Entries) /\ Len(<<h[i]>>) = 1 /\ Len(queues[a]) \in Nat
      BY <1>1, <1>3
    <2> QED
      BY <1>1, <2>1, ConcatProperties
  <1>6. queues' = [queues EXCEPT ![a] = q] /\ shadow' = [shadow EXCEPT ![a] = r]
    BY <1>2
  <1>7. Len(h) \in Nat /\ Len(queues[a]) \in Nat
    BY <1>1
  <1> HIDE DEF r, q
  <1>8. Len(q) + Len(r) = Len(queues[a]) + Len(shadow[a])
    <2>1. \A m, n \in Nat : (m + 1) + (n - 1) = m + n
      OBVIOUS
    <2> QED
      BY <1>4, <1>5, <1>7, <2>1
  <1> HIDE DEF a, h
  <1> QED
    BY <1>1, <1>2, <1>4, <1>5, <1>6, <1>8, MoveBalanced

LEMMA NextBalanced ==
    ASSUME TypeOK, [Next]_bufferVars
    PROVE  Balanced \/ Reset
  <1>1. CASE Register \/ Release
    BY <1>1, QuietBalanced DEF Register, Release, Call, register_adapter, release
  <1>2. CASE Enqueue
    BY <1>2, EnqueueBalanced DEF Enqueue, Call
  <1>3. CASE Preempt
    BY <1>3, PreemptBalanced DEF Preempt, Call
  <1>4. CASE Resume
    BY <1>4, ResumeBalanced DEF Resume, Call
  <1>5. CASE Tick
    <2>1. \A a \in Adapters : /\ DOMAIN queues'[a] = DOMAIN queues[a]
                              /\ DOMAIN shadow'[a] = DOMAIN shadow[a]
      BY <1>5 DEF Tick, Call, Elapse, OlderQueue
    <2>2. outstanding' = outstanding
      BY <1>5 DEF Tick, Call, Elapse
    <2> QED
      BY <2>1, <2>2, QuietBalanced
  <1>6. CASE FormBatch \/ Return \/ UNCHANGED bufferVars
    BY <1>6, QuietBalanced DEF FormBatch, begin_batch, Return, return_batch, storeVars, bufferVars
  <1>7. CASE Visit
    <2>1. CASE StopFull \/ NoRoomForAWarp \/ HoldQueue
      BY <2>1, QuietBalanced DEF StopFull, NoRoomForAWarp, HoldQueue, storeVars
    <2>2. CASE DispatchQueue
      BY <2>2, DispatchBalanced
    <2> QED
      BY <1>7, <2>1, <2>2 DEF Visit, visit
  <1> QED
    BY <1>1, <1>2, <1>3, <1>4, <1>5, <1>6, <1>7 DEF Next

\* The counters of stats() agree with the queues under every sequence of calls:
\* no method counts a token twice or forgets one, a held one included.
THEOREM CountersAgree == Spec => StatsBalance
  <1>1. TypeOK /\ [Next]_bufferVars =>
          [LET total == PendingTotal(queues) + PendingTotal(shadow) IN
            outstanding' - outstanding = total' - total \/ Reset]_bufferVars
    BY NextBalanced DEF Balanced
  <1> QED
    BY <1>1, InitType, NextType, PTL DEF Spec, StatsBalance

-----------------------------------------------------------------------------
(***************************************************************************)
(* Nothing due is left.  Every queue with a token belongs to a registered  *)
(* adapter, so a call starts with all of them still to visit; as long as   *)
(* what is left of the budget covers what is pending, an iteration leaves  *)
(* behind only what the last conjunct of LoopInv allows.                   *)
(***************************************************************************)

\* What may remain of a queue the loop has visited.
VisitedOK(a) ==
    /\ Len(queues[a]) < W
    /\ Expired(a) => \E i \in DOMAIN batch : batch[i].adapter = a

ToVisit(a) == \E i \in DOMAIN todo : todo[i] = a

Covered == Left >= PendingTotal(queues)

LoopInv ==
    phase = "dispatch" /\ Covered =>
        \A a \in Adapters : queues[a] # <<>> => ToVisit(a) \/ VisitedOK(a)

\* A queue or a shadow with an entry belongs to a registered adapter.
UsedRegistered ==
    \A a \in Adapters : queues[a] # <<>> \/ shadow[a] # <<>> => IsRegistered(a)

\* A warp fits into what is left, if the whole queue does.
LEMMA WarpFits ==
    ASSUME NEW n \in Nat, NEW b \in Nat, NEW w \in Nat \ {0}, n <= b
    PROVE  /\ Smaller(n \div w, b \div w) = n \div w
           /\ n >= w => w * (n \div w) > 0
           /\ n - w * (n \div w) < w
  <1>1. n \div w <= b \div w
    OBVIOUS
  <1>2. n \div w \in Nat /\ b \div w \in Nat
    BY QuotientNat
  <1>3. n = w * (n \div w) + (n % w) /\ n % w \in 0 .. w - 1
    OBVIOUS
  <1> DEFINE m == w * (n \div w)
             r == n % w
  <1>4. n = m + r /\ r \in Nat /\ r < w
    BY <1>3
  <1>5. m \in Int
    BY <1>2
  <1> HIDE DEF m, r
  <1>6. n - m < w /\ (n >= w => m > 0)
    BY <1>4, <1>5
  <1> QED
    BY <1>1, <1>2, <1>6 DEF Smaller, m

\* When the whole queue fits, less than a warp remains of it, and something
\* of it is dispatched unless it is a partial queue that has not expired.
LEMMA CoveredDispatch ==
    ASSUME TypeOK, NEW a \in Adapters, Len(queues[a]) <= Left, queues[a] # <<>>
    PROVE  /\ Len(queues[a]) - DispatchCount(a) < W
           /\ DispatchCount(a) = 0 => Rule(a) = "hold"
           /\ Rule(a) = "hold" => Len(queues[a]) < W /\ ~Expired(a)
  <1> DEFINE n == Len(queues[a])
             b == Left
  <1>1. n \in Nat /\ n > 0 /\ n <= b /\ W \in Nat \ {0}
    BY BufferAssumption DEF TypeOK
  <1>2. b \in Int
    BY DEF TypeOK, Left
  <1>3. b \in Nat
    BY <1>1, <1>2
  <1>4. Rule(a) \in {"warps", "nstar", "half", "expired", "hold"}
    BY DEF Rule
  <1>5. CASE Rule(a) = "warps"
    <2>1. n >= W
      BY <1>1, <1>5 DEF Rule
    <2>2. DispatchCount(a) = W * Smaller(n \div W, b \div W)
      BY <1>5 DEF DispatchCount, WarpsThatFit
    <2> HIDE DEF n, b
    <2>3. /\ Smaller(n \div W, b \div W) = n \div W
          /\ W * (n \div W) > 0
          /\ n - W * (n \div W) < W
      BY <1>1, <1>3, <2>1, WarpFits
    <2>4. n \div W \in Nat
      BY <1>1, QuotientNat
    <2>5. W * (n \div W) \in Int
      BY <1>1, <2>4
    <2> QED
      BY <1>5, <2>2, <2>3, <2>5 DEF n
  <1>6. CASE Rule(a) \in {"nstar", "half", "expired"}
    <2>1. DispatchCount(a) = Smaller(n, b)
      BY <1>6 DEF DispatchCount
    <2>2. DispatchCount(a) = n
      BY <1>1, <2>1 DEF Smaller
    <2> QED
      BY <1>1, <1>6, <2>2
  <1>7. CASE Rule(a) = "hold"
    <2>1. n < W
      BY <1>1, <1>7 DEF Rule
    <2>2. ~Expired(a)
      BY <1>7 DEF Rule
    <2>3. DispatchCount(a) = 0
      BY <1>7 DEF DispatchCount
    <2> QED
      BY <1>1, <1>7, <2>1, <2>2, <2>3
  <1> QED
    BY <1>4, <1>5, <1>6, <1>7

LEMMA QueueFits ==
    ASSUME TypeOK, Covered, NEW a \in Adapters
    PROVE  Len(queues[a]) \in Nat /\ Left \in Nat /\ Len(queues[a]) <= Left
  <1>1. queues \in [Adapters -> Seq(Entries)] /\ <<>> \in Seq(Entries)
    BY DEF TypeOK
  <1>2. Len(queues[a]) <= PendingTotal(queues) /\ PendingTotal(queues) \in Nat
    BY <1>1, PendingUpdate
  <1>3. Len(queues[a]) \in Nat /\ Left \in Int
    BY DEF TypeOK, Left
  <1> QED
    BY <1>2, <1>3 DEF Covered

\* What the head of todo is, and what remains after it.
LEMMA TodoCases ==
    ASSUME TypeOK, todo # <<>>
    PROVE  /\ Head(todo) \in Adapters /\ Tail(todo) \in Seq(Adapters)
           /\ \A a : ToVisit(a) =>
                a = Head(todo) \/ \E i \in DOMAIN Tail(todo) : Tail(todo)[i] = a
  <1>1. todo \in Seq(Adapters)
    BY DEF TypeOK
  <1>2. /\ Head(todo) \in Adapters /\ Tail(todo) \in Seq(Adapters)
        /\ DOMAIN todo = 1 .. Len(todo) /\ DOMAIN Tail(todo) = 1 .. Len(todo) - 1
        /\ Head(todo) = todo[1] /\ Len(todo) \in Nat
        /\ \A i \in 1 .. Len(todo) - 1 : Tail(todo)[i] = todo[i + 1]
    BY <1>1
  <1>3. \A i \in 1 .. Len(todo) : i = 1 \/ (i - 1 \in 1 .. Len(todo) - 1
                                            /\ Tail(todo)[i - 1] = todo[i])
    BY <1>2
  <1> QED
    BY <1>2, <1>3 DEF ToVisit

LEMMA VisitLoop ==
    ASSUME TypeOK, LoopInv, Visit
    PROVE  LoopInv'
  <1> SUFFICES ASSUME Covered', NEW a \in Adapters, queues'[a] # <<>>
               PROVE  ToVisit(a)' \/ VisitedOK(a)'
    BY DEF LoopInv
  <1>0. phase = "dispatch" /\ phase' = "dispatch" /\ TypeOK'
    BY VisitType DEF Visit
  <1>1. Covered
    <2>1. CASE StopFull \/ NoRoomForAWarp \/ HoldQueue
      <3>1. UNCHANGED <<budget, batch, queues>>
        BY <2>1 DEF StopFull, NoRoomForAWarp, HoldQueue, argVars, storeVars
      <3> QED
        BY <3>1 DEF Covered, Left
    <2>2. CASE DispatchQueue
      <3>1. /\ Left' - PendingTotal(queues') = Left - PendingTotal(queues)
            /\ PendingTotal(queues) \in Nat
        BY <2>2, DispatchBalanced
      <3>2. Left \in Int /\ Left' \in Int /\ queues' \in [Adapters -> Seq(Entries)]
        BY <1>0 DEF TypeOK, Left
      <3>5. PendingTotal(queues') \in Nat
        BY <3>2, PendingType
      <3> DEFINE x == Left
                 y == PendingTotal(queues)
                 x1 == Left'
                 y1 == PendingTotal(queues')
      <3>3. x \in Int /\ y \in Int /\ x1 \in Int /\ y1 \in Int /\ x1 - y1 = x - y /\ x1 >= y1
        BY <3>1, <3>2, <3>5 DEF Covered
      <3> HIDE DEF x, y, x1, y1
      <3>4. x >= y
        BY <3>3
      <3> QED
        BY <3>4 DEF x, y, Covered
    <2> QED
      BY <2>1, <2>2 DEF Visit, visit
  <1>2. Len(queues[a]) <= Left /\ Len(queues[a]) \in Nat /\ Left \in Int
    BY <1>1, QueueFits
  <1>3. queues[a] # <<>> => ToVisit(a) \/ VisitedOK(a)
    BY <1>0, <1>1 DEF LoopInv
  <1>4. ASSUME queues'[a] = queues[a], enqueueAge' = enqueueAge, deadline' = deadline,
               VisitedOK(a), batch' = batch
        PROVE  VisitedOK(a)'
    BY <1>4 DEF VisitedOK, Expired, Age, EffectiveDeadline
  <1>5. CASE StopFull
    <2>1. Len(queues[a]) = 0 /\ queues' = queues /\ queues[a] \in Seq(Entries)
      BY <1>2, <1>5 DEF StopFull, storeVars, TypeOK
    <2> QED
      BY <2>1
  <1>6. CASE NoRoomForAWarp
    <2> DEFINE k == Head(todo)
    <2>1. /\ k \in Adapters /\ DispatchCount(k) = 0 /\ Len(queues[k]) >= W
          /\ queues[k] \in Seq(Entries) /\ W \in Nat \ {0}
      BY <1>6, TodoCases, BufferAssumption DEF NoRoomForAWarp, TypeOK
    <2> HIDE DEF k
    <2>2. queues[k] # <<>> /\ Len(queues[k]) \in Nat
      BY <2>1
    <2>3. Len(queues[k]) <= Left
      BY <1>1, <2>1, QueueFits
    <2>4. Len(queues[k]) < W
      BY <2>1, <2>2, <2>3, CoveredDispatch
    <2> QED
      BY <2>1, <2>2, <2>4
  <1>7. CASE HoldQueue
    <2>1. /\ todo # <<>> /\ todo' = Tail(todo)
          /\ UNCHANGED <<queues, enqueueAge, deadline, batch>>
          /\ queues[Head(todo)] = <<>> \/ Rule(Head(todo)) = "hold"
      BY <1>7 DEF HoldQueue, Continue, argVars, storeVars
    <2>2. queues[a] # <<>>
      BY <2>1
    <2>3. CASE a = Head(todo)
      <3>1. VisitedOK(a)
        BY <1>2, <2>1, <2>2, <2>3, CoveredDispatch DEF VisitedOK
      <3> QED
        BY <1>4, <2>1, <3>1
    <2>4. CASE a # Head(todo)
      BY <1>3, <1>4, <2>1, <2>2, <2>4, TodoCases DEF ToVisit
    <2> QED
      BY <2>3, <2>4
  <1>8. CASE DispatchQueue
    <2> DEFINE k == Head(todo)
               n == DispatchCount(k)
               rest == SubSeq(queues[k], n + 1, Len(queues[k]))
               c == Chunk(k, n)
    <2>1. /\ todo # <<>> /\ todo' = Tail(todo) /\ n > 0 /\ queues[k] # <<>>
          /\ queues' = [queues EXCEPT ![k] = rest]
          /\ enqueueAge' = [enqueueAge EXCEPT ![k] = HeadAge(rest)]
          /\ batch' = batch \o c /\ deadline' = deadline
      BY <1>8 DEF DispatchQueue, Continue, argVars
    <2>2. /\ k \in Adapters /\ queues[k] \in Seq(Entries) /\ batch \in Seq(Tokens)
          /\ queues \in [Adapters -> Seq(Entries)]
      BY <2>1, TodoCases DEF TypeOK
    <2>3. n \in 0 .. Len(queues[k])
      BY <1>8, <2>2, DispatchCountBounds DEF DispatchQueue
    <2> HIDE DEF n
    <2>4. /\ c \in Seq(Tokens) /\ Len(c) = n
          /\ \A i \in 1 .. n : c[i].adapter = k
      BY <2>2, <2>3, ChunkFacts
    <2> HIDE DEF c
    <2>5. /\ \A i \in DOMAIN batch : i \in DOMAIN batch' /\ batch'[i] = batch[i]
          /\ \E i \in DOMAIN batch' : batch'[i].adapter = k
      <3>1. /\ batch' \in Seq(Tokens) /\ Len(batch') = Len(batch) + Len(c)
            /\ \A i \in 1 .. Len(batch) + Len(c) : batch'[i] =
                    IF i <= Len(batch) THEN batch[i] ELSE c[i - Len(batch)]
        BY <2>1, <2>2, <2>4, ConcatProperties
      <3>2. /\ DOMAIN batch = 1 .. Len(batch) /\ DOMAIN batch' = 1 .. Len(batch) + n
            /\ Len(batch) \in Nat /\ n \in Nat
        BY <2>2, <2>3, <2>4, <3>1
      <3>3. \A i \in DOMAIN batch : i \in DOMAIN batch' /\ batch'[i] = batch[i]
        BY <2>4, <3>1, <3>2
      <3> DEFINE l == Len(batch) + 1
      <3>4. l \in 1 .. Len(batch) + n /\ ~(l <= Len(batch)) /\ l - Len(batch) = 1 /\ 1 \in 1 .. n
        BY <2>1, <3>2
      <3> HIDE DEF l
      <3>5. batch'[l] = c[1]
        BY <2>4, <3>1, <3>4
      <3> QED
        BY <2>4, <3>2, <3>3, <3>4, <3>5
    <2>6. CASE a = k
      <3>1. queues'[a] = rest
        BY <2>1, <2>2, <2>6
      <3>2. Len(rest) = Len(queues[k]) - n
        BY <2>2, <2>3
      <3>3. Len(queues[k]) - n < W
        BY <1>2, <2>1, <2>2, <2>6, CoveredDispatch DEF n
      <3>4. VisitedOK(a)'
        BY <2>5, <2>6, <3>1, <3>2, <3>3 DEF VisitedOK
      <3> QED
        BY <3>4
    <2>7. CASE a # k
      <3>1. queues'[a] = queues[a] /\ queues[a] # <<>>
        BY <2>1, <2>2, <2>7
      <3>2. enqueueAge'[a] = enqueueAge[a]
        BY <2>1, <2>2, <2>7 DEF TypeOK
      <3>3. CASE VisitedOK(a)
        <4>1. Expired(a)' <=> Expired(a)
          BY <2>1, <3>2 DEF Expired, Age, EffectiveDeadline
        <4>2. VisitedOK(a)'
          BY <2>5, <3>1, <3>3, <4>1 DEF VisitedOK
        <4> QED
          BY <4>2
      <3>4. CASE ToVisit(a)
        BY <2>1, <2>7, <3>4, TodoCases DEF ToVisit
      <3> QED
        BY <1>3, <3>1, <3>3, <3>4
    <2> QED
      BY <2>6, <2>7
  <1> QED
    BY <1>5, <1>6, <1>7, <1>8 DEF Visit, visit

\* Whatever the order, a call starts with every registered adapter to visit.
LEMMA OrderCoversAll ==
    ASSUME registered \in Seq(Adapters), Distinct(registered), NEW m,
           NEW r \in VisitOrders(m), NEW a, IsRegistered(a)
    PROVE  \E i \in DOMAIN r : r[i] = a
  <1> DEFINE n == Len(registered)
             T == {registered[i] : i \in 1 .. n}
  <1>1. n \in Nat /\ DOMAIN registered = 1 .. n /\ registered \in [1 .. n -> T]
    OBVIOUS
  <1>2. a \in T
    BY <1>1 DEF IsRegistered
  <1>3. CASE r = registered
    BY <1>3 DEF IsRegistered
  <1>4. CASE /\ r \in [1 .. n -> Adapters]
             /\ \A i, j \in DOMAIN r : r[i] = r[j] => i = j
             /\ \A i \in DOMAIN r : IsRegistered(r[i])
    <2>1. IsFiniteSet(1 .. n) /\ Cardinality(1 .. n) = n
      <3> HIDE DEF n
      <3> QED
        BY <1>1, UpTo
    <2>2. registered \in Surjection(1 .. n, T)
      <3>1. \A t \in T : \E i \in 1 .. n : registered[i] = t
        OBVIOUS
      <3> HIDE DEF T, n
      <3> QED
        BY <1>1, <3>1, Fun_IsSurj
    <2>3. registered \in Injection(1 .. n, T)
      <3>1. \A i, j \in 1 .. n : registered[i] = registered[j] => i = j
        BY <1>1 DEF Distinct
      <3> HIDE DEF T, n
      <3> QED
        BY <1>1, <3>1, Fun_IsInj
    <2>4. IsFiniteSet(T)
      <3> HIDE DEF T, n
      <3> QED
        BY <2>1, <2>2, FS_Surjection
    <2>5. Cardinality(1 .. n) = Cardinality(T)
      <3> HIDE DEF T, n
      <3> QED
        BY <2>2, <2>3, <2>4, FS_Injection
    <2>6. r \in Injection(1 .. n, T)
      <3>1. r \in [1 .. n -> T]
        BY <1>1, <1>4 DEF IsRegistered
      <3>2. \A i, j \in 1 .. n : r[i] = r[j] => i = j
        BY <1>4
      <3> HIDE DEF T, n
      <3> QED
        BY <3>1, <3>2, Fun_IsInj
    <2>7. r \in Surjection(1 .. n, T)
      <3> HIDE DEF T, n
      <3> QED
        BY <2>4, <2>5, <2>6, FS_Injection
    <2>8. \E i \in 1 .. n : r[i] = a
      <3> HIDE DEF T, n
      <3>1. \A t \in T : \E i \in 1 .. n : r[i] = t
        BY <2>7 DEF Surjection
      <3> QED
        BY <1>2, <3>1
    <2> QED
      BY <1>4, <2>8
  <1> QED
    BY <1>3, <1>4 DEF VisitOrders

LEMMA BeginLoop ==
    ASSUME StoreTypeOK, Distinct(registered), UsedRegistered, NEW m, NEW b, begin_batch(m, b)
    PROVE  \A a \in Adapters : queues'[a] # <<>> => ToVisit(a)'
  <1> SUFFICES ASSUME NEW a \in Adapters, queues'[a] # <<>> PROVE ToVisit(a)'
    OBVIOUS
  <1>1. queues' = queues /\ todo' \in VisitOrders(m)
    BY DEF begin_batch, storeVars
  <1>2. IsRegistered(a)
    BY <1>1 DEF UsedRegistered
  <1>3. registered \in Seq(Adapters)
    BY DEF StoreTypeOK
  <1> QED
    BY <1>1, <1>2, <1>3, OrderCoversAll DEF ToVisit

\* Registration is never undone.
LEMMA StaysRegistered ==
    ASSUME registered \in Seq(Adapters), NEW a \in Adapters
    PROVE  /\ \E i \in DOMAIN AfterRegistering(a) : AfterRegistering(a)[i] = a
           /\ \A b : IsRegistered(b) =>
                \E i \in DOMAIN AfterRegistering(a) : AfterRegistering(a)[i] = b
  <1>1. CASE IsRegistered(a)
    BY <1>1 DEF AfterRegistering, IsRegistered
  <1>2. CASE ~IsRegistered(a)
    <2> DEFINE r == Append(registered, a)
               n == Len(registered) + 1
    <2>1. /\ \A i \in DOMAIN registered : i \in DOMAIN r /\ r[i] = registered[i]
          /\ n \in DOMAIN r /\ r[n] = a
      OBVIOUS
    <2>2. AfterRegistering(a) = r
      BY <1>2 DEF AfterRegistering
    <2> HIDE DEF r, n
    <2> QED
      BY <2>1, <2>2 DEF IsRegistered
  <1> QED
    BY <1>1, <1>2

LEMMA EnqueueUsed ==
    ASSUME StoreTypeOK, UsedRegistered, NEW s \in Seqs, enqueue(s)
    PROVE  UsedRegistered'
  <1> DEFINE k == AdapterOf[s]
  <1>1. k \in Adapters /\ registered' = AfterRegistering(k) /\ shadow' = shadow
        /\ \A a \in Adapters : a # k => queues'[a] = queues[a]
    BY OwnAdapter DEF enqueue, StoreTypeOK
  <1> HIDE DEF k
  <1>2. IsRegistered(k)' /\ \A b : IsRegistered(b) => IsRegistered(b)'
    <2>1. /\ \E i \in DOMAIN AfterRegistering(k) : AfterRegistering(k)[i] = k
          /\ \A b : IsRegistered(b) =>
                \E i \in DOMAIN AfterRegistering(k) : AfterRegistering(k)[i] = b
      BY <1>1, StaysRegistered DEF StoreTypeOK
    <2>2. \A b : IsRegistered(b)' <=>
                \E i \in DOMAIN AfterRegistering(k) : AfterRegistering(k)[i] = b
      BY <1>1 DEF IsRegistered
    <2> QED
      BY <2>1, <2>2
  <1> QED
    BY <1>1, <1>2 DEF UsedRegistered

\* Steps that register no adapter and fill no queue that had nothing.
LEMMA QuietUsed ==
    ASSUME UsedRegistered, registered' = registered,
           \A a \in Adapters : queues[a] = <<>> /\ shadow[a] = <<>> =>
                                    queues'[a] = <<>> /\ shadow'[a] = <<>>
    PROVE  UsedRegistered'
  BY DEF UsedRegistered, IsRegistered

LEMMA VisitUsed ==
    ASSUME TypeOK, UsedRegistered, Visit
    PROVE  UsedRegistered'
  <1>1. CASE StopFull \/ NoRoomForAWarp \/ HoldQueue
    BY <1>1, QuietUsed DEF StopFull, NoRoomForAWarp, HoldQueue, storeVars
  <1>2. CASE DispatchQueue
    <2> DEFINE k == Head(todo)
               rest == SubSeq(queues[k], DispatchCount(k) + 1, Len(queues[k]))
    <2>1. /\ queues' = [queues EXCEPT ![k] = rest] /\ queues[k] # <<>>
          /\ shadow' = shadow /\ registered' = registered
      BY <1>2 DEF DispatchQueue
    <2> HIDE DEF rest
    <2>2. \A a \in Adapters : queues[a] = <<>> => queues'[a] = <<>>
      BY <2>1 DEF TypeOK
    <2> QED
      BY <2>1, <2>2, QuietUsed
  <1> QED
    BY <1>1, <1>2 DEF Visit, visit

LEMMA NextUsed ==
    ASSUME TypeOK, UsedRegistered, [Next]_bufferVars
    PROVE  UsedRegistered'
  <1>0. StoreTypeOK
    BY TypeParts
  <1>1. CASE Register
    <2>1. PICK k \in Adapters : register_adapter(k)
      BY <1>1 DEF Register, Call
    <2>2. registered' = AfterRegistering(k) /\ UNCHANGED <<queues, shadow>>
      BY <2>1 DEF register_adapter, AfterRegistering
    <2>3. \A b : IsRegistered(b) => IsRegistered(b)'
      <3>1. registered \in Seq(Adapters)
        BY <1>0 DEF StoreTypeOK
      <3>2. \A b : IsRegistered(b)' <=>
                \E i \in DOMAIN AfterRegistering(k) : AfterRegistering(k)[i] = b
        BY <2>2 DEF IsRegistered
      <3> QED
        BY <3>1, <3>2, StaysRegistered
    <2> QED
      BY <2>2, <2>3 DEF UsedRegistered
  <1>2. CASE Enqueue
    BY <1>0, <1>2, EnqueueUsed DEF Enqueue, Call
  <1>3. CASE Release \/ Reset \/ FormBatch \/ Return \/ UNCHANGED bufferVars
    BY <1>3, QuietUsed DEF Release, Reset, Call, release, reset_stats, FormBatch, begin_batch,
       Return, return_batch, storeVars, bufferVars
  <1>4. CASE Preempt
    <2>1. PICK s \in Seqs : preempt_and_hold(s)
      BY <1>4 DEF Preempt, Call
    <2> DEFINE k == AdapterOf[s]
    <2>2. /\ IsRegistered(k) /\ registered' = registered
          /\ \A a \in Adapters : a # k => queues'[a] = queues[a] /\ shadow'[a] = shadow[a]
      BY <2>1, <1>0, OwnAdapter DEF preempt_and_hold, HoldEntry, StoreTypeOK
    <2> HIDE DEF k
    <2> QED
      BY <2>2 DEF UsedRegistered, IsRegistered
  <1>5. CASE Resume
    <2>1. PICK s \in Seqs : resume_from_shadow(s)
      BY <1>5 DEF Resume, Call
    <2> DEFINE k == AdapterOf[s]
    <2>2. /\ k \in Adapters /\ shadow[k] # <<>> /\ registered' = registered
          /\ \A a \in Adapters : a # k => queues'[a] = queues[a] /\ shadow'[a] = shadow[a]
      BY <2>1, <1>0, OwnAdapter DEF resume_from_shadow, StoreTypeOK
    <2> HIDE DEF k
    <2> QED
      BY <2>2 DEF UsedRegistered, IsRegistered
  <1>6. CASE Tick
    <2>1. /\ registered' = registered
          /\ \A a \in Adapters : queues'[a] = OlderQueue(queues[a])
                                 /\ shadow'[a] = OlderQueue(shadow[a])
      BY <1>6 DEF Tick, Call, Elapse
    <2>2. OlderQueue(<<>>) = <<>>
      BY DEF OlderQueue
    <2> QED
      BY <2>1, <2>2, QuietUsed
  <1> QED
    BY <1>1, <1>2, <1>3, <1>4, <1>5, <1>6, VisitUsed DEF Next

DueInv == AlignInv /\ UsedRegistered /\ LoopInv

LEMMA NextDue ==
    ASSUME DueInv, [Next]_bufferVars
    PROVE  DueInv'
  <1>1. AlignInv' /\ TypeOK
    BY NextAligned DEF DueInv, AlignInv
  <1>2. UsedRegistered'
    BY <1>1, NextUsed DEF DueInv
  <1>3. LoopInv'
    <2>1. CASE FormBatch
      <3>1. PICK m \in Methods, b \in (0 .. MaxBudget) \cup {W * Len(registered)} :
                begin_batch(m, b)
        BY <2>1 DEF FormBatch
      <3>2. StoreTypeOK /\ Distinct(registered)
        BY <1>1, TypeParts DEF DueInv, AlignInv
      <3>3. \A a \in Adapters : queues'[a] # <<>> => ToVisit(a)'
        BY <3>1, <3>2, BeginLoop DEF DueInv
      <3> QED
        BY <3>3 DEF LoopInv
    <2>2. CASE Visit
      BY <1>1, <2>2, VisitLoop DEF DueInv
    <2>3. CASE phase' = "idle"
      BY <2>3 DEF LoopInv
    <2>4. CASE UNCHANGED bufferVars
      <3> QED
        BY <2>4 DEF DueInv, LoopInv, bufferVars, storeVars, callVars, ToVisit, VisitedOK,
           Expired, Age, EffectiveDeadline, Covered, Left
    <2> QED
      BY <2>1, <2>2, <2>3, <2>4 DEF Next, Register, Enqueue, Release, Preempt, Resume, Reset,
         Tick, Call, callVars, Return
  <1> QED
    BY <1>1, <1>2, <1>3 DEF DueInv

\* Nothing is missed by the early exits of the loop: whatever the visiting
\* order, a call whose budget covers what was pending leaves no full warp and
\* no expired queue it has not dispatched from.
THEOREM NothingDueIsMissed == Spec => []NothingDueIsLeft
  <1>1. Init => DueInv
    <2> SUFFICES ASSUME Init PROVE DueInv
      OBVIOUS
    <2>1. /\ registered = <<>> /\ todo = <<>> /\ batch = <<>> /\ phase = "idle"
          /\ \A a \in Adapters : queues[a] = <<>> /\ shadow[a] = <<>>
      BY DEF Init, StoreInit, NoCall
    <2> QED
      BY <2>1, InitType DEF DueInv, AlignInv, Distinct, BatchAligned, UsedRegistered, LoopInv
  <1>2. DueInv /\ [Next]_bufferVars => DueInv'
    BY NextDue
  <1>3. DueInv => NothingDueIsLeft
    BY DEF DueInv, LoopInv, ToVisit, VisitedOK, Covered, NothingDueIsLeft
  <1> QED
    BY <1>1, <1>2, <1>3, PTL DEF Spec

-----------------------------------------------------------------------------
(***************************************************************************)
(* The scheduler's invariants.                                             *)
(***************************************************************************)

\* The buffer's types, in the scheduler's phases.
BufferTypeOK ==
    /\ StoreTypeOK /\ CallTypeOK
    /\ phase \in {"idle", "enqueue", "dispatch"}

\* A request is in one queue, once, and has tokens left; the groups of a tick
\* are running.
RequestsOK ==
    /\ IsInjective(waiting) /\ IsInjective(running)
    /\ ToSet(waiting) \cap ToSet(running) = {}
    /\ \A s \in Seqs : Arrived(s) => tokensLeft[s] > 0
    /\ ToSet(decodes) \subseteq ToSet(running)
    /\ ToSet(toEnqueue) \subseteq ToSet(decodes)
    /\ phase = "idle" => decodes = <<>>

TypesInv == SchedulerTypeOK /\ BufferTypeOK /\ RequestsOK

\* What AlignedNotQueued needs: the buffer's own invariant, that nothing is
\* ever held, and that a tick enqueues no sequence that bypasses the buffer.
BypassInv ==
    /\ TypesInv
    /\ NoDuplicates /\ AlignedNotQueued
    /\ shadow = [a \in Adapters |-> <<>>]
    /\ phase # "dispatch" => batch = <<>> /\ todo = <<>>
    /\ ToSet(toEnqueue) \cap postAligned = {}

\* The order of the batch, as in AlignInv.
OrderInv ==
    /\ Distinct(registered) /\ Distinct(todo)
    /\ \A i \in DOMAIN batch, j \in DOMAIN todo : batch[i].adapter # todo[j]
    /\ BatchAligned
    /\ \A i \in DOMAIN batch : AdapterOf[batch[i].seq] = batch[i].adapter

\* While nothing is preempted or aborted: who is recorded, and where.
KeptInv ==
    /\ \A s \in ToSet(running) :
        s \in recorded /\ s \notin postAligned => Queued(s) \/ Holds(batch, s)
    /\ \A s \in Seqs : Queued(s) \/ Holds(batch, s) => s \in ToSet(running) \ inPrefill
    /\ phase # "idle" => ToSet(decodes) = ToSet(running) \ inPrefill
    /\ \A s \in recorded : s \in ToSet(running) \/ tokensLeft[s] = 0

\* A queue is in the order of its ages, and none is older than the queue.
AgesOrdered ==
    \A a \in Adapters : \A i, j \in DOMAIN queues[a] :
        /\ i <= j => queues[a][i].age >= queues[a][j].age
        /\ queues[a][i].age <= enqueueAge[a]

CoveredInv == phase = "dispatch" => Covered

OverdueInv == AgesOrdered /\ UsedRegistered /\ CoveredInv /\ LoopInv


-----------------------------------------------------------------------------
(***************************************************************************)
(* What the list operations of a tick return.                              *)
(***************************************************************************)

LEMMA NamePlaceFacts ==
    /\ NamePlace \in [Adapters -> 1 .. Cardinality(Adapters)]
    /\ \A a, b \in Adapters : NamePlace[a] = NamePlace[b] => a = b
  <1> DEFINE n == Cardinality(Adapters)
  <1>1. IsFiniteSet(Adapters) /\ n \in Nat
    BY BufferAssumption, FS_CardinalityType
  <1>2. IsFiniteSet(1 .. n) /\ Cardinality(1 .. n) = n
    BY <1>1, UpTo
  <1> HIDE DEF n
  <1>3. ExistsBijection(Adapters, 1 .. n)
    BY <1>1, <1>2, FS_SameCardinalityBij DEF n
  <1>4. PICK f \in [Adapters -> 1 .. n] : IsInjective(f)
    <2>1. PICK f : f \in Bijection(Adapters, 1 .. n)
      BY <1>3 DEF ExistsBijection
    <2>2. f \in [Adapters -> 1 .. n] /\ \A a, b \in Adapters : f[a] = f[b] => a = b
      BY <2>1 DEF Bijection, Injection, IsInjective
    <2> QED
      BY <2>2 DEF IsInjective
  <1>5. NamePlace \in [Adapters -> 1 .. n] /\ IsInjective(NamePlace)
    BY <1>4 DEF NamePlace, n
  <1> QED
    BY <1>5 DEF n, IsInjective

\* list.sort by adapter: the same groups, one adapter after the other.
LEMMA SortedByAdapterFacts ==
    ASSUME NEW q \in Seq(Seqs)
    PROVE  LET p == SortedByAdapter(q) IN
           /\ p \in Seq(Seqs)
           /\ ToSet(p) = ToSet(q)
           /\ IsInjective(q) => IsInjective(p)
           /\ \A i, k \in DOMAIN p : AdapterOf[p[i]] = AdapterOf[p[k]] =>
                \A j \in i .. k : AdapterOf[p[j]] = AdapterOf[p[i]]
  <1> DEFINE place(s) == NamePlace[AdapterOf[s]]
             R == {r \in Seqs \X Seqs : place(r[1]) < place(r[2])}
             p == SortedByAdapter(q)
  <1>1. p = SortedBy(q, R)
    BY DEF SortedByAdapter
  <1>2. \A s \in Seqs : place(s) \in Nat
    BY NamePlaceFacts, OwnAdapter
  <1>3. \A s, t \in Seqs : place(s) = place(t) => AdapterOf[s] = AdapterOf[t]
    BY NamePlaceFacts, OwnAdapter
  <1> HIDE DEF place
  <1>4. \A s, t \in Seqs : <<s, t>> \in R <=> place(s) < place(t)
    OBVIOUS
  <1>5. ToSet(q) \subseteq Seqs
    BY DEF ToSet
  <1> HIDE DEF R
  <1>6. IsOrderOf(R, ToSet(q))
    <2>1. IsOrderOf(R, Seqs)
      BY <1>2, <1>4 DEF IsOrderOf
    <2> QED
      BY <1>5, <2>1 DEF IsOrderOf
  <1> HIDE DEF p
  <1>7. /\ p \in Seq(Seqs)
        /\ \E at : Sorts(p, q, at)
        /\ \A k, l \in DOMAIN p : k < l => <<p[l], p[k]>> \notin R
    BY <1>1, <1>6, SortedByFacts
  <1>8. PICK at : Sorts(p, q, at)
    BY <1>7
  <1>9. ToSet(p) = ToSet(q)
    BY <1>8 DEF Sorts, ToSet
  <1>10. IsInjective(q) => IsInjective(p)
    <2> SUFFICES ASSUME IsInjective(q), NEW i \in DOMAIN p, NEW j \in DOMAIN p, p[i] = p[j]
                 PROVE  i = j
      BY DEF IsInjective
    <2>1. q[at[i]] = q[at[j]] /\ at[i] \in DOMAIN q /\ at[j] \in DOMAIN q
      BY <1>8 DEF Sorts
    <2>2. at[i] = at[j]
      BY <2>1 DEF IsInjective
    <2> QED
      BY <1>8, <2>2 DEF Sorts
  <1>11. ASSUME NEW i \in DOMAIN p, NEW k \in DOMAIN p, AdapterOf[p[i]] = AdapterOf[p[k]],
                NEW j \in i .. k
         PROVE  AdapterOf[p[j]] = AdapterOf[p[i]]
    <2>1. DOMAIN p = 1 .. Len(p) /\ Len(p) \in Nat
      BY <1>7
    <2>2. i \in Nat /\ j \in Nat /\ k \in Nat /\ j \in DOMAIN p /\ i <= j /\ j <= k
      BY <1>11, <2>1
    <2>3. p[i] \in Seqs /\ p[j] \in Seqs /\ p[k] \in Seqs
      BY <1>7, <2>2
    <2>4. place(p[i]) = place(p[k])
      BY <1>11 DEF place
    <2>5. i < j => ~(place(p[j]) < place(p[i]))
      BY <1>4, <1>7, <2>2, <2>3
    <2>6. j < k => ~(place(p[k]) < place(p[j]))
      BY <1>4, <1>7, <2>2, <2>3
    <2>7. i = j \/ i < j
      BY <2>2
    <2>8. j = k \/ j < k
      BY <2>2
    <2>9. place(p[i]) \in Nat /\ place(p[j]) \in Nat /\ place(p[k]) \in Nat
      BY <1>2, <2>3
    <2>10. place(p[j]) = place(p[i])
      BY <2>4, <2>5, <2>6, <2>7, <2>8, <2>9
    <2> QED
      BY <1>3, <2>3, <2>10
  <1> QED
    BY <1>7, <1>9, <1>10, <1>11 DEF p

\* The lists FinishTick puts together.
LEMMA FinishLists ==
    ASSUME decodes \in Seq(Seqs), batch \in Seq(Tokens)
    PROVE  /\ FirstTime \in Seq(Seqs) /\ ToSet(FirstTime) = ToSet(decodes) \ postAligned
           /\ PostGroups \in Seq(Seqs) /\ ToSet(PostGroups) = ToSet(decodes) \cap postAligned
           /\ AlignedFirstTime \in Seq(Seqs)
           /\ \A s : s \in ToSet(AlignedFirstTime) <=>
                        s \in ToSet(FirstTime) /\ Holds(batch, s)
           /\ Drained \in {<<>>, FirstTime}
  <1> DEFINE dispatched == [i \in DOMAIN batch |-> batch[i].seq]
  <1>1. /\ FirstTime \in Seq(Seqs) /\ ToSet(FirstTime) = ToSet(decodes) \ postAligned
        /\ PostGroups \in Seq(Seqs) /\ ToSet(PostGroups) = ToSet(decodes) \cap postAligned
    BY WithoutOnce, OnlyOnce DEF FirstTime, PostGroups
  <1>2. dispatched \in Seq(Seqs)
    <2>1. DOMAIN batch = 1 .. Len(batch) /\ Len(batch) \in Nat
      OBVIOUS
    <2>2. \A i \in 1 .. Len(batch) : batch[i] \in Tokens
      OBVIOUS
    <2>3. \A t \in Tokens : t.seq \in Seqs
      BY DEF Tokens
    <2> QED
      BY <2>1, <2>2, <2>3
  <1>3. \A s : s \in ToSet(dispatched) <=> Holds(batch, s)
    BY DEF ToSet, Holds
  <1>4. AlignedFirstTime = Only(dispatched, ToSet(FirstTime))
    BY DEF AlignedFirstTime
  <1> HIDE DEF dispatched
  <1>5. AlignedFirstTime \in Seq(Seqs)
        /\ ToSet(AlignedFirstTime) = ToSet(dispatched) \cap ToSet(FirstTime)
    BY <1>2, <1>4, OnlyOnce
  <1> QED
    BY <1>1, <1>3, <1>5 DEF Drained

FinishOutput == SortedByAdapter(PostGroups) \o AlignedFirstTime \o Drained

\* What runs: groups of the tick, each list its own.
LEMMA OutputFacts ==
    ASSUME decodes \in Seq(Seqs), batch \in Seq(Tokens)
    PROVE  /\ FinishOutput \in Seq(Seqs)
           /\ ToSet(FinishOutput) =
                ToSet(PostGroups) \cup ToSet(AlignedFirstTime) \cup ToSet(Drained)
           /\ ToSet(FinishOutput) \subseteq ToSet(decodes)
           /\ ToSet(Drained) \subseteq ToSet(FirstTime)
  <1> DEFINE s == SortedByAdapter(PostGroups)
  <1>1. /\ FirstTime \in Seq(Seqs) /\ ToSet(FirstTime) = ToSet(decodes) \ postAligned
        /\ PostGroups \in Seq(Seqs) /\ ToSet(PostGroups) = ToSet(decodes) \cap postAligned
        /\ AlignedFirstTime \in Seq(Seqs)
        /\ ToSet(AlignedFirstTime) \subseteq ToSet(FirstTime)
        /\ Drained \in {<<>>, FirstTime}
    BY FinishLists
  <1>2. s \in Seq(Seqs) /\ ToSet(s) = ToSet(PostGroups)
    BY <1>1, SortedByAdapterFacts
  <1> HIDE DEF s
  <1>3. Drained \in Seq(Seqs) /\ ToSet(Drained) \subseteq ToSet(FirstTime)
    <2>1. <<>> \in Seq(Seqs) /\ ToSet(<<>>) = {}
      BY DEF ToSet
    <2> QED
      BY <1>1, <2>1
  <1> DEFINE c == s \o AlignedFirstTime
             d == c \o Drained
  <1>4. c \in Seq(Seqs) /\ ToSet(c) = ToSet(s) \cup ToSet(AlignedFirstTime)
    BY <1>1, <1>2, ConcatOnce
  <1> HIDE DEF c
  <1>5. d \in Seq(Seqs) /\ ToSet(d) = ToSet(c) \cup ToSet(Drained)
    BY <1>3, <1>4, ConcatOnce
  <1>6. FinishOutput = d
    BY DEF FinishOutput, s, c
  <1> HIDE DEF d
  <1> QED
    BY <1>1, <1>2, <1>3, <1>4, <1>5, <1>6

-----------------------------------------------------------------------------
(***************************************************************************)
(* Types, and where a request is.                                          *)
(***************************************************************************)

\* The start of a tick: what stays running, what is preempted, and whose
\* records are dropped.
LEMMA StartFacts ==
    ASSUME TypesInv, StartDecodeTick
    PROVE  /\ running' \in Seq(Seqs) /\ IsInjective(running')
           /\ waiting' \in Seq(Seqs) /\ IsInjective(waiting')
           /\ ToSet(waiting') \cap ToSet(running') = {}
           /\ ToSet(waiting') \cup ToSet(running') = ToSet(waiting) \cup ToSet(running)
           /\ ToSet(running') \subseteq ToSet(running)
           /\ MaxPreempts = 0 => ToSet(running') = ToSet(running)
           /\ preempts' \in 0 .. MaxPreempts
           /\ decodes' \in Seq(Seqs) /\ IsInjective(decodes')
           /\ ToSet(decodes') = ToSet(running') \ inPrefill
           /\ toEnqueue' \in Seq(Seqs)
           /\ ToSet(toEnqueue') = ToSet(decodes') \ postAligned'
           /\ postAligned' \subseteq postAligned /\ recorded' \subseteq recorded
           /\ \A s : s \in recorded \ recorded' => s \in postAligned
           /\ \A s \in ToSet(running') : /\ s \in postAligned' <=> s \in postAligned
                                         /\ s \in recorded' <=> s \in recorded
           /\ phase' = IF decodes' = <<>> THEN "idle" ELSE "enqueue"
  <1> DEFINE pending == Only(running, inPrefill)
             ready == Without(running, inPrefill)
  <1>1. /\ running \in Seq(Seqs) /\ waiting \in Seq(Seqs)
        /\ IsInjective(running) /\ IsInjective(waiting)
        /\ ToSet(waiting) \cap ToSet(running) = {}
        /\ preempts \in 0 .. MaxPreempts /\ MaxPreempts \in Nat
    BY SchedulerAssumption DEF TypesInv, SchedulerTypeOK, RequestsOK
  <1>2. PICK n \in 0 .. Smaller(Len(ready), MaxPreempts - preempts) :
            LET kept == SubSeq(ready, 1, Len(ready) - n)
                victims == SubSeq(ready, Len(ready) - n + 1, Len(ready))
                active == ToSet(pending) \cup ToSet(kept)
                stale == IF mode = "wgkp" /\ kept # <<>>
                         THEN postAligned \ active ELSE {}
            IN  /\ running' = pending \o kept
                /\ waiting' = victims \o waiting
                /\ preempts' = preempts + n
                /\ postAligned' = postAligned \ stale
                /\ recorded' = recorded \ stale
                /\ decodes' = kept
                /\ toEnqueue' = Without(kept, postAligned')
                /\ phase' = IF kept = <<>> THEN "idle" ELSE "enqueue"
    BY DEF StartDecodeTick
  <1>3. /\ pending \in Seq(Seqs) /\ IsInjective(pending)
        /\ ToSet(pending) = ToSet(running) \cap inPrefill
    BY <1>1, OnlyOnce
  <1>4. /\ ready \in Seq(Seqs) /\ IsInjective(ready)
        /\ ToSet(ready) = ToSet(running) \ inPrefill
    BY <1>1, WithoutOnce
  <1> HIDE DEF pending, ready
  <1> DEFINE m == Len(ready)
             kept == SubSeq(ready, 1, m - n)
             victims == SubSeq(ready, m - n + 1, m)
             active == ToSet(pending) \cup ToSet(kept)
             stale == IF mode = "wgkp" /\ kept # <<>> THEN postAligned \ active ELSE {}
  <1>5. n \in Nat /\ n <= m /\ n <= MaxPreempts - preempts /\ m \in Nat
    BY <1>1, <1>2, <1>4 DEF Smaller
  <1>6. /\ running' = pending \o kept
        /\ waiting' = victims \o waiting
        /\ preempts' = preempts + n
        /\ postAligned' = postAligned \ stale
        /\ recorded' = recorded \ stale
        /\ decodes' = kept
        /\ toEnqueue' = Without(kept, postAligned')
        /\ phase' = IF kept = <<>> THEN "idle" ELSE "enqueue"
    BY <1>2
  <1>7. /\ kept \in Seq(Seqs) /\ victims \in Seq(Seqs)
        /\ ToSet(kept) \cup ToSet(victims) = ToSet(ready)
        /\ IsInjective(kept) /\ IsInjective(victims)
        /\ ToSet(kept) \cap ToSet(victims) = {}
        /\ Len(victims) = m - (m - n)
    <2>1. m - n \in 0 .. Len(ready)
      BY <1>5
    <2> HIDE DEF kept, victims
    <2> QED
      BY <1>4, <2>1, CutOnce DEF kept, victims
  <1> HIDE DEF kept, victims
  <1>8. /\ running' \in Seq(Seqs) /\ IsInjective(running')
        /\ ToSet(running') = ToSet(pending) \cup ToSet(kept)
    <2>1. ToSet(pending) \cap ToSet(kept) = {}
      BY <1>3, <1>4, <1>7
    <2> QED
      BY <1>3, <1>6, <1>7, <2>1, ConcatOnce
  <1>9. /\ waiting' \in Seq(Seqs) /\ IsInjective(waiting')
        /\ ToSet(waiting') = ToSet(victims) \cup ToSet(waiting)
    <2>1. ToSet(victims) \cap ToSet(waiting) = {}
      BY <1>1, <1>4, <1>7
    <2> QED
      BY <1>1, <1>6, <1>7, <2>1, ConcatOnce
  <1>10. MaxPreempts = 0 => ToSet(victims) = {}
    <2>1. MaxPreempts = 0 => Len(victims) = 0
      BY <1>1, <1>5, <1>7
    <2> QED
      BY <1>7, <2>1 DEF ToSet
  <1>11. preempts' \in 0 .. MaxPreempts
    BY <1>1, <1>5, <1>6
  <1>12. toEnqueue' \in Seq(Seqs) /\ ToSet(toEnqueue') = ToSet(decodes') \ postAligned'
    BY <1>6, <1>7, WithoutOnce
  <1>13. stale \subseteq postAligned /\ stale \cap ToSet(running') = {}
    BY <1>8
  <1>14. ToSet(decodes') = ToSet(running') \ inPrefill
    BY <1>3, <1>4, <1>6, <1>7, <1>8
  <1> HIDE DEF stale
  <1>15. /\ postAligned' \subseteq postAligned /\ recorded' \subseteq recorded
         /\ \A s : s \in recorded \ recorded' => s \in postAligned
         /\ \A s \in ToSet(running') : /\ s \in postAligned' <=> s \in postAligned
                                       /\ s \in recorded' <=> s \in recorded
    BY <1>6, <1>13
  <1>16. /\ ToSet(waiting') \cap ToSet(running') = {}
         /\ ToSet(waiting') \cup ToSet(running') = ToSet(waiting) \cup ToSet(running)
         /\ ToSet(running') \subseteq ToSet(running)
         /\ MaxPreempts = 0 => ToSet(running') = ToSet(running)
    BY <1>1, <1>3, <1>4, <1>7, <1>8, <1>9, <1>10
  <1> QED
    BY <1>6, <1>7, <1>8, <1>9, <1>11, <1>12, <1>14, <1>15, <1>16

\* The admission of a prefill step.
LEMMA PrefillFacts ==
    ASSUME TypesInv, NEW chosen \in SUBSET ToSet(waiting), Prefill(chosen)
    PROVE  /\ running' \in Seq(Seqs) /\ IsInjective(running')
           /\ ToSet(running') = ToSet(running) \cup chosen
           /\ waiting' \in Seq(Seqs) /\ IsInjective(waiting')
           /\ ToSet(waiting') = ToSet(waiting) \ chosen
  <1> DEFINE q == Only(waiting, chosen)
  <1>1. /\ running \in Seq(Seqs) /\ waiting \in Seq(Seqs)
        /\ IsInjective(running) /\ IsInjective(waiting)
        /\ ToSet(waiting) \cap ToSet(running) = {}
    BY DEF TypesInv, SchedulerTypeOK, RequestsOK
  <1>2. running' = running \o q /\ waiting' = Without(waiting, chosen)
    BY DEF Prefill
  <1>3. q \in Seq(Seqs) /\ IsInjective(q) /\ ToSet(q) = chosen
    <2>1. q \in Seq(Seqs) /\ IsInjective(q) /\ ToSet(q) = ToSet(waiting) \cap chosen
      BY <1>1, OnlyOnce
    <2>2. ToSet(waiting) \cap chosen = chosen
      OBVIOUS
    <2> QED
      BY <2>1, <2>2
  <1> HIDE DEF q
  <1>4. ToSet(running) \cap ToSet(q) = {}
    BY <1>1, <1>3
  <1>5. /\ running' \in Seq(Seqs) /\ IsInjective(running')
        /\ ToSet(running') = ToSet(running) \cup ToSet(q)
    BY <1>1, <1>2, <1>3, <1>4, ConcatOnce
  <1> QED
    BY <1>1, <1>2, <1>3, <1>5, WithoutOnce

\* The end of a tick: what runs produces a token, and leaves after its last.
LEMMA RunFacts ==
    ASSUME TypesInv, FinishTick
    PROVE  /\ output' = FinishOutput /\ output' \in Seq(Seqs)
           /\ ToSet(output') \subseteq ToSet(decodes)
           /\ running' \in Seq(Seqs) /\ IsInjective(running')
           /\ \A s \in Seqs :
                s \in ToSet(running') <=>
                    s \in ToSet(running) /\ ~(s \in ToSet(output') /\ tokensLeft[s] = 1)
           /\ \A s \in Seqs :
                tokensLeft'[s] = tokensLeft[s] - (IF s \in ToSet(output') THEN 1 ELSE 0)
           /\ tokensLeft' \in [Seqs -> Nat]
  <1> DEFINE ran == ToSet(output')
             finished == {s \in ran : tokensLeft[s] = 1}
  <1>1. /\ running \in Seq(Seqs) /\ IsInjective(running)
        /\ decodes \in Seq(Seqs) /\ batch \in Seq(Tokens)
        /\ tokensLeft \in [Seqs -> Nat]
        /\ \A s \in ToSet(running) : s \in Seqs => tokensLeft[s] > 0
        /\ ToSet(decodes) \subseteq ToSet(running)
    BY DEF TypesInv, SchedulerTypeOK, RequestsOK, BufferTypeOK, CallTypeOK, Arrived
  <1>2. output' = FinishOutput /\ RunStep(output')
    BY DEF FinishTick, FinishOutput
  <1>3. output' \in Seq(Seqs) /\ ran \subseteq ToSet(decodes)
    BY <1>1, <1>2, OutputFacts
  <1>4. /\ tokensLeft' = [s \in Seqs |-> tokensLeft[s] - (IF s \in ran THEN 1 ELSE 0)]
        /\ running' = Without(running, finished)
    BY <1>2 DEF RunStep
  <1>5. /\ running' \in Seq(Seqs) /\ IsInjective(running')
        /\ ToSet(running') = ToSet(running) \ finished
    BY <1>1, <1>4, WithoutOnce
  <1>6. \A s \in Seqs : tokensLeft[s] - (IF s \in ran THEN 1 ELSE 0) \in Nat
    BY <1>1, <1>3
  <1> QED
    BY <1>2, <1>3, <1>4, <1>5, <1>6

\* The drain leaves a queue the entries of the other sequences, in order.
LEMMA DrainFacts ==
    ASSUME StoreTypeOK, FinishTick
    PROVE  /\ \A a \in Adapters :
                queues'[a] = Only(queues[a], {e \in Entries : e.seq \notin ToSet(Drained)})
           /\ queues' \in [Adapters -> Seq(Entries)]
           /\ \A a \in Adapters :
                enqueueAge'[a] = enqueueAge[a] \/ (queues'[a] = <<>> /\ enqueueAge'[a] = None)
           /\ enqueueAge' \in [Adapters -> Ages \cup {None}]
           /\ recorded' \subseteq recorded
           /\ UNCHANGED <<registered, shadow, outstanding>>
  <1> DEFINE rest(a) == Only(queues[a], {e \in Entries : e.seq \notin ToSet(Drained)})
             touched(a) == \E i \in DOMAIN Drained : AdapterOf[Drained[i]] = a
  <1>1. /\ queues' = [a \in Adapters |-> rest(a)]
        /\ enqueueAge' = [a \in Adapters |->
                IF touched(a) /\ rest(a) = <<>> THEN None ELSE enqueueAge[a]]
        /\ recorded' = recorded \ Released
        /\ UNCHANGED <<registered, shadow, outstanding>>
    BY DEF FinishTick, DrainQueues
  <1>2. /\ \A a \in Adapters : queues[a] \in Seq(Entries)
        /\ \A a \in Adapters : enqueueAge[a] \in Ages \cup {None}
    BY DEF StoreTypeOK
  <1>3. \A a \in Adapters : rest(a) \in Seq(Entries)
    BY <1>2, OnlyOnce
  <1> HIDE DEF rest, touched
  <1>4. queues' \in [Adapters -> Seq(Entries)]
    BY <1>1, <1>3
  <1>5. enqueueAge' \in [Adapters -> Ages \cup {None}]
    BY <1>1, <1>2
  <1>6. \A a \in Adapters : queues'[a] = rest(a)
    BY <1>1
  <1>7. \A a \in Adapters :
            enqueueAge'[a] = enqueueAge[a] \/ (queues'[a] = <<>> /\ enqueueAge'[a] = None)
    BY <1>1, <1>6
  <1> QED
    BY <1>1, <1>4, <1>5, <1>6, <1>7 DEF rest

LEMMA InitTypes == SchedulerInit => TypesInv
  <1> SUFFICES ASSUME SchedulerInit PROVE TypesInv
    OBVIOUS
  <1>1. TypeOK /\ phase = "idle"
    BY InitType DEF SchedulerInit, Init
  <1>2. BufferTypeOK
    BY <1>1, TypeParts DEF BufferTypeOK
  <1>3. SchedulerTypeOK
    BY SchedulerAssumption DEF SchedulerInit, SchedulerTypeOK
  <1>4. RequestsOK
    BY DEF SchedulerInit, RequestsOK, IsInjective, ToSet, Arrived
  <1> QED
    BY <1>2, <1>3, <1>4 DEF TypesInv

LEMMA TickTypes ==
    ASSUME TypesInv, DecodeTick
    PROVE  TypesInv'
  <1> USE DEF TypesInv
  <1>1. CASE StartDecodeTick
    <2>1. /\ UNCHANGED <<registered, queues, shadow, enqueueAge, outstanding, callVars,
                         settings, tokensLeft>>
          /\ output' = <<>> /\ inPrefill' \subseteq inPrefill
      BY <1>1 DEF StartDecodeTick
    <2>2. StoreTypeOK' /\ CallTypeOK'
      BY <1>1, <2>1, StartFacts DEF BufferTypeOK, StoreTypeOK, CallTypeOK, callVars
    <2>3. BufferTypeOK'
      BY <1>1, <2>2, StartFacts DEF BufferTypeOK
    <2>4. SchedulerTypeOK'
      BY <1>1, <2>1, StartFacts DEF SchedulerTypeOK, settings
    <2>5. RequestsOK'
      BY <1>1, <2>1, StartFacts DEF RequestsOK, Arrived
    <2> QED
      BY <2>3, <2>4, <2>5
  <1>2. CASE EnqueueNext
    <2>1. /\ toEnqueue # <<>> /\ toEnqueue \in Seq(Seqs) /\ toEnqueue' = Tail(toEnqueue)
          /\ UNCHANGED <<settings, phase, callVars, vllmVars, calls, postAligned, decodes,
                         output>>
      BY <1>2 DEF EnqueueNext, SchedulerTypeOK
    <2>2. StoreTypeOK'
      <3>1. CASE UNCHANGED storeVars
        BY <3>1 DEF BufferTypeOK, StoreTypeOK, storeVars
      <3>2. CASE enqueue(Head(toEnqueue))
        BY <2>1, <3>2, TailOnce, EnqueueType DEF BufferTypeOK
      <3> QED
        BY <1>2, <3>1, <3>2 DEF EnqueueNext
    <2>3. BufferTypeOK'
      BY <2>1, <2>2 DEF BufferTypeOK, CallTypeOK, callVars
    <2>4. toEnqueue' \in Seq(Seqs) /\ ToSet(toEnqueue') \subseteq ToSet(toEnqueue)
      BY <2>1, TailOnce
    <2> QED
      BY <2>1, <2>3, <2>4 DEF SchedulerTypeOK, RequestsOK, Arrived, settings, vllmVars
  <1>3. CASE StartDispatch
    <2>1. /\ begin_batch(MethodOf(mode), Len(decodes)) /\ phase' = "dispatch"
          /\ UNCHANGED <<settings, vllmVars, calls, postAligned, tickVars, output>>
          /\ phase = "enqueue"
      BY <1>3 DEF StartDispatch
    <2>2. MethodOf(mode) \in Methods /\ Len(decodes) \in Nat
      BY SchedulerAssumption DEF SchedulerTypeOK
    <2>3. BufferTypeOK'
      BY <2>1, <2>2, BeginType DEF BufferTypeOK
    <2> QED
      BY <2>1, <2>3 DEF SchedulerTypeOK, RequestsOK, Arrived, settings, vllmVars, tickVars
  <1>4. CASE VisitNext
    <2>1. /\ Visit /\ phase = "dispatch" /\ phase' = phase
          /\ UNCHANGED <<settings, vllmVars, calls, postAligned, tickVars, output>>
      BY <1>4 DEF VisitNext, Visit
    <2>2. TypeOK
      BY <2>1, TypeParts DEF BufferTypeOK
    <2>3. TypeOK'
      BY <2>1, <2>2, VisitType
    <2>4. BufferTypeOK'
      BY <2>3 DEF BufferTypeOK, TypeOK, StoreTypeOK, CallTypeOK
    <2> QED
      BY <2>1, <2>4 DEF SchedulerTypeOK, RequestsOK, Arrived, settings, vllmVars, tickVars
  <1>5. CASE FinishTick
    <2>1. /\ method' = "none" /\ todo' = <<>> /\ budget' = 0 /\ batch' = <<>>
          /\ deadline' = [a \in Adapters |-> 0] /\ nStar' = 1 /\ merged' = {}
          /\ inPrefill' = {} /\ decodes' = <<>> /\ toEnqueue' = <<>> /\ phase' = "idle"
          /\ UNCHANGED <<settings, registered, shadow, outstanding, waiting, preempts, calls>>
          /\ postAligned' = AfterCleanup(
                postAligned \cup ToSet(AlignedFirstTime) \cup ToSet(Drained))
      BY <1>5 DEF FinishTick
    <2>2. CallTypeOK'
      BY <2>1 DEF CallTypeOK
    <2>3. StoreTypeOK'
      <3>1. StoreTypeOK
        BY DEF BufferTypeOK
      <3> QED
        BY <1>5, <3>1, DrainFacts DEF StoreTypeOK
    <2>4. postAligned' \subseteq Seqs
      <3>1. decodes \in Seq(Seqs) /\ batch \in Seq(Tokens) /\ postAligned \subseteq Seqs
        BY DEF SchedulerTypeOK, BufferTypeOK, CallTypeOK
      <3>2. ToSet(AlignedFirstTime) \subseteq ToSet(decodes)
            /\ ToSet(Drained) \subseteq ToSet(decodes)
        BY <3>1, FinishLists, OutputFacts
      <3>3. ToSet(decodes) \subseteq Seqs
        BY <3>1 DEF ToSet
      <3> QED
        BY <2>1, <3>1, <3>2, <3>3 DEF AfterCleanup
    <2>5. SchedulerTypeOK'
      <3>1. <<>> \in Seq(Seqs)
        OBVIOUS
      <3>2. output' \in Seq(Seqs) /\ running' \in Seq(Seqs) /\ tokensLeft' \in [Seqs -> Nat]
        BY <1>5, RunFacts
      <3> QED
        BY <2>1, <2>4, <3>1, <3>2 DEF SchedulerTypeOK, settings
    <2>6. RequestsOK'
      <3>1. /\ IsInjective(waiting) /\ waiting' = waiting
            /\ ToSet(waiting) \cap ToSet(running) = {}
            /\ ToSet(decodes) \subseteq ToSet(running)
            /\ \A s \in Seqs : Arrived(s) => tokensLeft[s] \in Nat /\ tokensLeft[s] > 0
        BY <2>1 DEF RequestsOK, SchedulerTypeOK
      <3>2. ToSet(running') \subseteq ToSet(running) /\ IsInjective(running')
        <4>1. ToSet(running') \subseteq Seqs
          BY <1>5, RunFacts DEF ToSet
        <4> QED
          BY <1>5, <4>1, RunFacts
      <3>3. ASSUME NEW s \in Seqs, Arrived(s)'
            PROVE  tokensLeft'[s] > 0
        <4>1. s \in ToSet(waiting) \/ s \in ToSet(running')
          BY <3>1, <3>3 DEF Arrived
        <4>2. Arrived(s)
          BY <3>2, <4>1 DEF Arrived
        <4>3. s \in ToSet(output') => tokensLeft[s] # 1
          BY <1>5, <3>1, <4>1, RunFacts
        <4>4. tokensLeft'[s] = tokensLeft[s] - (IF s \in ToSet(output') THEN 1 ELSE 0)
          BY <1>5, RunFacts
        <4> QED
          BY <3>1, <4>2, <4>3, <4>4
      <3>4. ToSet(decodes') = {} /\ ToSet(toEnqueue') = {}
        BY <2>1 DEF ToSet
      <3> QED
        BY <2>1, <3>1, <3>2, <3>3, <3>4 DEF RequestsOK
    <2> QED
      BY <2>1, <2>2, <2>3, <2>5, <2>6 DEF BufferTypeOK
  <1> QED
    BY <1>1, <1>2, <1>3, <1>4, <1>5 DEF DecodeTick

LEMMA NextTypes ==
    ASSUME TypesInv, [SchedulerNext]_schedulerVars
    PROVE  TypesInv'
  <1> USE DEF TypesInv
  <1>1. CASE DecodeTick
    BY <1>1, TickTypes
  <1>2. ASSUME NEW s \in Seqs, Arrive(s)
        PROVE  TypesInv'
    <2>1. /\ waiting \in Seq(Seqs) /\ IsInjective(waiting)
          /\ s \notin ToSet(waiting) /\ s \notin ToSet(running) /\ tokensLeft[s] > 0
          /\ waiting' = Append(waiting, s)
          /\ UNCHANGED <<settings, bufferVars, running, inPrefill, tokensLeft, preempts,
                         calls, postAligned, tickVars, output>>
      BY <1>2 DEF Arrive, Arrived, SchedulerTypeOK, RequestsOK
    <2>2. /\ waiting' \in Seq(Seqs) /\ IsInjective(waiting')
          /\ ToSet(waiting') = ToSet(waiting) \cup {s}
      BY <2>1, AppendOnce
    <2>3. BufferTypeOK'
      BY <2>1 DEF BufferTypeOK, StoreTypeOK, CallTypeOK, bufferVars, storeVars, callVars
    <2>4. SchedulerTypeOK'
      BY <2>1, <2>2 DEF SchedulerTypeOK, settings, tickVars
    <2>5. RequestsOK'
      BY <2>1, <2>2 DEF RequestsOK, Arrived, tickVars, bufferVars
    <2> QED
      BY <2>3, <2>4, <2>5
  <1>3. ASSUME NEW s \in Seqs, Abort(s)
        PROVE  TypesInv'
    <2>1. /\ waiting \in Seq(Seqs) /\ IsInjective(waiting)
          /\ running \in Seq(Seqs) /\ IsInjective(running)
          /\ waiting' = Without(waiting, {s}) /\ running' = Without(running, {s})
          /\ inPrefill' = inPrefill \ {s}
          /\ tokensLeft' = [tokensLeft EXCEPT ![s] = 0]
          /\ phase = "idle" /\ decodes = <<>>
          /\ UNCHANGED <<settings, bufferVars, preempts, calls, postAligned, tickVars, output>>
      BY <1>3 DEF Abort, Idle, SchedulerTypeOK, RequestsOK
    <2>2. /\ waiting' \in Seq(Seqs) /\ IsInjective(waiting')
          /\ ToSet(waiting') = ToSet(waiting) \ {s}
          /\ running' \in Seq(Seqs) /\ IsInjective(running')
          /\ ToSet(running') = ToSet(running) \ {s}
      BY <2>1, WithoutOnce
    <2>3. BufferTypeOK'
      BY <2>1 DEF BufferTypeOK, StoreTypeOK, CallTypeOK, bufferVars, storeVars, callVars
    <2>4. SchedulerTypeOK'
      BY <2>1, <2>2 DEF SchedulerTypeOK, settings, tickVars
    <2>5. ToSet(decodes) = {} /\ ToSet(toEnqueue) = {}
      BY <2>1 DEF RequestsOK, ToSet
    <2>6. RequestsOK'
      BY <2>1, <2>2, <2>5 DEF RequestsOK, Arrived, tickVars, bufferVars, SchedulerTypeOK
    <2> QED
      BY <2>3, <2>4, <2>6
  <1>4. ASSUME NEW chosen \in SUBSET ToSet(waiting), Prefill(chosen)
        PROVE  TypesInv'
    <2>1. /\ phase = "idle" /\ decodes = <<>> /\ output' = <<>>
          /\ inPrefill' \in {chosen, {}}
          /\ UNCHANGED <<settings, bufferVars, tokensLeft, preempts, postAligned, tickVars>>
      BY <1>4 DEF Prefill, Idle, RequestsOK
    <2>2. BufferTypeOK'
      BY <2>1 DEF BufferTypeOK, StoreTypeOK, CallTypeOK, bufferVars, storeVars, callVars
    <2>3. chosen \subseteq Seqs
      BY DEF ToSet, SchedulerTypeOK
    <2>4. SchedulerTypeOK'
      BY <1>4, <2>1, <2>3, PrefillFacts DEF SchedulerTypeOK, settings, tickVars
    <2>5. ToSet(decodes) = {} /\ ToSet(toEnqueue) = {}
      BY <2>1 DEF RequestsOK, ToSet
    <2>6. RequestsOK'
      BY <1>4, <2>1, <2>5, PrefillFacts DEF RequestsOK, Arrived, tickVars, bufferVars
    <2> QED
      BY <2>2, <2>4, <2>6
  <1>5. CASE ClockTick
    <2>1. /\ Elapse
          /\ UNCHANGED <<settings, phase, callVars, vllmVars, calls, postAligned, tickVars,
                         output>>
      BY <1>5 DEF ClockTick
    <2>2. StoreTypeOK'
      BY <2>1, ElapseType DEF BufferTypeOK
    <2>3. BufferTypeOK'
      BY <2>1, <2>2 DEF BufferTypeOK, CallTypeOK, callVars
    <2> QED
      BY <2>1, <2>3 DEF SchedulerTypeOK, RequestsOK, Arrived, settings, tickVars, vllmVars
  <1>6. CASE UNCHANGED schedulerVars
    <2>1. BufferTypeOK'
      BY <1>6 DEF BufferTypeOK, StoreTypeOK, CallTypeOK, schedulerVars, bufferVars, storeVars,
                  callVars
    <2> QED
      BY <1>6, <2>1 DEF SchedulerTypeOK, RequestsOK, Arrived, schedulerVars, settings, tickVars,
                        vllmVars, bufferVars
  <1>7. ASSUME NEW s \in Seqs, ArriveAnew(s)
        PROVE  TypesInv'
    <2>1. /\ waiting \in Seq(Seqs) /\ IsInjective(waiting)
          /\ s \notin ToSet(waiting) /\ s \notin ToSet(running)
          /\ waiting' = Append(waiting, s)
          /\ tokensLeft' = [tokensLeft EXCEPT ![s] = MaxTokens]
          /\ postAligned' = postAligned \ {s}
          /\ UNCHANGED <<settings, bufferVars, running, inPrefill, preempts,
                         calls, tickVars, output>>
      BY <1>7 DEF ArriveAnew, Arrived, SchedulerTypeOK, RequestsOK
    <2>2. /\ waiting' \in Seq(Seqs) /\ IsInjective(waiting')
          /\ ToSet(waiting') = ToSet(waiting) \cup {s}
      BY <2>1, AppendOnce
    <2>3. BufferTypeOK'
      BY <2>1 DEF BufferTypeOK, StoreTypeOK, CallTypeOK, bufferVars, storeVars, callVars
    <2>4. MaxTokens \in Nat /\ MaxTokens > 0
      BY SchedulerAssumption
    <2>5. SchedulerTypeOK'
      BY <2>1, <2>2, <2>4 DEF SchedulerTypeOK, settings, tickVars
    <2>6. \A t \in Seqs : Arrived(t)' => tokensLeft'[t] > 0
      BY <2>1, <2>2, <2>4 DEF RequestsOK, SchedulerTypeOK, Arrived
    <2>7. RequestsOK'
      BY <2>1, <2>2, <2>6 DEF RequestsOK, tickVars, bufferVars
    <2> QED
      BY <2>3, <2>5, <2>7
  <1> QED
    BY <1>1, <1>2, <1>3, <1>4, <1>5, <1>6, <1>7 DEF SchedulerNext, PrefillTick

\* Every variable of the scheduler stays within its range: no request is in two
\* queues, the groups of a tick are running, and a running request has tokens
\* left, so that the token counts never go below zero.
THEOREM SchedulerTypeCorrect == SchedulerSpec => []SchedulerTypeOK
  <1>1. TypesInv => SchedulerTypeOK
    BY DEF TypesInv
  <1> QED
    BY <1>1, InitTypes, NextTypes, PTL DEF SchedulerSpec

-----------------------------------------------------------------------------
(***************************************************************************)
(* A sequence that bypasses the buffer has no entry in it.                 *)
(***************************************************************************)

\* The drain, seen by one queue.
LEMMA OnlyKeepsOnce ==
    ASSUME NEW q \in Seq(Entries), NEW D
    PROVE  LET rest == Only(q, {e \in Entries : e.seq \notin D}) IN
           /\ rest \in Seq(Entries)
           /\ EachOnce(q) => EachOnce(rest)
           /\ \A s : Holds(rest, s) <=> Holds(q, s) /\ s \notin D
           /\ \A a : OwnTokens(q, a) => OwnTokens(rest, a)
  <1> DEFINE S == {e \in Entries : e.seq \notin D}
             rest == Only(q, S)
  <1>1. \A i \in DOMAIN q : q[i] \in Entries
    OBVIOUS
  <1>2. \A i \in DOMAIN q : q[i] \in S <=> q[i].seq \notin D
    BY <1>1
  <1>3. \A e \in S : e.seq \notin D
    OBVIOUS
  <1> HIDE DEF S
  <1>4. rest \in Seq(Entries) /\ \E at : Filters(rest, q, S, at)
    BY OnlyFacts
  <1> HIDE DEF rest
  <1>5. PICK at : Filters(rest, q, S, at)
    BY <1>4
  <1>6. /\ at \in [DOMAIN rest -> DOMAIN q]
        /\ \A k \in DOMAIN rest : rest[k] = q[at[k]] /\ q[at[k]] \in S
        /\ \A k, l \in DOMAIN rest : k < l => at[k] < at[l]
        /\ \A i \in DOMAIN q : q[i] \in S => \E k \in DOMAIN rest : at[k] = i
    BY <1>5 DEF Filters
  <1>7. EachOnce(q) => EachOnce(rest)
    <2> SUFFICES ASSUME EachOnce(q), NEW k \in DOMAIN rest, NEW l \in DOMAIN rest,
                        rest[k].seq = rest[l].seq
                 PROVE  k = l
      BY DEF EachOnce
    <2>1. at[k] = at[l]
      BY <1>6 DEF EachOnce
    <2>2. k \in Nat /\ l \in Nat /\ at[k] \in Nat
      BY <1>4, <1>6
    <2> QED
      BY <1>6, <2>1, <2>2
  <1>8. \A s : Holds(rest, s) => Holds(q, s) /\ s \notin D
    BY <1>3, <1>6 DEF Holds
  <1>9. \A s : Holds(q, s) /\ s \notin D => Holds(rest, s)
    <2> SUFFICES ASSUME NEW i \in DOMAIN q, q[i].seq \notin D
                 PROVE  \E k \in DOMAIN rest : rest[k].seq = q[i].seq
      BY DEF Holds
    <2> QED
      BY <1>2, <1>6
  <1>10. \A a : OwnTokens(q, a) => OwnTokens(rest, a)
    BY <1>6 DEF OwnTokens
  <1> QED
    BY <1>4, <1>7, <1>8, <1>9, <1>10 DEF rest, S

\* An iteration of the loop moves sequences from the queues to the batch.
LEMMA VisitMoves ==
    ASSUME TypeOK, NoDuplicates, Visit
    PROVE  /\ NoDuplicates'
           /\ recorded' = recorded /\ shadow' = shadow /\ registered' = registered
           /\ \A x \in Seqs : /\ Queued(x)' => Queued(x)
                              /\ Holds(batch, x) => Holds(batch', x)
                              /\ Queued(x) \/ Holds(batch, x) <=>
                                    Queued(x)' \/ Holds(batch', x)
  <1>1. CASE UNCHANGED <<queues, batch, recorded, shadow, registered>>
    BY <1>1, QuietOnce DEF Queued
  <1>2. CASE DispatchQueue
    <2> DEFINE k == Head(todo)
               n == DispatchCount(k)
               q == queues[k]
               rest == SubSeq(q, n + 1, Len(q))
               chunk == Chunk(k, n)
    <2>1. k \in Adapters /\ q \in Seq(Entries) /\ batch \in Seq(Tokens)
          /\ queues \in [Adapters -> Seq(Entries)]
      BY <1>2 DEF DispatchQueue, TypeOK
    <2>2. n \in 0 .. Len(q)
      BY <1>2, <2>1, DispatchCountBounds DEF DispatchQueue
    <2>3. /\ batch' = batch \o chunk
          /\ queues' = [queues EXCEPT ![k] = rest]
          /\ UNCHANGED <<shadow, recorded, registered>>
      BY <1>2 DEF DispatchQueue
    <2>4. /\ chunk \in Seq(Tokens) /\ DOMAIN chunk = 1 .. n /\ DOMAIN q = 1 .. Len(q)
          /\ \A i \in 1 .. n : chunk[i].seq = q[i].seq
      BY <2>1, <2>2, ChunkFacts
    <2> HIDE DEF n, chunk
    <2>5. \A x : Holds(batch', x) <=> Holds(batch, x) \/ Holds(chunk, x)
      BY <2>1, <2>3, <2>4, ConcatKeepsOnce
    <2>6. \A x : Holds(chunk, x) => Holds(q, x)
      BY <2>2, <2>4 DEF Holds
    <2>7. \A x : Holds(q, x) <=> Holds(rest, x) \/ Holds(chunk, x)
      <3>1. DOMAIN rest = 1 .. Len(q) - n /\ \A j \in 1 .. Len(q) - n : rest[j] = q[n + j]
        BY <2>1, <2>2
      <3>2. n \in Nat /\ Len(q) \in Nat /\ n <= Len(q)
        BY <2>1, <2>2
      <3> HIDE DEF q, rest
      <3>3. \A i \in DOMAIN q : \/ i \in DOMAIN chunk
                                \/ i - n \in DOMAIN rest /\ rest[i - n] = q[i]
        BY <2>4, <3>1, <3>2
      <3>4. \A j \in DOMAIN rest : n + j \in DOMAIN q /\ rest[j] = q[n + j]
        BY <2>4, <3>1, <3>2
      <3>5. ASSUME NEW x, Holds(q, x)
            PROVE  Holds(rest, x) \/ Holds(chunk, x)
        <4>1. PICK i \in DOMAIN q : q[i].seq = x
          BY <3>5 DEF Holds
        <4>2. CASE i \in DOMAIN chunk
          BY <2>4, <4>1, <4>2 DEF Holds
        <4>3. CASE i - n \in DOMAIN rest /\ rest[i - n] = q[i]
          BY <4>1, <4>3 DEF Holds
        <4> QED
          BY <3>3, <4>2, <4>3
      <3>6. ASSUME NEW x, Holds(rest, x)
            PROVE  Holds(q, x)
        BY <3>4, <3>6 DEF Holds
      <3> QED
        BY <2>6, <3>5, <3>6
    <2> HIDE DEF rest
    <2>8. queues'[k] = rest /\ \A a \in Adapters : a # k => queues'[a] = queues[a]
      BY <2>1, <2>3
    <2>9. \A x \in Seqs : Holds(chunk, x) => AdapterOf[x] = k
      <3>1. \A i \in DOMAIN q : AdapterOf[q[i].seq] = k
        BY <2>1 DEF NoDuplicates, OwnTokens
      <3> QED
        BY <2>6, <3>1 DEF Holds
    <2>10. ASSUME NEW x \in Seqs
           PROVE  /\ Queued(x)' => Queued(x)
                  /\ Queued(x) \/ Holds(batch, x) <=> Queued(x)' \/ Holds(batch', x)
      <3>1. CASE AdapterOf[x] = k
        BY <2>5, <2>7, <2>8, <3>1 DEF Queued
      <3>2. CASE AdapterOf[x] # k
        BY <2>5, <2>8, <2>9, <3>2, OwnAdapter DEF Queued
      <3> QED
        BY <3>1, <3>2
    <2> QED
      BY <1>2, <2>3, <2>5, <2>10, DispatchOnce
  <1> QED
    BY <1>1, <1>2 DEF Visit, visit, StopFull, NoRoomForAWarp, HoldQueue, storeVars

LEMMA EnqueueAdds ==
    ASSUME StoreTypeOK, NEW s \in Seqs, enqueue(s)
    PROVE  \A x \in Seqs : Queued(x)' <=> Queued(x) \/ x = s
  <1> DEFINE k == AdapterOf[s]
  <1>1. /\ queues' = [queues EXCEPT ![k] = Append(@, NewEntry(s))]
        /\ queues \in [Adapters -> Seq(Entries)] /\ k \in Adapters
        /\ NewEntry(s) \in Entries /\ NewEntry(s).seq = s
    BY OwnAdapter, AgesFacts DEF enqueue, StoreTypeOK, NewEntry, Entries
  <1>2. \A x : Holds(queues'[k], x) <=> Holds(queues[k], x) \/ x = s
    BY <1>1, AppendKeepsOnce
  <1>3. \A a \in Adapters : a # k => queues'[a] = queues[a]
    BY <1>1
  <1> QED
    BY <1>2, <1>3, OwnAdapter DEF Queued

LEMMA ElapseQueued ==
    ASSUME StoreTypeOK, Elapse
    PROVE  \A x \in Seqs : Queued(x)' <=> Queued(x)
  <1>1. queues' = [a \in Adapters |-> OlderQueue(queues[a])]
        /\ \A a \in Adapters : queues[a] \in Seq(Entries)
    BY DEF Elapse, StoreTypeOK
  <1> QED
    BY <1>1, OwnAdapter, OlderKeepsOnce DEF Queued

LEMMA InitBypass == SchedulerInit => BypassInv
  <1> SUFFICES ASSUME SchedulerInit PROVE BypassInv
    OBVIOUS
  <1>1. /\ batch = <<>> /\ todo = <<>> /\ toEnqueue = <<>> /\ postAligned = {}
        /\ queues = [a \in Adapters |-> <<>>] /\ shadow = [a \in Adapters |-> <<>>]
    BY DEF SchedulerInit, Init, StoreInit, NoCall
  <1>2. \A a \in Adapters : queues[a] = <<>> /\ shadow[a] = <<>>
    BY <1>1
  <1>3. NoDuplicates
    <2>1. \A a \in Adapters : OwnTokens(<<>>, a)
      BY DEF OwnTokens
    <2> QED
      BY <1>1, <1>2, <2>1, OwnAdapter, EmptyOnce DEF NoDuplicates, Queued, Held
  <1>4. ToSet(toEnqueue) = {}
    BY <1>1 DEF ToSet
  <1> QED
    BY <1>1, <1>3, <1>4, InitTypes DEF BypassInv, AlignedNotQueued

LEMMA FinishBypass ==
    ASSUME BypassInv, FinishTick
    PROVE  /\ \A x \in Seqs : Queued(x)' <=> Queued(x) /\ x \notin ToSet(Drained)
           /\ NoDuplicates' /\ AlignedNotQueued'
  <1>1. /\ decodes \in Seq(Seqs) /\ batch \in Seq(Tokens) /\ postAligned \subseteq Seqs
        /\ StoreTypeOK
    BY DEF BypassInv, TypesInv, SchedulerTypeOK, BufferTypeOK, CallTypeOK
  <1>2. /\ postAligned' \subseteq postAligned \cup ToSet(AlignedFirstTime) \cup ToSet(Drained)
        /\ recorded' = recorded \ Released /\ batch' = <<>> /\ shadow' = shadow
    BY DEF FinishTick, AfterCleanup
  <1>3. ASSUME NEW a \in Adapters
        PROVE  /\ EachOnce(queues'[a]) /\ OwnTokens(queues'[a], a)
               /\ \A x : Holds(queues'[a], x) <=>
                            Holds(queues[a], x) /\ x \notin ToSet(Drained)
    <2>1. queues[a] \in Seq(Entries) /\ EachOnce(queues[a]) /\ OwnTokens(queues[a], a)
      BY <1>1 DEF StoreTypeOK, BypassInv, NoDuplicates
    <2>2. queues'[a] = Only(queues[a], {e \in Entries : e.seq \notin ToSet(Drained)})
      BY <1>1, DrainFacts
    <2> DEFINE q == queues[a]
               D == ToSet(Drained)
               rest == Only(q, {e \in Entries : e.seq \notin D})
    <2> HIDE DEF q, D
    <2>3. q \in Seq(Entries) /\ EachOnce(q) /\ OwnTokens(q, a)
      BY <2>1 DEF q
    <2>4. /\ EachOnce(rest) /\ OwnTokens(rest, a)
          /\ \A x : Holds(rest, x) <=> Holds(q, x) /\ x \notin D
      BY <2>3, OnlyKeepsOnce
    <2>5. queues'[a] = rest
      BY <2>2 DEF q, D
    <2> QED
      BY <2>4, <2>5 DEF q, D
  <1>4. \A x \in Seqs : Queued(x)' <=> Queued(x) /\ x \notin ToSet(Drained)
    BY <1>3, OwnAdapter DEF Queued
  <1>5. \A x \in Seqs : ~Held(x)' /\ ~Held(x)
    <2>1. \A a \in Adapters : shadow[a] = <<>> /\ shadow'[a] = <<>>
      BY <1>2 DEF BypassInv
    <2> QED
      BY <2>1, EmptyOnce, OwnAdapter DEF Held
  <1>6. \A x \in Seqs : Queued(x) => /\ x \notin ToSet(AlignedFirstTime)
                                    /\ x \notin ToSet(PostGroups)
    <2>1. \A x \in ToSet(AlignedFirstTime) : Holds(batch, x)
      BY <1>1, FinishLists
    <2>2. \A x \in ToSet(PostGroups) : x \in postAligned
      BY <1>1, FinishLists
    <2> QED
      BY <2>1, <2>2 DEF BypassInv, NoDuplicates, AlignedNotQueued
  <1>7. \A x \in Seqs : Queued(x)' => x \in recorded'
    BY <1>2, <1>4, <1>6 DEF Released, BypassInv, NoDuplicates
  <1>8. NoDuplicates'
    <2>1. \A a \in Adapters : EachOnce(shadow'[a]) /\ OwnTokens(shadow'[a], a)
      BY <1>2 DEF BypassInv, NoDuplicates
    <2> QED
      BY <1>2, <1>3, <1>5, <1>7, <2>1, EmptyOnce DEF NoDuplicates
  <1>9. AlignedNotQueued'
    <2> SUFFICES ASSUME NEW x \in postAligned' PROVE ~Queued(x)'
      BY DEF AlignedNotQueued
    <2>1. ToSet(AlignedFirstTime) \subseteq Seqs /\ ToSet(Drained) \subseteq Seqs
      <3>1. ToSet(decodes) \subseteq Seqs
        BY <1>1 DEF ToSet
      <3> QED
        BY <1>1, <3>1, FinishLists, OutputFacts
    <2>2. x \in Seqs
      BY <1>1, <1>2, <2>1
    <2> QED
      BY <1>2, <1>4, <1>6, <2>2 DEF BypassInv, AlignedNotQueued
  <1> QED
    BY <1>4, <1>8, <1>9

LEMMA NextBypass ==
    ASSUME BypassInv, [SchedulerNext]_schedulerVars
    PROVE  BypassInv'
  <1>0. TypesInv' /\ TypesInv
    BY NextTypes DEF BypassInv
  <1>1. CASE StartDecodeTick
    <2>1. UNCHANGED <<queues, shadow, batch, todo>> /\ phase = "idle"
      BY <1>1 DEF StartDecodeTick, callVars, Idle
    <2>2. /\ ToSet(toEnqueue') = ToSet(decodes') \ postAligned'
          /\ postAligned' \subseteq postAligned /\ recorded' \subseteq recorded
          /\ \A s : s \in recorded \ recorded' => s \in postAligned
          /\ phase' \in {"idle", "enqueue"}
      BY <1>0, <1>1, StartFacts
    <2>3. \A s \in Seqs : Queued(s) => s \in recorded'
      BY <2>2 DEF BypassInv, NoDuplicates, AlignedNotQueued
    <2>4. \A s \in Seqs : Held(s) => s \notin recorded'
      BY <2>2 DEF BypassInv, NoDuplicates
    <2>5. NoDuplicates'
      BY <2>1, <2>3, <2>4 DEF BypassInv, NoDuplicates, Queued, Held
    <2>6. AlignedNotQueued'
      BY <2>1, <2>2 DEF BypassInv, AlignedNotQueued, Queued
    <2> QED
      BY <1>0, <2>1, <2>2, <2>5, <2>6 DEF BypassInv
  <1>2. CASE EnqueueNext
    <2> DEFINE s == Head(toEnqueue)
    <2>1. /\ phase = "enqueue" /\ phase' = phase /\ toEnqueue # <<>>
          /\ toEnqueue' = Tail(toEnqueue) /\ toEnqueue \in Seq(Seqs)
          /\ UNCHANGED <<callVars, postAligned>>
          /\ batch = <<>> /\ batch' = batch /\ todo' = todo /\ todo = <<>>
      BY <1>0, <1>2 DEF EnqueueNext, TypesInv, SchedulerTypeOK, BypassInv, callVars
    <2>2. s \in Seqs /\ s \notin postAligned /\ ToSet(toEnqueue') \subseteq ToSet(toEnqueue)
      BY <2>1, TailOnce DEF BypassInv
    <2> HIDE DEF s
    <2>3. CASE UNCHANGED storeVars
      <3>1. UNCHANGED <<queues, shadow, recorded>>
        BY <2>3 DEF storeVars
      <3> QED
        BY <1>0, <2>1, <2>2, <3>1, QuietOnce DEF BypassInv, AlignedNotQueued, Queued
    <2>4. CASE enqueue(s)
      <3>1. ~Held(s)
        BY <2>2, OwnAdapter, EmptyOnce DEF BypassInv, Held
      <3>2. StoreTypeOK
        BY <1>0 DEF TypesInv, BufferTypeOK
      <3>3. NoDuplicates'
        BY <2>1, <2>2, <2>4, <3>1, <3>2, EnqueueKeepsOnce DEF BypassInv
      <3>4. \A x \in Seqs : Queued(x)' => Queued(x) \/ x = s
        BY <2>2, <2>4, <3>2, EnqueueAdds
      <3>5. postAligned \subseteq Seqs
        BY <1>0 DEF TypesInv, SchedulerTypeOK
      <3>6. AlignedNotQueued'
        BY <2>1, <2>2, <3>4, <3>5 DEF BypassInv, AlignedNotQueued
      <3>7. shadow' = shadow
        BY <2>4 DEF enqueue
      <3> QED
        BY <1>0, <2>1, <2>2, <3>3, <3>6, <3>7 DEF BypassInv
    <2> QED
      BY <1>2, <2>3, <2>4 DEF EnqueueNext, s
  <1>3. CASE StartDispatch
    <2>1. /\ UNCHANGED <<queues, shadow, recorded, postAligned, toEnqueue>> /\ batch' = <<>>
          /\ phase' = "dispatch"
      BY <1>3 DEF StartDispatch, begin_batch, storeVars, tickVars
    <2> QED
      BY <1>0, <2>1, QuietOnce DEF BypassInv, AlignedNotQueued, Queued
  <1>4. CASE VisitNext
    <2>1. /\ Visit /\ phase = "dispatch" /\ phase' = phase
          /\ UNCHANGED <<postAligned, toEnqueue>>
      BY <1>4 DEF VisitNext, Visit, tickVars
    <2>2. TypeOK /\ NoDuplicates
      BY <1>0, <2>1, TypeParts DEF TypesInv, BufferTypeOK, BypassInv
    <2>3. /\ NoDuplicates' /\ shadow' = shadow
          /\ \A x \in Seqs : Queued(x)' => Queued(x)
      BY <2>1, <2>2, VisitMoves
    <2>4. postAligned \subseteq Seqs
      BY <1>0 DEF TypesInv, SchedulerTypeOK
    <2> QED
      BY <1>0, <2>1, <2>3, <2>4 DEF BypassInv, AlignedNotQueued
  <1>5. CASE FinishTick
    <2>1. batch' = <<>> /\ todo' = <<>> /\ toEnqueue' = <<>> /\ shadow' = shadow
      BY <1>5 DEF FinishTick
    <2>2. ToSet(toEnqueue') = {}
      BY <2>1 DEF ToSet
    <2> QED
      BY <1>0, <1>5, <2>1, <2>2, FinishBypass DEF BypassInv
  <1>6. CASE ClockTick
    <2>1. /\ phase = "idle" /\ phase' = phase /\ Elapse /\ UNCHANGED callVars
          /\ UNCHANGED <<batch, todo, postAligned, toEnqueue>>
      BY <1>6 DEF ClockTick, Idle, callVars, tickVars
    <2>2. Tick
      BY <2>1 DEF Tick, Call
    <2>3. OnceInv
      BY <1>0, <2>1, TypeParts DEF TypesInv, BufferTypeOK, BypassInv, OnceInv
    <2>4. NoDuplicates'
      BY <2>2, <2>3, TickOnce
    <2>5. \A x \in Seqs : Queued(x)' <=> Queued(x)
      BY <1>0, <2>1, ElapseQueued DEF TypesInv, BufferTypeOK
    <2>6. shadow' = [a \in Adapters |-> <<>>]
      <3>1. OlderQueue(<<>>) = <<>>
        BY DEF OlderQueue
      <3> QED
        BY <2>1, <3>1 DEF Elapse, BypassInv
    <2>7. postAligned \subseteq Seqs
      BY <1>0 DEF TypesInv, SchedulerTypeOK
    <2> QED
      BY <1>0, <2>1, <2>4, <2>5, <2>6, <2>7 DEF BypassInv, AlignedNotQueued
  <1>7. CASE UNCHANGED <<bufferVars, postAligned, toEnqueue>>
    <2>1. UNCHANGED <<queues, shadow, recorded, batch, todo, phase>>
      BY <1>7 DEF bufferVars, storeVars, callVars
    <2> QED
      BY <1>0, <1>7, <2>1, QuietOnce DEF BypassInv, AlignedNotQueued, Queued
  <1>8. ASSUME NEW s \in Seqs, ArriveAnew(s)
        PROVE  BypassInv'
    <2>1. UNCHANGED <<queues, shadow, recorded, batch, todo, phase, toEnqueue>>
          /\ postAligned' = postAligned \ {s}
      BY <1>8 DEF ArriveAnew, bufferVars, storeVars, callVars, tickVars
    <2> QED
      BY <1>0, <2>1, QuietOnce DEF BypassInv, AlignedNotQueued, Queued
  <1> QED
    BY <1>1, <1>2, <1>3, <1>4, <1>5, <1>6, <1>7, <1>8 DEF SchedulerNext, DecodeTick, PrefillTick,
       Prefill, Arrive, Abort, schedulerVars, tickVars

\* A sequence that has had its aligned first token has no entry left in the
\* buffer, in every mode and under every preemption and abort: no step schedules
\* it both as a bypassing group and as a dispatched token.
THEOREM BypassIsClean == SchedulerSpec => []AlignedNotQueued
  <1>1. BypassInv => AlignedNotQueued
    BY DEF BypassInv
  <1> QED
    BY <1>1, InitBypass, NextBypass, PTL DEF SchedulerSpec

-----------------------------------------------------------------------------
(***************************************************************************)
(* The order of a step's batch.                                            *)
(***************************************************************************)

OwnBatch == \A i \in DOMAIN batch : AdapterOf[batch[i].seq] = batch[i].adapter

LEMMA VisitOwn ==
    ASSUME TypeOK, NoDuplicates, OwnBatch, Visit
    PROVE  OwnBatch'
  <1>1. CASE UNCHANGED batch
    BY <1>1 DEF OwnBatch
  <1>2. CASE DispatchQueue
    <2> DEFINE k == Head(todo)
               n == DispatchCount(k)
               q == queues[k]
               c == Chunk(k, n)
               m == Len(batch)
    <2>1. k \in Adapters /\ q \in Seq(Entries) /\ batch \in Seq(Tokens)
      BY <1>2 DEF DispatchQueue, TypeOK
    <2>2. n \in 0 .. Len(q)
      BY <1>2, <2>1, DispatchCountBounds DEF DispatchQueue
    <2>3. batch' = batch \o c
      BY <1>2 DEF DispatchQueue
    <2>4. /\ c \in Seq(Tokens) /\ Len(c) = n
          /\ \A i \in 1 .. n : c[i].seq = q[i].seq /\ c[i].adapter = k
      BY <2>1, <2>2, ChunkFacts
    <2>5. \A i \in DOMAIN q : AdapterOf[q[i].seq] = k
      BY <2>1 DEF NoDuplicates, OwnTokens
    <2> HIDE DEF n, c
    <2>6. \A i \in 1 .. n : AdapterOf[c[i].seq] = c[i].adapter
      BY <2>1, <2>2, <2>4, <2>5
    <2>7. /\ DOMAIN batch' = 1 .. m + n
          /\ \A i \in 1 .. m + n : batch'[i] = IF i <= m THEN batch[i] ELSE c[i - m]
      BY <2>1, <2>3, <2>4, ConcatProperties
    <2>8. m \in Nat /\ n \in Nat /\ DOMAIN batch = 1 .. m
      BY <2>1, <2>2
    <2> HIDE DEF m
    <2>9. \A i \in DOMAIN batch' : \/ i \in DOMAIN batch /\ batch'[i] = batch[i]
                                   \/ i - m \in 1 .. n /\ batch'[i] = c[i - m]
      BY <2>7, <2>8
    <2> QED
      BY <2>6, <2>9 DEF OwnBatch
  <1> QED
    BY <1>1, <1>2 DEF Visit, visit, StopFull, NoRoomForAWarp, HoldQueue

LEMMA InitOrder == SchedulerInit => OrderInv
  BY DEF SchedulerInit, Init, StoreInit, NoCall, OrderInv, Distinct, BatchAligned

LEMMA NextOrder ==
    ASSUME BypassInv, OrderInv, [SchedulerNext]_schedulerVars
    PROVE  OrderInv'
  <1>0. TypesInv
    BY DEF BypassInv
  <1>1. CASE EnqueueNext
    <2>1. /\ UNCHANGED <<todo, batch>> /\ toEnqueue \in Seq(Seqs) /\ toEnqueue # <<>>
          /\ registered \in Seq(Adapters)
      BY <1>0, <1>1 DEF EnqueueNext, callVars, TypesInv, SchedulerTypeOK, BufferTypeOK,
                        StoreTypeOK
    <2>2. Distinct(registered')
      <3>1. CASE UNCHANGED storeVars
        BY <3>1 DEF storeVars, OrderInv
      <3>2. CASE enqueue(Head(toEnqueue))
        <4>1. AdapterOf[Head(toEnqueue)] \in Adapters
          BY <2>1, TailOnce, OwnAdapter
        <4>2. registered' = AfterRegistering(AdapterOf[Head(toEnqueue)])
          BY <3>2 DEF enqueue
        <4> QED
          BY <2>1, <4>1, <4>2, RegisterDistinct DEF OrderInv
      <3> QED
        BY <1>1, <3>1, <3>2 DEF EnqueueNext
    <2> QED
      BY <2>1, <2>2 DEF OrderInv, BatchAligned
  <1>2. CASE StartDispatch
    <2>1. /\ registered' = registered /\ batch' = <<>>
          /\ todo' \in VisitOrders(MethodOf(mode))
      BY <1>2 DEF StartDispatch, begin_batch, storeVars
    <2>2. Distinct(todo')
      BY <2>1 DEF VisitOrders, Distinct, OrderInv
    <2> QED
      BY <2>1, <2>2 DEF OrderInv, BatchAligned
  <1>3. CASE VisitNext
    <2>1. Visit /\ phase = "dispatch" /\ TypeOK /\ NoDuplicates
      BY <1>0, <1>3, TypeParts DEF VisitNext, Visit, TypesInv, BufferTypeOK, BypassInv
    <2>2. /\ Distinct(todo') /\ BatchAligned'
          /\ \A i \in DOMAIN batch', j \in DOMAIN todo' : batch'[i].adapter # todo'[j]
      BY <2>1, VisitAligned DEF AlignInv, OrderInv
    <2>3. OwnBatch'
      BY <2>1, VisitOwn DEF OrderInv, OwnBatch
    <2>4. registered' = registered
      BY <2>1, VisitMoves
    <2> QED
      BY <2>2, <2>3, <2>4 DEF OrderInv, OwnBatch
  <1>4. CASE FinishTick
    <2>1. registered' = registered /\ batch' = <<>> /\ todo' = <<>>
      BY <1>4 DEF FinishTick
    <2> QED
      BY <2>1 DEF OrderInv, Distinct, BatchAligned
  <1>5. CASE UNCHANGED <<registered, batch, todo>>
    BY <1>5 DEF OrderInv, Distinct, BatchAligned
  <1> QED
    BY <1>1, <1>2, <1>3, <1>4, <1>5 DEF SchedulerNext, DecodeTick, PrefillTick, StartDecodeTick,
       Prefill, Arrive, Abort, ArriveAnew, ClockTick, Elapse, schedulerVars, bufferVars, storeVars, callVars

\* The dispatched part of the step keeps the order of the batch.
LEMMA DispatchedRuns ==
    ASSUME TypesInv, OrderInv,
           NEW i \in DOMAIN AlignedFirstTime, NEW k \in DOMAIN AlignedFirstTime,
           AdapterOf[AlignedFirstTime[i]] = AdapterOf[AlignedFirstTime[k]],
           NEW j \in i .. k
    PROVE  AdapterOf[AlignedFirstTime[j]] = AdapterOf[AlignedFirstTime[i]]
  <1> DEFINE dispatched == [l \in DOMAIN batch |-> batch[l].seq]
             p == AlignedFirstTime
  <1>1. batch \in Seq(Tokens)
    BY DEF TypesInv, BufferTypeOK, CallTypeOK
  <1>2. dispatched \in Seq(Seqs)
    <2>1. DOMAIN batch = 1 .. Len(batch) /\ Len(batch) \in Nat
      BY <1>1
    <2>2. \A l \in 1 .. Len(batch) : batch[l] \in Tokens
      BY <1>1
    <2>3. \A t \in Tokens : t.seq \in Seqs
      BY DEF Tokens
    <2> QED
      BY <2>1, <2>2, <2>3
  <1>3. DOMAIN dispatched = DOMAIN batch /\ \A l \in DOMAIN batch : dispatched[l] = batch[l].seq
    OBVIOUS
  <1>4. p = Only(dispatched, ToSet(FirstTime))
    BY DEF AlignedFirstTime
  <1> HIDE DEF dispatched, p
  <1>5. p \in Seq(Seqs) /\ \E at : Filters(p, dispatched, ToSet(FirstTime), at)
    BY <1>2, <1>4, OnlyFacts
  <1>6. PICK at : Filters(p, dispatched, ToSet(FirstTime), at)
    BY <1>5
  <1>7. /\ at \in [DOMAIN p -> DOMAIN batch]
        /\ \A l \in DOMAIN p : p[l] = batch[at[l]].seq
        /\ \A l, r \in DOMAIN p : l < r => at[l] < at[r]
    BY <1>3, <1>6 DEF Filters
  <1>8. i \in DOMAIN p /\ k \in DOMAIN p /\ AdapterOf[p[i]] = AdapterOf[p[k]]
    BY DEF p
  <1>9. DOMAIN p = 1 .. Len(p) /\ Len(p) \in Nat /\ DOMAIN batch = 1 .. Len(batch)
        /\ Len(batch) \in Nat
    BY <1>1, <1>5
  <1>10. /\ i \in Nat /\ j \in Nat /\ k \in Nat /\ j \in DOMAIN p /\ i <= j /\ j <= k
    BY <1>8, <1>9
  <1>11. /\ at[i] \in DOMAIN batch /\ at[j] \in DOMAIN batch /\ at[k] \in DOMAIN batch
         /\ at[i] \in Nat /\ at[j] \in Nat /\ at[k] \in Nat
    BY <1>7, <1>8, <1>9, <1>10
  <1>12. at[i] <= at[j]
    <2>1. CASE i = j
      BY <1>11, <2>1
    <2>2. CASE i < j
      BY <1>7, <1>8, <1>10, <1>11, <2>2
    <2> QED
      BY <1>10, <2>1, <2>2
  <1>13. at[j] <= at[k]
    <2>1. CASE j = k
      BY <1>11, <2>1
    <2>2. CASE j < k
      BY <1>7, <1>8, <1>10, <1>11, <2>2
    <2> QED
      BY <1>10, <2>1, <2>2
  <1>14. \A l \in DOMAIN p : AdapterOf[p[l]] = batch[at[l]].adapter
    BY <1>7 DEF OrderInv
  <1>15. batch[at[i]].adapter = batch[at[k]].adapter
    BY <1>8, <1>14
  <1>16. at[j] \in at[i] .. at[k]
    BY <1>11, <1>12, <1>13
  <1>17. batch[at[j]].adapter = batch[at[i]].adapter
    BY <1>11, <1>15, <1>16 DEF OrderInv, BatchAligned
  <1> QED
    BY <1>8, <1>10, <1>14, <1>17 DEF p

LEMMA FinishRuns ==
    ASSUME TypesInv, OrderInv, mode # "wgkp", FinishTick,
           NEW i \in DOMAIN output', NEW k \in DOMAIN output',
           AdapterOf[output'[i]] = AdapterOf[output'[k]],
           output'[i] \in postAligned <=> output'[k] \in postAligned,
           NEW j \in i .. k
    PROVE  AdapterOf[output'[j]] = AdapterOf[output'[i]]
  <1> DEFINE s == SortedByAdapter(PostGroups)
             p == AlignedFirstTime
             m == Len(s)
             n == Len(p)
             out == s \o p
  <1>1. decodes \in Seq(Seqs) /\ batch \in Seq(Tokens)
    BY DEF TypesInv, SchedulerTypeOK, BufferTypeOK, CallTypeOK
  <1>2. /\ FirstTime \in Seq(Seqs) /\ ToSet(FirstTime) = ToSet(decodes) \ postAligned
        /\ PostGroups \in Seq(Seqs) /\ ToSet(PostGroups) = ToSet(decodes) \cap postAligned
        /\ p \in Seq(Seqs) /\ ToSet(p) \subseteq ToSet(FirstTime)
    BY <1>1, FinishLists
  <1>3. /\ s \in Seq(Seqs) /\ ToSet(s) = ToSet(PostGroups)
        /\ \A a, b \in DOMAIN s : AdapterOf[s[a]] = AdapterOf[s[b]] =>
                \A l \in a .. b : AdapterOf[s[l]] = AdapterOf[s[a]]
    BY <1>2, SortedByAdapterFacts
  <1>4. \A a, b \in DOMAIN p : AdapterOf[p[a]] = AdapterOf[p[b]] =>
            \A l \in a .. b : AdapterOf[p[l]] = AdapterOf[p[a]]
    BY DispatchedRuns
  <1>5. output' = s \o p \o <<>>
    BY DEF FinishTick, Drained
  <1> HIDE DEF s, p
  <1>6. /\ out \in Seq(Seqs) /\ DOMAIN out = 1 .. m + n /\ m \in Nat /\ n \in Nat
        /\ DOMAIN s = 1 .. m /\ DOMAIN p = 1 .. n
        /\ \A l \in 1 .. m + n : out[l] = IF l <= m THEN s[l] ELSE p[l - m]
    BY <1>2, <1>3, ConcatProperties
  <1> HIDE DEF out, m, n
  <1>7. output' = out
    BY <1>5, <1>6 DEF out
  <1>8. \A l \in DOMAIN out : l <= m <=> out[l] \in postAligned
    <2>1. \A l \in DOMAIN s : s[l] \in postAligned
      BY <1>2, <1>3 DEF ToSet
    <2>2. \A l \in DOMAIN p : p[l] \notin postAligned
      BY <1>2 DEF ToSet
    <2>3. \A l \in DOMAIN out : l <= m => l \in DOMAIN s /\ out[l] = s[l]
      BY <1>6
    <2>4. \A l \in DOMAIN out : ~(l <= m) => l - m \in DOMAIN p /\ out[l] = p[l - m]
      BY <1>6
    <2> QED
      BY <2>1, <2>2, <2>3, <2>4
  <1>9. /\ i \in DOMAIN out /\ k \in DOMAIN out /\ j \in DOMAIN out
        /\ i \in Nat /\ j \in Nat /\ k \in Nat /\ i <= j /\ j <= k
    BY <1>6, <1>7
  <1>10. i <= m <=> k <= m
    BY <1>7, <1>8, <1>9
  <1>11. CASE k <= m
    <2>1. /\ i \in DOMAIN s /\ k \in DOMAIN s /\ j \in i .. k
          /\ out[i] = s[i] /\ out[j] = s[j] /\ out[k] = s[k]
      BY <1>6, <1>9, <1>11
    <2> QED
      BY <1>3, <1>7, <2>1
  <1>12. CASE ~(k <= m)
    <2>1. ~(i <= m) /\ ~(j <= m)
      BY <1>6, <1>9, <1>10, <1>12
    <2>2. /\ i - m \in DOMAIN p /\ k - m \in DOMAIN p /\ j - m \in (i - m) .. (k - m)
          /\ out[i] = p[i - m] /\ out[j] = p[j - m] /\ out[k] = p[k - m]
      BY <1>6, <1>9, <1>12, <2>1
    <2> QED
      BY <1>4, <1>7, <2>2
  <1> QED
    BY <1>11, <1>12

\* Where groups are only held back, never drained in running order (every mode
\* but wgkp), each of the two parts of a step's batch has one run per adapter.
THEOREM StepsAreContiguous ==
    ASSUME "wgkp" \notin Modes
    PROVE  SchedulerSpec => OneRunPerPart
  <1>1. SchedulerInit => BypassInv /\ OrderInv
    BY InitBypass, InitOrder
  <1>2. BypassInv /\ OrderInv /\ [SchedulerNext]_schedulerVars => (BypassInv /\ OrderInv)'
    BY NextBypass, NextOrder
  <1>3. BypassInv /\ OrderInv /\ [SchedulerNext]_schedulerVars =>
            [FinishTick =>
                \A i, k \in DOMAIN output' :
                    /\ AdapterOf[output'[i]] = AdapterOf[output'[k]]
                    /\ output'[i] \in postAligned <=> output'[k] \in postAligned
                    => \A j \in i .. k : AdapterOf[output'[j]] = AdapterOf[output'[i]]
              ]_schedulerVars
    <2> SUFFICES ASSUME BypassInv, OrderInv, FinishTick
                 PROVE  \A i, k \in DOMAIN output' :
                    /\ AdapterOf[output'[i]] = AdapterOf[output'[k]]
                    /\ output'[i] \in postAligned <=> output'[k] \in postAligned
                    => \A j \in i .. k : AdapterOf[output'[j]] = AdapterOf[output'[i]]
      OBVIOUS
    <2>1. TypesInv /\ mode # "wgkp"
      BY DEF BypassInv, TypesInv, SchedulerTypeOK
    <2> QED
      BY <2>1, FinishRuns
  <1> QED
    BY <1>1, <1>2, <1>3, PTL DEF SchedulerSpec, OneRunPerPart

-----------------------------------------------------------------------------
(***************************************************************************)
(* No sequence is lost, as long as the requests in running stay there      *)
(* until their last token: nothing is preempted or aborted.                *)
(***************************************************************************)

Undisturbed == MaxPreempts = 0 /\ Aborts = FALSE

LEMMA InitKept == SchedulerInit => KeptInv
  <1> SUFFICES ASSUME SchedulerInit PROVE KeptInv
    OBVIOUS
  <1>1. /\ batch = <<>> /\ recorded = {} /\ running = <<>> /\ phase = "idle"
        /\ \A a \in Adapters : queues[a] = <<>>
    BY DEF SchedulerInit, Init, StoreInit, NoCall
  <1> QED
    BY <1>1, EmptyOnce, OwnAdapter DEF KeptInv, Queued, ToSet

LEMMA FinishKept ==
    ASSUME BypassInv, KeptInv, FinishTick
    PROVE  KeptInv'
  <1>0. TypesInv
    BY DEF BypassInv
  <1>1. /\ decodes \in Seq(Seqs) /\ batch \in Seq(Tokens) /\ recorded \subseteq Seqs
        /\ ToSet(running) \subseteq Seqs /\ ToSet(running') \subseteq Seqs
        /\ tokensLeft \in [Seqs -> Nat]
        /\ \A s \in ToSet(running) : tokensLeft[s] > 0
    <2>1. running \in Seq(Seqs) /\ running' \in Seq(Seqs)
      BY <1>0, RunFacts DEF TypesInv, SchedulerTypeOK
    <2>2. ToSet(running) \subseteq Seqs /\ ToSet(running') \subseteq Seqs
      BY <2>1 DEF ToSet
    <2> QED
      BY <1>0, <2>2 DEF TypesInv, SchedulerTypeOK, BufferTypeOK, CallTypeOK, StoreTypeOK,
                        RequestsOK, Arrived
  <1>2. /\ phase = "dispatch" /\ phase' = "idle" /\ batch' = <<>> /\ inPrefill' = {}
        /\ postAligned' = AfterCleanup(
                postAligned \cup ToSet(AlignedFirstTime) \cup ToSet(Drained))
        /\ recorded' \subseteq recorded
    BY DEF FinishTick
  <1>3. ToSet(decodes) = ToSet(running) \ inPrefill
    BY <1>2 DEF KeptInv
  <1>4. \A x \in Seqs : Queued(x)' <=> Queued(x) /\ x \notin ToSet(Drained)
    BY FinishBypass
  <1>5. /\ ToSet(FirstTime) = ToSet(decodes) \ postAligned
        /\ ToSet(PostGroups) = ToSet(decodes) \cap postAligned
        /\ \A s : s \in ToSet(AlignedFirstTime) <=> s \in ToSet(FirstTime) /\ Holds(batch, s)
    BY <1>1, FinishLists
  <1>6. ToSet(output') = ToSet(PostGroups) \cup ToSet(AlignedFirstTime) \cup ToSet(Drained)
    BY <1>0, <1>1, RunFacts, OutputFacts
  <1>7. \A s \in Seqs :
            /\ s \in ToSet(running') <=>
                    s \in ToSet(running) /\ ~(s \in ToSet(output') /\ tokensLeft[s] = 1)
            /\ tokensLeft'[s] = tokensLeft[s] - (IF s \in ToSet(output') THEN 1 ELSE 0)
    BY <1>0, RunFacts
  <1>8. ToSet(output') \subseteq ToSet(running)
    BY <1>0, RunFacts DEF TypesInv, RequestsOK
  <1>9. ASSUME NEW s \in ToSet(running'), s \in recorded', s \notin postAligned'
        PROVE  Queued(s)'
    <2>1. s \in Seqs /\ s \in ToSet(running) /\ s \in recorded
      BY <1>1, <1>2, <1>7, <1>9
    <2>2. s \notin postAligned /\ s \notin ToSet(AlignedFirstTime) /\ s \notin ToSet(Drained)
      BY <1>2, <1>9, <2>1 DEF AfterCleanup
    <2>3. Queued(s) \/ Holds(batch, s)
      BY <2>1, <2>2 DEF KeptInv
    <2>4. Holds(batch, s) => s \in ToSet(decodes)
      BY <1>3, <2>1 DEF KeptInv
    <2> QED
      BY <1>4, <1>5, <2>1, <2>2, <2>3, <2>4
  <1>10. ASSUME NEW s \in Seqs, Queued(s)'
         PROVE  s \in ToSet(running')
    <2>1. Queued(s) /\ s \notin ToSet(Drained)
      BY <1>4, <1>10
    <2>2. s \in ToSet(running) /\ s \notin postAligned /\ ~Holds(batch, s)
      BY <2>1 DEF KeptInv, BypassInv, AlignedNotQueued, NoDuplicates
    <2>3. s \notin ToSet(output')
      BY <1>5, <1>6, <2>1, <2>2
    <2> QED
      BY <1>7, <2>2, <2>3
  <1>11. ASSUME NEW s \in recorded'
         PROVE  s \in ToSet(running') \/ tokensLeft'[s] = 0
    <2>1. s \in Seqs /\ s \in recorded /\ tokensLeft[s] \in Nat
      BY <1>1, <1>2
    <2>2. s \in ToSet(running) \/ tokensLeft[s] = 0
      BY <2>1 DEF KeptInv
    <2>3. tokensLeft[s] = 0 => s \notin ToSet(output')
      BY <1>1, <1>8
    <2> QED
      BY <1>7, <2>1, <2>2, <2>3
  <1>12. \A s : ~Holds(batch', s)
    BY <1>2, EmptyOnce
  <1> QED
    BY <1>2, <1>9, <1>10, <1>11, <1>12 DEF KeptInv

LEMMA NextKept ==
    ASSUME Undisturbed, BypassInv, KeptInv, [SchedulerNext]_schedulerVars
    PROVE  KeptInv'
  <1>0. TypesInv /\ StoreTypeOK /\ running \in Seq(Seqs) /\ ToSet(running) \subseteq Seqs
    <2>1. TypesInv /\ running \in Seq(Seqs) /\ StoreTypeOK
      BY DEF BypassInv, TypesInv, SchedulerTypeOK, BufferTypeOK
    <2> QED
      BY <2>1 DEF ToSet
  <1>1. CASE StartDecodeTick
    <2>1. /\ UNCHANGED <<queues, batch, tokensLeft>>
          /\ inPrefill' = IF phase' = "idle" THEN {} ELSE inPrefill
      BY <1>1 DEF StartDecodeTick, callVars
    <2>2. /\ ToSet(running') = ToSet(running)
          /\ ToSet(decodes') = ToSet(running') \ inPrefill
          /\ recorded' \subseteq recorded
          /\ \A s \in ToSet(running') : /\ s \in postAligned' <=> s \in postAligned
                                        /\ s \in recorded' <=> s \in recorded
      BY <1>0, <1>1, StartFacts DEF Undisturbed
    <2> QED
      BY <2>1, <2>2 DEF KeptInv, Queued
  <1>2. CASE EnqueueNext
    <2> DEFINE s == Head(toEnqueue)
    <2>1. /\ phase = "enqueue" /\ phase' = phase
          /\ UNCHANGED <<batch, running, inPrefill, tokensLeft, postAligned, decodes>>
          /\ toEnqueue # <<>> /\ toEnqueue \in Seq(Seqs)
      BY <1>0, <1>2 DEF EnqueueNext, callVars, vllmVars, TypesInv, SchedulerTypeOK
    <2>2. s \in Seqs /\ s \in ToSet(running) \ inPrefill
      BY <1>0, <2>1, TailOnce DEF TypesInv, RequestsOK, KeptInv
    <2> HIDE DEF s
    <2>3. CASE UNCHANGED storeVars
      BY <2>1, <2>3 DEF KeptInv, storeVars, Queued
    <2>4. CASE enqueue(s)
      <3>1. \A x \in Seqs : Queued(x)' <=> Queued(x) \/ x = s
        BY <1>0, <2>2, <2>4, EnqueueAdds
      <3>2. recorded' = recorded \cup {s}
        BY <2>4 DEF enqueue
      <3> QED
        BY <1>0, <2>1, <2>2, <3>1, <3>2 DEF KeptInv
    <2> QED
      BY <1>2, <2>3, <2>4 DEF EnqueueNext, s
  <1>3. CASE StartDispatch
    <2>1. /\ UNCHANGED <<queues, recorded, running, inPrefill, tokensLeft, postAligned, decodes>>
          /\ batch' = <<>> /\ batch = <<>> /\ phase = "enqueue"
      BY <1>3 DEF StartDispatch, begin_batch, storeVars, vllmVars, tickVars, BypassInv
    <2> QED
      BY <2>1 DEF KeptInv, Queued
  <1>4. CASE VisitNext
    <2>1. /\ Visit /\ phase' = phase /\ phase = "dispatch"
          /\ UNCHANGED <<running, inPrefill, tokensLeft, postAligned, decodes>>
      BY <1>4 DEF VisitNext, Visit, vllmVars, tickVars
    <2>2. TypeOK /\ NoDuplicates
      BY <1>0, <2>1, TypeParts DEF TypesInv, BufferTypeOK, BypassInv
    <2>3. /\ recorded' = recorded
          /\ \A x \in Seqs : Queued(x) \/ Holds(batch, x) <=> Queued(x)' \/ Holds(batch', x)
      BY <2>1, <2>2, VisitMoves
    <2> QED
      BY <1>0, <2>1, <2>3 DEF KeptInv
  <1>5. CASE FinishTick
    BY <1>5, FinishKept
  <1>6. ASSUME NEW chosen \in SUBSET ToSet(waiting), Prefill(chosen)
        PROVE  KeptInv'
    <2>1. /\ phase = "idle" /\ phase' = phase /\ inPrefill' \in {chosen, {}}
          /\ UNCHANGED <<queues, batch, recorded, tokensLeft, postAligned>>
      BY <1>6 DEF Prefill, Idle, bufferVars, storeVars, callVars
    <2>2. ToSet(running') = ToSet(running) \cup chosen
      BY <1>0, <1>6, PrefillFacts
    <2>3. chosen \cap ToSet(running) = {}
      BY <1>0 DEF TypesInv, RequestsOK
    <2>4. \A s \in chosen : s \notin recorded
      <3>1. chosen \subseteq Seqs
        BY <1>0 DEF TypesInv, SchedulerTypeOK, ToSet
      <3>2. \A s \in chosen : tokensLeft[s] > 0 /\ tokensLeft[s] \in Nat
        BY <1>0, <3>1 DEF TypesInv, SchedulerTypeOK, RequestsOK, Arrived
      <3> QED
        BY <2>3, <3>2 DEF KeptInv
    <2> QED
      BY <2>1, <2>2, <2>3, <2>4 DEF KeptInv, Queued
  <1>7. CASE ClockTick
    <2>1. /\ Elapse /\ phase' = phase /\ recorded' = recorded
          /\ UNCHANGED <<batch, running, inPrefill, tokensLeft, postAligned, decodes>>
      BY <1>7 DEF ClockTick, Elapse, callVars, vllmVars, tickVars
    <2>2. \A x \in Seqs : Queued(x)' <=> Queued(x)
      BY <1>0, <2>1, ElapseQueued
    <2> QED
      BY <1>0, <2>1, <2>2 DEF KeptInv
  <1>8. CASE UNCHANGED <<bufferVars, running, inPrefill, tokensLeft, postAligned, decodes>>
    <2>1. UNCHANGED <<queues, batch, recorded, phase>>
      BY <1>8 DEF bufferVars, storeVars, callVars
    <2> QED
      BY <1>8, <2>1 DEF KeptInv, Queued
  <1>9. \A s \in Seqs : ~Abort(s)
    BY DEF Abort, Undisturbed
  <1>10. ASSUME NEW s \in Seqs, ArriveAnew(s)
         PROVE  KeptInv'
    <2>1. /\ UNCHANGED <<queues, batch, recorded, running, inPrefill, phase, decodes>>
          /\ postAligned' = postAligned \ {s}
          /\ tokensLeft' = [tokensLeft EXCEPT ![s] = MaxTokens]
          /\ s \notin recorded /\ s \notin ToSet(running)
      BY <1>10 DEF ArriveAnew, Arrived, bufferVars, storeVars, callVars, tickVars
    <2>2. recorded \subseteq Seqs /\ tokensLeft \in [Seqs -> Nat]
      BY <1>0 DEF TypesInv, SchedulerTypeOK, StoreTypeOK
    <2> QED
      BY <2>1, <2>2 DEF KeptInv, Queued
  <1> QED
    BY <1>1, <1>2, <1>3, <1>4, <1>5, <1>6, <1>7, <1>8, <1>9, <1>10 DEF SchedulerNext, DecodeTick,
       PrefillTick, Arrive, schedulerVars, tickVars, vllmVars

\* While nothing is preempted or aborted, a running sequence that enqueue would
\* refuse and that does not bypass the buffer is in its queue, in every mode:
\* a deferred token is always re-scheduled, never lost.
THEOREM NothingIsLost ==
    ASSUME Undisturbed
    PROVE  SchedulerSpec => []NoSequenceLost
  <1>1. SchedulerInit => BypassInv /\ KeptInv
    BY InitBypass, InitKept
  <1>2. BypassInv /\ KeptInv /\ [SchedulerNext]_schedulerVars => (BypassInv /\ KeptInv)'
    BY NextBypass, NextKept
  <1>3. BypassInv /\ KeptInv => NoSequenceLost
    BY EmptyOnce DEF BypassInv, KeptInv, NoSequenceLost, Idle
  <1> QED
    BY <1>1, <1>2, <1>3, PTL DEF SchedulerSpec

-----------------------------------------------------------------------------
(***************************************************************************)
(* No token is overdue.  Every entry belongs to a group of the tick, so    *)
(* the budget of a call covers what is pending, and NothingDueIsMissed     *)
(* applies; the age of a queue is at least that of each of its tokens.     *)
(***************************************************************************)

AgedQueue(q, g) ==
    \A i, j \in DOMAIN q : /\ i <= j => q[i].age >= q[j].age
                           /\ q[i].age <= g

LEMMA EntryAges == \A e \in Entries : e.age \in Nat /\ e.age \in Ages /\ e.age # None
  <1>1. \A e \in Entries : e.age \in Ages
    BY DEF Entries
  <1> QED
    BY <1>1, EntryAge

LEMMA AppendAged ==
    ASSUME NEW q \in Seq(Entries), NEW g \in Ages \cup {None}, AgedQueue(q, g),
           NEW e \in Entries, e.age = 0
    PROVE  AgedQueue(Append(q, e), IF g = None THEN 0 ELSE g)
  <1> DEFINE p == Append(q, e)
             n == Len(q)
             h == IF g = None THEN 0 ELSE g
  <1>1. /\ n \in Nat /\ DOMAIN q = 1 .. n /\ DOMAIN p = 1 .. n + 1
        /\ (\A i \in 1 .. n : p[i] = q[i]) /\ p[n + 1] = e
    OBVIOUS
  <1>2. \A i \in DOMAIN q : q[i].age \in Nat
    BY EntryAges
  <1>3. h \in Nat /\ (g # None => h = g)
    BY AgesFacts
  <1>4. \A i \in DOMAIN q : q[i].age <= h
    <2>1. \A i \in DOMAIN q : q[i].age <= g
      BY DEF AgedQueue
    <2>2. CASE g = None
      <3>1. \A i \in DOMAIN q : q[i].age <= -1
        BY <2>1, <2>2 DEF None
      <3>2. \A i \in DOMAIN q : q[i].age \in Nat /\ q[i].age <= -1
        BY <1>2, <3>1
      <3>3. \A x \in Nat : ~(x <= -1)
        OBVIOUS
      <3> QED
        BY <3>2, <3>3
    <2>3. CASE g # None
      BY <1>3, <2>1, <2>3
    <2> QED
      BY <2>2, <2>3
  <1> HIDE DEF p, n, h
  <1>5. ASSUME NEW i \in DOMAIN p, NEW j \in DOMAIN p
        PROVE  (i <= j => p[i].age >= p[j].age) /\ p[i].age <= h
    <2>1. CASE j \in DOMAIN q /\ i \in DOMAIN q
      BY <1>1, <1>4, <2>1 DEF AgedQueue
    <2>2. CASE j = n + 1 /\ i \in DOMAIN q
      BY <1>1, <1>2, <1>4, <2>2
    <2>3. CASE i = n + 1
      <3>1. i <= j => j = n + 1
        BY <1>1, <2>3
      <3> QED
        BY <1>1, <1>3, <2>3, <3>1
    <2> QED
      BY <1>1, <2>1, <2>2, <2>3
  <1> QED
    BY <1>5 DEF AgedQueue, p, h

\* What remains of a queue when its first entries leave, with the head's stamp.
LEMMA RestAged ==
    ASSUME NEW q \in Seq(Entries), NEW g, AgedQueue(q, g), NEW n \in 0 .. Len(q)
    PROVE  LET rest == SubSeq(q, n + 1, Len(q)) IN AgedQueue(rest, HeadAge(rest))
  <1> DEFINE rest == SubSeq(q, n + 1, Len(q))
             m == Len(q)
  <1>1. /\ m \in Nat /\ DOMAIN q = 1 .. m /\ n \in Nat /\ n <= m
        /\ rest \in Seq(Entries) /\ DOMAIN rest = 1 .. m - n
        /\ \A j \in 1 .. m - n : rest[j] = q[n + j]
    OBVIOUS
  <1> HIDE DEF rest, m
  <1>2. \A j \in DOMAIN rest : n + j \in DOMAIN q /\ rest[j] = q[n + j]
    BY <1>1
  <1>3. \A i, j \in DOMAIN rest : i <= j => n + i <= n + j
    BY <1>1
  <1>4. \A i, j \in DOMAIN rest : i <= j => rest[i].age >= rest[j].age
    BY <1>2, <1>3 DEF AgedQueue
  <1>5. \A i \in DOMAIN rest : rest[i].age <= HeadAge(rest)
    <2> SUFFICES ASSUME NEW i \in DOMAIN rest PROVE rest[i].age <= HeadAge(rest)
      OBVIOUS
    <2>1. 1 \in DOMAIN rest /\ 1 <= i /\ rest # <<>>
      BY <1>1
    <2>2. HeadAge(rest) = rest[1].age
      BY <2>1 DEF HeadAge
    <2>3. rest[1].age >= rest[i].age
      BY <1>4, <2>1
    <2>4. rest[1].age \in Nat /\ rest[i].age \in Nat
      BY <1>1, <2>1, EntryAges
    <2> QED
      BY <2>2, <2>3, <2>4
  <1> QED
    BY <1>4, <1>5 DEF AgedQueue, rest, m

LEMMA OlderAged ==
    ASSUME NEW q \in Seq(Entries), NEW g \in Ages \cup {None}, AgedQueue(q, g)
    PROVE  AgedQueue(OlderQueue(q), Older(g))
  <1> DEFINE p == OlderQueue(q)
  <1>1. DOMAIN p = DOMAIN q
    BY DEF OlderQueue
  <1>2. \A i \in DOMAIN q : q[i] \in Entries
    OBVIOUS
  <1>3. \A i \in DOMAIN q : p[i].age = Older(q[i].age)
    <2>1. \A i \in DOMAIN q : p[i] = [q[i] EXCEPT !.age = Older(@)]
      BY DEF OlderQueue
    <2>2. \A e \in Entries : [e EXCEPT !.age = Older(@)].age = Older(e.age)
      BY DEF Entries
    <2> QED
      BY <1>2, <2>1, <2>2
  <1>4. TSLO \in Nat
    BY BufferAssumption
  <1>5. \A x, y \in Ages \cup {None} : x <= y => Older(x) <= Older(y)
    BY <1>4 DEF Ages, None, Older
  <1>6. \A i \in DOMAIN q : q[i].age \in Ages
    BY <1>2, EntryAges
  <1> HIDE DEF p
  <1>7. \A i, j \in DOMAIN q : i <= j => Older(q[j].age) <= Older(q[i].age)
    <2> SUFFICES ASSUME NEW i \in DOMAIN q, NEW j \in DOMAIN q, i <= j
                 PROVE  Older(q[j].age) <= Older(q[i].age)
      OBVIOUS
    <2>1. q[j].age <= q[i].age
      <3>1. q[i].age >= q[j].age
        BY DEF AgedQueue
      <3> QED
        BY <1>6, <3>1, AgesFacts
    <2> QED
      BY <1>5, <1>6, <2>1
  <1>8. \A i \in DOMAIN q : Older(q[i].age) <= Older(g)
    BY <1>5, <1>6 DEF AgedQueue
  <1>9. \A i \in DOMAIN q : Older(q[i].age) \in Int
    BY <1>4, <1>6 DEF Ages, Older
  <1> QED
    BY <1>1, <1>3, <1>7, <1>8, <1>9 DEF AgedQueue, p

LEMMA OnlyAged ==
    ASSUME NEW q \in Seq(Entries), NEW g, AgedQueue(q, g), NEW S
    PROVE  AgedQueue(Only(q, S), g)
  <1> DEFINE p == Only(q, S)
  <1>1. p \in Seq(Entries) /\ \E at : Filters(p, q, S, at)
    BY OnlyFacts
  <1> HIDE DEF p
  <1>2. PICK at : Filters(p, q, S, at)
    BY <1>1
  <1>3. /\ at \in [DOMAIN p -> DOMAIN q]
        /\ \A k \in DOMAIN p : p[k] = q[at[k]]
        /\ \A k, l \in DOMAIN p : k < l => at[k] < at[l]
    BY <1>2 DEF Filters
  <1>4. ASSUME NEW k \in DOMAIN p, NEW l \in DOMAIN p
        PROVE  (k <= l => p[k].age >= p[l].age) /\ p[k].age <= g
    <2>1. at[k] \in DOMAIN q /\ at[l] \in DOMAIN q /\ k \in Nat /\ l \in Nat
      BY <1>1, <1>3
    <2>2. at[k] \in Nat /\ at[l] \in Nat
      BY <2>1
    <2>3. k <= l => at[k] <= at[l]
      <3>1. CASE k = l
        BY <2>2, <3>1
      <3>2. CASE k < l
        BY <1>3, <2>2, <3>2
      <3> QED
        BY <2>1, <3>1, <3>2
    <2> QED
      BY <1>3, <2>1, <2>3 DEF AgedQueue
  <1> QED
    BY <1>4 DEF AgedQueue, p

LEMMA AgedQueues == AgesOrdered <=> \A a \in Adapters : AgedQueue(queues[a], enqueueAge[a])
  BY DEF AgesOrdered, AgedQueue

LEMMA VisitAged ==
    ASSUME TypeOK, AgesOrdered, Visit
    PROVE  AgesOrdered'
  <1>1. CASE UNCHANGED <<queues, enqueueAge>>
    BY <1>1 DEF AgesOrdered
  <1>2. CASE DispatchQueue
    <2> DEFINE k == Head(todo)
               n == DispatchCount(k)
               q == queues[k]
               rest == SubSeq(q, n + 1, Len(q))
    <2>1. /\ k \in Adapters /\ q \in Seq(Entries) /\ queues \in [Adapters -> Seq(Entries)]
          /\ enqueueAge \in [Adapters -> Ages \cup {None}]
      BY <1>2 DEF DispatchQueue, TypeOK
    <2>2. n \in 0 .. Len(q)
      BY <1>2, <2>1, DispatchCountBounds DEF DispatchQueue
    <2>3. /\ queues' = [queues EXCEPT ![k] = rest]
          /\ enqueueAge' = [enqueueAge EXCEPT ![k] = HeadAge(rest)]
      BY <1>2 DEF DispatchQueue
    <2>4. AgedQueue(q, enqueueAge[k])
      BY <2>1, AgedQueues
    <2> HIDE DEF n, q
    <2>5. AgedQueue(rest, HeadAge(rest))
      BY <2>1, <2>2, <2>4, RestAged
    <2> HIDE DEF rest
    <2>6. \A a \in Adapters : AgedQueue(queues'[a], enqueueAge'[a])
      BY <2>1, <2>3, <2>5, AgedQueues
    <2> QED
      BY <2>6 DEF AgesOrdered, AgedQueue
  <1> QED
    BY <1>1, <1>2 DEF Visit, visit, StopFull, NoRoomForAWarp, HoldQueue, storeVars

\* The entries of the queues are of different groups of the tick: no more than
\* the tick has.
LEMMA PendingFits ==
    ASSUME BypassInv, KeptInv, phase = "enqueue"
    PROVE  PendingTotal(queues) <= Len(decodes)
  <1> DEFINE P == UNION {{a} \X DOMAIN queues[a] : a \in Adapters}
             D == ToSet(decodes)
             seqAt == [r \in P |-> queues[r[1]][r[2]].seq]
             n == Len(decodes)
  <1>1. /\ decodes \in Seq(Seqs) /\ batch = <<>>
        /\ \A a \in Adapters : /\ queues[a] \in Seq(Entries)
                               /\ EachOnce(queues[a]) /\ OwnTokens(queues[a], a)
    BY DEF BypassInv, TypesInv, SchedulerTypeOK, BufferTypeOK, StoreTypeOK, NoDuplicates
  <1>2. \A r \in P : /\ r[1] \in Adapters /\ r[2] \in DOMAIN queues[r[1]]
                     /\ r = <<r[1], r[2]>>
    OBVIOUS
  <1>3. \A r \in P : /\ seqAt[r] = queues[r[1]][r[2]].seq
                     /\ AdapterOf[seqAt[r]] = r[1]
    BY <1>1, <1>2 DEF OwnTokens
  <1>4. \A r \in P : seqAt[r] \in D
    <2> SUFFICES ASSUME NEW r \in P PROVE seqAt[r] \in D
      OBVIOUS
    <2>1. queues[r[1]][r[2]] \in Entries
      BY <1>1, <1>2
    <2>2. seqAt[r] \in Seqs
      BY <1>3, <2>1 DEF Entries
    <2>3. Queued(seqAt[r])
      BY <1>2, <1>3 DEF Queued, Holds
    <2> QED
      BY <2>2, <2>3 DEF KeptInv
  <1>5. \A r, t \in P : seqAt[r] = seqAt[t] => r = t
    <2> SUFFICES ASSUME NEW r \in P, NEW t \in P, seqAt[r] = seqAt[t]
                 PROVE  r = t
      OBVIOUS
    <2>1. r[1] = t[1]
      <3> HIDE DEF seqAt, P
      <3> QED
        BY <1>3
    <2>2. /\ r[1] \in Adapters
          /\ r[2] \in DOMAIN queues[r[1]] /\ t[2] \in DOMAIN queues[r[1]]
      BY <1>2, <2>1
    <2>3. queues[r[1]][r[2]].seq = queues[r[1]][t[2]].seq
      <3> HIDE DEF seqAt, P
      <3> QED
        BY <1>3, <2>1
    <2>4. EachOnce(queues[r[1]])
      BY <1>1, <2>2
    <2>5. r[2] = t[2]
      BY <2>2, <2>3, <2>4 DEF EachOnce
    <2> QED
      BY <1>2, <2>1, <2>5
  <1>6. IsFiniteSet(D) /\ Cardinality(D) <= n
    <2>1. DOMAIN decodes = 1 .. n /\ n \in Nat
      BY <1>1
    <2>2. IsFiniteSet(1 .. n) /\ Cardinality(1 .. n) = n
      BY <2>1, UpTo
    <2>3. decodes \in Surjection(1 .. n, D)
      BY <1>1, <2>1 DEF Surjection, ToSet
    <2> QED
      BY <2>2, <2>3, FS_Surjection DEF ExistsSurjection
  <1>7. seqAt \in Injection(P, D)
    <2>1. seqAt \in [P -> D]
      BY <1>4
    <2> HIDE DEF seqAt, P, D
    <2> QED
      BY <1>5, <2>1 DEF Injection, IsInjective
  <1> HIDE DEF seqAt
  <1>8. Cardinality(P) <= Cardinality(D)
    BY <1>6, <1>7, FS_Injection DEF ExistsInjection
  <1>9. Cardinality(P) = PendingTotal(queues)
    BY DEF PendingTotal
  <1> HIDE DEF P, D, n
  <1>10. PendingTotal(queues) \in Nat /\ Cardinality(D) \in Nat /\ n \in Nat
    <2>1. queues \in [Adapters -> Seq(Entries)]
      BY DEF BypassInv, TypesInv, BufferTypeOK, StoreTypeOK
    <2> QED
      BY <1>1, <1>6, <2>1, PendingType, FS_CardinalityType DEF n
  <1> QED
    BY <1>6, <1>8, <1>9, <1>10 DEF n

LEMMA InitOverdue == SchedulerInit => OverdueInv
  <1> SUFFICES ASSUME SchedulerInit PROVE OverdueInv
    OBVIOUS
  <1>1. phase = "idle" /\ \A a \in Adapters : queues[a] = <<>> /\ shadow[a] = <<>>
    BY DEF SchedulerInit, Init, StoreInit
  <1> QED
    BY <1>1 DEF OverdueInv, AgesOrdered, UsedRegistered, CoveredInv, LoopInv

\* Whatever is preempted or aborted, the loop of a tick visits every queue.
LEMMA NextLoop ==
    ASSUME BypassInv, OrderInv, UsedRegistered, LoopInv, [SchedulerNext]_schedulerVars
    PROVE  UsedRegistered' /\ LoopInv'
  <1>0. /\ TypesInv /\ StoreTypeOK /\ queues \in [Adapters -> Seq(Entries)]
    BY DEF BypassInv, TypesInv, BufferTypeOK, StoreTypeOK
  <1>1. CASE StartDispatch
    <2>1. begin_batch(MethodOf(mode), Len(decodes)) /\ Distinct(registered)
      BY <1>1 DEF StartDispatch, OrderInv
    <2>2. \A a \in Adapters : queues'[a] # <<>> => ToVisit(a)'
      BY <1>0, <2>1, BeginLoop
    <2>3. UNCHANGED <<queues, shadow, registered>>
      BY <2>1 DEF begin_batch, storeVars
    <2> QED
      BY <2>2, <2>3, QuietUsed DEF LoopInv
  <1>2. CASE VisitNext
    <2>1. Visit /\ TypeOK
      BY <1>0, <1>2, TypeParts DEF VisitNext, Visit, TypesInv, BufferTypeOK
    <2> QED
      BY <2>1, VisitLoop, VisitUsed
  <1>3. CASE EnqueueNext
    <2>1. phase' # "dispatch" /\ Head(toEnqueue) \in Seqs
      BY <1>0, <1>3, TailOnce DEF EnqueueNext, TypesInv, SchedulerTypeOK
    <2>2. UNCHANGED storeVars \/ enqueue(Head(toEnqueue))
      BY <1>3 DEF EnqueueNext
    <2> QED
      BY <1>0, <2>1, <2>2, EnqueueUsed, QuietUsed DEF LoopInv, storeVars
  <1>4. CASE FinishTick
    <2>1. /\ phase' = "idle" /\ UNCHANGED <<registered, shadow>>
          /\ \A a \in Adapters : \E S : queues'[a] = Only(queues[a], S)
      BY <1>0, <1>4, DrainFacts DEF FinishTick
    <2>2. \A S : Only(<<>>, S) = <<>>
      <3>1. <<>> \in Seq(Entries) /\ DOMAIN <<>> = {}
        OBVIOUS
      <3> QED
        BY <3>1, OnlyAll
    <2>3. \A a \in Adapters : queues[a] = <<>> => queues'[a] = <<>>
      BY <2>1, <2>2
    <2> QED
      BY <2>1, <2>3, QuietUsed DEF LoopInv
  <1>5. CASE ClockTick
    <2>1. /\ phase' # "dispatch" /\ registered' = registered
          /\ \A a \in Adapters : /\ queues'[a] = OlderQueue(queues[a])
                                  /\ shadow'[a] = OlderQueue(shadow[a])
      BY <1>5 DEF ClockTick, Idle, Elapse
    <2>2. OlderQueue(<<>>) = <<>>
      BY DEF OlderQueue
    <2> QED
      BY <2>1, <2>2, QuietUsed DEF LoopInv
  <1>6. CASE StartDecodeTick
    <2>1. phase' # "dispatch"
      BY <1>0, <1>6, StartFacts
    <2>2. UNCHANGED <<queues, shadow, registered>>
      BY <1>6 DEF StartDecodeTick
    <2> QED
      BY <2>1, <2>2, QuietUsed DEF LoopInv
  <1>7. CASE UNCHANGED bufferVars
    BY <1>7 DEF bufferVars, storeVars, callVars, UsedRegistered, IsRegistered, LoopInv, Covered,
                Left, ToVisit, VisitedOK, Expired, Age, EffectiveDeadline
  <1> QED
    BY <1>1, <1>2, <1>3, <1>4, <1>5, <1>6, <1>7 DEF SchedulerNext, DecodeTick, PrefillTick,
       Prefill, Arrive, Abort, ArriveAnew, schedulerVars

LEMMA StartOverdue ==
    ASSUME BypassInv, KeptInv, AgesOrdered, StartDispatch
    PROVE  AgesOrdered' /\ CoveredInv'
  <1>1. begin_batch(MethodOf(mode), Len(decodes)) /\ phase = "enqueue"
    BY DEF StartDispatch
  <1>2. /\ batch' = <<>> /\ budget' = Len(decodes)
        /\ UNCHANGED <<queues, shadow, enqueueAge, registered>>
    BY <1>1 DEF begin_batch, storeVars
  <1>3. PendingTotal(queues) <= Len(decodes)
    BY <1>1, PendingFits
  <1>4. Covered'
    <2> DEFINE n == PendingTotal(queues)
               b == budget'
    <2>1. n \in Nat /\ b \in Nat /\ Len(batch') = 0
      <3>1. queues \in [Adapters -> Seq(Entries)] /\ decodes \in Seq(Seqs)
        BY DEF BypassInv, TypesInv, BufferTypeOK, StoreTypeOK, SchedulerTypeOK
      <3> QED
        BY <1>2, <3>1, PendingType
    <2>2. n <= b
      BY <1>2, <1>3
    <2>3. Left' = b - 0 /\ PendingTotal(queues') = n
      BY <1>2, <2>1 DEF Left
    <2> HIDE DEF n, b
    <2>4. b - 0 >= n
      BY <2>1, <2>2
    <2> QED
      BY <2>3, <2>4 DEF Covered
  <1>5. AgesOrdered'
    BY <1>2 DEF AgesOrdered
  <1> QED
    BY <1>4, <1>5 DEF CoveredInv

LEMMA VisitOverdue ==
    ASSUME TypeOK, AgesOrdered, CoveredInv, Visit
    PROVE  AgesOrdered' /\ CoveredInv'
  <1>1. AgesOrdered'
    BY VisitAged
  <1>2. Covered
    BY DEF Visit, CoveredInv
  <1>3. Covered'
    <2>1. CASE UNCHANGED <<budget, batch, queues>>
      BY <1>2, <2>1 DEF Covered, Left
    <2>2. CASE DispatchQueue
      <3> DEFINE l == Left
                 n == PendingTotal(queues)
                 l1 == Left'
                 n1 == PendingTotal(queues')
      <3>1. l1 - n1 = l - n /\ n \in Nat
        BY <2>2, DispatchBalanced
      <3>2. l \in Int /\ l1 \in Int
        <4>1. TypeOK'
          BY VisitType
        <4> QED
          BY <4>1 DEF TypeOK, Left
      <3>3. n1 \in Nat
        <4>1. TypeOK'
          BY VisitType
        <4> QED
          BY <4>1, PendingType DEF TypeOK
      <3>4. l >= n
        BY <1>2 DEF Covered
      <3> HIDE DEF l, n, l1, n1
      <3>5. l1 >= n1
        BY <3>1, <3>2, <3>3, <3>4
      <3> QED
        BY <3>5 DEF Covered, l1, n1
    <2> QED
      BY <2>1, <2>2 DEF Visit, visit, StopFull, NoRoomForAWarp, HoldQueue, argVars, storeVars
  <1> QED
    BY <1>1, <1>3 DEF CoveredInv

LEMMA NextOverdue ==
    ASSUME Undisturbed, BypassInv, OrderInv, KeptInv, OverdueInv,
           [SchedulerNext]_schedulerVars
    PROVE  OverdueInv'
  <1>0. /\ TypesInv /\ StoreTypeOK /\ queues \in [Adapters -> Seq(Entries)]
        /\ enqueueAge \in [Adapters -> Ages \cup {None}]
        /\ AgesOrdered /\ CoveredInv
    BY DEF BypassInv, TypesInv, BufferTypeOK, StoreTypeOK, OverdueInv
  <1> SUFFICES AgesOrdered' /\ CoveredInv'
    BY NextLoop DEF OverdueInv
  <1>1. CASE StartDispatch
    BY <1>0, <1>1, StartOverdue
  <1>2. CASE VisitNext
    <2>1. Visit /\ TypeOK
      BY <1>0, <1>2, TypeParts DEF VisitNext, Visit, TypesInv, BufferTypeOK
    <2> QED
      BY <1>0, <2>1, VisitOverdue
  <1>3. CASE EnqueueNext
    <2> DEFINE s == Head(toEnqueue)
    <2>1. /\ phase = "enqueue" /\ phase' = phase /\ s \in Seqs
      BY <1>0, <1>3, TailOnce DEF EnqueueNext, TypesInv, SchedulerTypeOK
    <2> HIDE DEF s
    <2>2. CASE UNCHANGED storeVars
      BY <1>0, <2>1, <2>2 DEF AgesOrdered, CoveredInv, storeVars
    <2>3. CASE enqueue(s)
      <3> DEFINE k == AdapterOf[s]
                 q == queues[k]
                 g == enqueueAge[k]
                 e == NewEntry(s)
      <3>1. /\ queues' = [queues EXCEPT ![k] = Append(q, e)]
            /\ enqueueAge' = [enqueueAge EXCEPT ![k] = IF g = None THEN 0 ELSE g]
        BY <2>3 DEF enqueue
      <3>2. k \in Adapters /\ e \in Entries /\ e.age = 0
        BY <2>1, OwnAdapter, AgesFacts DEF NewEntry, Entries
      <3>3. q \in Seq(Entries) /\ g \in Ages \cup {None} /\ AgedQueue(q, g)
        BY <1>0, <3>2, AgedQueues
      <3> HIDE DEF k, q, g, e
      <3>4. AgedQueue(Append(q, e), IF g = None THEN 0 ELSE g)
        BY <3>2, <3>3, AppendAged
      <3>5. \A a \in Adapters : AgedQueue(queues'[a], enqueueAge'[a])
        BY <1>0, <3>1, <3>2, <3>4, AgedQueues
      <3> QED
        BY <2>1, <3>5 DEF AgesOrdered, AgedQueue, CoveredInv
    <2> QED
      BY <1>3, <2>2, <2>3 DEF EnqueueNext, s
  <1>4. CASE FinishTick
    <2>1. /\ phase' = "idle"
          /\ \A a \in Adapters : \E S : queues'[a] = Only(queues[a], S)
          /\ \A a \in Adapters : enqueueAge'[a] = enqueueAge[a] \/ queues'[a] = <<>>
      BY <1>0, <1>4, DrainFacts DEF FinishTick
    <2>2. ASSUME NEW a \in Adapters PROVE AgedQueue(queues'[a], enqueueAge'[a])
      <3>1. CASE queues'[a] = <<>>
        BY <3>1 DEF AgedQueue
      <3>2. CASE enqueueAge'[a] = enqueueAge[a]
        <4>1. PICK S : queues'[a] = Only(queues[a], S)
          BY <2>1
        <4>2. queues[a] \in Seq(Entries) /\ AgedQueue(queues[a], enqueueAge[a])
          BY <1>0, AgedQueues
        <4>3. AgedQueue(Only(queues[a], S), enqueueAge[a])
          BY <4>2, OnlyAged
        <4> QED
          BY <3>2, <4>1, <4>3
      <3> QED
        BY <2>1, <3>1, <3>2
    <2> QED
      BY <2>1, <2>2 DEF AgesOrdered, AgedQueue, CoveredInv
  <1>5. CASE ClockTick
    <2>1. /\ phase = "idle" /\ phase' = phase
          /\ queues' = [a \in Adapters |-> OlderQueue(queues[a])]
          /\ enqueueAge' = [a \in Adapters |-> Older(enqueueAge[a])]
      BY <1>5 DEF ClockTick, Idle, Elapse
    <2>2. \A a \in Adapters : AgedQueue(OlderQueue(queues[a]), Older(enqueueAge[a]))
      BY <1>0, AgedQueues, OlderAged
    <2>3. \A a \in Adapters : AgedQueue(queues'[a], enqueueAge'[a])
      BY <2>1, <2>2
    <2> QED
      BY <2>1, <2>3 DEF AgesOrdered, AgedQueue, CoveredInv
  <1>6. CASE StartDecodeTick
    <2>1. phase' # "dispatch" /\ UNCHANGED <<queues, enqueueAge>>
      BY <1>0, <1>6, StartFacts DEF StartDecodeTick
    <2> QED
      BY <1>0, <2>1 DEF AgesOrdered, CoveredInv
  <1>7. CASE UNCHANGED bufferVars
    BY <1>0, <1>7 DEF bufferVars, storeVars, callVars, AgesOrdered, CoveredInv, Covered, Left
  <1> QED
    BY <1>1, <1>2, <1>3, <1>4, <1>5, <1>6, <1>7 DEF SchedulerNext, DecodeTick, PrefillTick,
       Prefill, Arrive, Abort, ArriveAnew, schedulerVars

\* While nothing is preempted or aborted, a tick leaves no token in its queue
\* past T_SLO, in any mode, except behind a warp of its own adapter that runs.
THEOREM NothingIsOverdue ==
    ASSUME Undisturbed
    PROVE  SchedulerSpec => []NoTokenOverdue
  <1> DEFINE Inv == BypassInv /\ OrderInv /\ KeptInv /\ OverdueInv
  <1>1. SchedulerInit => Inv
    BY InitBypass, InitOrder, InitKept, InitOverdue
  <1>2. Inv /\ [SchedulerNext]_schedulerVars => Inv'
    BY NextBypass, NextOrder, NextKept, NextOverdue
  <1>3. Inv => NoTokenOverdue
    <2> SUFFICES ASSUME Inv, phase = "dispatch", todo = <<>>, NEW a \in Adapters,
                        NEW i \in DOMAIN queues[a], queues[a][i].age >= TSLO
                 PROVE  \E j \in DOMAIN batch : batch[j].adapter = a
      BY DEF NoTokenOverdue
    <2>1. /\ queues[a] \in Seq(Entries) /\ enqueueAge[a] \in Ages \cup {None}
          /\ deadline[a] \in Nat /\ TSLO \in Nat
      BY BufferAssumption DEF BypassInv, TypesInv, BufferTypeOK, StoreTypeOK, CallTypeOK
    <2>2. queues[a] # <<>>
      BY <2>1
    <2>3. VisitedOK(a)
      BY <2>2 DEF OverdueInv, CoveredInv, LoopInv, ToVisit
    <2>4. queues[a][i].age <= enqueueAge[a]
      BY DEF OverdueInv, AgesOrdered
    <2> DEFINE x == queues[a][i].age
               g == enqueueAge[a]
    <2>5. x \in Nat /\ x >= TSLO /\ x <= g
      BY <2>1, <2>4, EntryAges
    <2>6. g \in Int /\ g # None
      <3>1. g \in Nat \/ g = -1
        BY <2>1, AgesFacts DEF None
      <3> HIDE DEF g, x
      <3> QED
        BY <2>5, <3>1 DEF None
    <2> HIDE DEF x
    <2>7. Expired(a)
      <3>1. Age(a) = g
        BY <2>6 DEF Age
      <3>2. EffectiveDeadline(a) <= TSLO /\ EffectiveDeadline(a) \in Nat
        BY <2>1 DEF EffectiveDeadline, Smaller
      <3> HIDE DEF g
      <3> QED
        BY <2>1, <2>5, <2>6, <3>1, <3>2 DEF Expired
    <2> QED
      BY <2>3, <2>7 DEF VisitedOK
  <1> QED
    BY <1>1, <1>2, <1>3, PTL DEF SchedulerSpec

-----------------------------------------------------------------------------
(***************************************************************************)
(* The scheduler implements the buffer.  The instance Buffer reads         *)
(* BufferPhase for phase; nothing else of its operations depends on it.    *)
(***************************************************************************)

\* What one iteration of the loop decides does not depend on the phase.
LEMMA SameChoices ==
    /\ \A a : Buffer!Rule(a) = Rule(a)
    /\ \A a : Buffer!DispatchCount(a) = DispatchCount(a)
    /\ \A a, n : Buffer!Chunk(a, n) = Chunk(a, n)
    /\ \A q : Buffer!HeadAge(q) = HeadAge(q)
    /\ Buffer!Left = Left /\ Buffer!Continue = Continue
  <1>1. \A a : Buffer!Rule(a) = Rule(a)
    BY DEF Buffer!Rule, Rule, Buffer!Expired, Expired, Buffer!EffectiveDeadline,
           EffectiveDeadline, Buffer!Age, Age, Buffer!None, None, Buffer!Smaller, Smaller
  <1>2. Buffer!Left = Left /\ Buffer!Continue = Continue
    BY DEF Buffer!Left, Left, Buffer!Continue, Continue
  <1>3. \A a : Buffer!DispatchCount(a) = DispatchCount(a)
    BY <1>1, <1>2 DEF Buffer!DispatchCount, DispatchCount, Buffer!WarpsThatFit, WarpsThatFit,
           Buffer!Smaller, Smaller
  <1>4. \A a, n : Buffer!Chunk(a, n) = Chunk(a, n)
    BY <1>1 DEF Buffer!Chunk, Chunk, Buffer!Promoted, Promoted
  <1>5. \A q : Buffer!HeadAge(q) = HeadAge(q)
    BY DEF Buffer!HeadAge, HeadAge, Buffer!None, None
  <1> QED
    BY <1>1, <1>2, <1>3, <1>4, <1>5

LEMMA SameVisit == visit => Buffer!visit
  <1> SUFFICES ASSUME visit PROVE Buffer!visit
    OBVIOUS
  <1> USE SameChoices DEF Buffer!storeVars, storeVars, Buffer!argVars, argVars
  <1>1. StopFull => Buffer!StopFull
    BY DEF Buffer!StopFull, StopFull
  <1>2. NoRoomForAWarp => Buffer!NoRoomForAWarp
    BY DEF Buffer!NoRoomForAWarp, NoRoomForAWarp
  <1>3. HoldQueue => Buffer!HoldQueue
    BY DEF Buffer!HoldQueue, HoldQueue
  <1>4. DispatchQueue => Buffer!DispatchQueue
    BY DEF Buffer!DispatchQueue, DispatchQueue, Buffer!CountDispatched, CountDispatched
  <1> QED
    BY <1>1, <1>2, <1>3, <1>4 DEF visit, Buffer!visit

LEMMA SameEnqueue == \A s : enqueue(s) => Buffer!enqueue(s)
  BY DEF enqueue, Buffer!enqueue, AfterRegistering, Buffer!AfterRegistering, IsRegistered,
         Buffer!IsRegistered, NewEntry, Buffer!NewEntry, None, Buffer!None

LEMMA SameBegin == \A m, b : begin_batch(m, b) => Buffer!begin_batch(m, b)
  <1>1. \A n, k : Buffer!EffNStar(n, k) = EffNStar(n, k)
    BY DEF EffNStar, Buffer!EffNStar, Larger, Buffer!Larger, Smaller, Buffer!Smaller,
           RoundedQuotient, Buffer!RoundedQuotient
  <1>2. \A m : Buffer!VisitOrders(m) = VisitOrders(m)
    BY DEF VisitOrders, Buffer!VisitOrders, IsRegistered, Buffer!IsRegistered
  <1>3. \A m : Buffer!DeadlineChoices(m) = DeadlineChoices(m)
    BY DEF DeadlineChoices, Buffer!DeadlineChoices
  <1> QED
    BY <1>1, <1>2, <1>3 DEF begin_batch, Buffer!begin_batch, storeVars, Buffer!storeVars

LEMMA SameElapse == Elapse => Buffer!Elapse
  BY DEF Elapse, Buffer!Elapse, OlderQueue, Buffer!OlderQueue, Older, Buffer!Older

\* Outside wgkp the end of a tick leaves the buffer as the loop left it, but for
\* the records that the batch log takes.
LEMMA FinishReturns ==
    ASSUME BypassInv, FinishTick, mode # "wgkp"
    PROVE  /\ UNCHANGED <<registered, queues, shadow, enqueueAge, outstanding>>
           /\ ~logWar => recorded' = recorded
  <1>1. /\ queues \in [Adapters -> Seq(Entries)] /\ enqueueAge \in [Adapters -> Ages \cup {None}]
    BY DEF BypassInv, TypesInv, BufferTypeOK, StoreTypeOK
  <1>2. Drained = <<>> /\ (~logWar => Released = {})
    BY DEF Drained, Released
  <1> DEFINE rest(a) == Only(queues[a], {e \in Entries : e.seq \notin ToSet(Drained)})
             touched(a) == \E i \in DOMAIN Drained : AdapterOf[Drained[i]] = a
  <1>3. /\ queues' = [a \in Adapters |-> rest(a)]
        /\ enqueueAge' = [a \in Adapters |->
                IF touched(a) /\ rest(a) = <<>> THEN None ELSE enqueueAge[a]]
        /\ recorded' = recorded \ Released
        /\ UNCHANGED <<registered, shadow, outstanding>>
    BY DEF FinishTick, DrainQueues
  <1>4. ASSUME NEW a \in Adapters PROVE rest(a) = queues[a] /\ ~touched(a)
    <2>1. queues[a] \in Seq(Entries) /\ \A i \in DOMAIN queues[a] : queues[a][i] \in Entries
      BY <1>1
    <2>2. \A i \in DOMAIN queues[a] :
            queues[a][i] \in {e \in Entries : e.seq \notin ToSet(Drained)}
      BY <1>2, <2>1 DEF ToSet
    <2>3. rest(a) = queues[a]
      BY <2>1, <2>2, OnlyAll
    <2> QED
      BY <1>2, <2>3
  <1> HIDE DEF rest, touched
  <1>5. queues' = queues /\ enqueueAge' = enqueueAge
    BY <1>1, <1>3, <1>4
  <1> QED
    BY <1>2, <1>3, <1>5

\* The groups of a tick are different ones.
DecodesOnce == IsInjective(decodes)

LEMMA NextDecodes ==
    ASSUME TypesInv, DecodesOnce, [SchedulerNext]_schedulerVars
    PROVE  DecodesOnce'
  <1>1. CASE StartDecodeTick
    BY <1>1, StartFacts DEF DecodesOnce
  <1>2. CASE decodes' = <<>>
    BY <1>2 DEF DecodesOnce, IsInjective
  <1>3. CASE decodes' = decodes
    BY <1>3 DEF DecodesOnce
  <1> QED
    BY <1>1, <1>2, <1>3 DEF SchedulerNext, DecodeTick, EnqueueNext, StartDispatch, VisitNext,
       FinishTick, PrefillTick, Prefill, Arrive, Abort, ArriveAnew, ClockTick, schedulerVars, tickVars

\* A tick never asks the buffer for more tokens than there are sequences.
LEMMA DecodesFit ==
    ASSUME IsFiniteSet(Seqs), decodes \in Seq(Seqs), IsInjective(decodes)
    PROVE  Len(decodes) \in 0 .. Cardinality(Seqs)
  <1> DEFINE n == Len(decodes)
  <1>1. n \in Nat /\ decodes \in [1 .. n -> Seqs]
    OBVIOUS
  <1>2. decodes \in Injection(1 .. n, Seqs)
    BY <1>1 DEF Injection, IsInjective
  <1> HIDE DEF n
  <1>3. IsFiniteSet(1 .. n) /\ Cardinality(1 .. n) = n
    BY <1>1, UpTo
  <1>4. Cardinality(1 .. n) <= Cardinality(Seqs)
    BY <1>2, FS_Injection DEF ExistsInjection
  <1>5. Cardinality(Seqs) \in Nat
    BY FS_CardinalityType
  <1> QED
    BY <1>1, <1>3, <1>4, <1>5 DEF n

LEMMA BufferStep ==
    ASSUME IsFiniteSet(Seqs), BypassInv, DecodesOnce,
           [SchedulerNext]_schedulerVars
    PROVE  [mode # "wgkp" /\ ~logWar => Buffer!Next]_(Buffer!bufferVars)
  <1> SUFFICES ASSUME mode # "wgkp", ~logWar
               PROVE  Buffer!Next \/ UNCHANGED <<storeVars, BufferPhase, callVars>>
    BY DEF Buffer!bufferVars, Buffer!storeVars, storeVars, Buffer!callVars, callVars
  <1>1. CASE StartDecodeTick
    <2>1. /\ UNCHANGED <<registered, queues, shadow, enqueueAge, outstanding, callVars>>
          /\ phase = "idle" /\ recorded' = recorded
      BY <1>1 DEF StartDecodeTick, Idle
    <2>2. phase' \in {"idle", "enqueue"}
      BY <1>1 DEF StartDecodeTick
    <2> QED
      BY <2>1, <2>2 DEF storeVars, BufferPhase
  <1>2. CASE EnqueueNext
    <2> DEFINE s == Head(toEnqueue)
    <2>1. /\ phase = "enqueue" /\ UNCHANGED <<phase, callVars>> /\ s \in Seqs
      BY <1>2, TailOnce DEF EnqueueNext, BypassInv, TypesInv, SchedulerTypeOK
    <2>2. UNCHANGED storeVars \/ enqueue(s)
      BY <1>2 DEF EnqueueNext
    <2>3. ~Buffer!Held(s)
      <3>1. shadow[AdapterOf[s]] = <<>>
        BY <2>1, OwnAdapter DEF BypassInv
      <3> QED
        BY <3>1 DEF Buffer!Held, Buffer!Holds
    <2> HIDE DEF s
    <2>4. BufferPhase = "idle" /\ UNCHANGED <<BufferPhase, callVars>>
      BY <2>1 DEF BufferPhase
    <2>5. enqueue(s) => Buffer!Enqueue
      BY <2>1, <2>2, <2>3, <2>4, SameEnqueue
         DEF Buffer!Enqueue, Buffer!Call, Buffer!callVars, callVars
    <2> QED
      BY <2>2, <2>4, <2>5 DEF Buffer!Next
  <1>3. CASE StartDispatch
    <2>1. /\ phase = "enqueue" /\ phase' = "dispatch"
          /\ begin_batch(MethodOf(mode), Len(decodes))
      BY <1>3 DEF StartDispatch
    <2>2. MethodOf(mode) \in Methods
      BY SchedulerAssumption DEF BypassInv, TypesInv, SchedulerTypeOK
    <2>3. Len(decodes) \in 0 .. Cardinality(Seqs)
      BY DecodesFit DEF DecodesOnce, BypassInv, TypesInv, SchedulerTypeOK
    <2>4. BufferPhase = "idle" /\ BufferPhase' = "dispatch"
      BY <2>1 DEF BufferPhase
    <2>5. Buffer!begin_batch(MethodOf(mode), Len(decodes))
      BY <2>1, SameBegin
    <2> QED
      BY <2>2, <2>3, <2>4, <2>5 DEF Buffer!FormBatch, Buffer!Next
  <1>4. CASE VisitNext
    <2>1. phase = "dispatch" /\ visit /\ UNCHANGED phase
      BY <1>4 DEF VisitNext, Visit
    <2>2. BufferPhase = "dispatch" /\ UNCHANGED BufferPhase
      BY <2>1 DEF BufferPhase
    <2> QED
      BY <2>1, <2>2, SameVisit DEF Buffer!Visit, Buffer!Next
  <1>5. CASE FinishTick
    <2>1. /\ phase = "dispatch" /\ phase' = "idle" /\ todo = <<>>
          /\ method' = "none" /\ todo' = <<>> /\ budget' = 0 /\ batch' = <<>>
          /\ deadline' = [a \in Adapters |-> 0] /\ nStar' = 1 /\ merged' = {}
      BY <1>5 DEF FinishTick
    <2>2. UNCHANGED storeVars
      BY <1>5, FinishReturns DEF storeVars
    <2>3. BufferPhase = "dispatch" /\ BufferPhase' = "idle"
      BY <2>1 DEF BufferPhase
    <2> QED
      BY <2>1, <2>2, <2>3
         DEF Buffer!return_batch, Buffer!Return, Buffer!Next, Buffer!storeVars, storeVars
  <1>6. CASE ClockTick
    <2>1. phase = "idle" /\ Elapse /\ UNCHANGED <<phase, callVars>>
      BY <1>6 DEF ClockTick, Idle
    <2>2. BufferPhase = "idle" /\ UNCHANGED BufferPhase
      BY <2>1 DEF BufferPhase
    <2> QED
      BY <2>1, <2>2, SameElapse DEF Buffer!Tick, Buffer!Call, Buffer!Next, Buffer!callVars, callVars
  <1>7. CASE UNCHANGED bufferVars
    BY <1>7 DEF bufferVars, BufferPhase
  <1> QED
    BY <1>1, <1>2, <1>3, <1>4, <1>5, <1>6, <1>7 DEF SchedulerNext, DecodeTick, PrefillTick,
       Prefill, Arrive, Abort, ArriveAnew, schedulerVars

\* In the modes that only hold back, without the batch log, whatever is
\* preempted or aborted: the scheduler with its buffer implements
\* AlignmentBuffer.  It calls the methods one at a time, enqueues no sequence
\* that is held or recorded, and gives every call a budget within the number of
\* sequences.
THEOREM SchedulerImplementsBuffer ==
    ASSUME IsFiniteSet(Seqs)
    PROVE  SchedulerSpec => ImplementsBuffer
  <1>1. SchedulerInit => Buffer!Init /\ DecodesOnce
    BY DEF SchedulerInit, Init, StoreInit, NoCall, Buffer!Init, Buffer!StoreInit, Buffer!NoCall,
           BufferPhase, None, Buffer!None, DecodesOnce, IsInjective
  <1>2. BypassInv /\ DecodesOnce /\ [SchedulerNext]_schedulerVars =>
            /\ DecodesOnce'
            /\ [mode # "wgkp" /\ ~logWar => Buffer!Next]_(Buffer!bufferVars)
    BY BufferStep, NextDecodes DEF BypassInv
  <1> QED
    BY <1>1, <1>2, InitBypass, NextBypass, PTL DEF SchedulerSpec, ImplementsBuffer

-----------------------------------------------------------------------------
(***************************************************************************)
(* What the buffer guarantees, under this caller.  The scheduler enqueues  *)
(* during a tick, drains queues and drops records besides calling the      *)
(* buffer's operations, so this does not follow from the theorems above.   *)
(***************************************************************************)

\* In every mode, whatever is preempted or aborted: a sequence has at most one
\* entry in the queues and the batch, and enqueue adds no second one.
THEOREM SchedulerNeverDuplicates == SchedulerSpec => []NoDuplicates
  <1>1. BypassInv => NoDuplicates
    BY DEF BypassInv
  <1> QED
    BY <1>1, InitBypass, NextBypass, PTL DEF SchedulerSpec

\* In every mode the batch of a tick has one run and one promotion flag per
\* adapter.
THEOREM SchedulerBatchAligned == SchedulerSpec => []BatchAligned
  <1>1. OrderInv => BatchAligned
    BY DEF OrderInv
  <1> QED
    BY <1>1, InitBypass, NextBypass, InitOrder, NextOrder, PTL DEF SchedulerSpec

\* In every mode, a tick whose decode groups are as many as the tokens in the
\* buffer leaves no full warp behind, and no expired queue it has not
\* dispatched from.
THEOREM SchedulerMissesNothingDue == SchedulerSpec => []NothingDueIsLeft
  <1>1. SchedulerInit => UsedRegistered /\ LoopInv
    BY InitOverdue DEF OverdueInv
  <1>2. LoopInv => NothingDueIsLeft
    BY DEF LoopInv, ToVisit, VisitedOK, Covered, NothingDueIsLeft
  <1> QED
    BY <1>1, <1>2, InitBypass, NextBypass, InitOrder, NextOrder, NextLoop, PTL
       DEF SchedulerSpec

\* Without the drain of wgkp, the age of a queue is that of a token in it.
AgeInv == mode # "wgkp" /\ AgeIsOfAToken

LEMMA NextQueueAge ==
    ASSUME BypassInv, AgeInv, [SchedulerNext]_schedulerVars
    PROVE  AgeInv'
  <1> USE DEF AgeInv
  <1>0. mode' = mode
    BY DEF SchedulerNext, DecodeTick, StartDecodeTick, EnqueueNext, StartDispatch, VisitNext,
       FinishTick, PrefillTick, Prefill, Arrive, Abort, ArriveAnew, ClockTick, schedulerVars, settings
  <1>1. CASE EnqueueNext
    <2>1. StoreTypeOK /\ Head(toEnqueue) \in Seqs
      BY <1>1, TailOnce DEF EnqueueNext, BypassInv, TypesInv, SchedulerTypeOK, BufferTypeOK
    <2>2. CASE UNCHANGED storeVars
      BY <1>0, <2>2 DEF AgeIsOfAToken, storeVars
    <2> QED
      BY <1>0, <1>1, <2>1, <2>2, EnqueueAge DEF EnqueueNext
  <1>2. CASE VisitNext
    <2>1. Visit /\ TypeOK
      BY <1>2, TypeParts DEF VisitNext, Visit, BypassInv, TypesInv, BufferTypeOK
    <2>2. CASE UNCHANGED <<queues, enqueueAge>>
      BY <1>0, <2>2 DEF AgeIsOfAToken
    <2> QED
      BY <1>0, <2>1, <2>2, DispatchAge DEF Visit, visit, StopFull, NoRoomForAWarp, HoldQueue,
         storeVars
  <1>3. CASE FinishTick
    <2>1. UNCHANGED <<queues, enqueueAge>>
      BY <1>3, FinishReturns
    <2> QED
      BY <1>0, <2>1 DEF AgeIsOfAToken
  <1>4. CASE ClockTick
    <2>1. Tick /\ TypeOK
      BY <1>4, TypeParts DEF ClockTick, Idle, Tick, Call, BypassInv, TypesInv, BufferTypeOK
    <2> QED
      BY <1>0, <2>1, TickAge
  <1>5. CASE UNCHANGED <<queues, enqueueAge>>
    BY <1>0, <1>5 DEF AgeIsOfAToken
  <1> QED
    BY <1>1, <1>2, <1>3, <1>4, <1>5 DEF SchedulerNext, DecodeTick, StartDecodeTick,
       StartDispatch, begin_batch, PrefillTick, Prefill, Arrive, Abort, ArriveAnew, schedulerVars,
       bufferVars, storeVars

LEMMA InitQueueAge == SchedulerInit /\ mode # "wgkp" => AgeInv
  BY DEF SchedulerInit, Init, StoreInit, AgeIsOfAToken, AgeInv

\* In the modes that only hold back, enqueue_time[k] is the stamp of a token in
\* Q_k, whoever is preempted or aborted in the meantime.  (The drain of wgkp
\* keeps the stamp of a drained token when another one stays in the queue.)
THEOREM SchedulerAges == SchedulerSpec /\ mode # "wgkp" => []AgeIsOfAToken
  <1>1. AgeInv => AgeIsOfAToken
    BY DEF AgeInv
  <1> QED
    BY <1>1, InitBypass, NextBypass, InitQueueAge, NextQueueAge, PTL DEF SchedulerSpec

\* In the same modes no tick flushes a partial queue before a token of it has
\* waited for the deadline.
THEOREM SchedulerFlushes == SchedulerSpec /\ mode # "wgkp" => NoEarlyFlush
  <1>1. BypassInv /\ AgeInv /\ [SchedulerNext]_schedulerVars =>
          [Len(batch') > Len(batch) =>
            LET a == batch'[Len(batch')].adapter
                q == queues[a]
                waited(d, n) == \E i \in DOMAIN q : n * q[i].age >= d
                D == EffectiveDeadline(a)
            IN  \/ (Len(batch') - Len(batch)) % W = 0
                \/ waited(D, 1)
                \/ method = "form_batch_wgkp" /\ Len(q) >= nStar
                \/ method = "form_batch_wgkp" /\ 2 * Len(q) >= nStar /\ waited(D + 1, 2)]_bufferVars
    <2> SUFFICES ASSUME BypassInv, AgeInv, [SchedulerNext]_schedulerVars,
                        Len(batch') > Len(batch)
                 PROVE  TypeOK /\ DispatchQueue
      BY FlushReason DEF AgeInv
    <2>1. batch \in Seq(Tokens)
      BY DEF BypassInv, TypesInv, BufferTypeOK, CallTypeOK
    <2>2. batch' # batch /\ batch' # <<>>
      BY <2>1
    <2>3. VisitNext
      BY <2>2 DEF SchedulerNext, DecodeTick, StartDecodeTick, EnqueueNext, StartDispatch,
         begin_batch, FinishTick, PrefillTick, Prefill, Arrive, Abort, ArriveAnew, ClockTick,
         schedulerVars, bufferVars, callVars
    <2>4. Visit /\ TypeOK
      BY <2>3, TypeParts DEF VisitNext, Visit, BypassInv, TypesInv, BufferTypeOK
    <2> QED
      BY <2>2, <2>4 DEF Visit, visit, StopFull, NoRoomForAWarp, HoldQueue
  <1> QED
    BY <1>1, InitBypass, NextBypass, InitQueueAge, NextQueueAge, PTL
       DEF SchedulerSpec, NoEarlyFlush

=============================================================================
