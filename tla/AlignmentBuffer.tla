--------------------------- MODULE AlignmentBuffer ---------------------------
(***************************************************************************)
(* adapter_slots/buffer.py: the per-adapter queues Q_k in which the first  *)
(* decode token of a sequence waits for a full warp or for its deadline.   *)
(*                                                                         *)
(* The class is single-threaded: a caller runs one method at a time.  Each *)
(* method is an action named after it.  The four form_batch* methods share *)
(* one loop over the adapters; it is modelled one iteration per step       *)
(* (visit) between begin_batch and return_batch, and no other method       *)
(* runs while phase = "dispatch".                                          *)
(*                                                                         *)
(* Time.  The code stores perf_counter() stamps and only ever uses now - t *)
(* The model stores the ages, and Elapse makes all of them one unit older. *)
(* Every deadline is cut at T_SLO, so ages saturate at TSLO + 1.           *)
(*                                                                         *)
(* Left out: last_dispatch, _n_warps_dispatched and _n_timeout_dispatches, *)
(* which are written and never read, and the stamps in _seq_enqueue, which *)
(* only the batch log reads (what matters is who has a record).            *)
(***************************************************************************)
EXTENDS Integers, Sequences, FiniteSets, SequencesExt

CONSTANTS
    Seqs,       \* sequence ids
    Adapters,   \* adapter ids
    AdapterOf,  \* the adapter of each sequence; callers always pass this one
    W,          \* warp_size
    TSLO,       \* ttft_slo
    Deadlines,  \* the values that T_max and the T*(k) can take
    NStars,     \* the values of the promotion threshold n*
    Mergeable,  \* adapters whose merged weights may be resident (none if
                \* AS_MWC_K_HOT = 0)
    MaxBudget,  \* bound on the max_tokens a caller passes
    Methods     \* the form_batch* methods the caller uses

ASSUME BufferAssumption ==
    /\ IsFiniteSet(Adapters)
    /\ AdapterOf \in [Seqs -> Adapters]
    /\ W \in Nat \ {0}
    /\ TSLO \in Nat
    /\ Deadlines \subseteq Nat
    /\ NStars \subseteq Nat
    /\ Mergeable \subseteq Adapters
    /\ MaxBudget \in Nat
    /\ Methods \subseteq {"form_batch", "form_batch_erlang",
                           "form_batch_cash", "form_batch_wgkp"}

VARIABLES
    registered,  \* keys of self.queues, in insertion order
    queues,      \* Q_k: sequences of entries (seq, age)
    shadow,      \* Q_k': the held entries (_shadow with _shadow_time)
    enqueueAge,  \* age of enqueue_time[k], or None
    recorded,    \* keys of _seq_enqueue
    outstanding, \* _n_tokens_enqueued - _n_tokens_dispatched
    phase,       \* "idle", or "dispatch" inside a form_batch* call
    method,      \* the form_batch* method that runs, or "none"
    todo,        \* adapters the loop has still to visit
    budget,      \* max_tokens of the call
    batch,       \* the list under construction
    deadline,    \* the T_max or T*(k) of each adapter in this call
    nStar,       \* eff_n_star of this call
    merged       \* merged_adapter_ids of this call

storeVars == <<registered, queues, shadow, enqueueAge, recorded, outstanding>>
callVars  == <<method, todo, budget, batch, deadline, nStar, merged>>
argVars   == <<method, budget, deadline, nStar, merged>>
bufferVars == <<storeVars, phase, callVars>>

None == -1
Ages == 0 .. (TSLO + 1)
Entries == [seq : Seqs, age : Ages]
Tokens  == [adapter : Adapters, seq : Seqs, promoted : BOOLEAN]

Smaller(m, n) == IF m <= n THEN m ELSE n
Larger(m, n)  == IF m >= n THEN m ELSE n

\* Whether sequence s has an entry in the queue q.
Holds(q, s) == \E i \in DOMAIN q : q[i].seq = s

\* The age of enqueue_time when it is recomputed from a queue:
\* q[0][1] if q else None.
HeadAge(q) == IF q = <<>> THEN None ELSE q[1].age

-----------------------------------------------------------------------------
(***************************************************************************)
(* Registration and enqueueing.                                            *)
(***************************************************************************)

IsRegistered(a) == \E i \in DOMAIN registered : registered[i] = a

AfterRegistering(a) ==
    IF IsRegistered(a) THEN registered ELSE Append(registered, a)

register_adapter(a) ==
    /\ ~IsRegistered(a)
    /\ registered' = Append(registered, a)
    /\ UNCHANGED <<queues, shadow, enqueueAge, recorded, outstanding>>

\* Bug: the entry takes the queue's stamp before the queue has one.
NewEntry_QueueStamp(s) == [seq |-> s, age |-> enqueueAge[AdapterOf[s]]]

NewEntry(s) == [seq |-> s, age |-> 0]

\* A recorded sequence is left alone (the early return, no step here).
enqueue(s) ==
    LET a == AdapterOf[s] IN
    /\ s \notin recorded
    /\ registered' = AfterRegistering(a)
    /\ queues' = [queues EXCEPT ![a] = Append(@, NewEntry(s))]
    /\ enqueueAge' = [enqueueAge EXCEPT ![a] = IF @ = None THEN 0 ELSE @]
    /\ recorded' = recorded \cup {s}
    /\ outstanding' = outstanding + 1
    /\ UNCHANGED shadow

release(s) ==
    /\ recorded' = recorded \ {s}
    /\ UNCHANGED <<registered, queues, shadow, enqueueAge, outstanding>>

reset_stats ==
    /\ outstanding' = 0
    /\ UNCHANGED <<registered, queues, shadow, enqueueAge, recorded>>

-----------------------------------------------------------------------------
(***************************************************************************)
(* Preemption: an entry moves to the shadow queue and back.                *)
(***************************************************************************)

\* Bug: the queue keeps the age it had with the token that leaves.
HoldEntry_KeepsAge(a, i) ==
    /\ shadow' = [shadow EXCEPT ![a] = Append(@, queues[a][i])]
    /\ queues' = [queues EXCEPT ![a] = RemoveAt(@, i)]
    /\ recorded' = recorded \ {queues[a][i].seq}
    /\ UNCHANGED enqueueAge

HoldEntry(a, i) ==
    LET q == queues[a]
        newQ == RemoveAt(q, i)
    IN  /\ shadow' = [shadow EXCEPT ![a] = Append(@, q[i])]
        /\ queues' = [queues EXCEPT ![a] = newQ]
        /\ enqueueAge' = [enqueueAge EXCEPT ![a] = HeadAge(newQ)]
        /\ recorded' = recorded \ {q[i].seq}

\* The rebuilt queue drops the first entry of s, if there is one; the queue's
\* age is recomputed from its head in both cases.
preempt_and_hold(s) ==
    LET a == AdapterOf[s]
        q == queues[a]
    IN  /\ IsRegistered(a)
        /\ ~Holds(shadow[a], s)
        /\ \/ \E i \in DOMAIN q :
                /\ q[i].seq = s
                /\ \A j \in 1 .. (i - 1) : q[j].seq # s
                /\ HoldEntry(a, i)
           \/ /\ ~Holds(q, s)
              /\ enqueueAge' = [enqueueAge EXCEPT ![a] = HeadAge(q)]
              /\ UNCHANGED <<queues, shadow, recorded>>
        /\ UNCHANGED <<registered, outstanding>>

\* Bug: the token is copied, not moved.
ShadowWithout_Copies(a, i) == shadow[a]

ShadowWithout(a, i) == RemoveAt(shadow[a], i)

resume_from_shadow(s) ==
    LET a == AdapterOf[s] IN
    \E i \in DOMAIN shadow[a] :
        LET entry == shadow[a][i] IN
        /\ entry.seq = s
        /\ \A j \in 1 .. (i - 1) : shadow[a][j].seq # s
        /\ shadow' = [shadow EXCEPT ![a] = ShadowWithout(a, i)]
        /\ queues' = [queues EXCEPT ![a] = <<entry>> \o @]
        /\ enqueueAge' = [enqueueAge EXCEPT ![a] = Larger(@, entry.age)]
        /\ recorded' = recorded \cup {s}
        /\ UNCHANGED <<registered, outstanding>>

-----------------------------------------------------------------------------
(***************************************************************************)
(* The form_batch* methods.                                                *)
(***************************************************************************)

\* Python's round(w / k): to the nearest integer, ties to the even one.
RoundedQuotient(w, k) ==
    LET q == (2 * w + k) \div (2 * k)
        tie == (2 * w + k) % (2 * k) = 0
    IN  IF tie /\ q % 2 = 1 THEN q - 1 ELSE q

EffNStar(n, k) == Larger(1, Smaller(n, RoundedQuotient(W, Larger(k, 1))))

\* The deadline each method uses: one T_max for form_batch (the PI controller
\* may set another before each call), a T*(k) per adapter for the others, where
\* an adapter without one gets T_SLO (erlang, cash) or T_max (wgkp).
DeadlineChoices(m) ==
    CASE m = "form_batch"      -> {[a \in Adapters |-> d] : d \in Deadlines}
      [] m = "form_batch_wgkp" -> [Adapters -> Deadlines]
      [] OTHER                 -> [Adapters -> Deadlines \cup {TSLO}]

\* Insertion order, or any order the CASH scores may give.
VisitOrders(m) ==
    IF m \in {"form_batch_cash", "form_batch_wgkp"}
    THEN {r \in [1 .. Len(registered) -> Adapters] :
            /\ \A i, j \in DOMAIN r : r[i] = r[j] => i = j
            /\ \A i \in DOMAIN r : IsRegistered(r[i])}
    ELSE {registered}

begin_batch(m, maxTokens) ==
    /\ method' = m
    /\ todo' \in VisitOrders(m)
    /\ budget' = maxTokens
    /\ batch' = <<>>
    /\ deadline' \in DeadlineChoices(m)
    /\ IF m = "form_batch_wgkp"
       THEN /\ \E n \in NStars : nStar' = EffNStar(n, Len(registered))
            /\ merged' \in SUBSET Mergeable
       ELSE nStar' = 1 /\ merged' = {}
    /\ UNCHANGED storeVars

EffectiveDeadline(a) == Smaller(deadline[a], TSLO)

Age(a) == IF enqueueAge[a] = None THEN 0 ELSE enqueueAge[a]

Expired(a) == Age(a) >= EffectiveDeadline(a)

Left == budget - Len(batch)

\* Which rule of the loop body applies to a non-empty queue.
Rule(a) ==
    LET n == Len(queues[a])
        wgkp == method = "form_batch_wgkp"
    IN  CASE n >= W -> "warps"
          [] n < W /\ wgkp /\ n >= nStar -> "nstar"
          [] n < W /\ wgkp /\ n < nStar /\ 2 * n >= nStar
                   /\ 2 * Age(a) > EffectiveDeadline(a) -> "half"
          [] OTHER -> IF Expired(a) THEN "expired" ELSE "hold"

WarpsThatFit(a) == Smaller(Len(queues[a]) \div W, Left \div W)

DispatchCount(a) ==
    CASE Rule(a) = "warps" -> W * WarpsThatFit(a)
      [] Rule(a) = "hold"  -> 0
      [] OTHER             -> Smaller(Len(queues[a]), Left)

Promoted(a) == Rule(a) \in {"warps", "nstar"} /\ a \in merged

\* Bug: the loop ends at the first queue it is done with.
Continue_Breaks == <<>>

Continue == Tail(todo)

\* if len(batch) >= budget: break
StopFull ==
    /\ todo # <<>> /\ Left <= 0
    /\ todo' = <<>>
    /\ UNCHANGED <<argVars, batch, storeVars>>

\* A full queue and no room for one warp: form_batch_wgkp goes on with the
\* next adapter, the other three methods leave the loop.
NoRoomForAWarp ==
    /\ todo # <<>> /\ Left > 0
    /\ Len(queues[Head(todo)]) >= W /\ DispatchCount(Head(todo)) = 0
    /\ todo' = IF method = "form_batch_wgkp" THEN Continue ELSE <<>>
    /\ UNCHANGED <<argVars, batch, storeVars>>

\* An empty queue, or one that waits for its deadline.
HoldQueue ==
    /\ todo # <<>> /\ Left > 0
    /\ \/ queues[Head(todo)] = <<>>
       \/ Rule(Head(todo)) = "hold"
    /\ todo' = Continue
    /\ UNCHANGED <<argVars, batch, storeVars>>

\* Bug: the flag is decided token by token as the count passes n*.
Chunk_FlagsPerToken(a, n) ==
    [i \in 1 .. n |-> [adapter |-> a, seq |-> queues[a][i].seq,
                       promoted |-> Promoted(a) /\ i >= nStar]]

\* The first n tokens of Q_k, with the flag of the run.
Chunk(a, n) ==
    [i \in 1 .. n |-> [adapter |-> a, seq |-> queues[a][i].seq,
                       promoted |-> Promoted(a)]]

\* Bug: only whole warps are counted.
CountDispatched_Warps(n) == outstanding' = outstanding - W * (n \div W)

CountDispatched(n) == outstanding' = outstanding - n

DispatchQueue ==
    /\ todo # <<>> /\ Left > 0
    /\ LET a == Head(todo)
           q == queues[a]
           n == DispatchCount(a)
           rest == SubSeq(q, n + 1, Len(q))
       IN  /\ q # <<>> /\ n > 0
           /\ batch' = batch \o Chunk(a, n)
           /\ queues' = [queues EXCEPT ![a] = rest]
           /\ enqueueAge' = [enqueueAge EXCEPT ![a] = HeadAge(rest)]
           /\ CountDispatched(n)
    /\ todo' = Continue
    /\ UNCHANGED <<argVars, registered, shadow, recorded>>

visit == StopFull \/ NoRoomForAWarp \/ HoldQueue \/ DispatchQueue

NoCall ==
    /\ method = "none" /\ todo = <<>> /\ budget = 0 /\ batch = <<>>
    /\ deadline = [a \in Adapters |-> 0] /\ nStar = 1 /\ merged = {}

return_batch ==
    /\ todo = <<>>
    /\ method' = "none" /\ todo' = <<>> /\ budget' = 0 /\ batch' = <<>>
    /\ deadline' = [a \in Adapters |-> 0] /\ nStar' = 1 /\ merged' = {}
    /\ UNCHANGED storeVars

-----------------------------------------------------------------------------
(***************************************************************************)
(* Time.                                                                   *)
(***************************************************************************)

Older(g) == IF g \in 0 .. TSLO THEN g + 1 ELSE g

OlderQueue(q) == [i \in DOMAIN q |-> [q[i] EXCEPT !.age = Older(@)]]

Elapse ==
    /\ queues' = [a \in Adapters |-> OlderQueue(queues[a])]
    /\ shadow' = [a \in Adapters |-> OlderQueue(shadow[a])]
    /\ enqueueAge' = [a \in Adapters |-> Older(enqueueAge[a])]
    /\ UNCHANGED <<registered, recorded, outstanding>>

-----------------------------------------------------------------------------
(***************************************************************************)
(* The buffer on its own, driven by any caller that keeps the protocol: a  *)
(* sequence is not enqueued while it is held in a shadow queue, and only a *)
(* dispatched sequence is released.  AlignedScheduler puts the real caller *)
(* in place of this environment.                                           *)
(***************************************************************************)

StoreInit ==
    /\ registered = <<>>
    /\ queues = [a \in Adapters |-> <<>>]
    /\ shadow = [a \in Adapters |-> <<>>]
    /\ enqueueAge = [a \in Adapters |-> None]
    /\ recorded = {}
    /\ outstanding = 0

Init == StoreInit /\ phase = "idle" /\ NoCall

Queued(s) == Holds(queues[AdapterOf[s]], s)
Held(s)   == Holds(shadow[AdapterOf[s]], s)

Call(op) == phase = "idle" /\ op /\ UNCHANGED <<phase, callVars>>

Register == \E a \in Adapters : Call(register_adapter(a))
Enqueue  == \E s \in Seqs : ~Held(s) /\ Call(enqueue(s))
Release  == \E s \in recorded : ~Queued(s) /\ Call(release(s))
Preempt  == \E s \in Seqs : Call(preempt_and_hold(s))
Resume   == \E s \in Seqs : Call(resume_from_shadow(s))
Reset    == Call(reset_stats)
Tick     == Call(Elapse)

\* max_tokens, or its default K x W.
FormBatch ==
    /\ phase = "idle"
    /\ \E m \in Methods, b \in (0 .. MaxBudget) \cup {W * Len(registered)} :
            begin_batch(m, b)
    /\ phase' = "dispatch"

Visit  == phase = "dispatch" /\ visit /\ UNCHANGED phase
Return == phase = "dispatch" /\ return_batch /\ phase' = "idle"

Next ==
    \/ Register \/ Enqueue \/ Release \/ Preempt \/ Resume \/ Reset \/ Tick
    \/ FormBatch \/ Visit \/ Return

Spec == Init /\ [][Next]_bufferVars

-----------------------------------------------------------------------------
(***************************************************************************)
(* Properties.                                                             *)
(***************************************************************************)

\* Every variable stays within its range.
TypeOK ==
    /\ registered \in Seq(Adapters)
    /\ queues \in [Adapters -> Seq(Entries)]
    /\ shadow \in [Adapters -> Seq(Entries)]
    /\ enqueueAge \in [Adapters -> Ages \cup {None}]
    /\ recorded \subseteq Seqs
    /\ outstanding \in Int
    /\ phase \in {"idle", "dispatch"}
    /\ method \in Methods \cup {"none"}
    /\ todo \in Seq(Adapters)
    /\ budget \in Nat
    /\ batch \in Seq(Tokens)
    /\ deadline \in [Adapters -> Nat]
    /\ nStar \in Nat \ {0}
    /\ merged \subseteq Adapters

EachOnce(q) == \A i, j \in DOMAIN q : q[i].seq = q[j].seq => i = j

OwnTokens(q, a) == \A i \in DOMAIN q : AdapterOf[q[i].seq] = a

\* No drops, no duplicates (tests/test_deferred.py): across enqueue, preempt,
\* resume and dispatch a sequence has at most one entry in the queue of its
\* adapter, its shadow and the batch taken together, and _seq_enqueue knows
\* exactly the ones an enqueue must not add again.
NoDuplicates ==
    /\ EachOnce(batch)
    /\ \A a \in Adapters :
        /\ EachOnce(queues[a]) /\ OwnTokens(queues[a], a)
        /\ EachOnce(shadow[a]) /\ OwnTokens(shadow[a], a)
    /\ \A s \in Seqs :
        /\ Queued(s) => s \in recorded /\ ~Held(s) /\ ~Holds(batch, s)
        /\ Held(s) => s \notin recorded /\ ~Holds(batch, s)

\* enqueue_time[k] is None exactly when Q_k is empty, and it is the stamp of a
\* token in Q_k: a queue never has the age of a token that already left it.
AgeIsOfAToken ==
    \A a \in Adapters :
        IF queues[a] = <<>>
        THEN enqueueAge[a] = None
        ELSE \E i \in DOMAIN queues[a] : enqueueAge[a] = queues[a][i].age

\* "Tokens for the same adapter are contiguous (aligned)" in the returned list,
\* and they all carry one promotion flag (the atomicity segment_and_promote
\* raises on).
BatchAligned ==
    \A i, j \in DOMAIN batch :
        batch[i].adapter = batch[j].adapter =>
            /\ batch[i].promoted = batch[j].promoted
            /\ \A k \in i .. j : batch[k].adapter = batch[i].adapter

PendingTotal(qs) == Cardinality(UNION {{a} \X DOMAIN qs[a] : a \in Adapters})

\* A call whose budget covers everything that was pending leaves no full warp
\* behind, whatever the visiting order, and no expired token either, unless it
\* is what remained (less than a warp) of a queue that dispatched whole warps
\* in this call: nothing is missed by the early exits of the loop.
NothingDueIsLeft ==
    phase = "dispatch" /\ todo = <<>> /\ Left >= PendingTotal(queues) =>
        \A a \in Adapters : queues[a] # <<>> =>
            /\ Len(queues[a]) < W
            /\ Expired(a) => \E i \in DOMAIN batch : batch[i].adapter = a

\* A partial queue is flushed only for a reason: a token of it reached its
\* deadline or, in wgkp mode, the queue reached n*, or half of n* and half the
\* deadline (rules 2 and 3).
NoEarlyFlush ==
    [][Len(batch') > Len(batch) =>
        LET a == batch'[Len(batch')].adapter
            q == queues[a]
            waited(d, n) == \E i \in DOMAIN q : n * q[i].age >= d
            D == EffectiveDeadline(a)
        IN  \/ (Len(batch') - Len(batch)) % W = 0
            \/ waited(D, 1)
            \/ method = "form_batch_wgkp" /\ Len(q) >= nStar
            \/ method = "form_batch_wgkp" /\ 2 * Len(q) >= nStar /\ waited(D + 1, 2)
      ]_bufferVars

\* The counters of stats() agree with the queues: what was enqueued and not
\* dispatched is what is pending or held, up to a reset_stats().
StatsBalance ==
    [][LET total == PendingTotal(queues) + PendingTotal(shadow) IN
        outstanding' - outstanding = total' - total \/ Reset]_bufferVars

=============================================================================
