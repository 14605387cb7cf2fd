------------------------------- MODULE Admission -------------------------------
(***************************************************************************)
(* integrations/vllm_scheduler.py: which waiting requests a tick admits.   *)
(* Three policies around vLLM's own prefill scheduling: the queue may be   *)
(* ordered adapter by adapter (AS_ADMIT_GROUPED), one resident adapter may *)
(* be drained for an adapter that has waited too long for a LoRA slot      *)
(* (AS_ROTATE_AFTER_S), and a request may have to wait until the KV cache  *)
(* covers its whole lifetime (AS_KV_ADMISSION).                            *)
(*                                                                         *)
(* vLLM is external: its admission loop, the block manager (one block per  *)
(* BlockSize tokens, appended when a running sequence is scheduled, no     *)
(* watermark) and preemption from the back of running appear as far as the *)
(* policies depend on them.  So does the hold-back of AlignedScheduler: a  *)
(* scheduled group may be left out of the step.                            *)
(*                                                                         *)
(* A request that has finished may arrive again, as a new one: the stream  *)
(* of requests has no end.                                                 *)
(***************************************************************************)
EXTENDS Integers, Sequences, FiniteSets, SequencesExt, FiniteSetsExt, Queues

CONSTANTS
    Requests,
    AdapterOf,  \* lora_int_id of a request, 0 for the base model
    Prompt,     \* prompt tokens of a request
    MaxNew,     \* max_tokens, the most it produces
    BlockSize,  \* tokens of a KV block
    Blocks,     \* GPU blocks of the KV cache
    MaxLoras,   \* GPU slots for adapters
    MaxSeqs,    \* max_num_seqs
    Policies    \* AS_ADMIT_GROUPED and AS_KV_ADMISSION, as [grouped, kvAware]

CeilDiv(n) == (n + BlockSize - 1) \div BlockSize

\* _lifetime_blocks: the blocks a request holds once it has produced MaxNew.
LifetimeBlocks(r) == CeilDiv(Prompt[r] + MaxNew)

\* vLLM refuses to start when a longest request does not fit in the cache.
ASSUME AdmissionAssumption ==
    /\ AdapterOf \in [Requests -> Nat]
    /\ Prompt \in [Requests -> Nat \ {0}]
    /\ MaxNew \in Nat \ {0, 1} /\ BlockSize \in Nat \ {0}
    /\ MaxLoras \in Nat \ {0} /\ MaxSeqs \in Nat \ {0} /\ Blocks \in Nat
    /\ \A r \in Requests : CeilDiv(Prompt[r] + MaxNew) <= Blocks
    /\ Policies \subseteq [grouped : BOOLEAN, kvAware : BOOLEAN]

VARIABLES
    grouped,  \* _admit_grouped, set once
    kvAware,  \* _kv_admission, set once
    arrived,  \* the unfinished requests, in the order of arrival_time
    late,     \* how many of them have waited AS_ROTATE_AFTER_S
    aged,     \* how many of them have waited AS_GROUP_MAX_WAIT_S
    waiting,  \* self.waiting
    running,  \* self.running
    len,      \* tokens of each request, the sampled ones included
    blocks,   \* KV blocks each request holds
    due,      \* the running requests the scheduler will not hold back
    draining, \* _draining
    phase     \* "admit", or "decode" when the tick has admitted nothing

settings == <<grouped, kvAware>>
clockVars == <<late, aged>>
vars == <<settings, arrived, clockVars, waiting, running, len, blocks,
          due, draining, phase>>

Rank(r) == CHOOSE i \in DOMAIN arrived : arrived[i] = r
Earlier(r, s) == Rank(r) < Rank(s)
Loras(q) == {AdapterOf[q[i]] : i \in DOMAIN q} \ {0}
Waiters(a) == Cardinality({i \in DOMAIN waiting : AdapterOf[waiting[i]] = a})

-----------------------------------------------------------------------------
(***************************************************************************)
(* Arrival and time.                                                       *)
(***************************************************************************)

Arrive(r) ==
    /\ r \notin ToSet(arrived)
    /\ arrived' = Append(arrived, r)
    /\ waiting' = Append(waiting, r)
    /\ len' = [len EXCEPT ![r] = Prompt[r]]
    /\ UNCHANGED <<settings, clockVars, running, blocks, due, draining, phase>>

\* The oldest request that is not late yet becomes late, or aged, which only
\* the grouping looks at and which takes longer (30 s, 3 s in the defaults).
GetsLate ==
    /\ late < Len(arrived) /\ late' = late + 1
    /\ UNCHANGED <<settings, arrived, aged, waiting, running, len, blocks, due,
                   draining, phase>>

GetsAged ==
    /\ grouped /\ aged < late /\ aged' = aged + 1
    /\ UNCHANGED <<settings, arrived, late, waiting, running, len, blocks, due,
                   draining, phase>>

-----------------------------------------------------------------------------
(***************************************************************************)
(* The order of the queue, and the adapter that is held out of it.         *)
(***************************************************************************)

\* Bug: only the size of an adapter's queue decides.
Before_NeverAges(r, s) ==
    LET key(x) == <<-Waiters(AdapterOf[x]), AdapterOf[x], Rank(x)>>
    IN  \E i \in 1 .. 3 : /\ key(r)[i] < key(s)[i]
                          /\ \A j \in 1 .. (i - 1) : key(r)[j] = key(s)[j]

\* Bug: aged requests are ordered by adapter, the latest first.
Before_LatestFirst(r, s) ==
    \/ Rank(r) <= aged /\ Rank(s) > aged
    \/ (Rank(r) <= aged <=> Rank(s) <= aged) /\ Rank(r) > Rank(s)

\* The sort key of _group_waiting_by_adapter: aged requests in the order of
\* arrival, then the others, longest queue of an adapter first.
Before(r, s) ==
    LET a == AdapterOf[r]
        b == AdapterOf[s]
    IN  IF Rank(r) <= aged \/ Rank(s) <= aged THEN Earlier(r, s)
        ELSE \/ Waiters(a) > Waiters(b)
             \/ Waiters(a) = Waiters(b) /\ (IF a = b THEN Earlier(r, s) ELSE a < b)

\* The two orders of the queue, as sets of pairs.
ByAdapter == {p \in ToSet(waiting) \X ToSet(waiting) : Before(p[1], p[2])}
ByArrival == {p \in ToSet(waiting) \X ToSet(waiting) : Earlier(p[1], p[2])}

\* Non-resident adapters that have a late request.
Overdue ==
    {AdapterOf[r] : r \in {x \in ToSet(waiting) : Rank(x) <= late}} \ (Loras(running) \cup {0})

\* Bug: no adapter is ever drained.
Holdouts_Never == {{}}

\* _rotation_holdout.  An adapter drains until it has left the batch; min()
\* takes any of the adapters with the fewest waiting requests.
Holdouts ==
    LET resident == Loras(running)
        still == draining \cap resident
        fewest == {a \in resident : \A b \in resident : Waiters(a) <= Waiters(b)}
    IN  IF Cardinality(resident) = MaxLoras /\ still = {} /\ Overdue # {}
        THEN {{a} : a \in fewest}
        ELSE {still}

-----------------------------------------------------------------------------
(***************************************************************************)
(* The admission loop.                                                     *)
(***************************************************************************)

Lifetimes == [r \in Requests |-> LifetimeBlocks(r)]

\* The blocks for the tokens that a request has.
Needed == [r \in Requests |-> CeilDiv(len[r])]

Free == Blocks - Total(blocks, Requests)

\* Bug: the growth of the running requests is forgotten.
Headroom_NotOwed == Free

\* Free blocks minus the growth still owed to running requests.
Headroom ==
    LET owed == [r \in Requests |-> Max({0, Lifetimes[r] - Needed[r]})]
    IN  Free - Total(owed, ToSet(running))

\* The adapters the loop lets through: the resident ones, the base model, and
\* the first others in the queue for which there is a slot.
Slotted(queue) ==
    LET ahead(a) == {b \in Loras(queue) : \E i \in DOMAIN queue :
            /\ AdapterOf[queue[i]] = b
            /\ \A j \in 1 .. i : AdapterOf[queue[j]] # a}
    IN  {0} \cup Loras(running) \cup
        {a \in Loras(queue) : Cardinality(Loras(running) \cup ahead(a)) < MaxLoras}

\* vLLM's loop over the queue, with the patched can_allocate.  It passes over
\* a request whose adapter has no slot, after can_allocate has reserved its
\* lifetime, and ends at the first one for which there is no room.
Admitted(queue, slotted) ==
    LET upTo(i) == ToSet(SubSeq(queue, 1, i))
        taken(i) == {r \in upTo(i) : AdapterOf[r] \in slotted}
        stock(i) == Total(Needed, taken(i - 1)) + Needed[queue[i]] <= Free
        covered(i) == \/ Total(Lifetimes, upTo(i)) <= Headroom
                      \/ i = 1 /\ running = <<>>
        passed(i) == /\ stock(i) /\ (kvAware => covered(i))
                     /\ Len(running) + Cardinality(taken(i)) <= MaxSeqs
    IN  UNION {taken(i) : i \in {k \in DOMAIN queue : \A j \in 1 .. k : passed(j)}}

\* Bug: the requests held back are not put back into the queue.
LeftWaiting_DropsHeld(chosen, held) ==
    Only(waiting, {r \in Requests : r \notin chosen /\ AdapterOf[r] \notin held})

\* The queue after the loop: back in the order of arrival if the policies
\* took it apart.
LeftWaiting(chosen, held) ==
    LET rest == Without(waiting, chosen)
    IN  IF grouped \/ held # {} THEN SortedBy(rest, ByArrival) ELSE rest

-----------------------------------------------------------------------------
(***************************************************************************)
(* A step of the model: every request of ran samples a token; those that   *)
(* end (eos), or have all of their tokens, are finished.                   *)
(***************************************************************************)

Step(ran, eos, queue, held, nowDue) ==
    LET done == eos \cup {r \in ran : len[r] + 1 = Prompt[r] + MaxNew}
        over(n) == Cardinality({r \in done : Rank(r) <= n})
        new(r) == IF r \in done THEN 0 ELSE IF r \in ran THEN len[r] + 1 ELSE len[r]
    IN  /\ len' = [r \in Requests |-> new(r)]
        /\ due' = nowDue \ done
        /\ blocks' = [r \in Requests |-> IF r \in done THEN 0 ELSE held[r]]
        /\ running' = Without(queue, done)
        /\ arrived' = Without(arrived, done)
        /\ late' = late - over(late)
        /\ aged' = aged - over(aged)

\* What is left of the queue when adapters are held out of it.
WithoutHeld(queue, held) == Only(queue, {r \in Requests : AdapterOf[r] \notin held})

\* A tick first tries to admit.  Requests it admits are prefilled in a step of
\* their own.
Admit ==
    /\ phase = "admit" /\ arrived # <<>>
    /\ \E held \in Holdouts, order \in {IF grouped THEN ByAdapter ELSE {}} :
       \E sorted \in {SortedBy(waiting, order)} :
       \E queue \in {WithoutHeld(sorted, held)} : \E slotted \in {Slotted(queue)} :
       \E chosen \in {Admitted(queue, slotted)} :
        /\ draining' = held
        /\ waiting' = LeftWaiting(chosen, held)
        /\ phase' = IF chosen = {} THEN "decode" ELSE "admit"
        /\ Step(chosen, {}, running \o Only(queue, chosen),
                [r \in Requests |-> IF r \in chosen THEN Needed[r] ELSE blocks[r]],
                due)
    /\ UNCHANGED settings

\* The requests that keep running when every one of them gets its slots: vLLM
\* preempts as many from the back as the blocks demand.
Kept ==
    LET fits(n) == Total(Needed, ToSet(SubSeq(running, 1, n))) <= Blocks
    IN  Cardinality({n \in DOMAIN running : fits(n)})

\* Otherwise the running requests decode, but for those the scheduler holds
\* back.  It holds back no request that has had its first aligned token,
\* unless it was preempted since (wgkp forgets those).  As a bound, it holds a
\* request back for one tick.
Decode ==
    /\ phase = "decode"
    /\ \E n \in {Kept} :
        LET kept == SubSeq(running, 1, n)
            victims == SubSeq(running, n + 1, Len(running))
        IN  /\ \E heldBack \in SUBSET (ToSet(kept) \ due), forgotten \in {{}, ToSet(victims)} :
                LET ran == ToSet(kept) \ heldBack
                IN  \E eos \in SUBSET ran :
                        Step(ran, eos, kept,
                             [r \in Requests |-> IF r \in ToSet(kept) THEN Needed[r] ELSE 0],
                             (due \ forgotten) \cup ToSet(kept))
            /\ waiting' = victims \o waiting
    /\ phase' = "admit"
    /\ UNCHANGED <<settings, draining>>

-----------------------------------------------------------------------------
Init ==
    /\ \E p \in Policies : grouped = p.grouped /\ kvAware = p.kvAware
    /\ arrived = <<>> /\ late = 0 /\ aged = 0
    /\ waiting = <<>> /\ running = <<>>
    /\ len = [r \in Requests |-> 0] /\ blocks = [r \in Requests |-> 0]
    /\ due = {} /\ draining = {} /\ phase = "admit"

Next ==
    \/ \E r \in Requests : Arrive(r)
    \/ GetsLate \/ GetsAged
    \/ Admit \/ Decode

Spec == Init /\ [][Next]_vars

\* The engine loop ticks as long as a request is unfinished, and time passes.
FairSpec ==
    /\ Spec
    /\ WF_vars(GetsLate) /\ WF_vars(GetsAged)
    /\ WF_vars(Admit \/ Decode)

-----------------------------------------------------------------------------
(***************************************************************************)
(* Properties.                                                             *)
(***************************************************************************)

\* Taking the queue apart and sorting it back loses no request and doubles
\* none: the queues hold each unfinished request once.
NoRequestLost ==
    /\ IsInjective(waiting \o running)
    /\ ToSet(waiting \o running) = ToSet(arrived)

\* Grouping, rotation and preemption never turn the order of two requests for
\* the same adapter: the earlier one runs, and stands before the later one.
OwnAdapterInOrder ==
    \A i \in DOMAIN running : \A r \in ToSet(arrived) :
        AdapterOf[r] = AdapterOf[running[i]] /\ Earlier(r, running[i])
            => \E j \in 1 .. (i - 1) : running[j] = r

\* "Requests that have waited AS_GROUP_MAX_WAIT_S keep arrival order at the
\* front": an aged request is overtaken by a later one only when its adapter
\* is drained or has no slot.
AgedFirst ==
    [][Admit /\ grouped =>
        LET admitted == ToSet(waiting) \ ToSet(waiting')
            ahead(r) == {AdapterOf[x] : x \in ToSet(running) \cup {y \in admitted : Earlier(y, r)}}
        IN  \A r \in ToSet(waiting') : \A s \in admitted :
                Rank(r) <= aged /\ Earlier(r, s)
                    => \/ AdapterOf[r] \in draining'
                       \/ /\ AdapterOf[r] \notin ahead(r) \cup {0}
                          /\ Cardinality(ahead(r) \ {0}) = MaxLoras
      ]_vars

\* KV-aware admission keeps the lifetimes of the running requests within the
\* cache, up to one block for all but one of them: the token a request has
\* sampled last counts as held, and its block is not.
KvRoom ==
    kvAware /\ running # <<>> =>
        Total(Lifetimes, ToSet(running)) <= Blocks + Len(running) - 1

\* No adapter starves: every request that arrives is admitted and finishes,
\* whatever else keeps arriving.
AllServed == \A r \in Requests : r \in ToSet(arrived) ~> r \notin ToSet(arrived)

=============================================================================
