--------------------------- MODULE AlignedScheduler ---------------------------
(***************************************************************************)
(* integrations/vllm_scheduler.py: AlignmentAwareScheduler, the caller of  *)
(* AlignmentBuffer.  Every tick it lets vLLM's scheduler choose the work,  *)
(* then holds back the decode groups that have not had their first aligned *)
(* token yet until the buffer dispatches them.                             *)
(*                                                                         *)
(* vLLM's own scheduler (arrival, admission, preemption by recompute,      *)
(* abort, completion) is external; it appears here as far as the code in   *)
(* src/ calls it or depends on it: prefill steps that carry no decodes,    *)
(* preemption from the back of running, preempted groups returning to the  *)
(* front of waiting.  Which groups a step admits is left open here.        *)
(*                                                                         *)
(* One tick with decodes is the steps                                      *)
(*   idle -> StartDecodeTick -> EnqueueNext* -> StartDispatch -> Visit*    *)
(*        -> FinishTick -> idle                                            *)
(* and nothing else of the scheduler runs in between.                      *)
(***************************************************************************)
EXTENDS AlignmentBuffer, Queues

CONSTANTS
    MaxTokens,    \* bound on the decode tokens a sequence produces
    MaxPreempts,  \* bound on the number of preemptions
    MaxDrift,     \* bound on the drained tokens that outstanding still counts
                  \* when a new request is made
    Aborts,       \* whether clients abort requests
    AsyncOutput,  \* asynchronous output processing (see _schedule_running)
    CleanupEvery, \* stands for the 50_000 calls between clean-ups (pi_adaptive)
    Modes,        \* the values of AS_MODE
    LogWars       \* the values of AS_LOG_WAR (with AS_METRICS_PATH set)

\* The buffer method of each mode (_schedule).
MethodOf(m) ==
    CASE m \in {"threshold", "pi_adaptive"} -> "form_batch"
      [] m = "erlang" -> "form_batch_erlang"
      [] m = "cash"   -> "form_batch_cash"
      [] m = "wgkp"   -> "form_batch_wgkp"

ASSUME SchedulerAssumption ==
    /\ MaxTokens \in Nat \ {0}
    /\ MaxPreempts \in Nat /\ MaxDrift \in Nat
    /\ CleanupEvery \in Nat \ {0}
    /\ Aborts \in BOOLEAN /\ AsyncOutput \in BOOLEAN
    /\ Modes \subseteq {"threshold", "pi_adaptive", "erlang", "cash", "wgkp"}
    /\ LogWars \subseteq BOOLEAN
    /\ \A m \in Modes : MethodOf(m) \in Methods

VARIABLES
    mode,       \* _mode, set once
    logWar,     \* _log_war, set once
    waiting,    \* self.waiting
    running,    \* self.running
    inPrefill,  \* members of running still in stage PREFILL
    tokensLeft, \* decode tokens each sequence has still to produce
    preempts,   \* preemptions so far
    calls,      \* _schedule_call_count, modulo CleanupEvery
    postAligned,\* _post_alignment_seqs
    decodes,    \* decode_groups of the tick
    toEnqueue,  \* first-time groups of the tick not enqueued yet
    output      \* decode part of the last scheduled_seq_groups

settings == <<mode, logWar>>
tickVars == <<decodes, toEnqueue>>
vllmVars == <<waiting, running, inPrefill, tokensLeft, preempts>>
schedulerVars == <<settings, bufferVars, vllmVars, calls, postAligned, tickVars, output>>

FirstTime == Without(decodes, postAligned)

-----------------------------------------------------------------------------
(***************************************************************************)
(* vLLM: arrival, abort, admission (external).                             *)
(***************************************************************************)

\* Sequences that have not arrived are in neither queue and have all of their
\* tokens left; finished and aborted ones have none.
Arrived(s) == s \in ToSet(waiting) \cup ToSet(running)

Idle == phase = "idle"

Arrive(s) ==
    /\ Idle /\ ~Arrived(s) /\ tokensLeft[s] > 0
    /\ waiting' = Append(waiting, s)
    /\ UNCHANGED <<settings, bufferVars, running, inPrefill, tokensLeft, preempts,
                   calls, postAligned, tickVars, output>>

\* abort_seq_group: the scheduler's own state is not told.
Abort(s) ==
    /\ Idle /\ Aborts /\ Arrived(s)
    /\ waiting' = Without(waiting, {s})
    /\ running' = Without(running, {s})
    /\ inPrefill' = inPrefill \ {s}
    /\ tokensLeft' = [tokensLeft EXCEPT ![s] = 0]
    /\ UNCHANGED <<settings, bufferVars, preempts, calls, postAligned, tickVars, output>>

\* Requests do not end.  Ids are not used twice, but nothing tells a finished
\* request's id from a new one when the code has no record or token of it, and
\* nothing asks again whether it is aligned: it can stand for a new one.  (What
\* the drain takes out of a queue stays in outstanding for good.)
ArriveAnew(s) ==
    /\ Idle /\ ~Arrived(s) /\ tokensLeft[s] = 0
    /\ s \notin recorded /\ ~Queued(s)
    /\ outstanding <= Cardinality({t \in Seqs : Queued(t)}) + MaxDrift
    /\ waiting' = Append(waiting, s)
    /\ tokensLeft' = [tokensLeft EXCEPT ![s] = MaxTokens]
    /\ postAligned' = postAligned \ {s}
    /\ UNCHANGED <<settings, bufferVars, running, inPrefill, preempts,
                   calls, tickVars, output>>

\* Every _schedule counts its calls; only pi_adaptive uses the count.
CountCall ==
    calls' = IF mode = "pi_adaptive" THEN (calls + 1) % CleanupEvery ELSE 0

\* A tick that admits some waiting groups (which ones: module Admission): a
\* prefill step. No decode is scheduled, so _schedule returns vLLM's output as
\* it is.  With asynchronous output the groups stay in stage PREFILL over the
\* next tick.
Prefill(chosen) ==
    /\ Idle
    /\ running' = running \o Only(waiting, chosen)
    /\ waiting' = Without(waiting, chosen)
    /\ inPrefill' = IF AsyncOutput THEN chosen ELSE {}
    /\ output' = <<>>
    /\ CountCall
    /\ UNCHANGED <<settings, bufferVars, tokensLeft, preempts, postAligned, tickVars>>

\* One that admits s.
PrefillOf(s) ==
    /\ Idle /\ s \in ToSet(waiting)
    /\ \E others \in SUBSET (ToSet(waiting) \ {s}) : Prefill(others \cup {s})

PrefillTick == \E chosen \in SUBSET ToSet(waiting) \ {{}} : Prefill(chosen)

-----------------------------------------------------------------------------
(***************************************************************************)
(* A tick with no admission.                                               *)
(***************************************************************************)

\* _schedule_running holds the PREFILL groups back and puts them in front;
\* vLLM schedules the others, after preempting the last n of them.
StartDecodeTick ==
    /\ Idle /\ running # <<>>
    /\ LET pending == Only(running, inPrefill)
           ready == Without(running, inPrefill)
       IN  \E n \in 0 .. Smaller(Len(ready), MaxPreempts - preempts) :
            LET kept == SubSeq(ready, 1, Len(ready) - n)
                victims == SubSeq(ready, Len(ready) - n + 1, Len(ready))
                active == ToSet(pending) \cup ToSet(kept)
                stale == IF mode = "wgkp" /\ kept # <<>>
                         THEN postAligned \ active ELSE {}
            IN  /\ running' = pending \o kept
                /\ waiting' = victims \o waiting
                /\ preempts' = preempts + n
                /\ postAligned' = postAligned \ stale
                /\ recorded' = recorded \ stale
                /\ decodes' = kept
                /\ toEnqueue' = Without(kept, postAligned')
                /\ phase' = IF kept = <<>> THEN "idle" ELSE "enqueue"
    /\ inPrefill' = IF phase' = "idle" THEN {} ELSE inPrefill
    /\ output' = <<>>
    /\ CountCall
    /\ UNCHANGED <<registered, queues, shadow, enqueueAge, outstanding, callVars,
                   settings, tokensLeft>>

\* The loop over the first-time groups (_enqueue_decode_groups).
EnqueueNext ==
    /\ phase = "enqueue" /\ toEnqueue # <<>>
    /\ toEnqueue' = Tail(toEnqueue)
    /\ IF Head(toEnqueue) \in recorded
       THEN UNCHANGED storeVars
       ELSE enqueue(Head(toEnqueue))
    /\ UNCHANGED <<settings, phase, callVars, vllmVars, calls, postAligned, decodes, output>>

StartDispatch ==
    /\ phase = "enqueue" /\ toEnqueue = <<>>
    /\ begin_batch(MethodOf(mode), Len(decodes))
    /\ phase' = "dispatch"
    /\ UNCHANGED <<settings, vllmVars, calls, postAligned, tickVars, output>>

VisitNext ==
    /\ Visit
    /\ UNCHANGED <<settings, vllmVars, calls, postAligned, tickVars, output>>

-----------------------------------------------------------------------------
(***************************************************************************)
(* The end of the tick.                                                    *)
(***************************************************************************)

\* Bug: seq_id_to_sg keeps one group per adapter.
AlignedFirstTime_OnePerAdapter ==
    LET first(i) == \A j \in 1 .. (i - 1) : batch[j].adapter # batch[i].adapter
        kept == {batch[i].seq : i \in {j \in DOMAIN batch : first(j)}}
    IN  Only(FirstTime, kept)

\* Dispatched tokens of groups that vLLM did not schedule this tick have no
\* entry in seq_id_to_sg and are dropped.
AlignedFirstTime ==
    LET dispatched == [i \in DOMAIN batch |-> batch[i].seq]
    IN  Only(dispatched, ToSet(FirstTime))

PostGroups == Only(decodes, postAligned)

\* Bug: the groups stay in running order.
SortedByAdapter_Unsorted(q) == q

\* The adapters in the order of their names.
NamePlace == CHOOSE f \in [Adapters -> 1 .. Cardinality(Adapters)] : IsInjective(f)

\* list.sort by adapter name.
SortedByAdapter(q) ==
    LET place(s) == NamePlace[AdapterOf[s]]
    IN  SortedBy(q, {p \in Seqs \X Seqs : place(p[1]) < place(p[2])})

\* Bug: only groups with a token in the buffer are drained; all of them even if
\* the buffer dispatched some.
Drained_Buffered ==
    IF mode = "wgkp" /\ PostGroups = <<>> /\ AlignedFirstTime = <<>>
    THEN Only(FirstTime, {s \in Seqs : Queued(s)}) ELSE <<>>

\* Bug: every mode drains.
Drained_AnyMode ==
    IF PostGroups = <<>> /\ AlignedFirstTime = <<>> THEN FirstTime ELSE <<>>

\* wgkp: when the step would be empty, every first-time group runs.
Drained ==
    IF mode = "wgkp" /\ PostGroups = <<>> /\ AlignedFirstTime = <<>>
    THEN FirstTime ELSE <<>>

\* Bug: the drained groups run but stay queued.
DrainQueues_LeavesThem == UNCHANGED <<queues, enqueueAge>>

\* _drain_buffer_remaining: the drained groups leave their queues; the age of
\* a queue is reset only when it is left empty.
DrainQueues ==
    LET rest(a) == Only(queues[a], {e \in Entries : e.seq \notin ToSet(Drained)})
        touched(a) == \E i \in DOMAIN Drained : AdapterOf[Drained[i]] = a
    IN  /\ queues' = [a \in Adapters |-> rest(a)]
        /\ enqueueAge' = [a \in Adapters |->
               IF touched(a) /\ rest(a) = <<>> THEN None ELSE enqueueAge[a]]

\* Bug: completion is noticed one token late.
RunStep_Late(out) ==
    /\ tokensLeft' = [s \in Seqs |-> tokensLeft[s] - (IF s \in ToSet(out) THEN 1 ELSE 0)]
    /\ running' = Without(running, {s \in Seqs : tokensLeft[s] = 0})

\* The step runs: every scheduled group produces a token and leaves when it
\* has produced all of its tokens (free_finished_seq_groups).
RunStep(out) ==
    LET ran == ToSet(out)
        finished == {s \in ran : tokensLeft[s] = 1}
    IN  /\ tokensLeft' = [s \in Seqs |-> tokensLeft[s] - (IF s \in ran THEN 1 ELSE 0)]
        /\ running' = Without(running, finished)

\* Who loses its enqueue record: wgkp releases what it dispatched and drained,
\* and the batch log pops the records of the groups it writes.
Released ==
    (IF mode = "wgkp" THEN ToSet(AlignedFirstTime) \cup ToSet(Drained) ELSE {})
    \cup (IF logWar THEN ToSet(PostGroups) \cup ToSet(AlignedFirstTime) ELSE {})

\* pi_adaptive drops sequences that left running from the aligned set.
AfterCleanup(aligned) ==
    IF mode = "pi_adaptive" /\ calls = 0 THEN aligned \cap ToSet(running) ELSE aligned

FinishTick ==
    /\ phase = "dispatch" /\ todo = <<>>
    /\ LET out == SortedByAdapter(PostGroups) \o AlignedFirstTime \o Drained
       IN  output' = out /\ RunStep(out)
    /\ postAligned' = AfterCleanup(
           postAligned \cup ToSet(AlignedFirstTime) \cup ToSet(Drained))
    /\ DrainQueues
    /\ recorded' = recorded \ Released
    /\ method' = "none" /\ todo' = <<>> /\ budget' = 0 /\ batch' = <<>>
    /\ deadline' = [a \in Adapters |-> 0] /\ nStar' = 1 /\ merged' = {}
    /\ inPrefill' = {}
    /\ decodes' = <<>> /\ toEnqueue' = <<>>
    /\ phase' = "idle"
    /\ UNCHANGED <<settings, registered, shadow, outstanding, waiting, preempts, calls>>

ClockTick ==
    /\ Idle /\ Elapse
    /\ UNCHANGED <<settings, phase, callVars, vllmVars, calls, postAligned, tickVars, output>>

-----------------------------------------------------------------------------
SchedulerInit ==
    /\ Init
    /\ mode \in Modes /\ logWar \in LogWars
    /\ waiting = <<>> /\ running = <<>> /\ inPrefill = {}
    /\ preempts = 0 /\ calls = 0
    /\ tokensLeft \in [Seqs -> 1 .. MaxTokens]
    /\ postAligned = {} /\ decodes = <<>> /\ toEnqueue = <<>> /\ output = <<>>

DecodeTick == StartDecodeTick \/ EnqueueNext \/ StartDispatch \/ VisitNext \/ FinishTick

SchedulerNext ==
    \/ \E s \in Seqs : Arrive(s) \/ Abort(s) \/ ArriveAnew(s)
    \/ PrefillTick
    \/ DecodeTick
    \/ ClockTick

SchedulerSpec == SchedulerInit /\ [][SchedulerNext]_schedulerVars

\* The engine loop calls schedule() as long as a request is unfinished, each
\* call ends, and time passes between calls.  A waiting request that may be
\* admitted again and again is admitted (AllServed of Admission).
FairSpec ==
    /\ SchedulerSpec
    /\ WF_schedulerVars(DecodeTick)
    /\ SF_schedulerVars(ClockTick)
    /\ \A s \in Seqs : SF_schedulerVars(PrefillOf(s))

-----------------------------------------------------------------------------
(***************************************************************************)
(* The buffer that the scheduler drives: outside a form_batch* call it is  *)
(* idle, and no call asks for more tokens than there are sequences.        *)
(***************************************************************************)

BufferPhase == IF phase = "dispatch" THEN "dispatch" ELSE "idle"

Buffer == INSTANCE AlignmentBuffer
          WITH phase <- BufferPhase, MaxBudget <- Cardinality(Seqs)

-----------------------------------------------------------------------------
(***************************************************************************)
(* Properties.                                                             *)
(***************************************************************************)

\* Every variable of the scheduler stays within its range.
SchedulerTypeOK ==
    /\ mode \in Modes /\ logWar \in LogWars
    /\ waiting \in Seq(Seqs) /\ running \in Seq(Seqs) /\ output \in Seq(Seqs)
    /\ decodes \in Seq(Seqs) /\ toEnqueue \in Seq(Seqs)
    /\ inPrefill \subseteq Seqs /\ postAligned \subseteq Seqs
    /\ tokensLeft \in [Seqs -> Nat] /\ preempts \in 0 .. MaxPreempts

\* "Deferred sequences must be re-scheduled in the very next tick, not lost"
\* (tests/test_deferred.py): between ticks, a running sequence that enqueue
\* would refuse because it has a record, and that does not bypass the buffer,
\* is in its queue.  Otherwise no tick can ever schedule it again.
NoSequenceLost ==
    Idle => \A s \in ToSet(running) :
        s \in recorded /\ s \notin postAligned => Queued(s)

\* A sequence that bypasses the buffer has no entry left in it, so that it is
\* never scheduled a second time in one step.
AlignedNotQueued == \A s \in postAligned : ~Queued(s)

\* "No token waits longer than T_SLO" (buffer.py): when the loop of a tick
\* ends, a first-time group it could have run is still held past T_SLO only
\* behind a full warp of its own adapter that this tick runs.
NoTokenOverdue ==
    phase = "dispatch" /\ todo = <<>> =>
        \A a \in Adapters : \A i \in DOMAIN queues[a] :
            queues[a][i].seq \in ToSet(FirstTime) /\ queues[a][i].age >= TSLO
                => \E j \in DOMAIN batch : batch[j].adapter = a

\* The decode batch is not "adapter-contiguous" as a whole: the newly dispatched
\* groups follow the aligned ones.  What its order does guarantee the segment
\* kernels, where groups are only held back: an adapter has one run in each part.
OneRunPerPart ==
    [][FinishTick =>
        \A i, k \in DOMAIN output' :
            /\ AdapterOf[output'[i]] = AdapterOf[output'[k]]
            /\ output'[i] \in postAligned <=> output'[k] \in postAligned
            => \A j \in i .. k : AdapterOf[output'[j]] = AdapterOf[output'[i]]
      ]_schedulerVars

\* The scheduler uses the buffer only through its methods, each called in a
\* state in which AlignmentBuffer allows it.  What wgkp and the batch log do to
\* it besides (the drain of the queues, several release() in one step) is
\* outside that interface.
ImplementsBuffer ==
    /\ Buffer!Init
    /\ [][mode # "wgkp" /\ ~logWar => Buffer!Next]_(Buffer!bufferVars)

\* Every request that arrives is served to its last token (or aborted).
AllServed == \A s \in Seqs : Arrived(s) ~> tokensLeft[s] = 0

\* Two ways in which the code gives up a running request: it has a record but no
\* token in its queue, so that enqueue refuses it, or its queue holds a warp and a
\* token of an aborted request in it, so that the budget of a tick may be short.
Lost(s) ==
    /\ s \in recorded \ postAligned /\ ~Queued(s)
    /\ \A i \in DOMAIN batch : batch[i].seq # s

Blocked(s) ==
    LET q == queues[AdapterOf[s]] IN
    Queued(s) /\ Len(q) >= W /\ \E i \in DOMAIN q : tokensLeft[q[i].seq] = 0

\* "Never return an empty scheduled list when runnable work exists" (wgkp, which
\* calls an empty one rare in steady state): every request is served, by the
\* buffer or by the drain.  The only requests that are not are stranded in one
\* of the two ways from some time on, and there is decode work for ever beside
\* them: the first step without any would rescue them.
ServedUnlessStranded ==
    \A s \in Seqs : Arrived(s) ~>
        \/ tokensLeft[s] = 0
        \/ []((Lost(s) \/ Blocked(s)) /\ <>(output # <<>>))

=============================================================================
