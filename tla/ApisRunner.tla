------------------------------- MODULE ApisRunner -------------------------------
(***************************************************************************)
(* benchmarks/ablations/bench_apis.py: APISBenchmarkRunner, two servers    *)
(* behind APISRouter.  The runner starts them, sends each request of a     *)
(* trace at its time to the shard that holds its adapter, waits for the    *)
(* answers, and stops them (the calls are those of benchmarks/paper/       *)
(* apis.py, which stops the servers whatever happens).                     *)
(***************************************************************************)
EXTENDS Backends, Router

ASSUME OneServerPerShard == NServers = NShards

CONSTANTS
    MaxInFlight, \* bound on the requests in flight
    MaxRequests  \* bound on the requests of a trace

VARIABLES
    toSend,  \* requests of the trace not sent yet
    inFlight \* adapters with a request sent and not answered, of each shard

runnerVars == <<backendVars, routerVars, toSend, inFlight>>

\* start() and stop() of the servers; run() builds its router when all are up.
ServersStep ==
    /\ BeginBenchmark \/ Starting \/ Stopping \/ ServerStep
    /\ IF pc # "use" /\ pc' = "use"
       THEN (\E first \in InitialRates : Construct(first)) /\ toSend' = MaxRequests
       ELSE UNCHANGED <<routerVars, toSend>>
    /\ UNCHANGED inFlight

\* _one: a request of the trace goes to its shard.
Send(a, t) ==
    /\ pc = "use" /\ toSend > 0
    /\ toSend' = toSend - 1
    /\ Total([s \in Shards |-> Cardinality(inFlight[s])], Shards) < MaxInFlight
    /\ route(a, t)
    /\ inFlight' = [inFlight EXCEPT ![assignment'[a]] = @ \cup {a}]
    /\ UNCHANGED backendVars

\* The answer to a's requests, or what a dead server or the time-out makes of
\* them: a completion of no tokens.
Complete(a, s) ==
    /\ a \in inFlight[s]
    /\ inFlight' = [inFlight EXCEPT ![s] = @ \ {a}]
    /\ UNCHANGED <<backendVars, routerVars, toSend>>

\* run() ends when the trace has been sent and every request is answered.
EndRun ==
    /\ toSend = 0
    /\ \A s \in Shards : inFlight[s] = {}
    /\ EndBenchmark
    /\ now' = 0 /\ est' = NewEstimator /\ assignment' = NoKeys
    /\ lastRebalance' = Never /\ rebalances' = 0
    /\ UNCHANGED <<toSend, inFlight>>

Init == BackendInit /\ NoRouter /\ toSend = 0 /\ inFlight = [s \in Shards |-> {}]

Next ==
    \/ ServersStep
    \/ \E a \in Adapters, t \in now .. MaxTime : Send(a, t)
    \/ \E a \in Adapters, s \in Shards : Complete(a, s)
    \/ EndRun

Spec == Init /\ [][Next]_runnerVars

\* The benchmark's thread goes on, an answer or the client's time-out comes, and
\* the requests of the trace are sent.
FairSpec ==
    /\ Spec
    /\ WF_runnerVars(ServersStep /\ (Starting \/ Stopping))
    /\ WF_runnerVars(\E a \in Adapters, t \in now .. MaxTime : Send(a, t))
    /\ WF_runnerVars(\E a \in Adapters, s \in Shards : Complete(a, s))
    /\ WF_runnerVars(EndRun)

-----------------------------------------------------------------------------
(***************************************************************************)
(* Properties.                                                             *)
(***************************************************************************)

\* Every benchmark that begins comes to its end, with every server stopped.
BenchmarkEnds == pc # "rest" ~> pc = "rest"

=============================================================================
