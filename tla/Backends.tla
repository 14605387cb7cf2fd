------------------------------- MODULE Backends -------------------------------
(***************************************************************************)
(* backends/base.py: how a benchmark starts and stops its serving          *)
(* processes.  A server is a process group of its own: a leader, which     *)
(* answers /health, and the workers it spawns, which hold the GPU.         *)
(*                                                                         *)
(* The benchmark is one thread that starts its servers in turn, uses them, *)
(* and stops them in turn; the servers' processes live and die beside it.  *)
(* The waits are bounded by time-outs, which may fire whenever the code is *)
(* waiting.  The operating system and the servers are external.            *)
(***************************************************************************)
EXTENDS Integers, FiniteSets

CONSTANTS
    NServers,   \* servers of one benchmark, numbered from 0, a GPU each
    MaxCrashes  \* bound on the processes that die unasked

ASSUME BackendsAssumption == NServers \in Nat \ {0} /\ MaxCrashes \in Nat

Servers == 0 .. (NServers - 1)

VARIABLES
    pc,       \* what the benchmark does
    cur,      \* the server it does it to
    raised,   \* whether start() is to raise or has raised RuntimeError
    started,  \* servers whose _proc is not None
    leader,   \* "none" (or reaped), "starting", "ready", "dead" (not reaped)
    worker,   \* whether workers of the current group are alive
    pgid,     \* what os.getpgid found in stop()
    orphans,  \* servers with live processes of a group already given up
    unled,    \* history: servers whose leader died and was reaped by a poll
    crashes   \* processes that have died unasked

serverVars == <<leader, worker>>
historyVars == <<orphans, unled, crashes>>
backendVars == <<pc, cur, raised, started, pgid, serverVars, historyVars>>

Phases == {"rest", "port", "gpus", "launch", "health", "use", "stop", "wait", "kill"}

-----------------------------------------------------------------------------
(***************************************************************************)
(* The servers' processes (external).                                      *)
(***************************************************************************)

SpawnWorkers(s) ==
    /\ leader[s] = "starting" /\ ~worker[s]
    /\ worker' = [worker EXCEPT ![s] = TRUE]
    /\ UNCHANGED <<pc, cur, raised, started, pgid, leader, historyVars>>

BecomeReady(s) ==
    /\ leader[s] = "starting" /\ worker[s]
    /\ leader' = [leader EXCEPT ![s] = "ready"]
    /\ UNCHANGED <<pc, cur, raised, started, pgid, worker, historyVars>>

Alive(s) == leader[s] \in {"starting", "ready"}

\* A process may die at any time; its parent learns of it by waiting for it.
Crash(s) ==
    /\ crashes < MaxCrashes /\ crashes' = crashes + 1
    /\ \/ Alive(s) /\ leader' = [leader EXCEPT ![s] = "dead"] /\ UNCHANGED worker
       \/ worker[s] /\ worker' = [worker EXCEPT ![s] = FALSE] /\ UNCHANGED leader
    /\ UNCHANGED <<pc, cur, raised, started, pgid, orphans, unled>>

\* A process that was sent SIGTERM may exit at once, late or never.
ObeyTerm(s) ==
    /\ pc = "wait" /\ cur = s /\ pgid
    /\ \/ Alive(s) /\ leader' = [leader EXCEPT ![s] = "dead"] /\ UNCHANGED worker
       \/ worker[s] /\ worker' = [worker EXCEPT ![s] = FALSE] /\ UNCHANGED leader
    /\ UNCHANGED <<pc, cur, raised, started, pgid, historyVars>>

OrphanExits(s) ==
    /\ s \in orphans
    /\ orphans' = orphans \ {s}
    /\ UNCHANGED <<pc, cur, raised, started, pgid, serverVars, unled, crashes>>

-----------------------------------------------------------------------------
(***************************************************************************)
(* start().                                                                *)
(***************************************************************************)

\* Where the benchmark goes when start() of the current server has returned.
AfterStart ==
    IF cur = NServers - 1 THEN pc' = "use" /\ cur' = 0
    ELSE pc' = "port" /\ cur' = cur + 1

\* An exception of start() reaches the finally that stops every server.
OnError == pc' = "stop" /\ cur' = 0 /\ raised' = FALSE

BeginBenchmark ==
    /\ pc = "rest"
    /\ pc' = "port" /\ cur' = 0
    /\ UNCHANGED <<raised, started, pgid, serverVars, historyVars>>

\* _wait_for_port_free: free at last, or RuntimeError after the time-out.
WaitForPort ==
    /\ pc = "port"
    /\ \/ pc' = "gpus" /\ UNCHANGED <<cur, raised>>
       \/ OnError
    /\ UNCHANGED <<started, pgid, serverVars, historyVars>>

\* _wait_for_gpus_free: free at last, nothing to ask, or timed out, all alike.
WaitForGpus ==
    /\ pc = "gpus"
    /\ pc' = "launch"
    /\ UNCHANGED <<cur, raised, started, pgid, serverVars, historyVars>>

\* Popen with start_new_session.
Launch ==
    /\ pc = "launch"
    /\ leader' = [leader EXCEPT ![cur] = "starting"]
    /\ started' = started \cup {cur}
    /\ pc' = "health"
    /\ UNCHANGED <<cur, raised, pgid, worker, historyVars>>

\* _wait_for_health: the server answers.
HealthAnswers ==
    /\ pc = "health" /\ leader[cur] = "ready"
    /\ AfterStart
    /\ UNCHANGED <<raised, started, pgid, serverVars, historyVars>>

\* poll() finds that the leader has exited, and reaps it.
HealthSeesExit ==
    /\ pc = "health" /\ leader[cur] = "dead"
    /\ leader' = [leader EXCEPT ![cur] = "none"]
    /\ unled' = unled \cup {cur}
    /\ raised' = TRUE /\ pc' = "stop"
    /\ UNCHANGED <<cur, started, pgid, worker, orphans, crashes>>

\* Bug: the wait has no deadline.
HealthTimesOut_Never ==
    /\ FALSE
    /\ UNCHANGED backendVars

\* The deadline passes; an answer that comes now is too late, and a leader that
\* has died since the last poll is not reaped.
HealthTimesOut ==
    /\ pc = "health"
    /\ raised' = TRUE /\ pc' = "stop"
    /\ UNCHANGED <<cur, started, pgid, serverVars, historyVars>>

-----------------------------------------------------------------------------
(***************************************************************************)
(* stop().                                                                 *)
(***************************************************************************)

\* Where the benchmark goes when stop() of the current server has returned:
\* back to start(), which raises, or to the next server.
AfterStop ==
    IF raised THEN OnError
    ELSE IF cur = NServers - 1 THEN pc' = "rest" /\ cur' = 0 /\ UNCHANGED raised
    ELSE pc' = "stop" /\ cur' = cur + 1 /\ UNCHANGED raised

EndBenchmark ==
    /\ pc = "use"
    /\ pc' = "stop" /\ cur' = 0
    /\ UNCHANGED <<raised, started, pgid, serverVars, historyVars>>

\* A server that was never launched, or is stopped already.
NothingToStop ==
    /\ pc = "stop" /\ cur \notin started
    /\ AfterStop
    /\ UNCHANGED <<started, pgid, serverVars, historyVars>>

\* getpgid fails for a leader that was reaped; SIGTERM goes to its group.
Terminate ==
    /\ pc = "stop" /\ cur \in started
    /\ pgid' = (leader[cur] # "none")
    /\ pc' = "wait"
    /\ UNCHANGED <<cur, raised, started, serverVars, historyVars>>

\* The wait ends when the leader has exited, which reaps it, or times out.
WaitForLeader ==
    /\ pc = "wait"
    /\ leader' = [leader EXCEPT ![cur] = IF Alive(cur) THEN @ ELSE "none"]
    /\ pc' = "kill"
    /\ UNCHANGED <<cur, raised, started, pgid, worker, historyVars>>

\* Bug: SIGKILL only if the leader outlived the SIGTERM.
Survivor_LeaderOnly == IF pgid /\ Alive(cur) THEN FALSE ELSE worker[cur]

\* SIGKILL ends what the group still holds.
Survivor == IF pgid THEN FALSE ELSE worker[cur]

\* SIGKILL, the last wait, and _proc = None.
Kill ==
    /\ pc = "kill"
    /\ leader' = [leader EXCEPT ![cur] = "none"]
    /\ orphans' = IF Survivor THEN orphans \cup {cur} ELSE orphans
    /\ worker' = [worker EXCEPT ![cur] = FALSE]
    /\ started' = started \ {cur}
    /\ pgid' = FALSE
    /\ unled' = unled \cap orphans'
    /\ AfterStop
    /\ UNCHANGED crashes

-----------------------------------------------------------------------------
BackendInit ==
    /\ pc = "rest" /\ cur = 0 /\ raised = FALSE
    /\ started = {} /\ pgid = FALSE
    /\ leader = [s \in Servers |-> "none"] /\ worker = [s \in Servers |-> FALSE]
    /\ orphans = {} /\ unled = {} /\ crashes = 0

Starting ==
    \/ WaitForPort \/ WaitForGpus \/ Launch
    \/ HealthAnswers \/ HealthSeesExit \/ HealthTimesOut
Stopping == NothingToStop \/ Terminate \/ WaitForLeader \/ Kill

ServerStep ==
    \E s \in Servers :
        SpawnWorkers(s) \/ BecomeReady(s) \/ Crash(s) \/ ObeyTerm(s) \/ OrphanExits(s)

BackendNext == BeginBenchmark \/ Starting \/ EndBenchmark \/ Stopping \/ ServerStep

BackendSpec == BackendInit /\ [][BackendNext]_backendVars

-----------------------------------------------------------------------------
(***************************************************************************)
(* Properties.                                                             *)
(***************************************************************************)

\* "stop() sends SIGTERM to the process group, then SIGKILL if it is still
\* alive": once a benchmark is over, however its start failed, no process of
\* its servers is left.  With one exception: a leader that dies while start()
\* polls it is reaped, and its workers can no longer be found.
NothingLeftRunning ==
    /\ pc = "rest" => started = {} /\ \A s \in Servers : ~Alive(s) /\ ~worker[s]
    /\ orphans \subseteq unled

=============================================================================
