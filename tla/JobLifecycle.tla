---------------------------- MODULE JobLifecycle ----------------------------
(***************************************************************************)
(* LocalJobService: the life of a job from submission through execution on *)
(* the Intern backend, on a remote node or in a sandbox, abort, and repair *)
(* after a restart of the control plane.                                   *)
(*                                                                         *)
(* The service is single-threaded: the code between two awaits is one      *)
(* atomic step, and every action below is the code from one await (or one  *)
(* incoming call) to the next.  Database calls are synchronous, so the     *)
(* table updates of a handler belong to its step.  pc[j] names the await   *)
(* at which runLocalTurn or runRemoteTask of job j is suspended; aborting  *)
(* counts the abortJob calls suspended at theirs.                          *)
(*                                                                         *)
(* Tables survive a crash; the service's four maps do not.                 *)
(***************************************************************************)
EXTENDS LeaseScheduler, Sequences

CONSTANTS
  MaxAborts,   \* bound: abortJob calls in flight for one job
  MaxLapses,   \* bound: lease TTLs that run out in a behaviour
  MaxCrashes   \* bound: crashes in a behaviour

ASSUME JobAssumption ==
  /\ MaxAborts \in Nat \ {0}
  /\ MaxLapses \in Nat
  /\ MaxCrashes \in Nat

VARIABLES
  status,            \* jobs.status ("none": no row)
  log,               \* the terminal events of the job in job_events
  target,            \* execution_target of the submitted job
  liveJobs,          \* the cached status in liveJobs ("absent": no entry)
  backendJobIds,     \* local jobs whose Intern job id is known
  pendingAbortJobs,  \* jobs marked as being aborted
  activeRemoteRuns,  \* remote jobs whose execution handle is held
  pc,                \* where the job's coroutine is suspended
  sawTerminal,       \* sawTerminalEvent / terminalEventCount > 0
  aborting,          \* abortJob calls in flight
  up,                \* the process is running
  lapses, crashes    \* bound counters

recordVars == <<status, log, liveJobs>>
memoryVars == <<backendJobIds, pendingAbortJobs, activeRemoteRuns>>
counterVars == <<lapses, crashes>>
vars == <<leaseVars, recordVars, memoryVars, counterVars, target, pc, sawTerminal, aborting, up>>

Terminal == {"completed", "failed", "aborted"}
Open == {"pending", "scheduled", "running"}
Status == Open \cup Terminal \cup {"none"}

\* The awaits of runRemoteTask while it holds its node.
InFlight == {"starting", "sandbox", "running", "lateAbort"}
\* All the awaits of a job's coroutine; "streaming" and "streamAbort" are runLocalTurn's.
Suspended == InFlight \cup {"streaming", "streamAbort"}

TypeOK ==
  /\ LeaseTypeOK
  /\ status \in [Jobs -> Status]
  /\ log \in [Jobs -> Seq(Terminal)]
  /\ target \in [Jobs -> {"none", "local", "remote"}]
  /\ liveJobs \in [Jobs -> (Status \ {"none"}) \cup {"absent"}]
  /\ backendJobIds \in SUBSET Jobs
  /\ pendingAbortJobs \in SUBSET Jobs
  /\ activeRemoteRuns \in SUBSET Jobs
  /\ pc \in [Jobs -> Suspended \cup {"idle", "done"}]
  /\ sawTerminal \in [Jobs -> BOOLEAN]
  /\ aborting \in [Jobs -> 0..MaxAborts]
  /\ up \in BOOLEAN
  /\ lapses \in 0..MaxLapses
  /\ crashes \in 0..MaxCrashes

Init ==
  /\ LeaseInit
  /\ status = [j \in Jobs |-> "none"]
  /\ log = [j \in Jobs |-> <<>>]
  /\ target = [j \in Jobs |-> "none"]
  /\ liveJobs = [j \in Jobs |-> "absent"]
  /\ backendJobIds = {}
  /\ pendingAbortJobs = {}
  /\ activeRemoteRuns = {}
  /\ pc = [j \in Jobs |-> "idle"]
  /\ sawTerminal = [j \in Jobs |-> FALSE]
  /\ aborting = [j \in Jobs |-> 0]
  /\ up = TRUE
  /\ lapses = 0
  /\ crashes = 0

-----------------------------------------------------------------------------
(* The job record: getOrHydrateLiveJobState, applyEvent and the finalizers. *)

Cached(j) == IF liveJobs[j] = "absent" THEN status[j] ELSE liveJobs[j]

\* The cache is filled from the table and nothing else changes: what applyEvent
\* does to a terminal job, and with an event that carries no status.
Hydrate(j) ==
  /\ liveJobs' = [liveJobs EXCEPT ![j] = Cached(j)]
  /\ UNCHANGED <<status, log>>

\* Defect: persistLiveJobState writes the row and forgets the cache.
PersistRowOnly(j, s) ==
  /\ status' = [status EXCEPT ![j] = s]
  /\ log' = IF s \in Terminal THEN [log EXCEPT ![j] = Append(@, s)] ELSE log
  /\ UNCHANGED liveJobs

\* persistLiveJobState and persistDurableEvent for a job that is not terminal.
Persist(j, s) ==
  /\ status' = [status EXCEPT ![j] = s]
  /\ liveJobs' = [liveJobs EXCEPT ![j] = IF s \in Terminal THEN "absent" ELSE s]
  /\ log' = IF s \in Terminal THEN [log EXCEPT ![j] = Append(@, s)] ELSE log

\* Defect: applyEvent does not ask whether the job is terminal.
ApplyUnguarded(j, s) == Persist(j, s)

\* applyEvent, finalizeAbort and finalizeUnexpectedEof: the first terminal
\* event wins, whatever comes later is dropped.
Apply(j, s) ==
  \/ Cached(j) \in Terminal /\ Hydrate(j)
  \/ Cached(j) \notin Terminal /\ Persist(j, s)

\* The table row of the job's lease after finalizeRemoteRun.
FinalizeRemoteRun(j, leaseState) ==
  /\ \/ (j \in activeRemoteRuns \/ lease[j] = "active") /\ ReleaseLease(j, leaseState)
     \/ j \notin activeRemoteRuns /\ lease[j] # "active" /\ UNCHANGED lease
  /\ activeRemoteRuns' = activeRemoteRuns \ {j}

Suspend(j, await) == pc' = [pc EXCEPT ![j] = await]

-----------------------------------------------------------------------------
(* submitJob, up to the first await of the coroutine it starts. *)

\* The row, its cache entry and job.accepted: what every submission does first.
Accept(j, t) ==
  /\ up
  /\ status[j] = "none"
  /\ target' = [target EXCEPT ![j] = t]
  /\ UNCHANGED <<sawTerminal, aborting, up, memoryVars, counterVars, nodeState>>

SubmitLocal(j) ==
  /\ Accept(j, "local")
  /\ Persist(j, "scheduled")
  /\ Suspend(j, "streaming")
  /\ UNCHANGED <<lease, leaseNode, lapsed>>

\* shouldUseRemoteExecution finds no node, or issueLease finds none eligible and
\* throws into runRemoteTask's catch.
SubmitRejected(j) ==
  /\ Accept(j, "remote")
  /\ Persist(j, "failed")
  /\ Suspend(j, "done")
  /\ UNCHANGED <<leaseNode, lapsed>>
  /\ \/ (\A n \in Nodes : ~Executable(n)) /\ UNCHANGED lease
     \/ (\E n \in Nodes : Executable(n)) /\ Candidates = {} /\ lease' = ExpireActiveLeases

\* issueLease and attachLease succeed and the node's adapter is awaited.
SubmitRemote(j) ==
  /\ Accept(j, "remote")
  /\ \E n \in Nodes : Executable(n)
  /\ \E n \in Candidates :
       /\ Executable(n)
       /\ IssueLease(j, n)
       /\ \/ NodeKind[n] = "sandbox" /\ Persist(j, "running") /\ Suspend(j, "sandbox")
          \/ NodeKind[n] = "remote" /\ Persist(j, "scheduled") /\ Suspend(j, "starting")

\* The node got a lease but nothing can run on it: the error path of the same
\* synchronous prefix fails the job and gives the lease back.
SubmitUnexecutable(j) ==
  /\ Accept(j, "remote")
  /\ \E n \in Nodes : Executable(n)
  /\ \E n \in Candidates :
       /\ ~Executable(n)
       /\ lease' = [ExpireActiveLeases EXCEPT ![j] = "released"]
       /\ leaseNode' = [leaseNode EXCEPT ![j] = n]
       /\ lapsed' = [lapsed EXCEPT ![j] = FALSE]
       /\ Persist(j, "failed")
       /\ Suspend(j, "done")

-----------------------------------------------------------------------------
(* runLocalTurn: the events of the Intern stream. *)

\* "other" stands for queued, text and tool events, which change no status.
LocalEvents == {"other", "running"} \cup Terminal

ApplyLocal(j, event) ==
  /\ \/ event = "other" /\ Hydrate(j)
     \/ event # "other" /\ Apply(j, event)
  /\ sawTerminal' = [sawTerminal EXCEPT ![j] = @ \/ event \in Terminal]

StreamEvent(j, event) ==
  /\ pc[j] = "streaming"
  /\ \/ UNCHANGED backendJobIds
     \/ j \notin pendingAbortJobs /\ backendJobIds' = backendJobIds \cup {j}
  /\ ApplyLocal(j, event)
  /\ UNCHANGED <<leaseVars, pendingAbortJobs, activeRemoteRuns, counterVars, target, pc, aborting, up>>

\* The first event with a backend job id after an early abort: the id is passed
\* on to Intern before the event is looked at.
StreamAbort(j) ==
  /\ pc[j] = "streaming"
  /\ j \in pendingAbortJobs
  /\ backendJobIds' = backendJobIds \cup {j}
  /\ pendingAbortJobs' = pendingAbortJobs \ {j}
  /\ Suspend(j, "streamAbort")
  /\ UNCHANGED <<leaseVars, recordVars, activeRemoteRuns, counterVars, target, sawTerminal, aborting, up>>

StreamAbortReturns(j, event) ==
  /\ pc[j] = "streamAbort"
  /\ ApplyLocal(j, event)
  /\ Suspend(j, "streaming")
  /\ UNCHANGED <<leaseVars, memoryVars, counterVars, target, aborting, up>>

\* Defect: the end of the stream is taken for the end of the job.
StreamEndsQuietly(j) ==
  /\ pc[j] = "streaming"
  /\ Suspend(j, "done")
  /\ UNCHANGED <<leaseVars, recordVars, memoryVars, counterVars, target, sawTerminal, aborting, up>>

\* The stream ends; without a terminal event the job fails.
StreamEnds(j) ==
  /\ pc[j] = "streaming"
  /\ \/ sawTerminal[j] /\ UNCHANGED recordVars
     \/ ~sawTerminal[j] /\ Apply(j, "failed")
  /\ Suspend(j, "done")
  /\ UNCHANGED <<leaseVars, memoryVars, counterVars, target, sawTerminal, aborting, up>>

\* The stream, or the abort passed on to Intern, throws.
StreamThrows(j) ==
  /\ pc[j] \in {"streaming", "streamAbort"}
  /\ Apply(j, "failed")
  /\ Suspend(j, "done")
  /\ UNCHANGED <<leaseVars, memoryVars, counterVars, target, sawTerminal, aborting, up>>

-----------------------------------------------------------------------------
(* runRemoteTask after its first await. *)

\* catch: an aborted or already terminal job is left to whoever aborted it.
RemoteCatch(j) ==
  \/ (j \in pendingAbortJobs \/ status[j] \in Terminal) /\ UNCHANGED recordVars
  \/ j \notin pendingAbortJobs /\ status[j] \notin Terminal /\ Apply(j, "failed")

\* finally, and the end of the coroutine.
RemoteReturn(j) ==
  /\ FinalizeRemoteRun(j, "released")
  /\ Suspend(j, "done")
  /\ UNCHANGED <<leaseNode, lapsed, nodeState, backendJobIds, counterVars, target, aborting, up>>

StartResolves(j) ==
  /\ pc[j] = "starting"
  /\ activeRemoteRuns' = activeRemoteRuns \cup {j}
  /\ Apply(j, "running")
  /\ pendingAbortJobs' = pendingAbortJobs \ {j}
  /\ Suspend(j, IF j \in pendingAbortJobs THEN "lateAbort" ELSE "running")
  /\ UNCHANGED <<leaseVars, backendJobIds, counterVars, target, sawTerminal, aborting, up>>

\* The run's result and stream have both completed.
RunResolves(j) ==
  /\ pc[j] = "running"
  /\ Apply(j, "completed")
  /\ RemoteReturn(j)
  /\ UNCHANGED <<pendingAbortJobs, sawTerminal>>

\* Defect: a progress event is taken for job.accepted.
RunProgressRestarts(j) ==
  /\ pc[j] = "running"
  /\ Apply(j, "scheduled")
  /\ UNCHANGED <<leaseVars, memoryVars, counterVars, target, pc, sawTerminal, aborting, up>>

\* A text or tool event on the run's progress stream.
RunProgress(j) ==
  /\ pc[j] = "running"
  /\ Hydrate(j)
  /\ UNCHANGED <<leaseVars, memoryVars, counterVars, target, pc, sawTerminal, aborting, up>>

\* The run was started after its job had been aborted, and its abort returned.
LateAbortReturns(j) ==
  /\ pc[j] = "lateAbort"
  /\ Apply(j, "aborted")
  /\ pendingAbortJobs' = pendingAbortJobs \ {j}
  /\ RemoteReturn(j)
  /\ UNCHANGED sawTerminal

\* Progress of a sandbox execution; its result and error events are terminal.
SandboxEvent(j, event) ==
  /\ pc[j] = "sandbox"
  /\ event \in {"other", "completed", "failed"}
  /\ ApplyLocal(j, event)
  /\ UNCHANGED <<leaseVars, memoryVars, counterVars, target, pc, aborting, up>>

SandboxReturns(j) ==
  /\ pc[j] = "sandbox"
  /\ \/ sawTerminal[j] /\ UNCHANGED recordVars
     \/ ~sawTerminal[j] /\ Apply(j, "completed")
  /\ RemoteReturn(j)
  /\ UNCHANGED <<pendingAbortJobs, sawTerminal>>

\* startExecution, the run, its late abort or the sandbox throws.
RemoteThrows(j) ==
  /\ pc[j] \in InFlight
  /\ RemoteCatch(j)
  /\ RemoteReturn(j)
  /\ UNCHANGED <<pendingAbortJobs, sawTerminal>>

-----------------------------------------------------------------------------
(* abortJob.  On a terminal job it returns at once and changes nothing. *)

\* No execution to reach: the job is aborted in the tables, and the mark makes
\* the coroutine pass the abort on when it can.
AbortUnreachable(j) ==
  /\ up
  /\ status[j] \in Open
  /\ j \notin activeRemoteRuns
  /\ j \notin backendJobIds
  /\ pendingAbortJobs' = pendingAbortJobs \cup {j}
  /\ \/ lease[j] = "active" /\ ReleaseLease(j, "released")
     \/ lease[j] # "active" /\ UNCHANGED lease
  /\ Apply(j, "aborted")
  /\ UNCHANGED <<leaseNode, lapsed, nodeState, backendJobIds, activeRemoteRuns, counterVars, target,
                 pc, sawTerminal, aborting, up>>

\* The abort is sent to the node or to Intern, and awaited.
AbortSend(j) ==
  /\ up
  /\ status[j] \in Open
  /\ aborting[j] < MaxAborts
  /\ \/ j \in activeRemoteRuns /\ pendingAbortJobs' = pendingAbortJobs \cup {j}
     \/ j \notin activeRemoteRuns /\ j \in backendJobIds /\ UNCHANGED pendingAbortJobs
  /\ aborting' = [aborting EXCEPT ![j] = @ + 1]
  /\ UNCHANGED <<leaseVars, recordVars, backendJobIds, activeRemoteRuns, counterVars, target, pc, sawTerminal, up>>

AbortOver(j) ==
  /\ aborting[j] > 0
  /\ aborting' = [aborting EXCEPT ![j] = @ - 1]
  /\ UNCHANGED <<leaseNode, lapsed, nodeState, backendJobIds, counterVars, target, pc, sawTerminal, up>>

RemoteAbortReturns(j) ==
  /\ target[j] = "remote"
  /\ AbortOver(j)
  /\ FinalizeRemoteRun(j, "released")
  /\ Apply(j, "aborted")
  /\ pendingAbortJobs' = pendingAbortJobs \ {j}

\* Defect: a refused abort does not fail the job.
RemoteAbortThrowsQuietly(j) ==
  /\ target[j] = "remote"
  /\ AbortOver(j)
  /\ pendingAbortJobs' = pendingAbortJobs \ {j}
  /\ FinalizeRemoteRun(j, "failed")
  /\ UNCHANGED recordVars

RemoteAbortThrows(j) ==
  /\ target[j] = "remote"
  /\ AbortOver(j)
  /\ pendingAbortJobs' = pendingAbortJobs \ {j}
  /\ FinalizeRemoteRun(j, "failed")
  /\ Apply(j, "failed")

LocalAbortReturns(j) ==
  /\ target[j] = "local"
  /\ AbortOver(j)
  /\ Apply(j, "aborted")
  /\ UNCHANGED <<lease, pendingAbortJobs, activeRemoteRuns>>

\* Intern refuses the abort: the caller gets the error, the job goes on.
LocalAbortThrows(j) ==
  /\ target[j] = "local"
  /\ AbortOver(j)
  /\ UNCHANGED <<lease, recordVars, pendingAbortJobs, activeRemoteRuns>>

-----------------------------------------------------------------------------
(* Crash and restart. *)

LoseMemory ==
  /\ up
  /\ crashes < MaxCrashes
  /\ crashes' = crashes + 1
  /\ up' = FALSE
  /\ liveJobs' = [j \in Jobs |-> "absent"]
  /\ backendJobIds' = {}
  /\ pendingAbortJobs' = {}
  /\ activeRemoteRuns' = {}
  /\ sawTerminal' = [j \in Jobs |-> FALSE]
  /\ aborting' = [j \in Jobs |-> 0]
  /\ UNCHANGED <<leaseVars, lapses>>

Crash ==
  /\ LoseMemory
  /\ pc' = [j \in Jobs |-> IF pc[j] = "idle" THEN "idle" ELSE "done"]
  /\ UNCHANGED <<status, log, target>>

\* The process dies inside submitJob: the row is there, nothing else is.
CrashInSubmit(j, t) ==
  /\ status[j] = "none"
  /\ LoseMemory
  /\ status' = [status EXCEPT ![j] = "pending"]
  /\ target' = [target EXCEPT ![j] = t]
  /\ pc' = [i \in Jobs |-> IF pc[i] = "idle" /\ i # j THEN "idle" ELSE "done"]
  /\ UNCHANGED log

\* The process dies between saveJob and appendJobEvent of a terminal event.
CrashInPersist(j, s) ==
  /\ pc[j] \in {"streaming", "starting", "sandbox", "running"}
  /\ status[j] \in Open
  /\ pc[j] = "starting" => s # "completed"
  /\ LoseMemory
  /\ status' = [status EXCEPT ![j] = s]
  /\ pc' = [i \in Jobs |-> IF pc[i] = "idle" THEN "idle" ELSE "done"]
  /\ UNCHANGED <<log, target>>

\* Defect: the startup repair keeps the leases of the jobs it fails.
ReconcileKeepsLeases(stale) ==
  /\ ~up
  /\ up' = TRUE
  /\ status' = [j \in Jobs |-> IF status[j] \in Open THEN "failed" ELSE status[j]]
  /\ lease' = ExpireActiveLeases
  /\ nodeState' = [n \in Nodes |-> IF n \in stale THEN "offline" ELSE nodeState[n]]
  /\ UNCHANGED <<leaseNode, lapsed, log, liveJobs, memoryVars, counterVars, target, pc, sawTerminal, aborting>>

\* reconcileStartupState, run by the constructor before any call is served.
\* The nodes in stale have not been seen for the staleness threshold.
ReconcileStartupState(stale) ==
  /\ ~up
  /\ up' = TRUE
  /\ status' = [j \in Jobs |-> IF status[j] \in Open THEN "failed" ELSE status[j]]
  /\ lease' = [j \in Jobs |-> IF ExpireActiveLeases[j] = "active" /\ status'[j] \in Terminal
                                THEN "released" ELSE ExpireActiveLeases[j]]
  /\ nodeState' = [n \in Nodes |-> IF n \in stale THEN "offline" ELSE nodeState[n]]
  /\ UNCHANGED <<leaseNode, lapsed, log, liveJobs, memoryVars, counterVars, target, pc, sawTerminal, aborting>>

-----------------------------------------------------------------------------
TimePasses(j) ==
  /\ lapses < MaxLapses
  /\ lapses' = lapses + 1
  /\ LapseLease(j)
  /\ UNCHANGED <<recordVars, memoryVars, crashes, target, pc, sawTerminal, aborting, up>>

RegistryChanges(n, s) ==
  /\ up
  /\ NodeChanges(n, s)
  /\ UNCHANGED <<recordVars, memoryVars, counterVars, target, pc, sawTerminal, aborting, up>>

Submit(j) ==
  SubmitLocal(j) \/ SubmitRejected(j) \/ SubmitRemote(j) \/ SubmitUnexecutable(j)

LocalStep(j) ==
  \/ \E event \in LocalEvents : StreamEvent(j, event) \/ StreamAbortReturns(j, event)
  \/ StreamAbort(j) \/ StreamEnds(j) \/ StreamThrows(j)

RemoteStep(j) ==
  \/ StartResolves(j) \/ RunResolves(j) \/ RunProgress(j) \/ LateAbortReturns(j)
  \/ \E event \in LocalEvents : SandboxEvent(j, event)
  \/ SandboxReturns(j) \/ RemoteThrows(j)

AbortStep(j) ==
  \/ AbortUnreachable(j) \/ AbortSend(j)
  \/ RemoteAbortReturns(j) \/ RemoteAbortThrows(j)
  \/ LocalAbortReturns(j) \/ LocalAbortThrows(j)

CrashStep ==
  \/ Crash
  \/ \E j \in Jobs : \E t \in {"local", "remote"} : CrashInSubmit(j, t)
  \/ \E j \in Jobs, s \in Terminal : CrashInPersist(j, s)

Next ==
  \/ \E j \in Jobs : Submit(j) \/ LocalStep(j) \/ RemoteStep(j) \/ AbortStep(j) \/ TimePasses(j)
  \/ CrashStep
  \/ \E stale \in SUBSET Nodes : ReconcileStartupState(stale)
  \/ \E n \in Nodes, s \in NodeState : RegistryChanges(n, s)

Spec == Init /\ [][Next]_vars

(***************************************************************************)
(* Fairness: the event loop runs every settled continuation, so each await *)
(* is left once the call behind it settles.  That the calls do settle is   *)
(* an assumption on Intern, the nodes and the sandboxes: the service sets  *)
(* no timeout on any of them.  A crashed process is restarted.             *)
(***************************************************************************)
LocalSettles(j) ==
  \/ \E event \in LocalEvents : StreamAbortReturns(j, event)
  \/ StreamEnds(j) \/ StreamThrows(j)

RemoteSettles(j) ==
  \/ StartResolves(j) \/ RunResolves(j) \/ LateAbortReturns(j) \/ SandboxReturns(j) \/ RemoteThrows(j)

AbortSettles(j) ==
  \/ RemoteAbortReturns(j) \/ RemoteAbortThrows(j) \/ LocalAbortReturns(j) \/ LocalAbortThrows(j)

Restart == \E stale \in SUBSET Nodes : ReconcileStartupState(stale)

Fairness ==
  /\ \A j \in Jobs : WF_vars(LocalSettles(j)) /\ WF_vars(RemoteSettles(j)) /\ WF_vars(AbortSettles(j))
  /\ WF_vars(Restart)

FairSpec == Spec /\ Fairness

-----------------------------------------------------------------------------
(* Properties. *)

(***************************************************************************)
(* The durable history never contradicts the job row: job_events holds at  *)
(* most one terminal event of a job and, if it holds one, the row carries  *)
(* that outcome, although results, errors and aborts of the same job race  *)
(* and the process can die between the two writes (persistLiveJobState,    *)
(* persistDurableEvent).                                                   *)
(***************************************************************************)
LogMatchesOutcome ==
  \A j \in Jobs : log[j] # <<>> => status[j] \in Terminal /\ log[j] = <<status[j]>>

(***************************************************************************)
(* A cached job in liveJobs agrees with its row, although attachLease, the *)
(* startup reconciliation and rehydration after a terminal event touch     *)
(* only one of the two: applyEvent decides on the cached status.           *)
(***************************************************************************)
CacheCoherent ==
  \A j \in Jobs : liveJobs[j] # "absent" => liveJobs[j] = status[j]

(***************************************************************************)
(* Capacity is never lost: while the service runs, every active lease      *)
(* belongs to a job whose coroutine still holds the node and will reach    *)
(* its finally block, on every path through abort, error and restart.      *)
(***************************************************************************)
NoOrphanLease ==
  up => \A j \in Jobs : lease[j] = "active" => pc[j] \in InFlight

(***************************************************************************)
(* No job is abandoned: when the coroutine of a job has ended, the job is  *)
(* terminal or an abort call that will make it terminal is still in        *)
(* flight.  runRemoteTask's catch block drops an error whenever the job is *)
(* marked in pendingAbortJobs, relying on exactly this.                    *)
(***************************************************************************)
NeverAbandoned ==
  up => \A j \in Jobs :
          pc[j] = "done" => status[j] \in Terminal \/ (aborting[j] > 0 /\ target[j] = "remote")

(***************************************************************************)
(* A mark in pendingAbortJobs never outlives its reason while the job is   *)
(* open: it would swallow a later failure of the job (runRemoteTask's      *)
(* catch) although nobody is aborting it any more.                         *)
(***************************************************************************)
AbortMarkJustified ==
  \A j \in pendingAbortJobs : status[j] \in Terminal \/ (aborting[j] > 0 /\ target[j] = "remote")

(***************************************************************************)
(* What the process remembers of its jobs is right: a cached job agrees    *)
(* with its row, and a mark in pendingAbortJobs does not outlive its       *)
(* abort (applyEvent decides by the one, runRemoteTask by the other).      *)
(***************************************************************************)
MemoryFitsRecord == TypeOK /\ CacheCoherent /\ AbortMarkJustified

(***************************************************************************)
(* The inductive invariant behind the properties above.  Besides them it   *)
(* says that a stopped process has no memory, that a job has a row exactly *)
(* when its coroutine has been started, that each coroutine belongs to the *)
(* job's execution target, that a run handle is held only between          *)
(* startExecution and the finally block, and that a terminal event seen by *)
(* a coroutine has made its job terminal.                                  *)
(***************************************************************************)
StoppedHasNoMemory ==
  ~up => /\ memoryVars = <<{}, {}, {}>>
         /\ \A j \in Jobs : /\ liveJobs[j] = "absent"
                            /\ aborting[j] = 0
                            /\ pc[j] \in {"idle", "done"}

CoroutineConsistent ==
  \A j \in Jobs :
    /\ pc[j] = "idle" <=> status[j] = "none"
    /\ pc[j] \in InFlight => target[j] = "remote"
    /\ pc[j] \in {"streaming", "streamAbort"} => target[j] = "local"
    /\ j \in activeRemoteRuns => pc[j] \in {"running", "lateAbort"}
    /\ sawTerminal[j] => status[j] \in Terminal
    /\ aborting[j] > 0 \/ lease[j] # "none" => status[j] # "none"

IInv ==
  /\ TypeOK
  /\ LeasesWithinCapacity
  /\ LogMatchesOutcome
  /\ CacheCoherent
  /\ NoOrphanLease
  /\ NeverAbandoned
  /\ AbortMarkJustified
  /\ StoppedHasNoMemory
  /\ CoroutineConsistent

(***************************************************************************)
(* Across every step, crash and restart included, a terminal status stays  *)
(* what it is: the first outcome wins (applyEvent, finalizeAbort,          *)
(* finalizeUnexpectedEof, attachLease, reconcileStartupState).             *)
(***************************************************************************)
TerminalIsFinal ==
  [][\A j \in Jobs : status[j] \in Terminal => status'[j] = status[j]]_vars

(***************************************************************************)
(* The job table and the job events implement the abstract job record.     *)
(***************************************************************************)
Stage(s) ==
  CASE s = "none" -> "absent"
    [] s \in {"pending", "scheduled"} -> "queued"
    [] s = "running" -> "active"
    [] OTHER -> s

Record == INSTANCE JobRecord WITH stage <- [j \in Jobs |-> Stage(status[j])], history <- log

ImplementsRecord == Record!Spec

(***************************************************************************)
(* Every accepted job reaches a terminal status, whatever aborts, errors   *)
(* and crashes do, if every external call eventually settles.              *)
(***************************************************************************)
EveryJobSettles ==
  \A j \in Jobs : status[j] \in Open ~> status[j] \in Terminal
=============================================================================
