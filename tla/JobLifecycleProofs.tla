------------------------- MODULE JobLifecycleProofs -------------------------
(***************************************************************************)
(* Proofs about JobLifecycle, for every set of jobs and nodes, every       *)
(* capacity and every bound.                                               *)
(***************************************************************************)
EXTENDS JobLifecycle, FiniteSetTheorems, TLAPS

(***************************************************************************)
(* Type correctness, one lemma per group of actions.                       *)
(***************************************************************************)
USE DEF Terminal, Open, Status, InFlight, Suspended, LeaseState, NodeState, LocalEvents

RecordTypeOK ==
  /\ status \in [Jobs -> Status]
  /\ log \in [Jobs -> Seq(Terminal)]
  /\ liveJobs \in [Jobs -> (Status \ {"none"}) \cup {"absent"}]

\* Writing an open job's new status keeps the record well-typed.
LEMMA PersistType ==
  ASSUME RecordTypeOK, NEW j \in Jobs, NEW s \in Status \ {"none"}, Persist(j, s)
  PROVE  RecordTypeOK'
BY DEF RecordTypeOK, Persist

\* Filling the cache keeps the record well-typed.
LEMMA HydrateType ==
  ASSUME RecordTypeOK, NEW j \in Jobs, status[j] # "none", Hydrate(j)
  PROVE  RecordTypeOK'
BY DEF RecordTypeOK, Hydrate, Cached

\* Applying an event keeps the record well-typed.
LEMMA ApplyType ==
  ASSUME RecordTypeOK, NEW j \in Jobs, status[j] # "none", NEW s \in Status \ {"none"}, Apply(j, s)
  PROVE  RecordTypeOK'
BY PersistType, HydrateType DEF Apply

\* Applying a stream event keeps the record well-typed.
LEMMA ApplyLocalType ==
  ASSUME RecordTypeOK, NEW j \in Jobs, status[j] # "none", NEW event \in LocalEvents, ApplyLocal(j, event)
  PROVE  RecordTypeOK'
BY ApplyType, HydrateType DEF ApplyLocal

\* The rest of the state.
ControlTypeOK ==
  /\ LeaseTypeOK
  /\ target \in [Jobs -> {"none", "local", "remote"}]
  /\ backendJobIds \in SUBSET Jobs
  /\ pendingAbortJobs \in SUBSET Jobs
  /\ activeRemoteRuns \in SUBSET Jobs
  /\ pc \in [Jobs -> Suspended \cup {"idle", "done"}]
  /\ sawTerminal \in [Jobs -> BOOLEAN]
  /\ aborting \in [Jobs -> 0..MaxAborts]
  /\ up \in BOOLEAN
  /\ lapses \in 0..MaxLapses
  /\ crashes \in 0..MaxCrashes

\* Type correctness is that of the record and that of everything else.
LEMMA TypeSplit == TypeOK <=> RecordTypeOK /\ ControlTypeOK
BY DEF TypeOK, RecordTypeOK, ControlTypeOK

\* A submission keeps every variable well-typed.
LEMMA SubmitType ==
  ASSUME TypeOK, NEW j \in Jobs, Submit(j)
  PROVE  TypeOK'
<1> SUFFICES RecordTypeOK' /\ ControlTypeOK'
  BY TypeSplit DEF TypeOK, RecordTypeOK, ControlTypeOK, LeaseTypeOK
<1>1. RecordTypeOK /\ ControlTypeOK
  BY TypeSplit
<1>2. CASE SubmitLocal(j)
  BY <1>1, <1>2, PersistType DEF SubmitLocal, Accept, Suspend, ControlTypeOK, LeaseTypeOK, memoryVars, counterVars
<1>3. CASE SubmitRejected(j)
  BY <1>1, <1>3, PersistType
  DEF SubmitRejected, Accept, Suspend, ControlTypeOK, LeaseTypeOK, memoryVars, counterVars, ExpireActiveLeases
<1>4. CASE SubmitRemote(j)
  BY <1>1, <1>4, PersistType
  DEF SubmitRemote, Accept, Suspend, ControlTypeOK, LeaseTypeOK, memoryVars, counterVars, IssueLease, ExpireActiveLeases, Candidates
<1>5. CASE SubmitUnexecutable(j)
  BY <1>1, <1>5, PersistType
  DEF SubmitUnexecutable, Accept, Suspend, ControlTypeOK, LeaseTypeOK, memoryVars, counterVars, ExpireActiveLeases, Candidates
<1> QED BY <1>2, <1>3, <1>4, <1>5 DEF Submit

\* A step of runLocalTurn keeps every variable well-typed.
LEMMA LocalStepType ==
  ASSUME TypeOK, CoroutineConsistent, NEW j \in Jobs, LocalStep(j)
  PROVE  TypeOK'
<1> SUFFICES RecordTypeOK' /\ ControlTypeOK'
  BY DEF TypeOK, RecordTypeOK, ControlTypeOK, LeaseTypeOK
<1>1. RecordTypeOK /\ ControlTypeOK
  BY TypeSplit
<1> USE DEF ControlTypeOK, LeaseTypeOK, leaseVars, counterVars, memoryVars
<1>2. ASSUME NEW event \in LocalEvents, StreamEvent(j, event)
      PROVE  RecordTypeOK' /\ ControlTypeOK'
  BY <1>1, <1>2, ApplyLocalType DEF StreamEvent, ApplyLocal, CoroutineConsistent
<1>3. ASSUME NEW event \in LocalEvents, StreamAbortReturns(j, event)
      PROVE  RecordTypeOK' /\ ControlTypeOK'
  BY <1>1, <1>3, ApplyLocalType DEF StreamAbortReturns, ApplyLocal, Suspend, CoroutineConsistent
<1>4. CASE StreamAbort(j)
  BY <1>1, <1>4 DEF StreamAbort, Suspend, RecordTypeOK, recordVars
<1>5. CASE StreamEnds(j)
  BY <1>1, <1>5, ApplyType, ZenonT(30) DEF StreamEnds, Suspend, RecordTypeOK, recordVars, CoroutineConsistent
<1>6. CASE StreamThrows(j)
  BY <1>1, <1>6, ApplyType DEF StreamThrows, Suspend, CoroutineConsistent
<1> QED BY <1>2, <1>3, <1>4, <1>5, <1>6 DEF LocalStep

\* The finally block of runRemoteTask keeps the control variables well-typed.
LEMMA RemoteReturnType ==
  ASSUME ControlTypeOK, NEW j \in Jobs, RemoteReturn(j),
         pendingAbortJobs' \in SUBSET Jobs, UNCHANGED sawTerminal
  PROVE  ControlTypeOK'
BY DEF RemoteReturn, FinalizeRemoteRun, ReleaseLease, Suspend, ControlTypeOK, LeaseTypeOK, counterVars

\* A step of runRemoteTask keeps every variable well-typed.
LEMMA RemoteStepType ==
  ASSUME TypeOK, CoroutineConsistent, NEW j \in Jobs, RemoteStep(j)
  PROVE  TypeOK'
<1> SUFFICES RecordTypeOK' /\ ControlTypeOK'
  BY DEF TypeOK, RecordTypeOK, ControlTypeOK, LeaseTypeOK
<1>1. RecordTypeOK /\ ControlTypeOK
  BY TypeSplit
<1>2. pc[j] \in InFlight => status[j] # "none"
  BY DEF CoroutineConsistent
<1>3. CASE StartResolves(j)
  BY <1>1, <1>2, <1>3, ApplyType
  DEF StartResolves, Suspend, ControlTypeOK, LeaseTypeOK, leaseVars, counterVars
<1>4. CASE RunResolves(j)
  BY <1>1, <1>2, <1>4, ApplyType, RemoteReturnType DEF RunResolves, ControlTypeOK
<1>5. CASE RunProgress(j)
  BY <1>1, <1>2, <1>5, HydrateType
  DEF RunProgress, ControlTypeOK, LeaseTypeOK, leaseVars, counterVars, memoryVars
<1>6. CASE LateAbortReturns(j)
  BY <1>1, <1>2, <1>6, ApplyType, RemoteReturnType DEF LateAbortReturns, ControlTypeOK
<1>7. ASSUME NEW event \in LocalEvents, SandboxEvent(j, event)
      PROVE  RecordTypeOK' /\ ControlTypeOK'
  BY <1>1, <1>2, <1>7, ApplyLocalType
  DEF SandboxEvent, ApplyLocal, ControlTypeOK, LeaseTypeOK, leaseVars, counterVars, memoryVars
<1>8. CASE SandboxReturns(j)
  BY <1>1, <1>2, <1>8, ApplyType, RemoteReturnType DEF SandboxReturns, ControlTypeOK, RecordTypeOK, recordVars
<1>9. CASE RemoteThrows(j)
  BY <1>1, <1>2, <1>9, ApplyType, RemoteReturnType
  DEF RemoteThrows, RemoteCatch, ControlTypeOK, RecordTypeOK, recordVars
<1> QED BY <1>3, <1>4, <1>5, <1>6, <1>7, <1>8, <1>9 DEF RemoteStep

\* A step of abortJob keeps every variable well-typed.
LEMMA AbortStepType ==
  ASSUME TypeOK, CoroutineConsistent, NEW j \in Jobs, AbortStep(j)
  PROVE  TypeOK'
<1> SUFFICES RecordTypeOK' /\ ControlTypeOK'
  BY DEF TypeOK, RecordTypeOK, ControlTypeOK, LeaseTypeOK
<1>1. RecordTypeOK /\ ControlTypeOK
  BY TypeSplit
<1> USE JobAssumption DEF ControlTypeOK, LeaseTypeOK, counterVars, ReleaseLease
<1>2. CASE AbortUnreachable(j)
  BY <1>1, <1>2, ApplyType DEF AbortUnreachable
<1>3. CASE AbortSend(j)
  BY <1>1, <1>3 DEF AbortSend, RecordTypeOK, recordVars, leaseVars
<1>4. aborting[j] > 0 => status[j] # "none"
  BY DEF CoroutineConsistent
<1>5. CASE RemoteAbortReturns(j)
  BY <1>1, <1>4, <1>5, ApplyType DEF RemoteAbortReturns, AbortOver, FinalizeRemoteRun
<1>6. CASE RemoteAbortThrows(j)
  BY <1>1, <1>4, <1>6, ApplyType DEF RemoteAbortThrows, AbortOver, FinalizeRemoteRun
<1>7. CASE LocalAbortReturns(j)
  BY <1>1, <1>4, <1>7, ApplyType DEF LocalAbortReturns, AbortOver
<1>8. CASE LocalAbortThrows(j)
  BY <1>1, <1>4, <1>8 DEF LocalAbortThrows, AbortOver, RecordTypeOK, recordVars
<1> QED BY <1>2, <1>3, <1>5, <1>6, <1>7, <1>8 DEF AbortStep

\* Losing the memory keeps every variable well-typed.
LEMMA LoseMemoryType ==
  ASSUME TypeOK, LoseMemory,
         status' \in [Jobs -> Status], log' \in [Jobs -> Seq(Terminal)],
         target' \in [Jobs -> {"none", "local", "remote"}],
         pc' \in [Jobs -> Suspended \cup {"idle", "done"}]
  PROVE  TypeOK'
<1>1. LeaseTypeOK'
  BY DEF TypeOK, LoseMemory, LeaseTypeOK, leaseVars
<1>2. liveJobs' \in [Jobs -> (Status \ {"none"}) \cup {"absent"}]
  BY DEF LoseMemory
<1>3. sawTerminal' \in [Jobs -> BOOLEAN] /\ up' \in BOOLEAN
  BY DEF LoseMemory
<1>4. aborting' \in [Jobs -> 0..MaxAborts]
  BY JobAssumption DEF LoseMemory
<1>5. lapses' \in 0..MaxLapses /\ crashes' \in 0..MaxCrashes
  BY JobAssumption DEF TypeOK, LoseMemory
<1>6. backendJobIds' \in SUBSET Jobs /\ pendingAbortJobs' \in SUBSET Jobs /\ activeRemoteRuns' \in SUBSET Jobs
  BY DEF LoseMemory
<1> QED BY <1>1, <1>2, <1>3, <1>4, <1>5, <1>6 DEF TypeOK

\* A crash keeps every variable well-typed.
LEMMA CrashStepType ==
  ASSUME TypeOK, CrashStep
  PROVE  TypeOK'
<1>1. CASE Crash
  BY <1>1, LoseMemoryType DEF Crash, TypeOK
<1>2. ASSUME NEW j \in Jobs, NEW t \in {"local", "remote"}, CrashInSubmit(j, t)
      PROVE  TypeOK'
  BY <1>2, LoseMemoryType DEF CrashInSubmit, TypeOK
<1>3. ASSUME NEW j \in Jobs, NEW s \in Terminal, CrashInPersist(j, s)
      PROVE  TypeOK'
  BY <1>3, LoseMemoryType DEF CrashInPersist, TypeOK
<1> QED BY <1>1, <1>2, <1>3 DEF CrashStep

\* The startup repair keeps every variable well-typed.
LEMMA RestartType ==
  ASSUME TypeOK, NEW stale \in SUBSET Nodes, ReconcileStartupState(stale)
  PROVE  TypeOK'
<1>1. ExpireActiveLeases \in [Jobs -> LeaseState]
  BY DEF TypeOK, LeaseTypeOK, ExpireActiveLeases
<1> QED BY <1>1 DEF ReconcileStartupState, TypeOK, LeaseTypeOK, counterVars, memoryVars

\* A lease that lapses keeps every variable well-typed.
LEMMA TimeType ==
  ASSUME TypeOK, NEW j \in Jobs, TimePasses(j)
  PROVE  TypeOK'
BY JobAssumption DEF TimePasses, LapseLease, TypeOK, LeaseTypeOK, recordVars, memoryVars

\* A change of a node keeps every variable well-typed.
LEMMA RegistryType ==
  ASSUME TypeOK, NEW n \in Nodes, NEW s \in NodeState, RegistryChanges(n, s)
  PROVE  TypeOK'
BY DEF RegistryChanges, NodeChanges, TypeOK, LeaseTypeOK, recordVars, memoryVars, counterVars

\* Stuttering keeps every variable well-typed.
LEMMA StutterType ==
  ASSUME TypeOK, UNCHANGED vars
  PROVE  TypeOK'
BY DEF vars, leaseVars, recordVars, memoryVars, counterVars, TypeOK, LeaseTypeOK

\* Every step keeps every variable well-typed.
LEMMA NextType ==
  ASSUME TypeOK, CoroutineConsistent, [Next]_vars
  PROVE  TypeOK'
BY SubmitType, LocalStepType, RemoteStepType, AbortStepType, CrashStepType, RestartType, TimeType, RegistryType,
   StutterType
DEF Next

-----------------------------------------------------------------------------
(***************************************************************************)
(* The job record: what one event does to it, given that cache, row and    *)
(* history agree.                                                          *)
(***************************************************************************)
RecordInv == RecordTypeOK /\ CacheCoherent /\ LogMatchesOutcome

\* Filling the cache keeps the record consistent and the status as it is.
LEMMA HydrateEffect ==
  ASSUME RecordInv, NEW j \in Jobs, status[j] # "none", Hydrate(j)
  PROVE  RecordInv' /\ UNCHANGED status
BY HydrateType DEF RecordInv, RecordTypeOK, CacheCoherent, LogMatchesOutcome, Hydrate, Cached

\* Writing an open job's status keeps log, row and cache consistent.
LEMMA PersistEffect ==
  ASSUME RecordInv, NEW j \in Jobs, NEW s \in Status \ {"none"}, Persist(j, s), status[j] \notin Terminal
  PROVE  RecordInv' /\ status' = [status EXCEPT ![j] = s]
<1>1. RecordTypeOK'
  BY PersistType DEF RecordInv
<1>2. CacheCoherent'
  BY DEF RecordInv, RecordTypeOK, CacheCoherent, Persist
<1>3. LogMatchesOutcome'
  <2>1. log[j] = <<>>
    BY DEF RecordInv, LogMatchesOutcome
  <2> QED BY <2>1 DEF RecordInv, RecordTypeOK, LogMatchesOutcome, Persist
<1> QED BY <1>1, <1>2, <1>3 DEF RecordInv, Persist

\* Applying an event keeps the record consistent and never moves a terminal job.
LEMMA ApplyEffect ==
  ASSUME RecordInv, NEW j \in Jobs, status[j] # "none", NEW s \in Status \ {"none"}, Apply(j, s)
  PROVE  /\ RecordInv'
         /\ status[j] \in Terminal => status' = status
         /\ status[j] \notin Terminal => status' = [status EXCEPT ![j] = s]
<1>1. Cached(j) = status[j]
  BY DEF RecordInv, RecordTypeOK, CacheCoherent, Cached
<1> QED BY <1>1, HydrateEffect, PersistEffect DEF Apply

\* A step that leaves the record alone keeps it consistent.
LEMMA RecordStutter ==
  ASSUME RecordInv, UNCHANGED recordVars
  PROVE  RecordInv' /\ UNCHANGED status
BY DEF RecordInv, RecordTypeOK, CacheCoherent, LogMatchesOutcome, recordVars

\* Applying a stream event keeps the record consistent, and a terminal event ends the job.
LEMMA ApplyLocalEffect ==
  ASSUME RecordInv, NEW j \in Jobs, status[j] # "none", NEW event \in LocalEvents, ApplyLocal(j, event)
  PROVE  /\ RecordInv'
         /\ status[j] \in Terminal => status' = status
         /\ status[j] \notin Terminal =>
              status' = IF event = "other" THEN status ELSE [status EXCEPT ![j] = event]
         /\ sawTerminal' = [sawTerminal EXCEPT ![j] = @ \/ event \in Terminal]
BY HydrateEffect, ApplyEffect DEF ApplyLocal

-----------------------------------------------------------------------------
(***************************************************************************)
(* The coroutines, the marks and the leases, job by job.                   *)
(***************************************************************************)
JobInv(j) ==
  /\ up /\ lease[j] = "active" => pc[j] \in InFlight
  /\ up /\ pc[j] = "done" => status[j] \in Terminal \/ (aborting[j] > 0 /\ target[j] = "remote")
  /\ j \in pendingAbortJobs => status[j] \in Terminal \/ (aborting[j] > 0 /\ target[j] = "remote")
  /\ pc[j] = "idle" <=> status[j] = "none"
  /\ pc[j] \in InFlight => target[j] = "remote"
  /\ pc[j] \in {"streaming", "streamAbort"} => target[j] = "local"
  /\ j \in activeRemoteRuns => pc[j] \in {"running", "lateAbort"}
  /\ sawTerminal[j] => status[j] \in Terminal
  /\ aborting[j] > 0 \/ lease[j] # "none" => status[j] # "none"

ControlInv == StoppedHasNoMemory /\ \A j \in Jobs : JobInv(j)

\* The control invariant is the conjunction of the named properties, job by job.
LEMMA ControlSplit ==
  ASSUME TypeOK
  PROVE  ControlInv <=> /\ NoOrphanLease /\ NeverAbandoned /\ AbortMarkJustified
                        /\ StoppedHasNoMemory /\ CoroutineConsistent
<1>1. pendingAbortJobs \subseteq Jobs
  BY DEF TypeOK
<1> QED BY <1>1 DEF ControlInv, JobInv, NoOrphanLease, NeverAbandoned, AbortMarkJustified, CoroutineConsistent

\* A step leaves the other jobs alone, except that their leases may end.
Frame(i) ==
  /\ status'[i] = status[i]
  /\ pc'[i] = pc[i]
  /\ target'[i] = target[i]
  /\ aborting'[i] = aborting[i]
  /\ sawTerminal'[i] = sawTerminal[i]
  /\ i \in pendingAbortJobs' <=> i \in pendingAbortJobs
  /\ i \in activeRemoteRuns' <=> i \in activeRemoteRuns
  /\ lease'[i] = lease[i] \/ (lease[i] # "none" /\ lease'[i] # "active")

\* A step of one job only has to keep the invariant of that job.
LEMMA FrameInv ==
  ASSUME ControlInv, up, up', NEW j \in Jobs, \A i \in Jobs \ {j} : Frame(i), JobInv(j)'
  PROVE  ControlInv'
<1>1. ASSUME NEW i \in Jobs \ {j}
      PROVE  JobInv(i)'
  BY DEF ControlInv, JobInv, Frame
<1> QED BY <1>1 DEF ControlInv, StoppedHasNoMemory

\* A submission keeps the invariant.
LEMMA SubmitInv ==
  ASSUME TypeOK, RecordInv, ControlInv, NEW j \in Jobs, Submit(j)
  PROVE  RecordInv' /\ ControlInv'
<1> USE DEF Accept, Suspend, memoryVars, counterVars
<1>0. JobInv(j) /\ up /\ status[j] = "none"
  BY DEF ControlInv, Submit, SubmitLocal, SubmitRejected, SubmitRemote, SubmitUnexecutable
<1>1. CASE SubmitLocal(j)
  <2>1. RecordInv' /\ status' = [status EXCEPT ![j] = "scheduled"]
    BY <1>0, <1>1, PersistEffect DEF SubmitLocal
  <2>2. \A i \in Jobs \ {j} : Frame(i)
    BY <1>1, <2>1 DEF Frame, TypeOK, LeaseTypeOK, SubmitLocal
  <2>3. JobInv(j)'
    BY <1>0, <1>1, <2>1 DEF JobInv, TypeOK, LeaseTypeOK, SubmitLocal
  <2>4. up'
    BY <1>0, <1>1 DEF SubmitLocal
  <2> QED BY <1>0, <2>1, <2>2, <2>3, <2>4, FrameInv
<1>2. CASE SubmitRejected(j)
  <2>1. RecordInv' /\ status' = [status EXCEPT ![j] = "failed"]
    BY <1>0, <1>2, PersistEffect DEF SubmitRejected
  <2>2. \A i \in Jobs \ {j} : Frame(i)
    BY <1>2, <2>1 DEF Frame, TypeOK, LeaseTypeOK, SubmitRejected, ExpireActiveLeases
  <2>3. JobInv(j)'
    BY <1>0, <1>2, <2>1 DEF JobInv, TypeOK, LeaseTypeOK, SubmitRejected, ExpireActiveLeases
  <2>4. up'
    BY <1>0, <1>2 DEF SubmitRejected, ExpireActiveLeases
  <2> QED BY <1>0, <2>1, <2>2, <2>3, <2>4, FrameInv
<1>3. CASE SubmitRemote(j)
  <2>1. RecordInv' /\ (status' = [status EXCEPT ![j] = "running"] \/ status' = [status EXCEPT ![j] = "scheduled"])
    BY <1>0, <1>3, PersistEffect DEF SubmitRemote
  <2>2. \A i \in Jobs \ {j} : Frame(i)
    BY <1>3, <2>1 DEF Frame, TypeOK, LeaseTypeOK, SubmitRemote, IssueLease, ExpireActiveLeases
  <2>3. JobInv(j)'
    BY <1>0, <1>3, <2>1 DEF JobInv, TypeOK, LeaseTypeOK, SubmitRemote, IssueLease, ExpireActiveLeases
  <2>4. up'
    BY <1>0, <1>3 DEF SubmitRemote, IssueLease, ExpireActiveLeases
  <2> QED BY <1>0, <2>1, <2>2, <2>3, <2>4, FrameInv
<1>4. CASE SubmitUnexecutable(j)
  <2>1. RecordInv' /\ status' = [status EXCEPT ![j] = "failed"]
    BY <1>0, <1>4, PersistEffect DEF SubmitUnexecutable
  <2>2. \A i \in Jobs \ {j} : Frame(i)
    BY <1>4, <2>1 DEF Frame, TypeOK, LeaseTypeOK, SubmitUnexecutable, ExpireActiveLeases
  <2>3. JobInv(j)'
    BY <1>0, <1>4, <2>1 DEF JobInv, TypeOK, LeaseTypeOK, SubmitUnexecutable, ExpireActiveLeases
  <2>4. up'
    BY <1>0, <1>4 DEF SubmitUnexecutable, ExpireActiveLeases
  <2> QED BY <1>0, <2>1, <2>2, <2>3, <2>4, FrameInv
<1> QED BY <1>1, <1>2, <1>3, <1>4 DEF Submit

\* A step of runLocalTurn keeps the invariant.
LEMMA LocalStepInv ==
  ASSUME TypeOK, RecordInv, ControlInv, NEW j \in Jobs, LocalStep(j)
  PROVE  RecordInv' /\ ControlInv'
<1> USE DEF Suspend, memoryVars, counterVars, leaseVars
<1>0. JobInv(j) /\ up /\ status[j] # "none" /\ pc[j] \in {"streaming", "streamAbort"}
  BY DEF ControlInv, StoppedHasNoMemory, JobInv, LocalStep, StreamEvent, StreamAbortReturns, StreamAbort, StreamEnds, StreamThrows
<1>1. ASSUME NEW event \in LocalEvents, StreamEvent(j, event)
      PROVE  RecordInv' /\ ControlInv'
  <2>1. RecordInv' /\ (IF status[j] \in Terminal \/ event = "other" THEN status' = status
                         ELSE status' = [status EXCEPT ![j] = event])
                   /\ sawTerminal' = [sawTerminal EXCEPT ![j] = @ \/ event \in Terminal]
    BY <1>0, <1>1, ApplyLocalEffect DEF StreamEvent
  <2>2. \A i \in Jobs \ {j} : Frame(i)
    BY <1>1, <2>1 DEF Frame, TypeOK, LeaseTypeOK, StreamEvent
  <2>3. JobInv(j)'
    BY <1>0, <1>1, <2>1 DEF JobInv, TypeOK, LeaseTypeOK, StreamEvent
  <2>4. up'
    BY <1>0, <1>1 DEF StreamEvent
  <2> QED BY <1>0, <2>1, <2>2, <2>3, <2>4, FrameInv
<1>2. ASSUME NEW event \in LocalEvents, StreamAbortReturns(j, event)
      PROVE  RecordInv' /\ ControlInv'
  <2>1. RecordInv' /\ (IF status[j] \in Terminal \/ event = "other" THEN status' = status
                         ELSE status' = [status EXCEPT ![j] = event])
                   /\ sawTerminal' = [sawTerminal EXCEPT ![j] = @ \/ event \in Terminal]
    BY <1>0, <1>2, ApplyLocalEffect DEF StreamAbortReturns
  <2>2. \A i \in Jobs \ {j} : Frame(i)
    BY <1>2, <2>1 DEF Frame, TypeOK, LeaseTypeOK, StreamAbortReturns
  <2>3. JobInv(j)'
    BY <1>0, <1>2, <2>1 DEF JobInv, TypeOK, LeaseTypeOK, StreamAbortReturns
  <2>4. up'
    BY <1>0, <1>2 DEF StreamAbortReturns
  <2> QED BY <1>0, <2>1, <2>2, <2>3, <2>4, FrameInv
<1>3. CASE StreamAbort(j)
  <2>1. RecordInv' /\ status' = status
    BY <1>0, <1>3, RecordStutter DEF StreamAbort
  <2>2. \A i \in Jobs \ {j} : Frame(i)
    BY <1>3, <2>1 DEF Frame, TypeOK, LeaseTypeOK, StreamAbort
  <2>3. JobInv(j)'
    BY <1>0, <1>3, <2>1 DEF JobInv, TypeOK, LeaseTypeOK, StreamAbort
  <2>4. up'
    BY <1>0, <1>3 DEF StreamAbort
  <2> QED BY <1>0, <2>1, <2>2, <2>3, <2>4, FrameInv
<1>4. CASE StreamEnds(j)
  <2>1. RecordInv' /\ (IF status[j] \in Terminal THEN status' = status
                                               ELSE status' = [status EXCEPT ![j] = "failed"])
    <3>1. CASE sawTerminal[j]
      BY <1>0, <1>4, <3>1, RecordStutter DEF StreamEnds, JobInv
    <3>2. CASE ~sawTerminal[j]
      BY <1>0, <1>4, <3>2, ApplyEffect DEF StreamEnds
    <3> QED BY <3>1, <3>2
  <2>2. \A i \in Jobs \ {j} : Frame(i)
    BY <1>4, <2>1 DEF Frame, TypeOK, LeaseTypeOK, StreamEnds
  <2>3. JobInv(j)'
    BY <1>0, <1>4, <2>1 DEF JobInv, TypeOK, LeaseTypeOK, StreamEnds
  <2>4. up'
    BY <1>0, <1>4 DEF StreamEnds
  <2> QED BY <1>0, <2>1, <2>2, <2>3, <2>4, FrameInv
<1>5. CASE StreamThrows(j)
  <2>1. RecordInv' /\ (IF status[j] \in Terminal THEN status' = status
                                               ELSE status' = [status EXCEPT ![j] = "failed"])
    BY <1>0, <1>5, ApplyEffect DEF StreamThrows
  <2>2. \A i \in Jobs \ {j} : Frame(i)
    BY <1>5, <2>1 DEF Frame, TypeOK, LeaseTypeOK, StreamThrows
  <2>3. JobInv(j)'
    BY <1>0, <1>5, <2>1 DEF JobInv, TypeOK, LeaseTypeOK, StreamThrows
  <2>4. up'
    BY <1>0, <1>5 DEF StreamThrows
  <2> QED BY <1>0, <2>1, <2>2, <2>3, <2>4, FrameInv
<1> QED BY <1>1, <1>2, <1>3, <1>4, <1>5 DEF LocalStep

\* A step of runRemoteTask keeps the invariant.
LEMMA RemoteStepInv ==
  ASSUME TypeOK, RecordInv, ControlInv, NEW j \in Jobs, RemoteStep(j)
  PROVE  RecordInv' /\ ControlInv'
<1> USE DEF Suspend, memoryVars, counterVars, leaseVars
<1>0. JobInv(j) /\ up /\ status[j] # "none" /\ pc[j] \in InFlight
  BY DEF ControlInv, StoppedHasNoMemory, JobInv, RemoteStep, StartResolves, RunResolves, RunProgress, LateAbortReturns,
         SandboxEvent, SandboxReturns, RemoteThrows
<1>1. CASE StartResolves(j)
  <2>1. RecordInv' /\ (IF status[j] \in Terminal THEN status' = status
                                               ELSE status' = [status EXCEPT ![j] = "running"])
    BY <1>0, <1>1, ApplyEffect DEF StartResolves
  <2>2. \A i \in Jobs \ {j} : Frame(i)
    BY <1>1, <2>1 DEF Frame, TypeOK, LeaseTypeOK, StartResolves
  <2>3. JobInv(j)'
    BY <1>0, <1>1, <2>1 DEF JobInv, TypeOK, LeaseTypeOK, StartResolves
  <2>4. up'
    BY <1>0, <1>1 DEF StartResolves
  <2> QED BY <1>0, <2>1, <2>2, <2>3, <2>4, FrameInv
<1>2. CASE RunResolves(j)
  <2>1. RecordInv' /\ (IF status[j] \in Terminal THEN status' = status
                                               ELSE status' = [status EXCEPT ![j] = "completed"])
    BY <1>0, <1>2, ApplyEffect DEF RunResolves
  <2>2. \A i \in Jobs \ {j} : Frame(i)
    BY <1>2, <2>1 DEF Frame, TypeOK, LeaseTypeOK, RunResolves, RemoteReturn, FinalizeRemoteRun, ReleaseLease
  <2>3. JobInv(j)'
    BY <1>0, <1>2, <2>1 DEF JobInv, TypeOK, LeaseTypeOK, RunResolves, RemoteReturn, FinalizeRemoteRun, ReleaseLease
  <2>4. up'
    BY <1>0, <1>2 DEF RunResolves, RemoteReturn, FinalizeRemoteRun, ReleaseLease
  <2> QED BY <1>0, <2>1, <2>2, <2>3, <2>4, FrameInv
<1>3. CASE RunProgress(j)
  <2>1. RecordInv' /\ status' = status
    BY <1>0, <1>3, HydrateEffect DEF RunProgress
  <2>2. \A i \in Jobs \ {j} : Frame(i)
    BY <1>3, <2>1 DEF Frame, TypeOK, LeaseTypeOK, RunProgress
  <2>3. JobInv(j)'
    BY <1>0, <1>3, <2>1 DEF JobInv, TypeOK, LeaseTypeOK, RunProgress
  <2>4. up'
    BY <1>0, <1>3 DEF RunProgress
  <2> QED BY <1>0, <2>1, <2>2, <2>3, <2>4, FrameInv
<1>4. CASE LateAbortReturns(j)
  <2>1. RecordInv' /\ (IF status[j] \in Terminal THEN status' = status
                                               ELSE status' = [status EXCEPT ![j] = "aborted"])
    BY <1>0, <1>4, ApplyEffect DEF LateAbortReturns
  <2>2. \A i \in Jobs \ {j} : Frame(i)
    BY <1>4, <2>1 DEF Frame, TypeOK, LeaseTypeOK, LateAbortReturns, RemoteReturn, FinalizeRemoteRun, ReleaseLease
  <2>3. JobInv(j)'
    BY <1>0, <1>4, <2>1 DEF JobInv, TypeOK, LeaseTypeOK, LateAbortReturns, RemoteReturn, FinalizeRemoteRun, ReleaseLease
  <2>4. up'
    BY <1>0, <1>4 DEF LateAbortReturns, RemoteReturn, FinalizeRemoteRun, ReleaseLease
  <2> QED BY <1>0, <2>1, <2>2, <2>3, <2>4, FrameInv
<1>5. ASSUME NEW event \in LocalEvents, SandboxEvent(j, event)
      PROVE  RecordInv' /\ ControlInv'
  <2>1. RecordInv' /\ (IF status[j] \in Terminal \/ event = "other" THEN status' = status
                         ELSE status' = [status EXCEPT ![j] = event])
                   /\ sawTerminal' = [sawTerminal EXCEPT ![j] = @ \/ event \in Terminal]
    BY <1>0, <1>5, ApplyLocalEffect DEF SandboxEvent
  <2>2. \A i \in Jobs \ {j} : Frame(i)
    BY <1>5, <2>1 DEF Frame, TypeOK, LeaseTypeOK, SandboxEvent
  <2>3. JobInv(j)'
    BY <1>0, <1>5, <2>1 DEF JobInv, TypeOK, LeaseTypeOK, SandboxEvent
  <2>4. up'
    BY <1>0, <1>5 DEF SandboxEvent
  <2> QED BY <1>0, <2>1, <2>2, <2>3, <2>4, FrameInv
<1>6. CASE SandboxReturns(j)
  <2>1. RecordInv' /\ (IF status[j] \in Terminal THEN status' = status
                                               ELSE status' = [status EXCEPT ![j] = "completed"])
    <3>1. CASE sawTerminal[j]
      BY <1>0, <1>6, <3>1, RecordStutter DEF SandboxReturns, JobInv
    <3>2. CASE ~sawTerminal[j]
      BY <1>0, <1>6, <3>2, ApplyEffect DEF SandboxReturns
    <3> QED BY <3>1, <3>2
  <2>2. \A i \in Jobs \ {j} : Frame(i)
    BY <1>6, <2>1 DEF Frame, TypeOK, LeaseTypeOK, SandboxReturns, RemoteReturn, FinalizeRemoteRun, ReleaseLease
  <2>3. JobInv(j)'
    BY <1>0, <1>6, <2>1 DEF JobInv, TypeOK, LeaseTypeOK, SandboxReturns, RemoteReturn, FinalizeRemoteRun, ReleaseLease
  <2>4. up'
    BY <1>0, <1>6 DEF SandboxReturns, RemoteReturn, FinalizeRemoteRun, ReleaseLease
  <2> QED BY <1>0, <2>1, <2>2, <2>3, <2>4, FrameInv
<1>7. CASE RemoteThrows(j)
  <2>1. RecordInv' /\ (IF j \in pendingAbortJobs \/ status[j] \in Terminal
                     THEN status' = status ELSE status' = [status EXCEPT ![j] = "failed"])
    BY <1>0, <1>7, RecordStutter, ApplyEffect DEF RemoteThrows, RemoteCatch
  <2>2. \A i \in Jobs \ {j} : Frame(i)
    BY <1>7, <2>1 DEF Frame, TypeOK, LeaseTypeOK, RemoteThrows, RemoteReturn, FinalizeRemoteRun, ReleaseLease
  <2>3. JobInv(j)'
    BY <1>0, <1>7, <2>1 DEF JobInv, TypeOK, LeaseTypeOK, RemoteThrows, RemoteReturn, FinalizeRemoteRun, ReleaseLease
  <2>4. up'
    BY <1>0, <1>7 DEF RemoteThrows, RemoteReturn, FinalizeRemoteRun, ReleaseLease
  <2> QED BY <1>0, <2>1, <2>2, <2>3, <2>4, FrameInv
<1> QED BY <1>1, <1>2, <1>3, <1>4, <1>5, <1>6, <1>7 DEF RemoteStep

\* A step of abortJob keeps the invariant.
LEMMA AbortStepInv ==
  ASSUME TypeOK, RecordInv, ControlInv, NEW j \in Jobs, AbortStep(j)
  PROVE  RecordInv' /\ ControlInv'
<1> USE JobAssumption DEF counterVars, leaseVars
<1>0. JobInv(j) /\ up /\ status[j] # "none"
  <2>1. up
    BY DEF ControlInv, StoppedHasNoMemory, AbortStep, AbortUnreachable, AbortSend, RemoteAbortReturns,
           RemoteAbortThrows, LocalAbortReturns, LocalAbortThrows, AbortOver
  <2>2. status[j] # "none"
    BY DEF ControlInv, JobInv, AbortStep, AbortUnreachable, AbortSend, RemoteAbortReturns,
           RemoteAbortThrows, LocalAbortReturns, LocalAbortThrows, AbortOver
  <2> QED BY <2>1, <2>2 DEF ControlInv
<1>1. CASE AbortUnreachable(j)
  <2>1. RecordInv' /\ (IF status[j] \in Terminal THEN status' = status
                                               ELSE status' = [status EXCEPT ![j] = "aborted"])
    BY <1>0, <1>1, ApplyEffect DEF AbortUnreachable
  <2>2. \A i \in Jobs \ {j} : Frame(i)
    BY <1>1, <2>1 DEF Frame, TypeOK, LeaseTypeOK, AbortUnreachable, ReleaseLease
  <2>3. JobInv(j)'
    BY <1>0, <1>1, <2>1 DEF JobInv, TypeOK, LeaseTypeOK, AbortUnreachable, ReleaseLease
  <2>4. up'
    BY <1>0, <1>1 DEF AbortUnreachable, ReleaseLease
  <2> QED BY <1>0, <2>1, <2>2, <2>3, <2>4, FrameInv
<1>2. CASE AbortSend(j)
  <2>1. RecordInv' /\ status' = status
    BY <1>0, <1>2, RecordStutter DEF AbortSend
  <2>2. \A i \in Jobs \ {j} : Frame(i)
    BY <1>2, <2>1 DEF Frame, TypeOK, LeaseTypeOK, AbortSend
  <2>3. JobInv(j)'
    BY <1>0, <1>2, <2>1 DEF JobInv, TypeOK, LeaseTypeOK, AbortSend
  <2>4. up'
    BY <1>0, <1>2 DEF AbortSend
  <2> QED BY <1>0, <2>1, <2>2, <2>3, <2>4, FrameInv
<1>3. CASE RemoteAbortReturns(j)
  <2>1. RecordInv' /\ (IF status[j] \in Terminal THEN status' = status
                                               ELSE status' = [status EXCEPT ![j] = "aborted"])
    BY <1>0, <1>3, ApplyEffect DEF RemoteAbortReturns
  <2>2. \A i \in Jobs \ {j} : Frame(i)
    BY <1>3, <2>1 DEF Frame, TypeOK, LeaseTypeOK, RemoteAbortReturns, AbortOver, FinalizeRemoteRun, ReleaseLease
  <2>3. JobInv(j)'
    BY <1>0, <1>3, <2>1 DEF JobInv, TypeOK, LeaseTypeOK, RemoteAbortReturns, AbortOver, FinalizeRemoteRun, ReleaseLease
  <2>4. up'
    BY <1>0, <1>3 DEF RemoteAbortReturns, AbortOver, FinalizeRemoteRun, ReleaseLease
  <2> QED BY <1>0, <2>1, <2>2, <2>3, <2>4, FrameInv
<1>4. CASE RemoteAbortThrows(j)
  <2>1. RecordInv' /\ (IF status[j] \in Terminal THEN status' = status
                                               ELSE status' = [status EXCEPT ![j] = "failed"])
    BY <1>0, <1>4, ApplyEffect DEF RemoteAbortThrows
  <2>2. \A i \in Jobs \ {j} : Frame(i)
    BY <1>4, <2>1 DEF Frame, TypeOK, LeaseTypeOK, RemoteAbortThrows, AbortOver, FinalizeRemoteRun, ReleaseLease
  <2>3. JobInv(j)'
    BY <1>0, <1>4, <2>1 DEF JobInv, TypeOK, LeaseTypeOK, RemoteAbortThrows, AbortOver, FinalizeRemoteRun, ReleaseLease
  <2>4. up'
    BY <1>0, <1>4 DEF RemoteAbortThrows, AbortOver, FinalizeRemoteRun, ReleaseLease
  <2> QED BY <1>0, <2>1, <2>2, <2>3, <2>4, FrameInv
<1>5. CASE LocalAbortReturns(j)
  <2>1. RecordInv' /\ (IF status[j] \in Terminal THEN status' = status
                                               ELSE status' = [status EXCEPT ![j] = "aborted"])
    BY <1>0, <1>5, ApplyEffect DEF LocalAbortReturns
  <2>2. \A i \in Jobs \ {j} : Frame(i)
    BY <1>5, <2>1 DEF Frame, TypeOK, LeaseTypeOK, LocalAbortReturns, AbortOver, FinalizeRemoteRun, ReleaseLease
  <2>3. JobInv(j)'
    BY <1>0, <1>5, <2>1 DEF JobInv, TypeOK, LeaseTypeOK, LocalAbortReturns, AbortOver, FinalizeRemoteRun, ReleaseLease
  <2>4. up'
    BY <1>0, <1>5 DEF LocalAbortReturns, AbortOver, FinalizeRemoteRun, ReleaseLease
  <2> QED BY <1>0, <2>1, <2>2, <2>3, <2>4, FrameInv
<1>6. CASE LocalAbortThrows(j)
  <2>1. RecordInv' /\ status' = status
    BY <1>0, <1>6, RecordStutter DEF LocalAbortThrows
  <2>2. \A i \in Jobs \ {j} : Frame(i)
    BY <1>6, <2>1 DEF Frame, TypeOK, LeaseTypeOK, LocalAbortThrows, AbortOver, FinalizeRemoteRun, ReleaseLease
  <2>3. JobInv(j)'
    BY <1>0, <1>6, <2>1 DEF JobInv, TypeOK, LeaseTypeOK, LocalAbortThrows, AbortOver, FinalizeRemoteRun, ReleaseLease
  <2>4. up'
    BY <1>0, <1>6 DEF LocalAbortThrows, AbortOver, FinalizeRemoteRun, ReleaseLease
  <2> QED BY <1>0, <2>1, <2>2, <2>3, <2>4, FrameInv
<1> QED BY <1>1, <1>2, <1>3, <1>4, <1>5, <1>6 DEF AbortStep

\* A crash keeps the invariant.
LEMMA CrashStepInv ==
  ASSUME TypeOK, RecordInv, ControlInv, CrashStep
  PROVE  RecordInv' /\ ControlInv'
<1> USE DEF LoseMemory, leaseVars, RecordInv, RecordTypeOK, CacheCoherent, LogMatchesOutcome
<1>1. CASE Crash
  BY <1>1 DEF Crash, ControlInv, StoppedHasNoMemory, JobInv, TypeOK, memoryVars
<1>2. ASSUME NEW j \in Jobs, NEW t \in {"local", "remote"}, CrashInSubmit(j, t)
      PROVE  RecordInv' /\ ControlInv'
  <2>1. RecordInv'
    BY <1>2 DEF CrashInSubmit
  <2>2. ControlInv'
    BY <1>2 DEF CrashInSubmit, ControlInv, StoppedHasNoMemory, JobInv, TypeOK, memoryVars
  <2> QED BY <2>1, <2>2
<1>3. ASSUME NEW j \in Jobs, NEW s \in Terminal, CrashInPersist(j, s)
      PROVE  RecordInv' /\ ControlInv'
  <2>1. RecordInv'
    BY <1>3 DEF CrashInPersist
  <2>2. ControlInv'
    BY <1>3 DEF CrashInPersist, ControlInv, StoppedHasNoMemory, JobInv, TypeOK, memoryVars
  <2> QED BY <2>1, <2>2
<1> QED BY <1>1, <1>2, <1>3 DEF CrashStep

\* The startup repair keeps the invariant.
LEMMA RestartInv ==
  ASSUME TypeOK, RecordInv, ControlInv, NEW stale \in SUBSET Nodes, ReconcileStartupState(stale)
  PROVE  RecordInv' /\ ControlInv'
<1>1. \A j \in Jobs : /\ liveJobs[j] = "absent" /\ aborting[j] = 0 /\ pc[j] \in {"idle", "done"}
                      /\ JobInv(j)
                      /\ j \notin pendingAbortJobs /\ j \notin activeRemoteRuns
  BY DEF ReconcileStartupState, ControlInv, StoppedHasNoMemory, memoryVars
<1>2. RecordInv'
  BY <1>1 DEF ReconcileStartupState, RecordInv, RecordTypeOK, CacheCoherent, LogMatchesOutcome
<1>3. ASSUME NEW j \in Jobs
      PROVE  JobInv(j)'
  <2>1. /\ status'[j] = IF status[j] \in Open THEN "failed" ELSE status[j]
        /\ pc'[j] = pc[j] /\ target'[j] = target[j] /\ aborting'[j] = aborting[j] /\ sawTerminal'[j] = sawTerminal[j]
        /\ j \notin pendingAbortJobs' /\ j \notin activeRemoteRuns'
    BY <1>1 DEF ReconcileStartupState, memoryVars
  <2>2. lease'[j] # "active" /\ (lease'[j] # "none" => lease[j] # "none")
    BY <1>1, <2>1 DEF ReconcileStartupState, ExpireActiveLeases, TypeOK, LeaseTypeOK, JobInv
  <2> QED BY <1>1, <2>1, <2>2 DEF JobInv, TypeOK
<1>4. StoppedHasNoMemory'
  BY DEF ReconcileStartupState, StoppedHasNoMemory
<1> QED BY <1>2, <1>3, <1>4 DEF ControlInv

\* A lease that lapses keeps the invariant.
LEMMA TimeInv ==
  ASSUME TypeOK, RecordInv, ControlInv, NEW j \in Jobs, TimePasses(j)
  PROVE  RecordInv' /\ ControlInv'
<1>1. RecordInv'
  BY RecordStutter DEF TimePasses
<1>2. ControlInv'
  BY DEF TimePasses, LapseLease, ControlInv, StoppedHasNoMemory, JobInv, recordVars, memoryVars
<1> QED BY <1>1, <1>2

\* A change of a node keeps the invariant.
LEMMA RegistryInv ==
  ASSUME TypeOK, RecordInv, ControlInv, NEW n \in Nodes, NEW s \in NodeState, RegistryChanges(n, s)
  PROVE  RecordInv' /\ ControlInv'
<1>1. RecordInv'
  BY RecordStutter DEF RegistryChanges
<1>2. ControlInv'
  BY DEF RegistryChanges, NodeChanges, ControlInv, StoppedHasNoMemory, JobInv, recordVars, memoryVars
<1> QED BY <1>1, <1>2

\* Stuttering keeps the invariant.
LEMMA StutterInv ==
  ASSUME TypeOK, RecordInv, ControlInv, UNCHANGED vars
  PROVE  RecordInv' /\ ControlInv'
<1>1. RecordInv'
  BY RecordStutter DEF vars
<1>2. ControlInv'
  BY DEF vars, ControlInv, StoppedHasNoMemory, JobInv, recordVars, memoryVars, leaseVars
<1> QED BY <1>1, <1>2

\* Every step keeps the record and the control invariant.
LEMMA NextInv ==
  ASSUME TypeOK, RecordInv, ControlInv, [Next]_vars
  PROVE  RecordInv' /\ ControlInv'
BY SubmitInv, LocalStepInv, RemoteStepInv, AbortStepInv, CrashStepInv, RestartInv, TimeInv, RegistryInv, StutterInv
DEF Next

-----------------------------------------------------------------------------
(***************************************************************************)
(* Capacity.  A step either leaves every node with a subset of the active  *)
(* leases it had, or it is a submission: expired leases go first, and the  *)
(* node that gets the new one was below its capacity without them.         *)
(***************************************************************************)
LeasesShrink ==
  \A j \in Jobs : lease'[j] = "active" => lease[j] = "active" /\ leaseNode'[j] = leaseNode[j]

\* A step that issues no lease keeps every node within its capacity.
LEMMA LeasesShrinkCapacity ==
  ASSUME LeasesWithinCapacity, LeasesShrink
  PROVE  LeasesWithinCapacity'
<1> SUFFICES ASSUME NEW n \in Nodes
             PROVE  Cardinality(ActiveLeases(n)') <= MaxConcurrentJobs[n]
  BY DEF LeasesWithinCapacity, ActiveLeases
<1>1. ActiveLeases(n)' \subseteq ActiveLeases(n) /\ ActiveLeases(n) \subseteq Jobs
  BY DEF LeasesShrink, ActiveLeases
<1>2. IsFiniteSet(ActiveLeases(n)) /\ IsFiniteSet(ActiveLeases(n)')
  BY <1>1, LeaseAssumption, FS_Subset
<1>3. Cardinality(ActiveLeases(n)') <= Cardinality(ActiveLeases(n))
  BY <1>1, <1>2, FS_Subset
<1>4. /\ Cardinality(ActiveLeases(n)') \in Nat /\ Cardinality(ActiveLeases(n)) \in Nat
      /\ MaxConcurrentJobs[n] \in Nat
  BY <1>2, FS_CardinalityType, LeaseAssumption
<1>5. Cardinality(ActiveLeases(n)) <= MaxConcurrentJobs[n]
  BY DEF LeasesWithinCapacity
<1> QED BY <1>3, <1>4, <1>5

\* issueLease keeps every node within its capacity: after the expiry it counts every active lease.
LEMMA IssueLeaseCapacity ==
  ASSUME LeaseTypeOK, LeasesWithinCapacity, NEW j \in Jobs, NEW m \in Candidates, IssueLease(j, m)
  PROVE  LeasesWithinCapacity'
<1> DEFINE Unlapsed(n) == {i \in ActiveLeases(n) : ~lapsed[i]}
<1> SUFFICES ASSUME NEW n \in Nodes
             PROVE  Cardinality(ActiveLeases(n)') <= MaxConcurrentJobs[n]
  BY DEF LeasesWithinCapacity, ActiveLeases
<1>1. ActiveLeases(n) \subseteq Jobs /\ Unlapsed(n) \subseteq ActiveLeases(n)
  BY DEF ActiveLeases
<1>2. IsFiniteSet(ActiveLeases(n)) /\ IsFiniteSet(Unlapsed(n))
  BY <1>1, LeaseAssumption, FS_Subset
<1>3. Cardinality(Unlapsed(n)) <= Cardinality(ActiveLeases(n))
  BY <1>1, <1>2, FS_Subset
<1>4. /\ Cardinality(ActiveLeases(n)) \in Nat /\ Cardinality(Unlapsed(n)) \in Nat
      /\ MaxConcurrentJobs[n] \in Nat
  BY <1>2, FS_CardinalityType, LeaseAssumption
<1>5. Cardinality(ActiveLeases(n)) <= MaxConcurrentJobs[n]
  BY DEF LeasesWithinCapacity
<1>6. CASE n = m
  <2>1. Cardinality(Unlapsed(n)) < MaxConcurrentJobs[n]
    BY <1>6 DEF Candidates, Eligible, ActiveLeaseCount
  <2>2. ActiveLeases(n)' \subseteq Unlapsed(n) \cup {j}
    BY DEF IssueLease, ExpireActiveLeases, ActiveLeases, LeaseTypeOK
  <2>3. /\ IsFiniteSet(Unlapsed(n) \cup {j})
        /\ Cardinality(Unlapsed(n) \cup {j}) <= Cardinality(Unlapsed(n)) + 1
    <3> HIDE DEF Unlapsed
    <3>1. /\ IsFiniteSet(Unlapsed(n) \cup {j})
          /\ Cardinality(Unlapsed(n) \cup {j}) =
               IF j \in Unlapsed(n) THEN Cardinality(Unlapsed(n)) ELSE Cardinality(Unlapsed(n)) + 1
      BY <1>2, FS_AddElement
    <3> QED BY <1>4, <3>1
  <2>4. /\ IsFiniteSet(ActiveLeases(n)')
        /\ Cardinality(ActiveLeases(n)') <= Cardinality(Unlapsed(n) \cup {j})
    BY <2>2, <2>3, FS_Subset
  <2>5. Cardinality(ActiveLeases(n)') \in Nat /\ Cardinality(Unlapsed(n) \cup {j}) \in Nat
    BY <2>3, <2>4, FS_CardinalityType
  <2> QED BY <1>4, <2>1, <2>3, <2>4, <2>5
<1>7. CASE n # m
  <2>1. ActiveLeases(n)' \subseteq Unlapsed(n)
    BY <1>7 DEF IssueLease, ExpireActiveLeases, ActiveLeases, LeaseTypeOK
  <2>2. IsFiniteSet(ActiveLeases(n)') /\ Cardinality(ActiveLeases(n)') <= Cardinality(Unlapsed(n))
    BY <1>2, <2>1, FS_Subset
  <2>3. Cardinality(ActiveLeases(n)') \in Nat
    BY <2>2, FS_CardinalityType
  <2> QED BY <1>3, <1>4, <1>5, <2>2, <2>3
<1> QED BY <1>6, <1>7

\* Every step keeps every node within its capacity.
LEMMA NextCapacity ==
  ASSUME TypeOK, ControlInv, LeasesWithinCapacity, [Next]_vars
  PROVE  LeasesWithinCapacity'
<1> USE DEF LeasesShrink, TypeOK, LeaseTypeOK, leaseVars
<1>1. ASSUME NEW j \in Jobs, Submit(j)
      PROVE  LeasesWithinCapacity'
  <2>1. CASE SubmitLocal(j)
    BY <2>1, LeasesShrinkCapacity DEF SubmitLocal
  <2>2. CASE SubmitRejected(j)
    BY <2>2, LeasesShrinkCapacity DEF SubmitRejected, ExpireActiveLeases
  <2>3. CASE SubmitRemote(j)
    BY <2>3, IssueLeaseCapacity DEF SubmitRemote
  <2>4. CASE SubmitUnexecutable(j)
    BY <2>4, LeasesShrinkCapacity DEF SubmitUnexecutable, ExpireActiveLeases
  <2> QED BY <1>1, <2>1, <2>2, <2>3, <2>4 DEF Submit
<1>2. ASSUME NEW j \in Jobs, LocalStep(j)
      PROVE  LeasesShrink
  BY <1>2 DEF LocalStep, StreamEvent, StreamAbortReturns, StreamAbort, StreamEnds, StreamThrows
<1>3. ASSUME NEW j \in Jobs, RemoteStep(j)
      PROVE  LeasesShrink
  BY <1>3 DEF RemoteStep, StartResolves, RunResolves, RunProgress, LateAbortReturns, SandboxEvent, SandboxReturns,
              RemoteThrows, RemoteReturn, FinalizeRemoteRun, ReleaseLease
<1>4. ASSUME NEW j \in Jobs, AbortStep(j)
      PROVE  LeasesShrink
  BY <1>4 DEF AbortStep, AbortUnreachable, AbortSend, RemoteAbortReturns, RemoteAbortThrows, LocalAbortReturns,
              LocalAbortThrows, AbortOver, FinalizeRemoteRun, ReleaseLease
<1>5. ASSUME CrashStep
      PROVE  LeasesShrink
  BY <1>5 DEF CrashStep, Crash, CrashInSubmit, CrashInPersist, LoseMemory
<1>6. ASSUME NEW stale \in SUBSET Nodes, ReconcileStartupState(stale)
      PROVE  LeasesShrink
  BY <1>6 DEF ReconcileStartupState, ExpireActiveLeases
<1>7. ASSUME NEW j \in Jobs, TimePasses(j)
      PROVE  LeasesShrink
  BY <1>7 DEF TimePasses, LapseLease
<1>8. ASSUME NEW n \in Nodes, NEW s \in NodeState, RegistryChanges(n, s)
      PROVE  LeasesShrink
  BY <1>8 DEF RegistryChanges, NodeChanges
<1>9. ASSUME UNCHANGED vars
      PROVE  LeasesShrink
  BY <1>9 DEF vars
<1> HIDE DEF LeasesShrink, TypeOK, LeaseTypeOK
<1>10. (\E j \in Jobs : Submit(j)) \/ LeasesShrink
  BY <1>2, <1>3, <1>4, <1>5, <1>6, <1>7, <1>8, <1>9 DEF Next
<1> QED BY <1>1, <1>10, LeasesShrinkCapacity

-----------------------------------------------------------------------------
(***************************************************************************)
(* The inductive invariant and its consequences.                           *)
(***************************************************************************)
LEMMA InitIInv ==
  ASSUME Init
  PROVE  IInv
<1>1. TypeOK
  BY JobAssumption DEF Init, LeaseInit, TypeOK, LeaseTypeOK
<1>2. LeasesWithinCapacity
  <2>1. \A n \in Nodes : ActiveLeases(n) = {}
    BY DEF Init, LeaseInit, ActiveLeases
  <2> QED BY <2>1, FS_EmptySet, LeaseAssumption DEF LeasesWithinCapacity
<1>3. LogMatchesOutcome /\ CacheCoherent
  BY DEF Init, LogMatchesOutcome, CacheCoherent
<1>4. NoOrphanLease /\ NeverAbandoned /\ AbortMarkJustified /\ StoppedHasNoMemory /\ CoroutineConsistent
  BY DEF Init, LeaseInit, NoOrphanLease, NeverAbandoned, AbortMarkJustified, StoppedHasNoMemory, CoroutineConsistent
<1> QED BY <1>1, <1>2, <1>3, <1>4 DEF IInv

\* The inductive invariant in the parts the lemmas above are about.
LEMMA IInvParts == IInv <=> TypeOK /\ RecordInv /\ ControlInv /\ LeasesWithinCapacity
BY TypeSplit, ControlSplit DEF IInv, RecordInv

\* Every step keeps the inductive invariant.
LEMMA NextIInv ==
  ASSUME IInv, [Next]_vars
  PROVE  IInv'
<1>1. TypeOK'
  BY NextType DEF IInv
<1>2. RecordInv' /\ ControlInv' /\ LeasesWithinCapacity'
  BY IInvParts, NextInv, NextCapacity
<1>3. ControlInv' => NoOrphanLease' /\ NeverAbandoned' /\ AbortMarkJustified' /\ StoppedHasNoMemory' /\ CoroutineConsistent'
  BY <1>1 DEF TypeOK, ControlInv, JobInv, NoOrphanLease, NeverAbandoned, AbortMarkJustified, CoroutineConsistent
<1> QED BY <1>1, <1>2, <1>3 DEF IInv, RecordInv

(***************************************************************************)
(* In every reachable state the inductive invariant holds.                 *)
(***************************************************************************)
THEOREM Invariance == Spec => []IInv
BY InitIInv, NextIInv, PTL DEF Spec

(***************************************************************************)
(* Every variable keeps its type.                                          *)
(***************************************************************************)
THEOREM TypeCorrectness == Spec => []TypeOK
<1>1. IInv => TypeOK
  BY DEF IInv
<1> QED BY <1>1, Invariance, PTL

(***************************************************************************)
(* No node ever has more active leases than its max_concurrent_jobs.       *)
(***************************************************************************)
THEOREM CapacityTheorem == Spec => []LeasesWithinCapacity
<1>1. IInv => LeasesWithinCapacity
  BY DEF IInv
<1> QED BY <1>1, Invariance, PTL

(***************************************************************************)
(* The durable history never contradicts the job row (appendEvent,         *)
(* applyEvent, setStatus).                                                 *)
(***************************************************************************)
THEOREM RecordTheorem == Spec => []LogMatchesOutcome
<1>1. IInv => LogMatchesOutcome
  BY DEF IInv
<1> QED BY <1>1, Invariance, PTL

(***************************************************************************)
(* A cached job agrees with its row, and no abort mark outlives its abort  *)
(* (requireJob, applyEvent, attachLease, abortJob).                        *)
(***************************************************************************)
THEOREM MemoryTheorem == Spec => []MemoryFitsRecord
<1>1. IInv => MemoryFitsRecord
  BY DEF IInv, MemoryFitsRecord
<1> QED BY <1>1, Invariance, PTL

(***************************************************************************)
(* No active lease is left without a coroutine that will release it.       *)
(***************************************************************************)
THEOREM LeaseOwnership == Spec => []NoOrphanLease
<1>1. IInv => NoOrphanLease
  BY DEF IInv
<1> QED BY <1>1, Invariance, PTL

(***************************************************************************)
(* No job is left open by a coroutine that ended (runJob and its finally   *)
(* block).                                                                 *)
(***************************************************************************)
THEOREM Responsibility == Spec => []NeverAbandoned
<1>1. IInv => NeverAbandoned
  BY DEF IInv
<1> QED BY <1>1, Invariance, PTL

-----------------------------------------------------------------------------
(***************************************************************************)
(* The ways a step can touch the rows and the durable history.             *)
(***************************************************************************)
Persists(j, s) ==
  /\ status[j] = "none" => s \in {"scheduled", "running", "failed"}
  /\ status[j] # "none" => s \in {"running"} \cup Terminal
  /\ status[j] \notin Terminal
  /\ status' = [status EXCEPT ![j] = s]
  /\ log' = IF s \in Terminal THEN [log EXCEPT ![j] = Append(@, s)] ELSE log

TornWrite(j, s) ==
  /\ \/ status[j] = "none" /\ s = "pending"
     \/ status[j] \in Open /\ s \in Terminal
  /\ status' = [status EXCEPT ![j] = s]
  /\ log' = log

FailsOpenJobs ==
  /\ status' = [j \in Jobs |-> IF status[j] \in Open THEN "failed" ELSE status[j]]
  /\ log' = log

RecordChange ==
  \/ UNCHANGED <<status, log>>
  \/ \E j \in Jobs, s \in Status : Persists(j, s) \/ TornWrite(j, s)
  \/ FailsOpenJobs

\* Applying an event changes the record in one of the allowed ways.
LEMMA ApplyChange ==
  ASSUME RecordInv, NEW j \in Jobs, status[j] # "none", NEW s \in {"running"} \cup Terminal, Apply(j, s)
  PROVE  RecordChange
<1>1. Cached(j) = status[j]
  BY DEF RecordInv, RecordTypeOK, CacheCoherent, Cached
<1>2. CASE status[j] \in Terminal
  BY <1>1, <1>2 DEF Apply, Hydrate, RecordChange
<1>3. CASE status[j] \notin Terminal
  <2>1. Persists(j, s)
    BY <1>1, <1>3 DEF Apply, Persist, Persists
  <2> QED BY <2>1 DEF RecordChange
<1> QED BY <1>2, <1>3

\* Applying a stream event changes the record in one of the allowed ways.
LEMMA ApplyLocalChange ==
  ASSUME RecordInv, NEW j \in Jobs, status[j] # "none", NEW event \in LocalEvents, ApplyLocal(j, event)
  PROVE  RecordChange
<1>1. CASE event = "other"
  BY <1>1 DEF ApplyLocal, Hydrate, RecordChange
<1>2. CASE event # "other"
  BY <1>2, ApplyChange DEF ApplyLocal
<1> QED BY <1>1, <1>2

\* Every step changes the record in one of the allowed ways.
LEMMA NextChange ==
  ASSUME TypeOK, RecordInv, ControlInv, [Next]_vars
  PROVE  RecordChange
<1>1. ASSUME NEW j \in Jobs, Submit(j)
      PROVE  RecordChange
  <2>1. PICK s \in {"scheduled", "running", "failed"} : status[j] = "none" /\ Persist(j, s)
    BY <1>1 DEF Submit, Accept, SubmitLocal, SubmitRejected, SubmitRemote, SubmitUnexecutable
  <2>2. Persists(j, s)
    BY <2>1 DEF Persist, Persists
  <2> QED BY <2>2 DEF RecordChange
<1>2. ASSUME NEW j \in Jobs, LocalStep(j)
      PROVE  RecordChange
  <2>1. status[j] # "none"
    BY <1>2 DEF ControlInv, JobInv, LocalStep, StreamEvent, StreamAbortReturns, StreamAbort, StreamEnds, StreamThrows
  <2>2. \/ UNCHANGED recordVars
        \/ Apply(j, "failed")
        \/ \E event \in LocalEvents : ApplyLocal(j, event)
    BY <1>2 DEF LocalStep, StreamEvent, StreamAbortReturns, StreamAbort, StreamEnds, StreamThrows
  <2> QED BY <2>1, <2>2, ApplyChange, ApplyLocalChange DEF recordVars, RecordChange
<1>3. ASSUME NEW j \in Jobs, RemoteStep(j)
      PROVE  RecordChange
  <2>1. status[j] # "none"
    BY <1>3 DEF ControlInv, JobInv, RemoteStep, StartResolves, RunResolves, RunProgress, LateAbortReturns,
                SandboxEvent, SandboxReturns, RemoteThrows
  <2>2. \/ UNCHANGED recordVars
        \/ Hydrate(j)
        \/ \E s \in {"running"} \cup Terminal : Apply(j, s)
        \/ \E event \in LocalEvents : ApplyLocal(j, event)
    BY <1>3 DEF RemoteStep, StartResolves, RunResolves, RunProgress, LateAbortReturns,
                SandboxEvent, SandboxReturns, RemoteThrows, RemoteCatch
  <2> QED BY <2>1, <2>2, ApplyChange, ApplyLocalChange DEF recordVars, Hydrate, RecordChange
<1>4. ASSUME NEW j \in Jobs, AbortStep(j)
      PROVE  RecordChange
  <2>1. status[j] # "none"
    BY <1>4 DEF ControlInv, JobInv, AbortStep, AbortUnreachable, AbortSend, RemoteAbortReturns,
                RemoteAbortThrows, LocalAbortReturns, LocalAbortThrows, AbortOver
  <2>2. UNCHANGED recordVars \/ \E s \in Terminal : Apply(j, s)
    BY <1>4 DEF AbortStep, AbortUnreachable, AbortSend, RemoteAbortReturns, RemoteAbortThrows, LocalAbortReturns,
                LocalAbortThrows
  <2> QED BY <2>1, <2>2, ApplyChange DEF recordVars, RecordChange
<1>5. ASSUME CrashStep
      PROVE  RecordChange
  <2>1. CASE Crash
    BY <2>1 DEF Crash, RecordChange
  <2>2. ASSUME NEW j \in Jobs, NEW t \in {"local", "remote"}, CrashInSubmit(j, t)
        PROVE  RecordChange
    <3>1. TornWrite(j, "pending")
      BY <2>2 DEF CrashInSubmit, TornWrite
    <3> QED BY <3>1 DEF RecordChange
  <2>3. ASSUME NEW j \in Jobs, NEW s \in Terminal, CrashInPersist(j, s)
        PROVE  RecordChange
    <3>1. TornWrite(j, s)
      BY <2>3 DEF CrashInPersist, TornWrite
    <3> QED BY <3>1 DEF RecordChange
  <2> QED BY <1>5, <2>1, <2>2, <2>3 DEF CrashStep
<1>6. ASSUME NEW stale \in SUBSET Nodes, ReconcileStartupState(stale)
      PROVE  RecordChange
  BY <1>6 DEF ReconcileStartupState, RecordChange, FailsOpenJobs
<1>7. ASSUME \/ \E j \in Jobs : TimePasses(j)
             \/ \E n \in Nodes, s \in NodeState : RegistryChanges(n, s)
             \/ UNCHANGED vars
      PROVE  RecordChange
  BY <1>7 DEF TimePasses, RegistryChanges, vars, recordVars, RecordChange
<1> QED BY <1>1, <1>2, <1>3, <1>4, <1>5, <1>6, <1>7 DEF Next

(***************************************************************************)
(* A terminal status never changes again.                                  *)
(***************************************************************************)
THEOREM FinalTheorem == Spec => TerminalIsFinal
<1>1. ASSUME IInv, [Next]_vars
      PROVE  [\A j \in Jobs : status[j] \in Terminal => status'[j] = status[j]]_vars
  <2>1. RecordChange
    BY <1>1, IInvParts, NextChange
  <2>2. status \in [Jobs -> Status]
    BY <1>1 DEF IInv, TypeOK
  <2> QED BY <2>1, <2>2 DEF RecordChange, Persists, TornWrite, FailsOpenJobs
<1> QED BY <1>1, Invariance, PTL DEF Spec, TerminalIsFinal

-----------------------------------------------------------------------------
(***************************************************************************)
(* Refinement: each way of touching the rows is a step of JobRecord, or no *)
(* step of it.                                                             *)
(***************************************************************************)
stages == [j \in Jobs |-> Stage(status[j])]

\* What each status is in the abstract record.
LEMMA StageValues ==
  /\ \A s \in Terminal : Stage(s) = s
  /\ Stage("none") = "absent"
  /\ Stage("pending") = "queued"
  /\ Stage("scheduled") = "queued"
  /\ Stage("running") = "active"
BY DEF Stage

\* Which statuses are absent, unfinished or outcomes in the abstract record.
LEMMA StageOf ==
  ASSUME NEW s \in Status
  PROVE  /\ Stage(s) = "absent" <=> s = "none"
         /\ Stage(s) \in Record!Unfinished <=> s \in Open
         /\ Stage(s) \in Record!Stage
BY DEF Stage, Record!Unfinished, Record!Stage, Record!Outcome

\* A status written with its event is a step of the abstract record.
LEMMA PersistsRefines ==
  ASSUME TypeOK, LogMatchesOutcome, NEW j \in Jobs, NEW s \in Status, Persists(j, s)
  PROVE  [Record!Next]_<<stages, log>>
<1>1. status \in [Jobs -> Status] /\ log \in [Jobs -> Seq(Terminal)] /\ log[j] = <<>>
  BY DEF TypeOK, LogMatchesOutcome, Persists
<1>2. stages' = [stages EXCEPT ![j] = Stage(s)] /\ stages[j] = Stage(status[j])
  BY <1>1 DEF stages, Persists
<1>3. s \in Terminal => log' = [log EXCEPT ![j] = <<s>>]
  BY <1>1 DEF Persists
<1>4. CASE status[j] = "none"
  <2>1. Record!Accept(j, Stage(s))
    BY <1>1, <1>2, <1>3, <1>4, StageValues DEF Record!Accept, Record!Unfinished, Persists, stages
  <2>2. Stage(s) \in Record!Stage
    BY StageOf
  <2> QED BY <2>1, <2>2 DEF Record!Next
<1>5. CASE status[j] # "none" /\ s = "running"
  <2>1. status[j] = "running" => UNCHANGED <<stages, log>>
    BY <1>1, <1>2, <1>5 DEF Persists, stages
  <2>2. status[j] # "running" => Record!Start(j)
    BY <1>1, <1>2, <1>5, StageValues DEF Record!Start, Persists, stages
  <2> QED BY <2>1, <2>2 DEF Record!Next
<1>6. CASE status[j] # "none" /\ s \in Terminal
  <2>1. Record!Finish(j, s)
    BY <1>1, <1>2, <1>3, <1>6, StageValues DEF Record!Finish, Record!Unfinished, Persists, stages
  <2> QED BY <1>6, <2>1 DEF Record!Next, Record!Outcome
<1> QED BY <1>4, <1>5, <1>6 DEF Persists

\* A status written without its event is a step of the abstract record.
LEMMA TornWriteRefines ==
  ASSUME TypeOK, LogMatchesOutcome, NEW j \in Jobs, NEW s \in Status, TornWrite(j, s)
  PROVE  [Record!Next]_<<stages, log>>
<1>1. status \in [Jobs -> Status] /\ log \in [Jobs -> Seq(Terminal)]
  BY DEF TypeOK
<1>2. stages' = [stages EXCEPT ![j] = Stage(s)] /\ stages[j] = Stage(status[j])
  BY <1>1 DEF stages, TornWrite
<1>3. CASE status[j] = "none" /\ s = "pending"
  <2>1. log[j] = <<>> /\ log' = [log EXCEPT ![j] = <<>>]
    BY <1>1, <1>3 DEF LogMatchesOutcome, TornWrite
  <2>2. Record!Accept(j, "queued")
    BY <1>2, <1>3, <2>1, StageValues DEF Record!Accept, Record!Unfinished, stages
  <2> QED BY <2>2 DEF Record!Next, Record!Stage, Record!Unfinished
<1>4. CASE status[j] \in Open /\ s \in Terminal
  <2>1. Record!FinishUnrecorded(j, s)
    BY <1>1, <1>2, <1>4, StageValues DEF Record!FinishUnrecorded, Record!Unfinished, TornWrite, stages
  <2> QED BY <1>4, <2>1 DEF Record!Next, Record!Outcome
<1> QED BY <1>3, <1>4 DEF TornWrite

\* The startup repair is a step of the abstract record.
LEMMA FailsOpenJobsRefines ==
  ASSUME TypeOK, FailsOpenJobs
  PROVE  [Record!Next]_<<stages, log>>
<1>1. status \in [Jobs -> Status]
  BY DEF TypeOK
<1>2. \A j \in Jobs : stages[j] \in Record!Unfinished <=> status[j] \in Open
  BY <1>1, StageOf DEF stages
<1>3. stages' = [j \in Jobs |-> IF stages[j] \in Record!Unfinished THEN "failed" ELSE stages[j]]
  BY <1>1, <1>2, StageValues DEF stages, FailsOpenJobs
<1> QED BY <1>3 DEF FailsOpenJobs, Record!FailUnfinished, Record!Next, stages

(***************************************************************************)
(* The service implements JobRecord: jobs move forward only, reach one     *)
(* outcome and keep it, and the history never says anything else.          *)
(***************************************************************************)
THEOREM Refinement == Spec => ImplementsRecord
<1>1. Init => Record!Init
  BY StageValues DEF Init, Record!Init
<1>2. ASSUME IInv, [Next]_vars
      PROVE  [Record!Next]_<<stages, log>>
  <2>1. TypeOK /\ LogMatchesOutcome /\ RecordChange
    BY <1>2, IInvParts, NextChange DEF RecordInv
  <2>2. CASE UNCHANGED <<status, log>>
    BY <2>2 DEF stages
  <2> QED BY <2>1, <2>2, PersistsRefines, TornWriteRefines, FailsOpenJobsRefines DEF RecordChange
<1>3. [Record!Next]_<<stages, log>> <=> [Record!Next]_(Record!vars)
  BY DEF Record!vars, stages
<1> QED BY <1>1, <1>2, <1>3, Invariance, PTL DEF Spec, ImplementsRecord, Record!Spec
=============================================================================
