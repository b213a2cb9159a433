-------------------------- MODULE RuntimeSessions --------------------------
(***************************************************************************)
(* RuntimeSessionService: creation, stop, destruction, workspace commit    *)
(* and discard of the runtime sessions of one workspace, and the           *)
(* reconciliation that a restart starts in the background.                 *)
(*                                                                         *)
(* Every method is a sequence of synchronous stretches between awaits.     *)
(* A caller's record says which method it is in, on which session, and at  *)
(* which await; "acted" means that the adapter (or the file system) has    *)
(* done what was asked and its answer is on the way.  All staged sessions  *)
(* of a workspace share its host workspace root.                           *)
(*                                                                         *)
(* exec, PTY, file transfer and log calls change no row and are left out;  *)
(* the content of a commit is the subject of module WorkspaceStage.        *)
(***************************************************************************)
EXTENDS Naturals, FiniteSets

CONSTANTS
  Sessions, \* the sessions that may be created
  Callers,  \* the API calls that may be in flight at once
  Settings  \* the ways the service is used, one of which a behaviour is about

\* callers: those that call at all; stageMode: workspace_stage.mode per session,
\* "none" without staging; inspectable: the sessions whose adapter has getSession;
\* earlyDiscard: a session may be discarded before its creation has returned;
\* maxCrashes: bound on the crashes of a behaviour.
ASSUME SettingsAssumption ==
  \A u \in Settings :
    /\ u.callers \subseteq Callers
    /\ u.stageMode \in [Sessions -> {"none", "read_only", "read_write"}]
    /\ u.inspectable \subseteq Sessions
    /\ u.earlyDiscard \in BOOLEAN
    /\ u.maxCrashes \in Nat

VARIABLES
  setting,     \* the way the service is used; never changes
  status,      \* runtime_sessions.status ("absent": no row)
  ref,         \* adapter_session_ref is set
  staging,     \* staging_status
  lastCommit,  \* last_commit.status
  baseline,    \* the base manifest is in the session's stage directory
  env,         \* the session as the adapter has it
  call,        \* the API calls in flight
  rec,         \* the startup reconciliation
  crashes      \* bound counter

rows == <<status, ref, staging, lastCommit>>
bounds == <<setting, crashes>>
vars == <<rows, baseline, env, call, rec, bounds>>

StageMode == setting.stageMode
Inspectable == setting.inspectable

Status == {"absent", "creating", "ready", "stopping", "stopped", "destroyed", "failed"}
Staging == {"none", "preparing", "ready", "committing", "conflict", "committed", "discarded", "failed"}
Env == {"absent", "creating", "ready", "stopping", "stopped", "gone"}
Op == {"create", "stop", "destroy", "commit", "discard"}
Await == {"sent", "acted", "staging", "clearing", "exporting", "applying"}

Idle == [op |-> "none"]
Call == {Idle} \cup [op : Op, s : Sessions, at : Await, answer : Env]

\* Sessions listed by the reconciliation, with the row as it was read.
Listed == [s : Sessions, status : Status, ref : BOOLEAN]
TypeOK ==
  /\ status \in [Sessions -> Status]
  /\ ref \in [Sessions -> BOOLEAN]
  /\ staging \in [Sessions -> Staging]
  /\ lastCommit \in [Sessions -> {"none", "committed", "conflict"}]
  /\ baseline \in [Sessions -> BOOLEAN]
  /\ env \in [Sessions -> Env]
  /\ call \in [Callers -> Call]
  /\ rec.at \in {"waiting", "working", "asked", "answered", "done", "aborted"}
  /\ \A e \in rec.todo : e \in Listed
  /\ rec.entry \in Listed \cup {Idle}
  /\ rec.answer \in Env
  /\ setting \in Settings
  /\ crashes \in 0..setting.maxCrashes

NotReconciling == [at |-> "done", todo |-> {}, entry |-> Idle, answer |-> "absent"]

Init ==
  /\ setting \in Settings
  /\ status = [s \in Sessions |-> "absent"]
  /\ ref = [s \in Sessions |-> FALSE]
  /\ staging = [s \in Sessions |-> "none"]
  /\ lastCommit = [s \in Sessions |-> "none"]
  /\ baseline = [s \in Sessions |-> FALSE]
  /\ env = [s \in Sessions |-> "absent"]
  /\ call = [c \in Callers |-> Idle]
  /\ rec = NotReconciling
  /\ crashes = 0

-----------------------------------------------------------------------------
(* Calls and rows. *)

Begin(c, op, s) ==
  /\ call[c] = Idle
  /\ call' = [call EXCEPT ![c] = [op |-> op, s |-> s, at |-> "sent", answer |-> "absent"]]

In(c, op, s, at) == call[c].op = op /\ call[c].s = s /\ call[c].at = at

MoveTo(c, at) == call' = [call EXCEPT ![c].at = at]

Acted(c, answer) == call' = [call EXCEPT ![c].at = "acted", ![c].answer = answer]

Return(c) == call' = [call EXCEPT ![c] = Idle]

SetStatus(s, st) == status' = [status EXCEPT ![s] = st]
SetStaging(s, st) == staging' = [staging EXCEPT ![s] = st]

\* findActiveRuntimeStageWriter's condition on a row.
ActiveWriter(s) ==
  /\ StageMode[s] = "read_write"
  /\ staging[s] \in {"preparing", "ready", "committing"}
  /\ status[s] \in {"creating", "ready", "stopping", "stopped"}

-----------------------------------------------------------------------------
(* createSession, from the moment it has selected an adapter. *)

\* Defect: the check for another writer is made before the selection is awaited.
CreateBeginsUnchecked(c, s) ==
  /\ status[s] = "absent"
  /\ Begin(c, "create", s)
  /\ SetStatus(s, "creating")
  /\ SetStaging(s, IF StageMode[s] = "none" THEN "none" ELSE "preparing")
  /\ UNCHANGED <<ref, lastCommit, baseline, env, rec, bounds>>

\* The check for another writer and the row are one synchronous stretch.
CreateBegins(c, s) ==
  /\ status[s] = "absent"
  /\ StageMode[s] = "read_write" => \A t \in Sessions : ~ActiveWriter(t)
  /\ Begin(c, "create", s)
  /\ SetStatus(s, "creating")
  /\ SetStaging(s, IF StageMode[s] = "none" THEN "none" ELSE "preparing")
  /\ UNCHANGED <<ref, lastCommit, baseline, env, rec, bounds>>

\* The adapter's answer is the state of the new session: ready or creating.
CreateActs(c, s, answer) ==
  /\ In(c, "create", s, "sent")
  /\ env' = [env EXCEPT ![s] = answer]
  /\ Acted(c, answer)
  /\ UNCHANGED <<rows, baseline, rec, bounds>>

\* prepareWorkspaceStage: the base manifest is written, then the files copied in.
CreateStages(c, s) ==
  /\ In(c, "create", s, "acted")
  /\ StageMode[s] # "none"
  /\ baseline' = [baseline EXCEPT ![s] = TRUE]
  /\ MoveTo(c, "staging")
  /\ UNCHANGED <<rows, env, rec, bounds>>

CreateReturns(c, s) ==
  /\ In(c, "create", s, IF StageMode[s] = "none" THEN "acted" ELSE "staging")
  /\ ref' = [ref EXCEPT ![s] = TRUE]
  /\ SetStatus(s, call[c].answer)
  /\ SetStaging(s, IF StageMode[s] = "none" THEN "none"
                   ELSE IF call[c].answer = "ready" THEN "ready" ELSE "preparing")
  /\ Return(c)
  /\ UNCHANGED <<lastCommit, baseline, env, rec, bounds>>

\* The adapter, or the staging of the files, throws.
CreateFails(c, s) ==
  /\ \E at \in {"sent", "acted", "staging"} : In(c, "create", s, at)
  /\ SetStatus(s, "failed")
  /\ Return(c)
  /\ UNCHANGED <<ref, staging, lastCommit, baseline, env, rec, bounds>>

-----------------------------------------------------------------------------
(* stopSession and destroySession; both need the adapter's reference only. *)

StopBegins(c, s) ==
  /\ ref[s]
  /\ Begin(c, "stop", s)
  /\ UNCHANGED <<rows, baseline, env, rec, bounds>>

StopActs(c, s, answer) ==
  /\ In(c, "stop", s, "sent")
  /\ env[s] # "gone"
  /\ env' = [env EXCEPT ![s] = answer]
  /\ Acted(c, answer)
  /\ UNCHANGED <<rows, baseline, rec, bounds>>

\* Defect: a stop answered with "ready" (nothing to stop) would be stored.
StopReturnsReady(c, s) ==
  /\ In(c, "stop", s, "acted")
  /\ SetStatus(s, "ready")
  /\ Return(c)
  /\ UNCHANGED <<ref, staging, lastCommit, baseline, env, rec, bounds>>

StopReturns(c, s) ==
  /\ In(c, "stop", s, "acted")
  /\ SetStatus(s, call[c].answer)
  /\ Return(c)
  /\ UNCHANGED <<ref, staging, lastCommit, baseline, env, rec, bounds>>

StopFails(c, s) ==
  /\ In(c, "stop", s, "sent")
  /\ Return(c)
  /\ UNCHANGED <<rows, baseline, env, rec, bounds>>

DestroyBegins(c, s) ==
  /\ ref[s]
  /\ Begin(c, "destroy", s)
  /\ UNCHANGED <<rows, baseline, env, rec, bounds>>

\* The adapter destroys its session, or fails to: the call goes on either way.
DestroyActs(c, s) ==
  /\ In(c, "destroy", s, "sent")
  /\ env' \in {env, [env EXCEPT ![s] = "gone"]}
  /\ Acted(c, "gone")
  /\ UNCHANGED <<rows, baseline, rec, bounds>>

DestroyReturns(c, s) ==
  /\ In(c, "destroy", s, "acted")
  /\ SetStatus(s, "destroyed")
  /\ MoveTo(c, "clearing")
  /\ UNCHANGED <<ref, staging, lastCommit, baseline, env, rec, bounds>>

\* clearWorkspaceStage, at the end of destroySession.
DestroyClears(c, s) ==
  /\ In(c, "destroy", s, "clearing")
  /\ baseline' = [baseline EXCEPT ![s] = FALSE]
  /\ Return(c)
  /\ UNCHANGED <<rows, env, rec, bounds>>

-----------------------------------------------------------------------------
(* commitWorkspaceStage and discardWorkspaceStage. *)

CommitBegins(c, s) ==
  /\ status[s] = "ready"
  /\ StageMode[s] = "read_write"
  /\ Begin(c, "commit", s)
  /\ SetStaging(s, "committing")
  /\ UNCHANGED <<status, ref, lastCommit, baseline, env, rec, bounds>>

CommitReads(c, s) ==
  /\ In(c, "commit", s, "sent")
  /\ baseline[s]
  /\ MoveTo(c, "exporting")
  /\ UNCHANGED <<rows, baseline, env, rec, bounds>>

\* The diff of base, host and export finds no conflict and is being applied.
CommitApplies(c, s) ==
  /\ In(c, "commit", s, "exporting")
  /\ env[s] # "gone"
  /\ MoveTo(c, "applying")
  /\ UNCHANGED <<rows, baseline, env, rec, bounds>>

CommitConflicts(c, s) ==
  /\ In(c, "commit", s, "exporting")
  /\ env[s] # "gone"
  /\ SetStaging(s, "conflict")
  /\ lastCommit' = [lastCommit EXCEPT ![s] = "conflict"]
  /\ Return(c)
  /\ UNCHANGED <<status, ref, baseline, env, rec, bounds>>

CommitReturns(c, s) ==
  /\ In(c, "commit", s, "applying")
  /\ SetStaging(s, "committed")
  /\ lastCommit' = [lastCommit EXCEPT ![s] = "committed"]
  /\ Return(c)
  /\ UNCHANGED <<status, ref, baseline, env, rec, bounds>>

\* No manifest, a failed export or a failed (and rolled back) application:
\* nothing catches it, and the row keeps saying "committing".
CommitFails(c, s) ==
  /\ \/ In(c, "commit", s, "sent") /\ ~baseline[s]
     \/ In(c, "commit", s, "exporting")
     \/ In(c, "commit", s, "applying")
  /\ Return(c)
  /\ UNCHANGED <<rows, baseline, env, rec, bounds>>

DiscardBegins(c, s) ==
  /\ status[s] # "absent"
  /\ setting.earlyDiscard \/ status[s] # "creating"
  /\ StageMode[s] # "none"
  /\ Begin(c, "discard", s)
  /\ UNCHANGED <<rows, baseline, env, rec, bounds>>

DiscardClears(c, s) ==
  /\ In(c, "discard", s, "sent")
  /\ baseline' = [baseline EXCEPT ![s] = FALSE]
  /\ MoveTo(c, "acted")
  /\ UNCHANGED <<rows, env, rec, bounds>>

\* Defect: a discarded stage is offered for another commit.
DiscardReturnsReady(c, s) ==
  /\ In(c, "discard", s, "acted")
  /\ SetStaging(s, "ready")
  /\ Return(c)
  /\ UNCHANGED <<status, ref, lastCommit, baseline, env, rec, bounds>>

DiscardReturns(c, s) ==
  /\ In(c, "discard", s, "acted")
  /\ SetStaging(s, "discarded")
  /\ Return(c)
  /\ UNCHANGED <<status, ref, lastCommit, baseline, env, rec, bounds>>

-----------------------------------------------------------------------------
(* The adapter's own doings: a session comes up, goes down or disappears. *)

EnvChanges(s) ==
  /\ \/ env[s] = "creating" /\ env' = [env EXCEPT ![s] = "ready"]
     \/ env[s] = "stopping" /\ env' = [env EXCEPT ![s] = "stopped"]
     \/ env[s] \notin {"absent", "gone"} /\ env' = [env EXCEPT ![s] = "gone"]
  /\ UNCHANGED <<rows, baseline, call, rec, bounds>>

-----------------------------------------------------------------------------
(* Crash, and reconcileOnStartup running beside the calls of the new process. *)

Crash ==
  /\ crashes < setting.maxCrashes
  /\ crashes' = crashes + 1
  /\ call' = [c \in Callers |-> Idle]
  /\ rec' = [NotReconciling EXCEPT !.at = "waiting"]
  /\ UNCHANGED <<setting, rows, baseline, env>>

\* The listing happens at once for the first workspace and after awaits for
\* every other, when calls are already being served.
ReconcileLists ==
  /\ rec.at = "waiting"
  /\ rec' = [rec EXCEPT !.at = "working",
               !.todo = {[s |-> s, status |-> status[s], ref |-> ref[s]] :
                           s \in {t \in Sessions : status[t] \in {"creating", "ready", "stopping"}}}]
  /\ UNCHANGED <<rows, baseline, env, call, bounds>>

Drop(e) == rec' = [rec EXCEPT !.at = "working", !.todo = @ \ {e}, !.entry = Idle, !.answer = "absent"]

\* The adapter is unavailable, cannot say what became of a session in creation,
\* or was never told its reference.
ReconcileFailsEntry(e) ==
  /\ rec.at = "working"
  /\ e \in rec.todo
  /\ SetStatus(e.s, "failed")
  /\ Drop(e)
  /\ UNCHANGED <<ref, staging, lastCommit, baseline, env, call, bounds>>

ReconcileSkips(e) ==
  /\ rec.at = "working"
  /\ e \in rec.todo
  /\ e.s \notin Inspectable
  /\ e.status # "creating"
  /\ Drop(e)
  /\ UNCHANGED <<rows, baseline, env, call, bounds>>

ReconcileAsks(e) ==
  /\ rec.at = "working"
  /\ e \in rec.todo
  /\ e.s \in Inspectable
  /\ e.ref
  /\ rec' = [rec EXCEPT !.at = "asked", !.entry = e]
  /\ UNCHANGED <<rows, baseline, env, call, bounds>>

ReconcileAnswered ==
  /\ rec.at = "asked"
  /\ rec' = [rec EXCEPT !.at = "answered", !.answer = env[rec.entry.s]]
  /\ UNCHANGED <<rows, baseline, env, call, bounds>>

\* The answer is compared with the status read before the awaits.
ReconcileApplies ==
  /\ rec.at = "answered"
  /\ LET e == rec.entry
     IN  /\ \/ rec.answer = "gone" /\ SetStatus(e.s, "destroyed")
            \/ rec.answer \notin {"gone", e.status} /\ SetStatus(e.s, rec.answer)
            \/ rec.answer = e.status /\ UNCHANGED status
         /\ Drop(e)
  /\ UNCHANGED <<ref, staging, lastCommit, baseline, env, call, bounds>>

\* getSession rejects: nothing catches it and the rest of the work is left.
ReconcileAborts ==
  /\ rec.at = "asked"
  /\ rec' = [NotReconciling EXCEPT !.at = "aborted"]
  /\ UNCHANGED <<rows, baseline, env, call, bounds>>

\* Defect: sessions without a reference are passed over.
ReconcileEndsEarly ==
  /\ rec.at = "working"
  /\ \A e \in rec.todo : ~e.ref
  /\ staging' = [s \in Sessions |-> IF staging[s] = "committing" THEN "failed" ELSE staging[s]]
  /\ rec' = NotReconciling
  /\ UNCHANGED <<status, ref, lastCommit, baseline, env, call, bounds>>

ReconcileEnds ==
  /\ rec.at = "working"
  /\ rec.todo = {}
  /\ staging' = [s \in Sessions |-> IF staging[s] = "committing" THEN "failed" ELSE staging[s]]
  /\ rec' = NotReconciling
  /\ UNCHANGED <<status, ref, lastCommit, baseline, env, call, bounds>>

-----------------------------------------------------------------------------
CreateStep(c, s) ==
  \/ CreateBegins(c, s)
  \/ \E answer \in {"ready", "creating"} : CreateActs(c, s, answer)
  \/ CreateStages(c, s) \/ CreateReturns(c, s) \/ CreateFails(c, s)

StopStep(c, s) ==
  \/ StopBegins(c, s)
  \/ \E answer \in {"stopping", "stopped"} : StopActs(c, s, answer)
  \/ StopReturns(c, s) \/ StopFails(c, s)

DestroyStep(c, s) ==
  DestroyBegins(c, s) \/ DestroyActs(c, s) \/ DestroyReturns(c, s) \/ DestroyClears(c, s)

CommitStep(c, s) ==
  \/ CommitBegins(c, s) \/ CommitReads(c, s) \/ CommitApplies(c, s)
  \/ CommitConflicts(c, s) \/ CommitReturns(c, s) \/ CommitFails(c, s)

DiscardStep(c, s) == DiscardBegins(c, s) \/ DiscardClears(c, s) \/ DiscardReturns(c, s)

ReconcileStep ==
  \/ ReconcileLists
  \/ \E e \in rec.todo : ReconcileFailsEntry(e) \/ ReconcileSkips(e) \/ ReconcileAsks(e)
  \/ ReconcileAnswered \/ ReconcileApplies \/ ReconcileAborts \/ ReconcileEnds

Next ==
  \/ \E c \in setting.callers, s \in Sessions :
       CreateStep(c, s) \/ StopStep(c, s) \/ DestroyStep(c, s) \/ CommitStep(c, s) \/ DiscardStep(c, s)
  \/ \E s \in Sessions : EnvChanges(s)
  \/ Crash
  \/ ReconcileStep

Spec == Init /\ [][Next]_vars

-----------------------------------------------------------------------------
(* Properties. *)

\* Callers wait for a creation to return before they discard the session, and nothing restarts.
Undisturbed == ~setting.earlyDiscard /\ setting.maxCrashes = 0

ClearingStage(s) ==
  \E c \in Callers : (In(c, "discard", s, "acted") \/ In(c, "destroy", s, "clearing"))

(***************************************************************************)
(* Two sessions that a caller can use are never both fresh read-write      *)
(* stages of the same host root, however their creations, failures, stops  *)
(* and destructions overlap, because the check for a writer and the        *)
(* creation of the row are one synchronous stretch (createSession).  The   *)
(* discard of a session still in creation, and a reconciliation that fails *)
(* it meanwhile, let a second one in.                                      *)
(***************************************************************************)
FreshWriterExclusive ==
  Undisturbed => \A s, t \in Sessions :
    /\ ActiveWriter(s) /\ staging[s] \in {"preparing", "ready"} /\ status[s] \in {"creating", "ready"}
    /\ ActiveWriter(t) /\ staging[t] \in {"preparing", "ready"} /\ status[t] \in {"creating", "ready"}
    => s = t

(***************************************************************************)
(* A session offered for a commit has its base manifest on disk, or the    *)
(* stage is just being discarded: destroySession and discardWorkspaceStage *)
(* remove the directory beside creations and commits of the same session.  *)
(* The discard of a session still in creation, or one that the             *)
(* reconciliation of a restart has failed meanwhile, breaks this.          *)
(***************************************************************************)
ReadyStageHasBaseline ==
  Undisturbed => \A s \in Sessions :
    StageMode[s] # "none" /\ staging[s] = "ready" /\ status[s] = "ready" => baseline[s] \/ ClearingStage(s)

(***************************************************************************)
(* A session that blocks other writers can be got rid of: it has the       *)
(* reference destroySession needs, or its creation is still in flight, or  *)
(* the reconciliation after a crash has yet to mark it (or gave up).       *)
(***************************************************************************)
BlockingWriterHasOwner ==
  \A s \in Sessions : ActiveWriter(s) =>
    \/ ref[s]
    \/ \E c \in Callers : call[c].op = "create" /\ call[c].s = s
    \/ rec.at \in {"waiting", "aborted"}
    \/ \E e \in rec.todo : e.s = s

(***************************************************************************)
(* A destroyed session never becomes ready again, and so never executes,   *)
(* opens a PTY or commits, although a stop that was asked for before the   *)
(* destruction may be answered after it (stopSession).  The one exception  *)
(* is the reconciliation, holding an answer about a session it listed      *)
(* before the destruction: it compares the answer with the old status.     *)
(***************************************************************************)
DestroyedNeverReady ==
  [][\A s \in Sessions :
       /\ status[s] = "destroyed"
       /\ ~(rec.at = "answered" /\ rec.entry.s = s /\ rec.entry.status # "ready")
       => status'[s] # "ready"]_vars

(***************************************************************************)
(* The service "enforces single active read-write writer per host          *)
(* workspace root" (constraint in the comment of RuntimeSessionService).   *)
(* The check is made at creation only: a session that has committed no     *)
(* longer counts, and may commit again beside its successor.               *)
(***************************************************************************)
SingleActiveWriter ==
  \A s, t \in Sessions : ActiveWriter(s) /\ ActiveWriter(t) => s = t
=============================================================================
