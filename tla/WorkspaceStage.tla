--------------------------- MODULE WorkspaceStage ---------------------------
(***************************************************************************)
(* The staged workspace of one read-write runtime session: the selected    *)
(* paths of the host workspace are scanned into a base manifest and copied *)
(* into the sandbox; a commit scans the host again, exports the sandbox,   *)
(* compares base, host and export path by path, and copies and deletes     *)
(* files on the host, with a rollback when a step fails.                   *)
(*                                                                         *)
(* Every file operation is awaited, so other processes may edit the host   *)
(* between any two of them, and so may the program in the sandbox.  Paths  *)
(* are flat: a path is missing, a directory, or a file with some content   *)
(* (entrySignature compares the same three).                               *)
(*                                                                         *)
(* before and since are not in the code: they record how others left the   *)
(* host, and how late their last edit of a path came.                      *)
(***************************************************************************)
EXTENDS Naturals, FiniteSets

CONSTANTS
  Paths,           \* the selected paths
  Files,           \* file contents
  Transports,      \* how adapters may export: "archive", "file_api"
  MaxHostEdits,    \* bound: edits of the host by others
  MaxSandboxEdits, \* bound: edits in the sandbox
  MaxCommits,      \* bound: commits
  MaxCrashes       \* bound: crashes

ASSUME StageAssumption ==
  /\ Transports \subseteq {"archive", "file_api"}
  /\ {"missing", "directory", "unsaved"} \cap Files = {}
  /\ {MaxHostEdits, MaxSandboxEdits, MaxCommits, MaxCrashes} \subseteq Nat

Content == Files \cup {"missing", "directory"}

VARIABLES
  transport, \* that of the session's adapter
  host,      \* the host workspace
  sandbox,   \* the sandbox's copy
  base,      \* the base manifest
  scan,      \* currentHostManifest of the commit
  export,    \* the export directory
  backup,    \* backedUpFiles and createdPaths ("missing"), "directory" if neither
  at,        \* the loop the code is in; "ready" between commits
  todo,      \* the paths that loop has left
  deletions, \* deleted_paths of the diff
  outcome,   \* how the last commit ended
  before,    \* the host as others left it
  since,     \* since[p]: others' last edit of p came after 1 the base scan, 2 the host scan, 3 the backup
  edits, sandboxEdits, commits, crashes  \* bound counters

trees == <<host, sandbox>>
manifests == <<base, scan, export>>
control == <<at, todo, deletions, outcome>>
ghosts == <<before, since>>
counters == <<edits, sandboxEdits, commits, crashes>>
vars == <<transport, trees, manifests, backup, control, ghosts, counters>>

Everywhere(c) == [p \in Paths |-> c]

At == {"scanning base", "copying", "ready", "scanning host", "exporting", "writing", "deleting",
       "restoring", "removing", "abandoned"}

TypeOK ==
  /\ transport \in Transports
  /\ {host, sandbox, base, scan, export, before} \subseteq [Paths -> Content]
  /\ backup \in [Paths -> Content \cup {"unsaved"}]
  /\ at \in At
  /\ todo \subseteq Paths
  /\ deletions \subseteq Paths
  /\ outcome \in {"none", "committed", "conflict", "failed", "half restored", "crashed"}
  /\ since \in [Paths -> 0..3]
  /\ edits \in 0..MaxHostEdits /\ sandboxEdits \in 0..MaxSandboxEdits
  /\ commits \in 0..MaxCommits /\ crashes \in 0..MaxCrashes

Init ==
  /\ transport \in Transports
  /\ host \in [Paths -> Content]
  /\ before = host
  /\ sandbox = Everywhere("missing")
  /\ base = Everywhere("missing")
  /\ scan = Everywhere("missing")
  /\ export = Everywhere("missing")
  /\ backup = Everywhere("unsaved")
  /\ at = "scanning base"
  /\ todo = Paths
  /\ deletions = {}
  /\ outcome = "none"
  /\ since = Everywhere(0)
  /\ edits = 0 /\ sandboxEdits = 0 /\ commits = 0 /\ crashes = 0

\* The loop over todo takes path p; when the paths are used up, the next loop begins.
InLoop(loop, p) == at = loop /\ p \in todo

Take(p, next, rest) ==
  IF todo = {p}
  THEN at' = next /\ todo' = rest
  ELSE at' = at /\ todo' = todo \ {p}

-----------------------------------------------------------------------------
(* prepareWorkspaceStage *)

ScanBase(p) ==
  /\ InLoop("scanning base", p)
  /\ base' = [base EXCEPT ![p] = host[p]]
  /\ Take(p, "copying", Paths)
  /\ UNCHANGED <<transport, trees, scan, export, backup, deletions, outcome, ghosts, counters>>

\* What was a file in the manifest is read again; directories travel in archives only.
CopyIn(p) ==
  /\ InLoop("copying", p)
  /\ \/ base[p] \in Files /\ host[p] \in Files /\ sandbox' = [sandbox EXCEPT ![p] = host[p]]
     \/ base[p] = "directory" /\ transport = "archive" /\ sandbox' = [sandbox EXCEPT ![p] = "directory"]
     \/ base[p] = "directory" /\ transport = "file_api" /\ UNCHANGED sandbox
     \/ base[p] = "missing" /\ UNCHANGED sandbox
  /\ Take(p, "ready", {})
  /\ UNCHANGED <<transport, host, manifests, backup, deletions, outcome, ghosts, counters>>

\* The file is gone, or the adapter rejects it: createSession fails.
StagingFails ==
  /\ at = "copying"
  /\ at' = "abandoned"
  /\ todo' = {}
  /\ UNCHANGED <<transport, trees, manifests, backup, deletions, outcome, ghosts, counters>>

-----------------------------------------------------------------------------
(* commitWorkspaceStage: scan and export. *)

CommitBegins ==
  /\ at = "ready"
  /\ commits < MaxCommits
  /\ commits' = commits + 1
  /\ at' = "scanning host"
  /\ todo' = Paths
  /\ deletions' = {}
  /\ outcome' = "none"
  /\ backup' = Everywhere("unsaved")
  /\ before' = host
  /\ since' = [p \in Paths |-> IF since[p] = 0 THEN 0 ELSE 1]
  /\ export' = Everywhere("missing")
  /\ UNCHANGED <<transport, trees, base, scan, edits, sandboxEdits, crashes>>

ScanHost(p) ==
  /\ InLoop("scanning host", p)
  /\ scan' = [scan EXCEPT ![p] = host[p]]
  /\ Take(p, "exporting", Paths)
  /\ UNCHANGED <<transport, trees, base, export, backup, deletions, outcome, ghosts, counters>>

\* exportWorkspaceArchive is one call of the adapter.
ExportArchive ==
  /\ at = "exporting"
  /\ todo # {}
  /\ transport = "archive"
  /\ export' = sandbox
  /\ todo' = {}
  /\ UNCHANGED <<transport, trees, base, scan, backup, at, deletions, outcome, ghosts, counters>>

\* reconstructExportFromFileApi asks for the files of the base manifest, one by one.
ExportFile(p) ==
  /\ InLoop("exporting", p)
  /\ transport = "file_api"
  /\ export' = [export EXCEPT ![p] = IF base[p] \in Files /\ sandbox[p] \in Files THEN sandbox[p] ELSE "missing"]
  /\ Take(p, "exporting", {})
  /\ UNCHANGED <<transport, trees, base, scan, backup, deletions, outcome, ghosts, counters>>

\* The adapter throws copy_failed, for whatever reason: the file counts as missing.
ReadFails(p) ==
  /\ InLoop("exporting", p)
  /\ transport = "file_api"
  /\ base[p] \in Files /\ sandbox[p] \in Files
  /\ Take(p, "exporting", {})
  /\ UNCHANGED <<transport, trees, manifests, backup, deletions, outcome, ghosts, counters>>

Fail ==
  /\ at' = "ready"
  /\ todo' = {}
  /\ outcome' = "failed"
  /\ UNCHANGED <<transport, trees, manifests, backup, deletions, ghosts, counters>>

\* A symbolic link, an archive over its limits, an adapter that throws.
ExportFails == at \in {"scanning host", "exporting"} /\ Fail

-----------------------------------------------------------------------------
(* diffWorkspaceStage *)

SandboxChanged(p) == base[p] # export[p]
HostChanged(p) == base[p] # scan[p]

\* Defect: only files that both sides still have are compared.
ConflictPathsOfFiles ==
  {p \in Paths : SandboxChanged(p) /\ HostChanged(p) /\ scan[p] # export[p] /\ export[p] \in Files}

ConflictPaths == {p \in Paths : SandboxChanged(p) /\ HostChanged(p) /\ scan[p] # export[p]}

WrittenPaths == {p \in Paths \ ConflictPaths : scan[p] # export[p] /\ export[p] \in Files}

DeletedPaths == {p \in Paths \ ConflictPaths : export[p] = "missing" /\ scan[p] \in Files}

DiffConflicts ==
  /\ at = "exporting"
  /\ todo = {}
  /\ ConflictPaths # {}
  /\ at' = "ready"
  /\ outcome' = "conflict"
  /\ UNCHANGED <<transport, trees, manifests, backup, todo, deletions, ghosts, counters>>

DiffApplies ==
  /\ at = "exporting"
  /\ todo = {}
  /\ ConflictPaths = {}
  /\ at' = "writing"
  /\ todo' = WrittenPaths
  /\ deletions' = DeletedPaths
  /\ UNCHANGED <<transport, trees, manifests, backup, outcome, ghosts, counters>>

-----------------------------------------------------------------------------
(* applyWorkspaceStageDiff: a path is backed up and then changed. *)

Saved(p) == backup[p] # "unsaved"
Save(p) == backup' = [backup EXCEPT ![p] = host[p]]
Change(p, c) == host' = [host EXCEPT ![p] = c]

\* A loop that saves before it changes is inside one path at a time.
Entering(loop, p) == InLoop(loop, p) /\ ~Saved(p) /\ \A q \in todo : ~Saved(q)

BackUpWrite(p) ==
  /\ Entering("writing", p)
  /\ Save(p)
  /\ UNCHANGED <<transport, trees, manifests, control, ghosts, counters>>

Write(p) ==
  /\ InLoop("writing", p)
  /\ Saved(p)
  /\ host[p] # "directory"
  /\ Change(p, export[p])
  /\ todo' = todo \ {p}
  /\ UNCHANGED <<transport, sandbox, manifests, backup, at, deletions, outcome, ghosts, counters>>

\* Defect: the commit ends with the written files.
WritesEndIt ==
  /\ at = "writing"
  /\ todo = {}
  /\ at' = "ready"
  /\ outcome' = "committed"
  /\ UNCHANGED <<transport, trees, manifests, backup, todo, deletions, ghosts, counters>>

WritesEnd ==
  /\ at = "writing"
  /\ todo = {}
  /\ at' = "deleting"
  /\ todo' = deletions
  /\ UNCHANGED <<transport, trees, manifests, backup, deletions, outcome, ghosts, counters>>

\* What is not a file any more is passed over.
SkipDeletion(p) ==
  /\ Entering("deleting", p)
  /\ host[p] \notin Files
  /\ todo' = todo \ {p}
  /\ UNCHANGED <<transport, trees, manifests, backup, at, deletions, outcome, ghosts, counters>>

BackUpDeletion(p) ==
  /\ Entering("deleting", p)
  /\ host[p] \in Files
  /\ Save(p)
  /\ UNCHANGED <<transport, trees, manifests, control, ghosts, counters>>

Delete(p) ==
  /\ InLoop("deleting", p)
  /\ Saved(p)
  /\ host[p] # "directory"
  /\ Change(p, "missing")
  /\ todo' = todo \ {p}
  /\ UNCHANGED <<transport, sandbox, manifests, backup, at, deletions, outcome, ghosts, counters>>

CommitEnds ==
  /\ at = "deleting"
  /\ todo = {}
  /\ at' = "ready"
  /\ outcome' = "committed"
  /\ UNCHANGED <<transport, trees, manifests, backup, todo, deletions, ghosts, counters>>

\* A file operation throws, perhaps after it has done its work.
ApplyFails(p) ==
  /\ \/ InLoop("writing", p) /\ Saved(p) /\ host[p] # "directory" /\ Change(p, export[p])
     \/ (InLoop("writing", p) \/ InLoop("deleting", p)) /\ UNCHANGED host
  /\ at' = "restoring"
  /\ todo' = {q \in Paths : backup[q] \in Files}
  /\ UNCHANGED <<transport, sandbox, manifests, backup, deletions, outcome, ghosts, counters>>

\* Defect: the backup is crossed off, and the file is not restored.
RestoreCrossed(p) ==
  /\ InLoop("restoring", p)
  /\ backup' = [backup EXCEPT ![p] = "restored"]
  /\ todo' = todo \ {p}
  /\ UNCHANGED <<transport, trees, manifests, at, deletions, outcome, ghosts, counters>>

Restore(p) ==
  /\ InLoop("restoring", p)
  /\ host[p] # "directory"
  /\ Change(p, backup[p])
  /\ todo' = todo \ {p}
  /\ UNCHANGED <<transport, sandbox, manifests, backup, at, deletions, outcome, ghosts, counters>>

\* Defect: the files that the commit created are left.
RestoresEndIt == at = "restoring" /\ todo = {} /\ Fail

RestoresEnd ==
  /\ at = "restoring"
  /\ todo = {}
  /\ at' = "removing"
  /\ todo' = {p \in Paths : backup[p] = "missing"}
  /\ UNCHANGED <<transport, trees, manifests, backup, deletions, outcome, ghosts, counters>>

Remove(p) ==
  /\ InLoop("removing", p)
  /\ host[p] # "directory"
  /\ Change(p, "missing")
  /\ todo' = todo \ {p}
  /\ UNCHANGED <<transport, sandbox, manifests, backup, at, deletions, outcome, ghosts, counters>>

RollbackEnds == at = "removing" /\ todo = {} /\ Fail

\* A step of the rollback throws; the others of its Promise.all may still be done.
RollbackFails(p, others) ==
  /\ InLoop("restoring", p) \/ InLoop("removing", p)
  /\ others \subseteq todo \ {p}
  /\ host' = [q \in Paths |-> IF q \in others /\ host[q] # "directory" THEN backup[q] ELSE host[q]]
  /\ at' = "ready"
  /\ todo' = {}
  /\ outcome' = "half restored"
  /\ UNCHANGED <<transport, sandbox, manifests, backup, deletions, ghosts, counters>>

-----------------------------------------------------------------------------
(* Everybody else. *)

\* How late an edit of p comes, seen from the commit that is under way.
Lateness(p) ==
  IF at \in {"scanning base", "copying"} THEN IF at = "scanning base" /\ p \in todo THEN 0 ELSE 1
  ELSE IF at = "scanning host" /\ p \in todo THEN 1
  ELSE IF at = "ready" \/ Saved(p) THEN 3 ELSE 2

HostEdited(p, c) ==
  /\ edits < MaxHostEdits
  /\ edits' = edits + 1
  /\ host[p] # c
  /\ Change(p, c)
  /\ before' = [before EXCEPT ![p] = c]
  /\ since' = [since EXCEPT ![p] = Lateness(p)]
  /\ UNCHANGED <<transport, sandbox, manifests, backup, control, sandboxEdits, commits, crashes>>

SandboxEdited(p, c) ==
  /\ at \notin {"scanning base", "copying", "abandoned"}
  /\ sandboxEdits < MaxSandboxEdits
  /\ sandboxEdits' = sandboxEdits + 1
  /\ sandbox[p] # c
  /\ sandbox' = [sandbox EXCEPT ![p] = c]
  /\ UNCHANGED <<transport, host, manifests, backup, control, ghosts, edits, commits, crashes>>

\* The control plane dies; the restart only marks the stage, and the session
\* may commit again if its row is ready.
Crash ==
  /\ crashes < MaxCrashes
  /\ at # "abandoned"
  /\ crashes' = crashes + 1
  /\ at' = IF at \in {"scanning base", "copying"} THEN "abandoned" ELSE "ready"
  /\ todo' = {}
  /\ outcome' = IF at \in {"scanning base", "copying", "ready"} THEN outcome ELSE "crashed"
  /\ UNCHANGED <<transport, trees, manifests, backup, deletions, ghosts, edits, sandboxEdits, commits>>

-----------------------------------------------------------------------------
StageStep == StagingFails \/ \E p \in Paths : ScanBase(p) \/ CopyIn(p)

CommitStep ==
  \/ CommitBegins \/ ExportArchive \/ ExportFails \/ DiffConflicts \/ DiffApplies
  \/ \E p \in Paths : ScanHost(p) \/ ExportFile(p) \/ ReadFails(p)

ApplyStep ==
  \/ WritesEnd \/ CommitEnds \/ RestoresEnd \/ RollbackEnds
  \/ \E p \in Paths :
       \/ BackUpWrite(p) \/ Write(p) \/ SkipDeletion(p) \/ BackUpDeletion(p) \/ Delete(p)
       \/ ApplyFails(p) \/ Restore(p) \/ Remove(p)
       \/ \E others \in SUBSET todo : RollbackFails(p, others)

Next ==
  \/ StageStep \/ CommitStep \/ ApplyStep
  \/ \E p \in Paths, c \in Content : HostEdited(p, c) \/ SandboxEdited(p, c)
  \/ Crash

Spec == Init /\ [][Next]_vars

-----------------------------------------------------------------------------
(* Properties.  They speak of the moment after a commit, and except the    *)
(* paths that others edited while the commit was at work on them: the code *)
(* takes no lock, and cannot protect those.                                *)

(***************************************************************************)
(* A commit that reports failure has changed nothing: however far it had   *)
(* come when a file operation failed, every path is as others left it,     *)
(* edits between the host scan and the backup included, unless the         *)
(* rollback itself has failed (applyWorkspaceStageDiff).                   *)
(***************************************************************************)
RollbackRestores ==
  outcome \in {"failed", "conflict"} => \A p \in Paths : since[p] < 3 => host[p] = before[p]

(***************************************************************************)
(* A commit that reports success has put every change of the exported      *)
(* sandbox on the host: files written and created, and files deleted.      *)
(***************************************************************************)
CommitIsComplete ==
  outcome = "committed" => \A p \in Paths : since[p] < 2 /\ SandboxChanged(p) =>
    /\ export[p] \in Files => host[p] = export[p]
    /\ export[p] = "missing" => host[p] \notin Files

(***************************************************************************)
(* What others changed since the workspace was staged is overwritten only  *)
(* where the sandbox made no change: changes of both sides are never       *)
(* merged silently, across failed commits, crashes and second commits.     *)
(***************************************************************************)
OverwritesOnlyUncontested ==
  outcome = "committed" => \A p \in Paths :
    since[p] < 2 /\ before[p] # base[p] /\ SandboxChanged(p) => host[p] = before[p]
=============================================================================
