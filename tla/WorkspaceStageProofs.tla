-------------------------- MODULE WorkspaceStageProofs --------------------------
(***************************************************************************)
(* Proofs about WorkspaceStage, for every set of paths and contents, every *)
(* transport, and every number of edits, commits and crashes.              *)
(***************************************************************************)
EXTENDS WorkspaceStage, TLAPS

-----------------------------------------------------------------------------
(* The inductive invariant. *)

Scanning == {"scanning base", "copying", "scanning host", "exporting"}
Applying == {"writing", "deleting"}
RollingBack == {"restoring", "removing"}

\* Until the first file operation, the commit has saved and changed nothing.
NothingYet == at \in Scanning => outcome = "none" /\ \A p \in Paths : host[p] = before[p] /\ ~Saved(p)

\* The host scan saw what others had left, unless they came later.
ScanFits ==
  at \in {"scanning host", "exporting"} \cup Applying =>
    \A p \in Paths : since[p] < 2 /\ ~(at = "scanning host" /\ p \in todo) => scan[p] = before[p]

\* A path that is not backed up is not changed; the backup is what others had left;
\* and a directory is in nobody's way.
BackedUp(p) ==
  /\ ~Saved(p) => host[p] = before[p]
  /\ Saved(p) /\ since[p] < 3 => backup[p] = before[p]
  /\ Saved(p) /\ since[p] < 3 /\ backup[p] = "directory" => host[p] = "directory"

\* The loops are through with p.
IsWritten(p) == p \in WrittenPaths /\ ~(at = "writing" /\ p \in todo)
IsDeleted(p) == p \in DeletedPaths /\ at # "writing" /\ ~(at = "deleting" /\ p \in todo)

Applied(p) ==
  /\ IsWritten(p) /\ since[p] < 3 => host[p] = export[p]
  /\ IsDeleted(p) /\ since[p] < 2 => host[p] = "missing"
  /\ p \notin WrittenPaths \cup DeletedPaths => host[p] = before[p]

ApplyFits ==
  at \in Applying =>
    /\ ConflictPaths = {}
    /\ deletions = DeletedPaths
    /\ todo \subseteq IF at = "writing" THEN WrittenPaths ELSE DeletedPaths
    /\ \A p \in Paths :
         /\ BackedUp(p) /\ Applied(p)
         /\ Saved(p) => p \in WrittenPaths \/ (at = "deleting" /\ p \in DeletedPaths)
         /\ IsWritten(p) => Saved(p)

\* The rollback has restored the paths that it is through with.
RollbackFits ==
  at \in RollingBack =>
    /\ \A p \in todo : IF at = "restoring" THEN backup[p] \in Files ELSE backup[p] = "missing"
    /\ \A p \in Paths :
         /\ BackedUp(p)
         /\ since[p] < 3 /\ backup[p] \in Files /\ ~(at = "restoring" /\ p \in todo) => host[p] = before[p]
         /\ since[p] < 3 /\ backup[p] = "missing" /\ at = "removing" /\ p \notin todo => host[p] = before[p]

\* How a commit ended tells what it left behind.
OutcomeFits ==
  /\ outcome \in {"committed", "conflict", "failed"} => at = "ready"
  /\ outcome \in {"conflict", "failed"} => \A p \in Paths : since[p] < 3 => host[p] = before[p]
  /\ outcome = "committed" =>
       /\ ConflictPaths = {}
       /\ \A p \in Paths : Applied(p) /\ (since[p] < 2 => scan[p] = before[p])

IInv == TypeOK /\ NothingYet /\ ScanFits /\ ApplyFits /\ RollbackFits /\ OutcomeFits

-----------------------------------------------------------------------------
(* Types. *)

Trees ==
  /\ host \in [Paths -> Content] /\ sandbox \in [Paths -> Content]
  /\ base \in [Paths -> Content] /\ scan \in [Paths -> Content]
  /\ export \in [Paths -> Content] /\ before \in [Paths -> Content]

Control ==
  /\ transport \in Transports
  /\ at \in At
  /\ todo \subseteq Paths
  /\ deletions \subseteq Paths
  /\ outcome \in {"none", "committed", "conflict", "failed", "half restored", "crashed"}
  /\ backup \in [Paths -> Content \cup {"unsaved"}]
  /\ since \in [Paths -> 0..3]

Counters ==
  /\ edits \in 0..MaxHostEdits /\ sandboxEdits \in 0..MaxSandboxEdits
  /\ commits \in 0..MaxCommits /\ crashes \in 0..MaxCrashes

\* Type correctness is that of the trees, of the control state and of the counters.
LEMMA TypeParts == TypeOK <=> Trees /\ Control /\ Counters
BY DEF TypeOK, Trees, Control, Counters

\* What the constants' assumption says of the values that a path can have.
LEMMA Constants ==
  /\ "missing" \notin Files /\ "directory" \notin Files /\ "unsaved" \notin Files
  /\ "missing" \in Content /\ "directory" \in Content /\ "unsaved" \notin Content
  /\ \A c \in Files : c \in Content
  /\ \A c \in Content : c \in Files \/ c \in {"missing", "directory"}
  /\ Everywhere("missing") \in [Paths -> Content]
  /\ Everywhere("unsaved") \in [Paths -> Content \cup {"unsaved"}]
BY StageAssumption DEF Content, Everywhere

\* A counter that is below its bound may be incremented.
LEMMA Counts ==
  ASSUME NEW max \in {MaxHostEdits, MaxSandboxEdits, MaxCommits, MaxCrashes}, NEW n \in 0..max, n < max
  PROVE  n + 1 \in 0..max
BY StageAssumption

\* Marking the edits as earlier than the commit keeps since well-typed.
LEMMA SinceReset == [p \in Paths |-> IF since[p] = 0 THEN 0 ELSE 1] \in [Paths -> 0..3]
OBVIOUS

\* How late an edit comes is one of four degrees.
LEMMA LatenessType == \A p \in Paths : Lateness(p) \in 0..3
BY DEF Lateness

\* The scan of a base file keeps the invariant.
LEMMA ScanBaseInv ==
  ASSUME IInv, NEW p \in Paths, ScanBase(p)
  PROVE  IInv'
<1> USE DEF IInv, ScanBase, trees, ghosts, counters, InLoop, Take, Saved
<1> Trees /\ Control /\ Counters
  BY TypeParts
<1>1. Trees'
  BY DEF Trees
<1>2. Control'
  BY DEF Control, At
<1>3. Counters'
  BY DEF Counters
<1>4. NothingYet'
  BY DEF NothingYet, Scanning
<1>5. ScanFits'
  BY DEF ScanFits, Applying
<1>6. ApplyFits'
  BY DEF ApplyFits, Applying
<1>7. RollbackFits'
  BY DEF RollbackFits, RollingBack
<1>8. OutcomeFits'
  BY DEF OutcomeFits
<1> QED BY <1>1, <1>2, <1>3, <1>4, <1>5, <1>6, <1>7, <1>8 DEF TypeOK, Trees, Control, Counters

\* Copying a file into the sandbox keeps the invariant.
LEMMA CopyInInv ==
  ASSUME IInv, NEW p \in Paths, CopyIn(p)
  PROVE  IInv'
<1> USE DEF IInv, CopyIn, manifests, ghosts, counters, InLoop, Take, Saved
<1> Trees /\ Control /\ Counters
  BY TypeParts
<1>1. Trees'
  BY DEF Trees
<1>2. Control'
  BY DEF Control, At
<1>3. Counters'
  BY DEF Counters
<1>4. NothingYet'
  BY DEF NothingYet, Scanning
<1>5. ScanFits'
  BY DEF ScanFits, Applying
<1>6. ApplyFits'
  BY DEF ApplyFits, Applying
<1>7. RollbackFits'
  BY DEF RollbackFits, RollingBack
<1>8. OutcomeFits'
  BY DEF OutcomeFits
<1> QED BY <1>1, <1>2, <1>3, <1>4, <1>5, <1>6, <1>7, <1>8 DEF TypeOK, Trees, Control, Counters

\* A staging that fails keeps the invariant.
LEMMA StagingFailsInv ==
  ASSUME IInv, StagingFails
  PROVE  IInv'
<1> USE DEF IInv, StagingFails, trees, manifests, ghosts, counters, Saved
<1> Trees /\ Control /\ Counters
  BY TypeParts
<1>1. Trees'
  BY DEF Trees
<1>2. Control'
  BY DEF Control, At
<1>3. Counters'
  BY DEF Counters
<1>4. NothingYet'
  BY DEF NothingYet, Scanning
<1>5. ScanFits'
  BY DEF ScanFits, Applying
<1>6. ApplyFits'
  BY DEF ApplyFits, Applying
<1>7. RollbackFits'
  BY DEF RollbackFits, RollingBack
<1>8. OutcomeFits'
  BY DEF OutcomeFits
<1> QED BY <1>1, <1>2, <1>3, <1>4, <1>5, <1>6, <1>7, <1>8 DEF TypeOK, Trees, Control, Counters

\* A commit that begins keeps the invariant: it has saved and changed nothing.
LEMMA CommitBeginsInv ==
  ASSUME IInv, CommitBegins
  PROVE  IInv'
<1> USE DEF IInv, CommitBegins, trees, Saved
<1> Trees /\ Control /\ Counters
  BY TypeParts
<1>1. Trees'
  BY Constants DEF Trees
<1>2. Control'
  <2> QED BY Constants, SinceReset DEF Control, At
<1>3. Counters'
  BY Counts DEF Counters
<1>4. NothingYet'
  BY DEF NothingYet, Everywhere
<1>5. ScanFits'
  BY DEF ScanFits
<1>6. ApplyFits'
  BY DEF ApplyFits, Applying
<1>7. RollbackFits'
  BY DEF RollbackFits, RollingBack
<1>8. OutcomeFits'
  BY DEF OutcomeFits
<1> QED BY <1>1, <1>2, <1>3, <1>4, <1>5, <1>6, <1>7, <1>8 DEF TypeOK, Trees, Control, Counters

\* The scan of a host file keeps the invariant.
LEMMA ScanHostInv ==
  ASSUME IInv, NEW p \in Paths, ScanHost(p)
  PROVE  IInv'
<1> USE DEF IInv, ScanHost, trees, ghosts, counters, InLoop, Take, Saved
<1> Trees /\ Control /\ Counters
  BY TypeParts
<1>1. Trees'
  BY DEF Trees
<1>2. Control'
  BY DEF Control, At
<1>3. Counters'
  BY DEF Counters
<1>4. NothingYet'
  BY DEF NothingYet, Scanning
<1>5. ScanFits'
  BY DEF Trees, ScanFits, Scanning, NothingYet
<1>6. ApplyFits'
  BY DEF ApplyFits, Applying
<1>7. RollbackFits'
  BY DEF RollbackFits, RollingBack
<1>8. OutcomeFits'
  BY DEF OutcomeFits
<1> QED BY <1>1, <1>2, <1>3, <1>4, <1>5, <1>6, <1>7, <1>8 DEF TypeOK, Trees, Control, Counters

\* Taking the sandbox's archive keeps the invariant.
LEMMA ExportArchiveInv ==
  ASSUME IInv, ExportArchive
  PROVE  IInv'
<1> USE DEF IInv, ExportArchive, trees, ghosts, counters, Saved
<1> Trees /\ Control /\ Counters
  BY TypeParts
<1>1. Trees'
  BY DEF Trees
<1>2. Control'
  BY DEF Control
<1>3. Counters'
  BY DEF Counters
<1>4. NothingYet'
  BY DEF NothingYet
<1>5. ScanFits'
  BY DEF ScanFits
<1>6. ApplyFits'
  BY DEF ApplyFits, Applying
<1>7. RollbackFits'
  BY DEF RollbackFits, BackedUp
<1>8. OutcomeFits'
  BY DEF OutcomeFits
<1> QED BY <1>1, <1>2, <1>3, <1>4, <1>5, <1>6, <1>7, <1>8 DEF TypeOK, Trees, Control, Counters

\* Exporting one file keeps the invariant.
LEMMA ExportFileInv ==
  ASSUME IInv, NEW p \in Paths, ExportFile(p)
  PROVE  IInv'
<1> USE DEF IInv, ExportFile, trees, ghosts, counters, InLoop, Take, Saved
<1> Trees /\ Control /\ Counters
  BY TypeParts
<1>1. Trees'
  BY Constants DEF Trees
<1>2. Control'
  BY DEF Control
<1>3. Counters'
  BY DEF Counters
<1>4. NothingYet'
  BY DEF NothingYet
<1>5. ScanFits'
  BY DEF ScanFits
<1>6. ApplyFits'
  BY DEF ApplyFits, Applying
<1>7. RollbackFits'
  BY DEF RollbackFits, BackedUp
<1>8. OutcomeFits'
  BY DEF OutcomeFits
<1> QED BY <1>1, <1>2, <1>3, <1>4, <1>5, <1>6, <1>7, <1>8 DEF TypeOK, Trees, Control, Counters

\* A read that fails, taken for a deletion, keeps the invariant.
LEMMA ReadFailsInv ==
  ASSUME IInv, NEW p \in Paths, ReadFails(p)
  PROVE  IInv'
<1> USE DEF IInv, ReadFails, trees, manifests, ghosts, counters, InLoop, Take, Saved
<1> Trees /\ Control /\ Counters
  BY TypeParts
<1>1. Trees'
  BY DEF Trees
<1>2. Control'
  BY DEF Control
<1>3. Counters'
  BY DEF Counters
<1>4. NothingYet'
  BY DEF NothingYet
<1>5. ScanFits'
  BY DEF ScanFits
<1>6. ApplyFits'
  BY DEF ApplyFits, BackedUp, Applied, IsWritten, IsDeleted, WrittenPaths, DeletedPaths, ConflictPaths,
     SandboxChanged, HostChanged
<1>7. RollbackFits'
  BY DEF RollbackFits, BackedUp
<1>8. OutcomeFits'
  BY DEF OutcomeFits
<1> QED BY <1>1, <1>2, <1>3, <1>4, <1>5, <1>6, <1>7, <1>8 DEF TypeOK, Trees, Control, Counters

\* An export that fails keeps the invariant.
LEMMA ExportFailsInv ==
  ASSUME IInv, ExportFails
  PROVE  IInv'
<1> USE DEF IInv, ExportFails, trees, manifests, ghosts, counters, Fail, Saved
<1> Trees /\ Control /\ Counters
  BY TypeParts
<1>1. Trees'
  BY DEF Trees
<1>2. Control'
  BY DEF Control, At
<1>3. Counters'
  BY DEF Counters
<1>4. NothingYet'
  BY DEF NothingYet, Scanning
<1>5. ScanFits'
  BY DEF ScanFits, Applying
<1>6. ApplyFits'
  BY DEF ApplyFits, Applying
<1>7. RollbackFits'
  BY DEF RollbackFits, RollingBack
<1>8. OutcomeFits'
  BY DEF OutcomeFits, NothingYet, Scanning
<1> QED BY <1>1, <1>2, <1>3, <1>4, <1>5, <1>6, <1>7, <1>8 DEF TypeOK, Trees, Control, Counters

\* A commit that finds a conflict keeps the invariant: nothing was changed.
LEMMA DiffConflictsInv ==
  ASSUME IInv, DiffConflicts
  PROVE  IInv'
<1> USE DEF IInv, DiffConflicts, trees, manifests, ghosts, counters, Saved
<1> Trees /\ Control /\ Counters
  BY TypeParts
<1>1. Trees'
  BY DEF Trees
<1>2. Control'
  BY DEF Control, At
<1>3. Counters'
  BY DEF Counters
<1>4. NothingYet'
  BY DEF NothingYet, Scanning
<1>5. ScanFits'
  BY DEF ScanFits
<1>6. ApplyFits'
  BY DEF ApplyFits, Applying
<1>7. RollbackFits'
  BY DEF RollbackFits, RollingBack
<1>8. OutcomeFits'
  BY DEF OutcomeFits, NothingYet, Scanning
<1> QED BY <1>1, <1>2, <1>3, <1>4, <1>5, <1>6, <1>7, <1>8 DEF TypeOK, Trees, Control, Counters

\* A commit that finds none keeps the invariant as its writes begin.
LEMMA DiffAppliesInv ==
  ASSUME IInv, DiffApplies
  PROVE  IInv'
<1> USE DEF IInv, DiffApplies, trees, manifests, ghosts, counters, Saved
<1> Trees /\ Control /\ Counters
  BY TypeParts
<1>1. Trees'
  BY DEF Trees
<1>2. Control'
  BY DEF Control, At, WrittenPaths, DeletedPaths
<1>3. Counters'
  BY DEF Counters
<1>4. NothingYet'
  BY DEF NothingYet, Scanning
<1>5. ScanFits'
  BY DEF ScanFits
<1>6. ApplyFits'
  BY DEF ApplyFits, Scanning, NothingYet, BackedUp, Applied, IsWritten, IsDeleted, WrittenPaths,
     DeletedPaths, ConflictPaths, SandboxChanged, HostChanged
<1>7. RollbackFits'
  BY DEF RollbackFits, RollingBack
<1>8. OutcomeFits'
  BY DEF OutcomeFits
<1> QED BY <1>1, <1>2, <1>3, <1>4, <1>5, <1>6, <1>7, <1>8 DEF TypeOK, Trees, Control, Counters

\* Backing a path up before its write keeps the invariant.
LEMMA BackUpWriteInv ==
  ASSUME IInv, NEW p \in Paths, BackUpWrite(p)
  PROVE  IInv'
<1> USE DEF IInv, BackUpWrite, trees, manifests, control, ghosts, counters, InLoop, Entering, Save, Saved
<1> Trees /\ Control /\ Counters
  BY TypeParts
<1>1. Trees'
  BY DEF Trees
<1>2. Control'
  BY DEF Control, Trees
<1>3. Counters'
  BY DEF Counters
<1>4. NothingYet'
  BY DEF NothingYet, Scanning
<1>5. ScanFits'
  BY DEF ScanFits
<1>6. ApplyFits'
  <2>1. ConflictPaths' = ConflictPaths /\ WrittenPaths' = WrittenPaths /\ DeletedPaths' = DeletedPaths
    BY DEF ConflictPaths, WrittenPaths, DeletedPaths, SandboxChanged, HostChanged
  <2>2. \A q \in Paths : BackedUp(q)'
    BY DEF ApplyFits, Applying, BackedUp
  <2>3. \A q \in Paths : Applied(q)' /\ (IsWritten(q) => Saved(q))'
    BY <2>1 DEF ApplyFits, Applying, Applied, IsWritten, IsDeleted
  <2> QED BY <2>1, <2>2, <2>3 DEF ApplyFits
<1>7. RollbackFits'
  BY DEF RollbackFits
<1>8. OutcomeFits'
  BY DEF OutcomeFits
<1> QED BY <1>1, <1>2, <1>3, <1>4, <1>5, <1>6, <1>7, <1>8 DEF TypeOK, Trees, Control, Counters

\* Writing a path keeps the invariant.
LEMMA WriteInv ==
  ASSUME IInv, NEW p \in Paths, Write(p)
  PROVE  IInv'
<1> USE DEF IInv, Write, manifests, ghosts, counters, InLoop, Change, Saved
<1> Trees /\ Control /\ Counters
  BY TypeParts
<1>1. Trees'
  BY DEF Trees
<1>2. Control'
  BY DEF Control
<1>3. Counters'
  BY DEF Counters
<1>4. NothingYet'
  BY DEF NothingYet
<1>5. ScanFits'
  BY DEF ScanFits
<1>6. ApplyFits'
  BY DEF Trees, ApplyFits, BackedUp, Applied, IsWritten, IsDeleted, WrittenPaths, DeletedPaths,
     ConflictPaths, SandboxChanged, HostChanged
<1>7. RollbackFits'
  BY Constants DEF RollbackFits, BackedUp
<1>8. OutcomeFits'
  BY DEF OutcomeFits
<1> QED BY <1>1, <1>2, <1>3, <1>4, <1>5, <1>6, <1>7, <1>8 DEF TypeOK, Trees, Control, Counters

\* The end of the writes keeps the invariant.
LEMMA WritesEndInv ==
  ASSUME IInv, WritesEnd
  PROVE  IInv'
<1> USE DEF IInv, WritesEnd, trees, manifests, ghosts, counters, Saved
<1> Trees /\ Control /\ Counters
  BY TypeParts
<1>1. Trees'
  BY DEF Trees
<1>2. Control'
  BY DEF Control, At
<1>3. Counters'
  BY DEF Counters
<1>4. NothingYet'
  BY DEF NothingYet, Scanning
<1>5. ScanFits'
  BY DEF ScanFits, Applying
<1>6. ApplyFits'
  BY DEF Trees, ApplyFits, Applying, BackedUp, Applied, IsWritten, IsDeleted, WrittenPaths, DeletedPaths,
     ConflictPaths, SandboxChanged, HostChanged
<1>7. RollbackFits'
  BY DEF RollbackFits, RollingBack
<1>8. OutcomeFits'
  BY DEF OutcomeFits
<1> QED BY <1>1, <1>2, <1>3, <1>4, <1>5, <1>6, <1>7, <1>8 DEF TypeOK, Trees, Control, Counters

\* A deletion that finds nothing to delete keeps the invariant.
LEMMA SkipDeletionInv ==
  ASSUME IInv, NEW p \in Paths, SkipDeletion(p)
  PROVE  IInv'
<1> USE DEF IInv, SkipDeletion, trees, manifests, ghosts, counters, InLoop, Entering, Saved
<1> Trees /\ Control /\ Counters
  BY TypeParts
<1>1. Trees'
  BY DEF Trees
<1>2. Control'
  BY DEF Control
<1>3. Counters'
  BY DEF Counters
<1>4. NothingYet'
  BY DEF NothingYet
<1>5. ScanFits'
  BY DEF ScanFits
<1>6. ApplyFits'
  <2>1. ConflictPaths' = ConflictPaths /\ WrittenPaths' = WrittenPaths /\ DeletedPaths' = DeletedPaths
    BY DEF ConflictPaths, WrittenPaths, DeletedPaths, SandboxChanged, HostChanged
  <2>2. \A q \in Paths : BackedUp(q)'
    BY DEF ApplyFits, Applying, BackedUp
  <2>3. since[p] < 2 => FALSE
    <3>1. host[p] = before[p] /\ p \in DeletedPaths
      BY DEF ApplyFits, Applying, BackedUp
    <3>2. since[p] < 2 => scan[p] = before[p]
      BY DEF ScanFits, Applying
    <3> QED BY <3>1, <3>2 DEF DeletedPaths
  <2>4. \A q \in Paths : Applied(q)' /\ (IsWritten(q) => Saved(q))'
    BY <2>1, <2>3 DEF ApplyFits, Applying, Applied, IsWritten, IsDeleted
  <2> QED BY <2>1, <2>2, <2>4 DEF ApplyFits
<1>7. RollbackFits'
  BY DEF RollbackFits
<1>8. OutcomeFits'
  BY DEF OutcomeFits
<1> QED BY <1>1, <1>2, <1>3, <1>4, <1>5, <1>6, <1>7, <1>8 DEF TypeOK, Trees, Control, Counters

\* Backing a path up before its deletion keeps the invariant.
LEMMA BackUpDeletionInv ==
  ASSUME IInv, NEW p \in Paths, BackUpDeletion(p)
  PROVE  IInv'
<1> USE DEF IInv, BackUpDeletion, trees, manifests, control, ghosts, counters, InLoop, Entering, Save, Saved
<1> Trees /\ Control /\ Counters
  BY TypeParts
<1>1. Trees'
  BY DEF Trees
<1>2. Control'
  BY Constants DEF Control
<1>3. Counters'
  BY DEF Counters
<1>4. NothingYet'
  BY DEF NothingYet, Scanning
<1>5. ScanFits'
  BY DEF ScanFits
<1>6. ApplyFits'
  <2>1. ConflictPaths' = ConflictPaths /\ WrittenPaths' = WrittenPaths /\ DeletedPaths' = DeletedPaths
    BY DEF ConflictPaths, WrittenPaths, DeletedPaths, SandboxChanged, HostChanged
  <2>2. \A q \in Paths : BackedUp(q)'
    BY DEF ApplyFits, Applying, BackedUp
  <2>3. \A q \in Paths : Applied(q)' /\ (IsWritten(q) => Saved(q))'
    BY <2>1 DEF ApplyFits, Applying, Applied, IsWritten, IsDeleted
  <2>4. \A q \in Paths : Saved(q)' => q \in WrittenPaths \/ (at = "deleting" /\ q \in DeletedPaths)
    BY DEF ApplyFits, Applying
  <2> QED BY <2>1, <2>2, <2>3 DEF ApplyFits
<1>7. RollbackFits'
  BY DEF RollbackFits
<1>8. OutcomeFits'
  BY DEF OutcomeFits
<1> QED BY <1>1, <1>2, <1>3, <1>4, <1>5, <1>6, <1>7, <1>8 DEF TypeOK, Trees, Control, Counters

\* Deleting a path keeps the invariant.
LEMMA DeleteInv ==
  ASSUME IInv, NEW p \in Paths, Delete(p)
  PROVE  IInv'
<1> USE DEF IInv, Delete, manifests, ghosts, counters, InLoop, Change, Saved
<1> Trees /\ Control /\ Counters
  BY TypeParts
<1>1. Trees'
  BY Constants DEF Trees
<1>2. Control'
  BY DEF Control
<1>3. Counters'
  BY DEF Counters
<1>4. NothingYet'
  BY DEF NothingYet
<1>5. ScanFits'
  BY DEF ScanFits
<1>6. ApplyFits'
  <2>1. ConflictPaths' = ConflictPaths /\ WrittenPaths' = WrittenPaths /\ DeletedPaths' = DeletedPaths
    BY DEF ConflictPaths, WrittenPaths, DeletedPaths, SandboxChanged, HostChanged
  <2>2. \A q \in Paths : BackedUp(q)'
    BY DEF Trees, ApplyFits, Applying, BackedUp
  <2>3. p \in DeletedPaths /\ p \notin WrittenPaths
    BY Constants DEF ApplyFits, Applying, WrittenPaths, DeletedPaths
  <2>4. \A q \in Paths : Applied(q)' /\ (IsWritten(q) => Saved(q))'
    BY <2>1, <2>3 DEF Trees, ApplyFits, Applying, Applied, IsWritten, IsDeleted
  <2>5. \A q \in Paths : Saved(q)' => q \in WrittenPaths \/ (at = "deleting" /\ q \in DeletedPaths)
    BY DEF ApplyFits, Applying
  <2> QED BY <2>1, <2>2, <2>4 DEF ApplyFits
<1>7. RollbackFits'
  BY DEF RollbackFits, BackedUp
<1>8. OutcomeFits'
  BY DEF OutcomeFits
<1> QED BY <1>1, <1>2, <1>3, <1>4, <1>5, <1>6, <1>7, <1>8 DEF TypeOK, Trees, Control, Counters

\* A commit that is through keeps the invariant.
LEMMA CommitEndsInv ==
  ASSUME IInv, CommitEnds
  PROVE  IInv'
<1> USE DEF IInv, CommitEnds, trees, manifests, ghosts, counters, Saved
<1> Trees /\ Control /\ Counters
  BY TypeParts
<1>1. Trees'
  BY DEF Trees
<1>2. Control'
  BY DEF Control, At
<1>3. Counters'
  BY DEF Counters
<1>4. NothingYet'
  BY DEF NothingYet, Scanning
<1>5. ScanFits'
  BY DEF ScanFits, Applying
<1>6. ApplyFits'
  BY DEF ApplyFits, Applying
<1>7. RollbackFits'
  BY DEF RollbackFits, RollingBack
<1>8. OutcomeFits'
  BY DEF OutcomeFits, Applying, Applied, IsWritten, IsDeleted, WrittenPaths, DeletedPaths, ConflictPaths,
     SandboxChanged, HostChanged, ApplyFits, ScanFits
<1> QED BY <1>1, <1>2, <1>3, <1>4, <1>5, <1>6, <1>7, <1>8 DEF TypeOK, Trees, Control, Counters

\* A file operation that fails keeps the invariant as the rollback begins.
LEMMA ApplyFailsInv ==
  ASSUME IInv, NEW p \in Paths, ApplyFails(p)
  PROVE  IInv'
<1> USE DEF IInv, ApplyFails, manifests, ghosts, counters, InLoop, Change, Saved
<1> Trees /\ Control /\ Counters
  BY TypeParts
<1>1. Trees'
  BY DEF Trees
<1>2. Control'
  BY DEF Control, At
<1>3. Counters'
  BY DEF Counters
<1>4. NothingYet'
  BY DEF NothingYet, Scanning
<1>5. ScanFits'
  BY DEF ScanFits, Applying
<1>6. ApplyFits'
  BY DEF ApplyFits, Applying
<1>7. RollbackFits'
  BY DEF Trees, RollbackFits, ApplyFits, Applying, BackedUp
<1>8. OutcomeFits'
  BY DEF OutcomeFits
<1> QED BY <1>1, <1>2, <1>3, <1>4, <1>5, <1>6, <1>7, <1>8 DEF TypeOK, Trees, Control, Counters

\* Restoring a backup keeps the invariant.
LEMMA RestoreInv ==
  ASSUME IInv, NEW p \in Paths, Restore(p)
  PROVE  IInv'
<1> USE DEF IInv, Restore, manifests, ghosts, counters, InLoop, Change, Saved
<1> Trees /\ Control /\ Counters
  BY TypeParts
<1>1. Trees'
  BY Constants DEF Trees, RollbackFits, RollingBack
<1>2. Control'
  BY DEF Control
<1>3. Counters'
  BY DEF Counters
<1>4. NothingYet'
  BY DEF NothingYet, Scanning
<1>5. ScanFits'
  BY DEF ScanFits
<1>6. ApplyFits'
  BY DEF ApplyFits, Applying
<1>7. RollbackFits'
  BY Constants DEF Trees, RollbackFits, BackedUp
<1>8. OutcomeFits'
  BY DEF OutcomeFits
<1> QED BY <1>1, <1>2, <1>3, <1>4, <1>5, <1>6, <1>7, <1>8 DEF TypeOK, Trees, Control, Counters

\* The end of the restores keeps the invariant.
LEMMA RestoresEndInv ==
  ASSUME IInv, RestoresEnd
  PROVE  IInv'
<1> USE DEF IInv, RestoresEnd, trees, manifests, ghosts, counters, Saved
<1> Trees /\ Control /\ Counters
  BY TypeParts
<1>1. Trees'
  BY DEF Trees
<1>2. Control'
  BY DEF Control, At
<1>3. Counters'
  BY DEF Counters
<1>4. NothingYet'
  BY DEF NothingYet, Scanning
<1>5. ScanFits'
  BY DEF ScanFits, Applying
<1>6. ApplyFits'
  BY DEF ApplyFits, Applying
<1>7. RollbackFits'
  BY DEF RollbackFits, RollingBack, BackedUp
<1>8. OutcomeFits'
  BY DEF OutcomeFits
<1> QED BY <1>1, <1>2, <1>3, <1>4, <1>5, <1>6, <1>7, <1>8 DEF TypeOK, Trees, Control, Counters

\* Removing a created path keeps the invariant.
LEMMA RemoveInv ==
  ASSUME IInv, NEW p \in Paths, Remove(p)
  PROVE  IInv'
<1> USE DEF IInv, Remove, manifests, ghosts, counters, InLoop, Change, Saved
<1> Trees /\ Control /\ Counters
  BY TypeParts
<1>1. Trees'
  BY Constants DEF Trees
<1>2. Control'
  BY DEF Control
<1>3. Counters'
  BY DEF Counters
<1>4. NothingYet'
  BY DEF NothingYet, Scanning
<1>5. ScanFits'
  BY DEF ScanFits
<1>6. ApplyFits'
  BY DEF ApplyFits, Applying
<1>7. RollbackFits'
  BY DEF Trees, RollbackFits, BackedUp
<1>8. OutcomeFits'
  BY DEF OutcomeFits
<1> QED BY <1>1, <1>2, <1>3, <1>4, <1>5, <1>6, <1>7, <1>8 DEF TypeOK, Trees, Control, Counters

\* The end of the rollback keeps the invariant.
LEMMA RollbackEndsInv ==
  ASSUME IInv, RollbackEnds
  PROVE  IInv'
<1> USE DEF IInv, RollbackEnds, trees, manifests, ghosts, counters, Fail, Saved
<1> Trees /\ Control /\ Counters
  BY TypeParts
<1>1. Trees'
  BY DEF Trees
<1>2. Control'
  BY DEF Control, At
<1>3. Counters'
  BY DEF Counters
<1>4. NothingYet'
  BY DEF NothingYet, Scanning
<1>5. ScanFits'
  BY DEF ScanFits, Applying
<1>6. ApplyFits'
  BY DEF ApplyFits, Applying
<1>7. RollbackFits'
  BY DEF RollbackFits, RollingBack
<1>8. OutcomeFits'
  BY Constants DEF Trees, OutcomeFits, BackedUp, RollbackFits, RollingBack
<1> QED BY <1>1, <1>2, <1>3, <1>4, <1>5, <1>6, <1>7, <1>8 DEF TypeOK, Trees, Control, Counters

\* A rollback that fails keeps the invariant.
LEMMA RollbackFailsInv ==
  ASSUME IInv, NEW p \in Paths, NEW others \in SUBSET todo, RollbackFails(p, others)
  PROVE  IInv'
<1> USE DEF IInv, RollbackFails, manifests, ghosts, counters, InLoop, Saved
<1> Trees /\ Control /\ Counters
  BY TypeParts
<1>1. Trees'
  BY Constants DEF Trees, RollbackFits, RollingBack
<1>2. Control'
  BY DEF Control, At
<1>3. Counters'
  BY DEF Counters
<1>4. NothingYet'
  BY DEF NothingYet, Scanning
<1>5. ScanFits'
  BY DEF ScanFits, Applying
<1>6. ApplyFits'
  BY DEF ApplyFits, Applying
<1>7. RollbackFits'
  BY DEF RollbackFits, RollingBack
<1>8. OutcomeFits'
  BY DEF OutcomeFits
<1> QED BY <1>1, <1>2, <1>3, <1>4, <1>5, <1>6, <1>7, <1>8 DEF TypeOK, Trees, Control, Counters

\* An edit on the host, at any moment, keeps the invariant.
LEMMA HostEditedInv ==
  ASSUME IInv, NEW p \in Paths, NEW c \in Content, HostEdited(p, c)
  PROVE  IInv'
<1> USE DEF IInv
<1>1. Trees /\ Control /\ Counters
  BY TypeParts
<1>2. /\ host' = [host EXCEPT ![p] = c] /\ before' = [before EXCEPT ![p] = c]
      /\ since' = [since EXCEPT ![p] = Lateness(p)]
      /\ edits < MaxHostEdits /\ edits' = edits + 1
      /\ UNCHANGED <<transport, sandbox, base, scan, export, backup, at, todo, deletions, outcome>>
      /\ UNCHANGED <<sandboxEdits, commits, crashes>>
  BY DEF HostEdited, Change, manifests, control
<1>3. /\ host'[p] = c /\ before'[p] = c
      /\ \A q \in Paths : q # p => host'[q] = host[q] /\ before'[q] = before[q] /\ since'[q] = since[q]
  BY <1>1, <1>2 DEF Trees, Control
<1>4. /\ ConflictPaths' = ConflictPaths /\ WrittenPaths' = WrittenPaths /\ DeletedPaths' = DeletedPaths
  BY <1>2 DEF ConflictPaths, WrittenPaths, DeletedPaths, SandboxChanged, HostChanged
<1>5. /\ at = "ready" => ~(since'[p] < 2) /\ ~(since'[p] < 3)
      /\ at \in Applying \cup RollingBack \cup {"scanning host", "exporting"} /\ ~(at = "scanning host" /\ p \in todo) =>
           /\ ~(since'[p] < 2)
           /\ Saved(p) => ~(since'[p] < 3)
  <2>1. since'[p] = Lateness(p)
    BY <1>1, <1>2 DEF Control
  <2>2. CASE at = "ready"
    <3>1. Lateness(p) = 3
      BY <2>2 DEF Lateness
    <3> QED BY <2>1, <3>1
  <2>3. CASE at \in Applying \cup RollingBack \cup {"scanning host", "exporting"} /\ ~(at = "scanning host" /\ p \in todo)
    <3>1. ASSUME Saved(p)
          PROVE  ~(since'[p] < 2) /\ ~(since'[p] < 3)
      <4>1. Lateness(p) = 3
        BY <2>3, <3>1 DEF Lateness, Applying, RollingBack
      <4> QED BY <2>1, <4>1
    <3>2. ASSUME ~Saved(p)
          PROVE  ~(since'[p] < 2)
      <4>1. Lateness(p) = 2
        BY <2>3, <3>2 DEF Lateness, Applying, RollingBack
      <4> QED BY <2>1, <4>1
    <3>3. at # "ready"
      BY <2>3 DEF Applying, RollingBack
    <3> QED BY <3>1, <3>2, <3>3
  <2> QED BY <2>2, <2>3
<1>6. TypeOK'
  <2>1. Trees' /\ Control'
    BY <1>1, <1>2, LatenessType DEF Trees, Control
  <2>2. Counters'
    BY <1>1, <1>2, Counts DEF Counters
  <2> QED BY <2>1, <2>2 DEF TypeOK, Trees, Control, Counters
<1>7. NothingYet'
  BY <1>2, <1>3 DEF NothingYet, Saved
<1>8. ScanFits'
  <2> SUFFICES ASSUME at \in {"scanning host", "exporting"} \cup Applying, NEW q \in Paths, since'[q] < 2,
                      ~(at = "scanning host" /\ q \in todo)
               PROVE  scan[q] = before'[q]
    BY <1>2 DEF ScanFits
  <2>1. q # p
    BY <1>3, <1>5 DEF Applying
  <2> QED BY <1>3, <2>1 DEF ScanFits
<1>9. ASSUME at \in Applying \cup RollingBack, NEW q \in Paths, BackedUp(q)
      PROVE  BackedUp(q)'
  <2>1. CASE q = p
    BY <1>2, <1>3, <1>5, <1>9, <2>1 DEF BackedUp, Saved, Applying, RollingBack
  <2>2. CASE q # p
    BY <1>2, <1>3, <1>9, <2>2 DEF BackedUp, Saved
  <2> QED BY <2>1, <2>2
<1>10. ASSUME at = "ready" \/ (at \in Applying /\ (IsWritten(p) => Saved(p))), NEW q \in Paths, Applied(q)
       PROVE  Applied(q)'
  <2>1. CASE q = p
    <3>1. ~(since'[p] < 2) /\ (IsWritten(p) => ~(since'[p] < 3))
      <4>1. CASE at = "ready"
        BY <1>5, <4>1
      <4>2. CASE at \in Applying /\ (IsWritten(p) => Saved(p))
        BY <1>5, <4>2 DEF Applying
      <4> QED BY <1>10, <4>1, <4>2
    <3>2. IsWritten(p)' <=> IsWritten(p)
      BY <1>2, <1>4 DEF IsWritten
    <3> QED BY <1>2, <1>3, <1>4, <1>10, <2>1, <3>1, <3>2 DEF Applied
  <2>2. CASE q # p
    BY <1>2, <1>3, <1>4, <1>10, <2>2 DEF Applied, IsWritten, IsDeleted
  <2> QED BY <2>1, <2>2
<1>11. ApplyFits'
  BY <1>2, <1>3, <1>4, <1>9, <1>10 DEF ApplyFits, IsWritten, Saved
<1>12. RollbackFits'
  BY <1>2, <1>3, <1>5, <1>9 DEF RollbackFits
<1>13. OutcomeFits'
  <2>1. outcome' \in {"conflict", "failed"} => \A q \in Paths : since'[q] < 3 => host'[q] = before'[q]
    BY <1>2, <1>3 DEF OutcomeFits
  <2>2. ASSUME outcome' = "committed", NEW q \in Paths
        PROVE  Applied(q)' /\ (since'[q] < 2 => scan[q] = before'[q])
    <3>1. at = "ready" /\ Applied(q)
      BY <1>2, <2>2 DEF OutcomeFits
    <3>2. CASE q = p
      BY <1>3, <1>5, <1>10, <3>1, <3>2
    <3>3. CASE q # p
      BY <1>2, <1>3, <1>10, <2>2, <3>1, <3>3 DEF OutcomeFits
    <3> QED BY <3>2, <3>3
  <2> QED BY <1>2, <1>4, <2>1, <2>2 DEF OutcomeFits
<1> QED BY <1>6, <1>7, <1>8, <1>11, <1>12, <1>13

\* An edit in the sandbox keeps the invariant.
LEMMA SandboxEditedInv ==
  ASSUME IInv, NEW p \in Paths, NEW c \in Content, SandboxEdited(p, c)
  PROVE  IInv'
<1> USE DEF IInv, SandboxEdited, manifests, control, ghosts, Saved
<1> Trees /\ Control /\ Counters
  BY TypeParts
<1>1. Trees'
  BY DEF Trees
<1>2. Control'
  BY DEF Control
<1>3. Counters'
  BY Counts DEF Counters
<1>4. NothingYet'
  BY DEF NothingYet
<1>5. ScanFits'
  BY DEF ScanFits
<1>6. ApplyFits'
  BY Constants, ZenonT(30) DEF Trees, Control, ApplyFits, Applying, ScanFits, BackedUp, Applied, IsWritten, IsDeleted,
     WrittenPaths, DeletedPaths, ConflictPaths, SandboxChanged, HostChanged
<1>7. RollbackFits'
  BY DEF RollbackFits, BackedUp
<1>8. OutcomeFits'
  BY DEF Trees, Control, OutcomeFits, Applying, BackedUp, Applied, IsWritten, IsDeleted, WrittenPaths,
     DeletedPaths, ConflictPaths, SandboxChanged, HostChanged, NothingYet, Scanning, RollbackFits,
     ApplyFits, ScanFits, RollingBack, Lateness
<1> QED BY <1>1, <1>2, <1>3, <1>4, <1>5, <1>6, <1>7, <1>8 DEF TypeOK, Trees, Control, Counters

\* A crash keeps the invariant.
LEMMA CrashInv ==
  ASSUME IInv, Crash
  PROVE  IInv'
<1> USE DEF IInv, Crash, trees, manifests, ghosts, Saved
<1> Trees /\ Control /\ Counters
  BY TypeParts
<1>1. Trees'
  BY DEF Trees
<1>2. Control'
  BY DEF Control, At
<1>3. Counters'
  BY Counts DEF Counters
<1>4. NothingYet'
  BY DEF NothingYet, Scanning
<1>5. ScanFits'
  BY DEF ScanFits, Applying
<1>6. ApplyFits'
  BY DEF ApplyFits, Applying
<1>7. RollbackFits'
  BY DEF RollbackFits, RollingBack
<1>8. OutcomeFits'
  BY DEF Trees, Control, OutcomeFits, Applying, BackedUp, Applied, IsWritten, IsDeleted, WrittenPaths,
     DeletedPaths, ConflictPaths, SandboxChanged, HostChanged, NothingYet, Scanning, RollbackFits
<1> QED BY <1>1, <1>2, <1>3, <1>4, <1>5, <1>6, <1>7, <1>8 DEF TypeOK, Trees, Control, Counters

-----------------------------------------------------------------------------
(* The invariant, and what follows from it. *)

\* The invariant holds of the initial states.
LEMMA InitInv == Init => IInv
<1> SUFFICES ASSUME Init PROVE IInv
  OBVIOUS
<1>1. TypeOK
  <2>1. Trees
    BY Constants DEF Init, Trees
  <2>2. Control
    <3>1. Everywhere(0) \in [Paths -> 0..3]
      BY DEF Everywhere
    <3> QED BY <3>1, Constants DEF Init, Control, At
  <2>3. Counters
    <3>1. \A max \in {MaxHostEdits, MaxSandboxEdits, MaxCommits, MaxCrashes} : 0 \in 0..max
      BY StageAssumption
    <3> QED BY <3>1 DEF Init, Counters
  <2> QED BY <2>1, <2>2, <2>3, TypeParts
<1>2. NothingYet /\ ScanFits /\ ApplyFits /\ RollbackFits /\ OutcomeFits
  BY DEF Init, NothingYet, ScanFits, ApplyFits, RollbackFits, OutcomeFits, Scanning, Applying, RollingBack,
     Saved, Everywhere
<1> QED BY <1>1, <1>2 DEF IInv

\* Every step keeps the invariant.
LEMMA NextInv == IInv /\ [Next]_vars => IInv'
<1> SUFFICES ASSUME IInv, [Next]_vars PROVE IInv'
  OBVIOUS
<1>1. CASE StageStep
  BY <1>1, ScanBaseInv, CopyInInv, StagingFailsInv DEF StageStep
<1>2. CASE CommitStep
  BY <1>2, CommitBeginsInv, ScanHostInv, ExportArchiveInv, ExportFileInv, ReadFailsInv, ExportFailsInv,
     DiffConflictsInv, DiffAppliesInv DEF CommitStep
<1>3. CASE ApplyStep
  BY <1>3, BackUpWriteInv, WriteInv, WritesEndInv, SkipDeletionInv, BackUpDeletionInv, DeleteInv,
     CommitEndsInv,
     ApplyFailsInv, RestoreInv, RestoresEndInv, RemoveInv, RollbackEndsInv, RollbackFailsInv DEF ApplyStep
<1>4. CASE \E p \in Paths, c \in Content : HostEdited(p, c) \/ SandboxEdited(p, c)
  BY <1>4, HostEditedInv, SandboxEditedInv
<1>5. CASE Crash
  BY <1>5, CrashInv
<1>6. CASE UNCHANGED vars
  BY <1>6, ZenonT(30) DEF vars, trees, manifests, control, ghosts, counters, IInv, TypeOK, NothingYet, ScanFits,
     ApplyFits,
     RollbackFits, OutcomeFits, BackedUp, Applied, IsWritten, IsDeleted, Saved, ConflictPaths, WrittenPaths,
     DeletedPaths, SandboxChanged, HostChanged
<1> QED BY <1>1, <1>2, <1>3, <1>4, <1>5, <1>6 DEF Next

(***************************************************************************)
(* The invariant holds of every reachable state.                           *)
(***************************************************************************)
THEOREM Invariance == Spec => []IInv
BY InitInv, NextInv, PTL DEF Spec

(***************************************************************************)
(* Every variable of the staging and commit code keeps its type.           *)
(***************************************************************************)
THEOREM Typing == Spec => []TypeOK
<1>1. IInv => TypeOK
  BY DEF IInv
<1> QED BY <1>1, Invariance, PTL

(***************************************************************************)
(* The rollback of applyWorkspaceStageDiff works: a commit that reports    *)
(* failure leaves every path as others left it, wherever it failed.        *)
(***************************************************************************)
THEOREM RollbackTheorem == Spec => []RollbackRestores
<1>1. IInv => RollbackRestores
  BY DEF IInv, OutcomeFits, RollbackRestores
<1> QED BY <1>1, Invariance, PTL

(***************************************************************************)
(* A commit that reports success has applied every change of the exported  *)
(* sandbox, whatever others do to the host meanwhile.                      *)
(***************************************************************************)
THEOREM CompletenessTheorem == Spec => []CommitIsComplete
<1>1. ASSUME IInv, outcome = "committed", NEW p \in Paths, since[p] < 2, SandboxChanged(p)
      PROVE  /\ export[p] \in Files => host[p] = export[p]
             /\ export[p] = "missing" => host[p] \notin Files
  <2>1. at = "ready" /\ ConflictPaths = {} /\ Applied(p) /\ scan[p] = before[p]
    BY <1>1 DEF IInv, OutcomeFits
  <2>2. since[p] < 3
    BY <1>1, TypeParts DEF IInv, Control
  <2> QED BY <2>1, <2>2, <1>1, Constants DEF Applied, IsWritten, IsDeleted, WrittenPaths, DeletedPaths
<1>2. IInv => CommitIsComplete
  BY <1>1 DEF CommitIsComplete
<1> QED BY <1>2, Invariance, PTL

(***************************************************************************)
(* diffWorkspaceStage never merges changes of both sides silently: what    *)
(* others changed since the staging is overwritten only where the sandbox  *)
(* changed nothing.                                                        *)
(***************************************************************************)
THEOREM UncontestedTheorem == Spec => []OverwritesOnlyUncontested
<1>1. ASSUME IInv, outcome = "committed", NEW p \in Paths, since[p] < 2, before[p] # base[p], SandboxChanged(p)
      PROVE  host[p] = before[p]
  <2>1. ConflictPaths = {} /\ Applied(p) /\ scan[p] = before[p]
    BY <1>1 DEF IInv, OutcomeFits
  <2>2. scan[p] = export[p]
    BY <1>1, <2>1 DEF ConflictPaths, SandboxChanged, HostChanged
  <2> QED BY <2>1, <2>2, Constants DEF Applied, WrittenPaths, DeletedPaths
<1>2. IInv => OverwritesOnlyUncontested
  BY <1>1 DEF OverwritesOnlyUncontested
<1> QED BY <1>2, Invariance, PTL

=============================================================================
