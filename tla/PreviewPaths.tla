------------------------------ MODULE PreviewPaths ------------------------------
(***************************************************************************)
(* The path arithmetic of src/src/previews/service.ts: the root directory  *)
(* and the default file of a file preview, the URL a link is given out as, *)
(* and the file that a path asked for under the link resolves to.          *)
(*                                                                         *)
(* An absolute path is the sequence of its segments ("." and empty ones    *)
(* dropped, as splitPosixSegments does), so "/" is <<>>; "a/b" is within   *)
(* "a" when "a" is a prefix, which is what the test for "a/" as a string   *)
(* prefix comes to on such paths.                                          *)
(***************************************************************************)
EXTENDS Sequences, SequencesExt, Integers

CONSTANTS
  Absent,       \* a field of a descriptor, or a path of a request, left out
  FileNames,    \* the segments with a dot in them
  Escaped,      \* [segments -> segments]: encodeURIComponent of a segment
  IndexFile     \* "index.html"

ASSUME IndexAssumption == IndexFile \in STRING \ {".."}

\* One segment further: ".." takes the last one back, and stops at the top.
Walk(seen, segment) == IF segment # ".." THEN Append(seen, segment)
                       ELSE IF seen = <<>> THEN <<>> ELSE Front(seen)

Normalize(path) ==
  LET walked[i \in 0..Len(path)] == IF i = 0 THEN <<>> ELSE Walk(walked[i - 1], path[i])
  IN  walked[Len(path)]

LooksLikeFile(path) == path # <<>> /\ Last(path) \in FileNames

Dirname(path) == IF Len(path) <= 1 THEN <<>> ELSE Front(path)

\* A descriptor with neither path has no target: launching it is refused.
HasTarget(preview) == preview.path # Absent \/ preview.entry_path # Absent

RootPath(preview) ==
  IF preview.path = Absent THEN Dirname(Normalize(preview.entry_path))
  ELSE LET path == Normalize(preview.path)
       IN  IF preview.entry_path # Absent \/ ~LooksLikeFile(path) THEN path ELSE Dirname(path)

DefaultFile(preview) ==
  IF preview.entry_path # Absent THEN Normalize(preview.entry_path)
  ELSE LET path == Normalize(preview.path)
       IN  IF LooksLikeFile(path) THEN path ELSE Append(path, IndexFile)

IsWithin(root, path) == IsPrefix(root, path)

\* The relative path in a link: up from the root to the common part, then down.
\* (The default file of a link is within its root, so there is nothing to go up.)
RelativePath(from, to) ==
  LET common == Len(LongestCommonPrefix({from, to}))
  IN  [i \in 1..(Len(from) - common) |-> ".."] \o SubSeq(to, common + 1, Len(to))

\* The path of the URL that is given out, each segment percent-encoded.
LaunchUrlPath(root, default) ==
  LET path == RelativePath(root, default)
  IN  [i \in DOMAIN path |-> Escaped[path[i]]]

\* What is asked for under a link: nothing, or a path that starts at the link's
\* root or (with a leading slash) at the workspace's. The router hands the path
\* over as it stands in the URL, percent-encoding included.  Outside the root it is
\* refused, and no file is found (Absent).
Candidate(root, asked) ==
  Normalize(IF asked.absolute THEN asked.path ELSE root \o asked.path)

\* Defect: a path with a leading slash is taken to be checked already.
CapabilityFileTrusting(root, default, asked) ==
  IF asked.path = <<>> /\ ~asked.absolute THEN default
  ELSE IF asked.absolute \/ IsWithin(root, Candidate(root, asked)) THEN Candidate(root, asked)
  ELSE Absent

\* resolveCapabilityFilePath.
CapabilityFile(root, default, asked) ==
  IF asked.path = <<>> /\ ~asked.absolute THEN default
  ELSE IF IsWithin(root, Candidate(root, asked)) THEN Candidate(root, asked)
  ELSE Absent
================================================================================
