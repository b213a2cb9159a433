--------------------------------- MODULE MCApi ---------------------------------
(***************************************************************************)
(* The API for TLC: two requests at a time in one workspace, a client that *)
(* names its session in each of the ways there are, and two launch links,  *)
(* to previews that two workspaces keep under one id or to a service.      *)
(***************************************************************************)
EXTENDS Api

Body(id, client, key) == [network_session_id |-> id, client |-> client, session_key |-> key]

MCBodies ==
  {Body(None, "c", None), Body(None, "c", "k"), Body(None, None, "k"), Body(1, None, None)}
MCProofs == {Body(None, None, None)}
MCTokenScopes == {{"*"}}
MCKeyScopes == {{"jobs:write"}}

Files(path, entry_path, expires) ==
  [source |-> "files", path |-> path, entry_path |-> entry_path, status |-> "ready", expires |-> expires]

\* A directory without an expiry, a page beyond the longest timer, and a service.
MCDescriptors ==
  {Files(<<"old", "..", "site">>, Absent, Absent),
   Files(Absent, <<"site", "my page.html">>, 4),
   [source |-> "live-service", path |-> Absent, entry_path |-> Absent,
    status |-> "ready", expires |-> Absent]}

Segments == {"old", "site", "..", "my page.html", "index.html"}
MCEscaped == [s \in Segments |-> IF s = "my page.html" THEN "my%20page.html" ELSE s]

MCAskedPaths ==
  {[absolute |-> FALSE, path |-> <<"..", "index.html">>],
   [absolute |-> FALSE, path |-> <<"..", "site", "index.html">>],
   [absolute |-> TRUE, path |-> <<"index.html">>]}

Symmetry == Permutations(Slots) \union Permutations(Workspaces)
================================================================================
