-------------------------- MODULE MCRemoteSessions --------------------------
(* Small instances of RemoteSessions for TLC. *)
EXTENDS RemoteSessions, TLC

CONSTANTS s1, s2, n1, n2, n3

OneEach == [n \in Nodes |-> 1]
Kinds == (n1 :> "remote") @@ (n2 :> "remote") @@ (n3 :> "sandbox")
Caps == (n1 :> {"exec", "runtime-pty", "file-read", "file-write"}) @@ (n2 :> {"exec"}) @@ (n3 :> {"exec"})
Required == (s1 :> {"exec"}) @@ (s2 :> {"exec", "runtime-pty"})
AdapterChoice == (s1 :> 2) @@ (s2 :> Unspecified)
Ops == {"exec", "pty_open"}

\* What select() compares: adapters that differ in every way, under criteria of every kind.
Adapters ==
  {[id |-> i, health |-> h, caps |-> {"exec"}, presets |-> {}, trust |-> t, locality |-> l, isolation |-> c] :
     i \in 1..2, h \in {"healthy", "degraded", "unknown"}, t \in {"production", "development"},
     l \in {"local", "remote"}, c \in {"container", "remote-node"}}
Wishes ==
  {[id |-> Unspecified, caps |-> {}, preset |-> Unspecified, trust |-> Unspecified, locality |-> l, isolation |-> c] :
     l \in {Unspecified, "local", "remote"}, c \in {Unspecified, "container"}}

ASSUME SelectionOrder ==
  \A l, r \in Adapters : l.id # r.id => \A w \in Wishes :
    StrictOrder({l, r}, w) /\ SelectedIsFirst({l, r}, w)
=============================================================================
