--------------------------- MODULE MCJobLifecycle ---------------------------
(* Small instances of JobLifecycle for TLC. *)
EXTENDS JobLifecycle, TLC

CONSTANTS j1, j2, n1, n2

OneSlotEach == [n \in Nodes |-> 1]
SandboxAndRemote == (n1 :> "sandbox") @@ (n2 :> "remote")

JobSymmetry == Permutations(Jobs)
=============================================================================
