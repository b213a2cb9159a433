--------------------------- MODULE MCNodeRegistry ---------------------------
(* Small instances of NodeRegistry for TLC. *)
EXTENDS NodeRegistry, TLC

CONSTANTS n1, n2, m1, m2, m3, m4

\* Two manifests of one key and one of another for the first node, one for the second.
TwoNodes == (m1 :> n1) @@ (m2 :> n1) @@ (m3 :> n1) @@ (m4 :> n2)
TwoKeys == (m1 :> 1) @@ (m2 :> 1) @@ (m3 :> 2) @@ (m4 :> 2)

RegistrySymmetry == Permutations(Callers)
=============================================================================
