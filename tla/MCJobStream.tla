---------------------------- MODULE MCJobStream ----------------------------
(* Small instances of JobStream for TLC. *)
EXTENDS JobStream, TLC

ClientSymmetry == Permutations(Clients)
=============================================================================
