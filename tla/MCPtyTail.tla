------------------------------ MODULE MCPtyTail ------------------------------
(* Small instances of PtyTail for TLC. *)
EXTENDS PtyTail, TLC

CONSTANTS p1, p2, r1, r2

MCEvent == [kind : Kinds, pty : Ptys, at : Times]

TailSymmetry == Permutations(Ptys) \cup Permutations(Readers)
=============================================================================
