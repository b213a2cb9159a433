-------------------------- MODULE MCWorkspaceStage --------------------------
(* Small instances of WorkspaceStage for TLC. *)
EXTENDS WorkspaceStage, TLC

CONSTANTS p1, p2, f1, f2

StageSymmetry == Permutations(Paths) \cup Permutations(Files)
=============================================================================
