----------------------------- MODULE MCSandboxes -----------------------------
(* Small instances of Sandboxes for TLC. *)
EXTENDS Sandboxes, TLC

SlotSymmetry == Permutations(Slots)
=============================================================================
