------------------------------- MODULE WallClock -------------------------------
(***************************************************************************)
(* The host's clock (Date.now), in steps: an expiry is compared with it at *)
(* the moment of a call, a timer fires at its due time or later.           *)
(***************************************************************************)
EXTENDS Integers

CONSTANT MaxNow     \* bound: the clock stops here

VARIABLE now

ASSUME MaxNowAssumption == MaxNow \in Nat

Tick == now < MaxNow /\ now' = now + 1
================================================================================
