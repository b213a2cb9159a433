--------------------------- MODULE MCNodeTransport ---------------------------
(* Small instances of NodeTransport for TLC. *)
EXTENDS NodeTransport, TLC

CONSTANTS run, pty, abort

KindOf == (run :> "execute") @@ (pty :> "pty") @@ (abort :> "abort")

EventsOf == (run :> 1) @@ (pty :> 2) @@ (abort :> 0)
=============================================================================
