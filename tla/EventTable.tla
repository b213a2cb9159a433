----------------------------- MODULE EventTable -----------------------------
(***************************************************************************)
(* The retained events of one key (a job, a runtime session): an append    *)
(* numbers the event after the latest row, inserts it and deletes what has *)
(* fallen out of the retained window, in one transaction                   *)
(* (appendRetainedEvent).                                                  *)
(*                                                                         *)
(* ever is not in the code: the events in the order of their appending.    *)
(***************************************************************************)
EXTENDS Integers, Sequences

CONSTANTS
  Event,     \* what a row holds besides its number
  Retention  \* jobEventRetentionPerJob, runtimeSessionEventRetentionPerSession

\* Of a table that retains nothing every append fails (its row is gone again
\* before it is read back).
ASSUME RetentionAssumption == Retention \in Nat \ {0}

VARIABLES
  rows,  \* the table: from sequence numbers to events
  ever

tableVars == <<rows, ever>>

TableInit ==
  /\ rows = <<>>
  /\ ever = <<>>

LatestSequence ==
  IF DOMAIN rows = {} THEN 0 ELSE CHOOSE s \in DOMAIN rows : \A t \in DOMAIN rows : t <= s

\* Defect: the window does not count the row just inserted.
TrimmedLate(next) == {s \in DOMAIN rows \cup {next} : s < next - Retention}

Trimmed(next) == {s \in DOMAIN rows \cup {next} : s <= next - Retention}

AppendEvent(e) ==
  LET next == LatestSequence + 1
      kept == (DOMAIN rows \cup {next}) \ Trimmed(next)
  IN /\ rows' = [s \in kept |-> IF s = next THEN e ELSE rows[s]]
     /\ ever' = Append(ever, e)

-----------------------------------------------------------------------------
(***************************************************************************)
(* The table holds the last Retention events, under numbers that are their *)
(* places in the order of appending: no number is given twice, none is     *)
(* left out, and no event is trimmed early.  A reader that resumes after a *)
(* number relies on it.                                                    *)
(***************************************************************************)
HoldsLatest ==
  /\ DOMAIN rows = {s \in 1..Len(ever) : s > Len(ever) - Retention}
  /\ \A s \in DOMAIN rows : rows[s] = ever[s]
=============================================================================
