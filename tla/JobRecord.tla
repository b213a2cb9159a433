------------------------------ MODULE JobRecord ------------------------------
(***************************************************************************)
(* What the control plane promises about a job, whoever executes it: the   *)
(* shared lifecycle of docs/concepts/jobs-and-sessions.md.  A job moves     *)
(* forward only, reaches at most one outcome and keeps it, and its durable *)
(* history records that outcome once or not at all (a crash can lose the   *)
(* record, never falsify it).  Module JobLifecycle is shown to implement   *)
(* this specification.                                                     *)
(***************************************************************************)
EXTENDS Sequences

CONSTANT Jobs

VARIABLES
  stage,    \* where the job is in its lifecycle, or its outcome
  history   \* the outcomes its durable history tells

vars == <<stage, history>>

Outcome == {"completed", "failed", "aborted"}
Unfinished == {"queued", "active"}
Stage == {"absent"} \cup Unfinished \cup Outcome

Init ==
  /\ stage = [j \in Jobs |-> "absent"]
  /\ history = [j \in Jobs |-> <<>>]

\* The job is taken in, and may be under way or refused at once.
Accept(j, s) ==
  /\ stage[j] = "absent"
  /\ s \in Unfinished \cup {"failed"}
  /\ stage' = [stage EXCEPT ![j] = s]
  /\ history' = [history EXCEPT ![j] = IF s = "failed" THEN <<s>> ELSE <<>>]

Start(j) ==
  /\ stage[j] = "queued"
  /\ stage' = [stage EXCEPT ![j] = "active"]
  /\ UNCHANGED history

Finish(j, outcome) ==
  /\ stage[j] \in Unfinished
  /\ stage' = [stage EXCEPT ![j] = outcome]
  /\ history' = [history EXCEPT ![j] = <<outcome>>]

\* A crash right after the outcome was stored loses its entry in the history.
FinishUnrecorded(j, outcome) ==
  /\ stage[j] \in Unfinished
  /\ stage' = [stage EXCEPT ![j] = outcome]
  /\ UNCHANGED history

\* A restart fails every job that was under way.
FailUnfinished ==
  /\ stage' = [j \in Jobs |-> IF stage[j] \in Unfinished THEN "failed" ELSE stage[j]]
  /\ UNCHANGED history

Next ==
  \/ \E j \in Jobs, s \in Stage : Accept(j, s)
  \/ \E j \in Jobs : Start(j)
  \/ \E j \in Jobs, outcome \in Outcome : Finish(j, outcome) \/ FinishUnrecorded(j, outcome)
  \/ FailUnfinished

Spec == Init /\ [][Next]_vars
=============================================================================
