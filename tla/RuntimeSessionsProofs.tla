----------------------- MODULE RuntimeSessionsProofs -----------------------
(***************************************************************************)
(* Proofs about RuntimeSessions, for every set of sessions and callers and *)
(* all the ways the service is used.                                       *)
(***************************************************************************)
EXTENDS RuntimeSessions, TLAPS

Reconciliation ==
  [at : {"waiting", "working", "asked", "answered", "done", "aborted"},
   todo : SUBSET Listed, entry : Listed \cup {Idle}, answer : Env]

Creating(c, s) == call[c].op = "create" /\ call[c].s = s

\* What an adapter answers to a creation and to a stop.
AnswersFit ==
  \A c \in Callers :
    /\ call[c].op = "create" /\ call[c].at \in {"acted", "staging"} => call[c].answer \in {"ready", "creating"}
    /\ call[c].op = "stop" /\ call[c].at = "acted" => call[c].answer \in {"stopping", "stopped"}

\* A session whose creation has returned has a reference, and what needs one works on no other.
ReferenceKept ==
  /\ \A s \in Sessions : status[s] \in {"ready", "stopping", "stopped", "destroyed"} => ref[s]
  /\ \A s \in Sessions : ref[s] => env[s] # "absent" /\ status[s] # "absent"
  /\ \A c \in Callers : call[c].op \in {"stop", "destroy"} => ref[call[c].s]

\* A creation is alone in creating its session, which has no reference before it returns.
CreationIsFirst ==
  /\ \A c \in Callers : call[c].op = "create" => ~ref[call[c].s] /\ status[call[c].s] # "absent"
  /\ \A c \in Callers : call[c].op = "create" /\ call[c].at \in {"acted", "staging"} => env[call[c].s] # "absent"
  /\ \A c, d \in Callers : call[c].op = "create" /\ call[d].op = "create" /\ call[c].s = call[d].s => c = d

\* The reconciliation passes over or asks about a session with a reference only.
ListIsTrue ==
  /\ rec \in Reconciliation
  /\ \A e \in rec.todo : e.ref \/ e.status # "creating" => ref[e.s]
  /\ rec.at \in {"asked", "answered"} => rec.entry \in Listed /\ ref[rec.entry.s]
  /\ rec.at = "answered" => rec.answer # "absent"

\* A session in creation without a reference is somebody's: the creation's or the reconciliation's.
CreatingHasOwner ==
  \A s \in Sessions : status[s] = "creating" /\ ~ref[s] =>
    \/ \E c \in Callers : Creating(c, s)
    \/ rec.at \in {"waiting", "aborted"}
    \/ \E e \in rec.todo : e.s = s

Core == TypeOK /\ AnswersFit /\ ReferenceKept /\ CreationIsFirst /\ ListIsTrue /\ CreatingHasOwner

-----------------------------------------------------------------------------
(* What a step does to the calls. *)

Becomes(c, op, s, at, answer) ==
  /\ call' \in [Callers -> Call]
  /\ \A d \in Callers \ {c} : call'[d] = call[d]
  /\ call'[c].op = op /\ call'[c].s = s /\ call'[c].at = at /\ call'[c].answer = answer

Ends(c) ==
  /\ call' \in [Callers -> Call]
  /\ \A d \in Callers \ {c} : call'[d] = call[d]
  /\ call'[c].op = "none"

LEMMA BeginEffect ==
  ASSUME TypeOK, NEW c \in Callers, NEW s \in Sessions, NEW op \in Op, Begin(c, op, s)
  PROVE  Becomes(c, op, s, "sent", "absent") /\ call[c].op = "none"
<1>1. [op |-> op, s |-> s, at |-> "sent", answer |-> "absent"] \in Call
  BY DEF Call, Await, Env
<1> QED BY <1>1 DEF TypeOK, Begin, Becomes, Idle

LEMMA CallRecord ==
  ASSUME TypeOK, NEW c \in Callers, call[c].op # "none"
  PROVE  call[c] \in [op : Op, s : Sessions, at : Await, answer : Env]
BY DEF TypeOK, Call, Idle

LEMMA MoveEffect ==
  ASSUME TypeOK, NEW c \in Callers, call[c].op # "none", NEW at \in Await, MoveTo(c, at)
  PROVE  Becomes(c, call[c].op, call[c].s, at, call[c].answer)
<1>1. call[c] \in [op : Op, s : Sessions, at : Await, answer : Env]
  BY CallRecord
<1>2. [call[c] EXCEPT !.at = at] \in Call
  BY <1>1 DEF Call
<1> QED BY <1>1, <1>2 DEF TypeOK, MoveTo, Becomes

LEMMA ActedEffect ==
  ASSUME TypeOK, NEW c \in Callers, call[c].op # "none", NEW answer \in Env, Acted(c, answer)
  PROVE  Becomes(c, call[c].op, call[c].s, "acted", answer)
<1>1. call[c] \in [op : Op, s : Sessions, at : Await, answer : Env]
  BY CallRecord
<1>2. [[call[c] EXCEPT !.at = "acted"] EXCEPT !.answer = answer] \in Call
  BY <1>1 DEF Call, Await
<1>3. call' = [call EXCEPT ![c] = [[call[c] EXCEPT !.at = "acted"] EXCEPT !.answer = answer]]
  BY <1>1 DEF Acted, TypeOK
<1> QED BY <1>1, <1>2, <1>3 DEF TypeOK, Becomes

LEMMA ReturnEffect ==
  ASSUME TypeOK, NEW c \in Callers, Return(c)
  PROVE  Ends(c)
BY DEF TypeOK, Return, Ends, Call, Idle

-----------------------------------------------------------------------------
(* The core of the invariant. *)

LEMMA InitCore == Init => Core
<1> SUFFICES ASSUME Init PROVE Core
  OBVIOUS
<1>1. TypeOK
  BY SettingsAssumption DEF Init, TypeOK, Status, Staging, Env, Call, NotReconciling
<1>2. rec \in Reconciliation
  BY DEF Init, NotReconciling, Reconciliation, Env
<1>3. \A c \in Callers : call[c].op = "none"
  BY DEF Init, Idle
<1>4. rec.todo = {} /\ rec.at = "done"
  BY DEF Init, NotReconciling
<1>5. \A s \in Sessions : status[s] = "absent" /\ ~ref[s]
  BY DEF Init
<1> QED BY <1>1, <1>2, <1>3, <1>4, <1>5 DEF Core, AnswersFit, ReferenceKept, CreationIsFirst, ListIsTrue, CreatingHasOwner

LEMMA CreateBeginsCore ==
  ASSUME Core, NEW c \in Callers, NEW s \in Sessions, CreateBegins(c, s)
  PROVE  Core'
<1>1. /\ Becomes(c, "create", s, "sent", "absent") /\ call[c].op = "none"
      /\ status[s] = "absent" /\ UNCHANGED <<ref, lastCommit, baseline, env, rec, setting, crashes>>
      /\ status' = [status EXCEPT ![s] = "creating"]
  BY BeginEffect DEF Core, CreateBegins, Op, SetStatus, bounds
<1>2. TypeOK'
  BY <1>1 DEF Core, TypeOK, CreateBegins, SetStaging, Becomes, Status, Staging
<1>3. AnswersFit'
  BY <1>1 DEF Core, AnswersFit, Becomes
<1>4. ReferenceKept'
  BY <1>1 DEF Core, TypeOK, ReferenceKept, Becomes
<1>5. CreationIsFirst'
  BY <1>1 DEF Core, TypeOK, ReferenceKept, CreationIsFirst, Becomes
<1>6. ListIsTrue'
  BY <1>1 DEF Core, ListIsTrue
<1>7. CreatingHasOwner'
  BY <1>1 DEF Core, TypeOK, CreatingHasOwner, Creating, Becomes
<1> QED BY <1>2, <1>3, <1>4, <1>5, <1>6, <1>7 DEF Core

LEMMA CreateActsCore ==
  ASSUME Core, NEW c \in Callers, NEW s \in Sessions, NEW answer \in {"ready", "creating"}, CreateActs(c, s, answer)
  PROVE  Core'
<1>1. /\ call[c].op = "create" /\ call[c].s = s /\ call[c].at = "sent"
      /\ Becomes(c, "create", s, "acted", answer)
      /\ env' = [env EXCEPT ![s] = answer]
      /\ UNCHANGED <<status, ref, staging, lastCommit, baseline, rec, setting, crashes>>
  BY ActedEffect DEF Core, CreateActs, In, Env, rows, bounds
<1>2. TypeOK'
  BY <1>1 DEF Core, TypeOK, Becomes, Env
<1>3. AnswersFit'
  BY <1>1 DEF Core, AnswersFit, Becomes
<1>4. ReferenceKept'
  BY <1>1 DEF Core, TypeOK, ReferenceKept, Becomes
<1>5. CreationIsFirst'
  BY <1>1 DEF Core, TypeOK, CreationIsFirst, Becomes
<1>6. ListIsTrue'
  BY <1>1 DEF Core, ListIsTrue
<1>7. CreatingHasOwner'
  BY <1>1 DEF Core, CreatingHasOwner, Creating, Becomes
<1> QED BY <1>2, <1>3, <1>4, <1>5, <1>6, <1>7 DEF Core

LEMMA CreateStagesCore ==
  ASSUME Core, NEW c \in Callers, NEW s \in Sessions, CreateStages(c, s)
  PROVE  Core'
<1>1. /\ call[c].op = "create" /\ call[c].s = s /\ call[c].at = "acted"
      /\ Becomes(c, "create", s, "staging", call[c].answer)
      /\ baseline' = [baseline EXCEPT ![s] = TRUE]
      /\ UNCHANGED <<status, ref, staging, lastCommit, env, rec, setting, crashes>>
  BY MoveEffect DEF Core, CreateStages, In, Await, rows, bounds
<1>2. TypeOK'
  BY <1>1 DEF Core, TypeOK, Becomes
<1>3. AnswersFit'
  BY <1>1 DEF Core, AnswersFit, Becomes
<1>4. ReferenceKept'
  BY <1>1 DEF Core, ReferenceKept, Becomes
<1>5. CreationIsFirst'
  BY <1>1 DEF Core, CreationIsFirst, Becomes
<1>6. ListIsTrue'
  BY <1>1 DEF Core, ListIsTrue
<1>7. CreatingHasOwner'
  BY <1>1 DEF Core, CreatingHasOwner, Creating, Becomes
<1> QED BY <1>2, <1>3, <1>4, <1>5, <1>6, <1>7 DEF Core

LEMMA CreateReturnsCore ==
  ASSUME Core, NEW c \in Callers, NEW s \in Sessions, CreateReturns(c, s)
  PROVE  Core'
<1>1. /\ call[c].op = "create" /\ call[c].s = s /\ call[c].at \in {"acted", "staging"}
      /\ call[c].answer \in {"ready", "creating"} /\ env[s] # "absent"
      /\ Ends(c)
      /\ ref' = [ref EXCEPT ![s] = TRUE] /\ status' = [status EXCEPT ![s] = call[c].answer]
      /\ UNCHANGED <<lastCommit, baseline, env, rec, setting, crashes>>
  BY ReturnEffect DEF Core, AnswersFit, CreationIsFirst, CreateReturns, In, SetStatus, bounds
<1>2. TypeOK'
  BY <1>1 DEF Core, TypeOK, CreateReturns, SetStaging, Ends, Status, Staging
<1>3. AnswersFit'
  BY <1>1 DEF Core, AnswersFit, Ends
<1>4. ReferenceKept'
  BY <1>1 DEF Core, TypeOK, ReferenceKept, Ends
<1>5. CreationIsFirst'
  BY <1>1 DEF Core, TypeOK, CreationIsFirst, Ends
<1>6. ListIsTrue'
  BY <1>1 DEF Core, TypeOK, ListIsTrue, Reconciliation, Listed
<1>7. CreatingHasOwner'
  BY <1>1 DEF Core, TypeOK, CreatingHasOwner, Creating, Ends
<1> QED BY <1>2, <1>3, <1>4, <1>5, <1>6, <1>7 DEF Core

LEMMA CreateFailsCore ==
  ASSUME Core, NEW c \in Callers, NEW s \in Sessions, CreateFails(c, s)
  PROVE  Core'
<1>1. /\ call[c].op = "create" /\ call[c].s = s /\ Ends(c)
      /\ status' = [status EXCEPT ![s] = "failed"]
      /\ UNCHANGED <<ref, staging, lastCommit, baseline, env, rec, setting, crashes>>
  BY ReturnEffect DEF Core, CreateFails, In, SetStatus, bounds
<1>2. TypeOK'
  BY <1>1 DEF Core, TypeOK, Ends, Status
<1>3. AnswersFit'
  BY <1>1 DEF Core, AnswersFit, Ends
<1>4. ReferenceKept'
  BY <1>1 DEF Core, TypeOK, ReferenceKept, Ends
<1>5. CreationIsFirst'
  BY <1>1 DEF Core, TypeOK, CreationIsFirst, Ends
<1>6. ListIsTrue'
  BY <1>1 DEF Core, ListIsTrue
<1>7. CreatingHasOwner'
  BY <1>1 DEF Core, TypeOK, CreatingHasOwner, Creating, Ends
<1> QED BY <1>2, <1>3, <1>4, <1>5, <1>6, <1>7 DEF Core

\* Steps of the other methods that leave status, reference and adapter alone.
LEMMA CallOnlyCore ==
  ASSUME Core, TypeOK', UNCHANGED <<status, ref, env, rec>>, NEW c \in Callers, call[c].op # "create",
         \/ Ends(c)
         \/ \E op \in {"stop", "destroy", "commit", "discard"}, s \in Sessions, at \in Await, answer \in Env :
              /\ Becomes(c, op, s, at, answer)
              /\ op \in {"stop", "destroy"} => ref[s]
              /\ op = "stop" => at # "acted"
  PROVE  Core'
<1>1. AnswersFit'
  BY DEF Core, AnswersFit, Ends, Becomes
<1>2. ReferenceKept'
  BY DEF Core, ReferenceKept, Ends, Becomes
<1>3. CreationIsFirst'
  BY DEF Core, CreationIsFirst, Ends, Becomes
<1>4. ListIsTrue'
  BY DEF Core, ListIsTrue
<1>5. CreatingHasOwner'
  BY DEF Core, CreatingHasOwner, Creating, Ends, Becomes
<1> QED BY <1>1, <1>2, <1>3, <1>4, <1>5 DEF Core

LEMMA StopActsCore ==
  ASSUME Core, NEW c \in Callers, NEW s \in Sessions, NEW answer \in {"stopping", "stopped"}, StopActs(c, s, answer)
  PROVE  Core'
<1>1. /\ call[c].op = "stop" /\ call[c].s = s /\ Becomes(c, "stop", s, "acted", answer)
      /\ env' = [env EXCEPT ![s] = answer]
      /\ UNCHANGED <<status, ref, staging, lastCommit, baseline, rec, setting, crashes>>
  BY ActedEffect DEF Core, StopActs, In, Env, rows, bounds
<1>2. TypeOK'
  BY <1>1 DEF Core, TypeOK, Becomes, Env
<1>3. AnswersFit'
  BY <1>1 DEF Core, AnswersFit, Becomes
<1>4. ReferenceKept'
  BY <1>1 DEF Core, TypeOK, ReferenceKept, Becomes
<1>5. CreationIsFirst'
  BY <1>1 DEF Core, TypeOK, CreationIsFirst, Becomes
<1>6. ListIsTrue' /\ CreatingHasOwner'
  BY <1>1 DEF Core, ListIsTrue, CreatingHasOwner, Creating, Becomes
<1> QED BY <1>2, <1>3, <1>4, <1>5, <1>6 DEF Core

\* The status that a stop or a destruction writes is that of a session with a reference.
LEMMA StatusWrittenCore ==
  ASSUME Core, TypeOK', NEW c \in Callers, NEW s \in Sessions, ref[s], call[c].op # "create",
         NEW st \in {"stopping", "stopped", "destroyed"}, status' = [status EXCEPT ![s] = st],
         UNCHANGED <<ref, env, rec>>,
         Ends(c) \/ (call[c].op = "destroy" /\ Becomes(c, "destroy", s, "clearing", call[c].answer))
  PROVE  Core'
<1>1. AnswersFit'
  BY DEF Core, AnswersFit, Ends, Becomes
<1>2. ReferenceKept'
  BY DEF Core, TypeOK, ReferenceKept, Ends, Becomes
<1>3. CreationIsFirst'
  BY DEF Core, TypeOK, CreationIsFirst, Ends, Becomes
<1>4. ListIsTrue'
  BY DEF Core, ListIsTrue
<1>5. CreatingHasOwner'
  BY DEF Core, TypeOK, CreatingHasOwner, Creating, Ends, Becomes
<1> QED BY <1>1, <1>2, <1>3, <1>4, <1>5 DEF Core

LEMMA StopCore ==
  ASSUME Core, NEW c \in Callers, NEW s \in Sessions, StopStep(c, s)
  PROVE  Core'
<1>1. CASE StopBegins(c, s)
  <2>1. /\ Becomes(c, "stop", s, "sent", "absent") /\ call[c].op = "none" /\ ref[s]
        /\ UNCHANGED <<rows, baseline, env, rec, bounds>>
    BY <1>1, BeginEffect DEF Core, StopBegins, Op
  <2>2. TypeOK'
    BY <2>1 DEF Core, TypeOK, Becomes, rows, bounds
  <2> QED BY <2>1, <2>2, CallOnlyCore DEF rows, Await, Env
<1>2. CASE \E answer \in {"stopping", "stopped"} : StopActs(c, s, answer)
  BY <1>2, StopActsCore
<1>3. CASE StopReturns(c, s)
  <2>1. /\ call[c].op = "stop" /\ call[c].s = s /\ call[c].answer \in {"stopping", "stopped"} /\ ref[s]
        /\ Ends(c) /\ status' = [status EXCEPT ![s] = call[c].answer]
        /\ UNCHANGED <<ref, staging, lastCommit, baseline, env, rec, bounds>>
    BY <1>3, ReturnEffect DEF Core, AnswersFit, ReferenceKept, StopReturns, In, SetStatus
  <2>2. TypeOK'
    BY <2>1 DEF Core, TypeOK, Ends, Status, bounds
  <2> QED BY <2>1, <2>2, StatusWrittenCore
<1>4. CASE StopFails(c, s)
  <2>1. call[c].op = "stop" /\ Ends(c) /\ UNCHANGED <<rows, baseline, env, rec, bounds>>
    BY <1>4, ReturnEffect DEF Core, StopFails, In
  <2>2. TypeOK'
    BY <2>1 DEF Core, TypeOK, Ends, rows, bounds
  <2> QED BY <2>1, <2>2, CallOnlyCore DEF rows
<1> QED BY <1>1, <1>2, <1>3, <1>4 DEF StopStep

LEMMA DestroyCore ==
  ASSUME Core, NEW c \in Callers, NEW s \in Sessions, DestroyStep(c, s)
  PROVE  Core'
<1>1. CASE DestroyBegins(c, s)
  <2>1. /\ Becomes(c, "destroy", s, "sent", "absent") /\ call[c].op = "none" /\ ref[s]
        /\ UNCHANGED <<rows, baseline, env, rec, bounds>>
    BY <1>1, BeginEffect DEF Core, DestroyBegins, Op
  <2>2. TypeOK'
    BY <2>1 DEF Core, TypeOK, Becomes, rows, bounds
  <2> QED BY <2>1, <2>2, CallOnlyCore DEF rows, Await, Env
<1>2. CASE DestroyActs(c, s)
  <2>1. /\ call[c].op = "destroy" /\ call[c].s = s /\ Becomes(c, "destroy", s, "acted", "gone")
        /\ env' \in {env, [env EXCEPT ![s] = "gone"]}
        /\ UNCHANGED <<status, ref, staging, lastCommit, baseline, rec, setting, crashes>>
    BY <1>2, ActedEffect DEF Core, DestroyActs, In, Env, rows, bounds
  <2>2. TypeOK'
    BY <2>1 DEF Core, TypeOK, Becomes, Env
  <2>3. AnswersFit'
    BY <2>1 DEF Core, AnswersFit, Becomes
  <2>4. ReferenceKept'
    BY <2>1 DEF Core, TypeOK, ReferenceKept, Becomes
  <2>5. CreationIsFirst'
    <3>1. \A t \in Sessions : env[t] # "absent" => env'[t] # "absent"
      BY <2>1 DEF Core, TypeOK
    <3>2. \A d \in Callers : call'[d].op = "create" => call'[d] = call[d] /\ call[d].s \in Sessions
      BY <2>1, CallRecord DEF Core, Becomes
    <3> QED BY <2>1, <3>1, <3>2 DEF Core, CreationIsFirst
  <2>6. ListIsTrue' /\ CreatingHasOwner'
    BY <2>1 DEF Core, ListIsTrue, CreatingHasOwner, Creating, Becomes
  <2> QED BY <2>2, <2>3, <2>4, <2>5, <2>6 DEF Core
<1>3. CASE DestroyReturns(c, s)
  <2>1. /\ call[c].op = "destroy" /\ call[c].s = s /\ ref[s]
        /\ Becomes(c, "destroy", s, "clearing", call[c].answer) /\ status' = [status EXCEPT ![s] = "destroyed"]
        /\ UNCHANGED <<ref, staging, lastCommit, baseline, env, rec, bounds>>
    BY <1>3, MoveEffect DEF Core, ReferenceKept, DestroyReturns, In, SetStatus, Await
  <2>2. TypeOK'
    BY <2>1 DEF Core, TypeOK, Becomes, Status, bounds
  <2> QED BY <2>1, <2>2, StatusWrittenCore
<1>4. CASE DestroyClears(c, s)
  <2>1. /\ call[c].op = "destroy" /\ Ends(c) /\ baseline' = [baseline EXCEPT ![s] = FALSE]
        /\ UNCHANGED <<rows, env, rec, bounds>>
    BY <1>4, ReturnEffect DEF Core, DestroyClears, In
  <2>2. TypeOK'
    BY <2>1 DEF Core, TypeOK, Ends, rows, bounds
  <2> QED BY <2>1, <2>2, CallOnlyCore DEF rows
<1> QED BY <1>1, <1>2, <1>3, <1>4 DEF DestroyStep

LEMMA CommitCore ==
  ASSUME Core, NEW c \in Callers, NEW s \in Sessions, CommitStep(c, s)
  PROVE  Core'
<1>1. CASE CommitBegins(c, s)
  <2>1. /\ Becomes(c, "commit", s, "sent", "absent") /\ call[c].op = "none"
        /\ staging' = [staging EXCEPT ![s] = "committing"]
        /\ UNCHANGED <<status, ref, lastCommit, baseline, env, rec, bounds>>
    BY <1>1, BeginEffect DEF Core, CommitBegins, Op, SetStaging
  <2>2. TypeOK'
    BY <2>1 DEF Core, TypeOK, Becomes, Staging, bounds
  <2> QED BY <2>1, <2>2, CallOnlyCore DEF Await, Env
<1>2. CASE CommitReads(c, s) \/ CommitApplies(c, s)
  <2>1. /\ call[c].op = "commit" /\ UNCHANGED <<rows, baseline, env, rec, bounds>>
        /\ \E at \in Await : Becomes(c, "commit", s, at, call[c].answer)
    BY <1>2, MoveEffect DEF Core, CommitReads, CommitApplies, In, Await
  <2>2. TypeOK'
    BY <2>1 DEF Core, TypeOK, Becomes, rows, bounds
  <2>3. call[c].answer \in Env
    BY <2>1, CallRecord DEF Core
  <2> QED BY <2>1, <2>2, <2>3, CallOnlyCore DEF rows
<1>3. CASE CommitConflicts(c, s) \/ CommitReturns(c, s) \/ CommitFails(c, s)
  <2>1. call[c].op = "commit" /\ Ends(c) /\ UNCHANGED <<status, ref, baseline, env, rec, bounds>>
    BY <1>3, ReturnEffect DEF Core, CommitConflicts, CommitReturns, CommitFails, In, rows
  <2>2. TypeOK'
    BY <1>3, <2>1 DEF Core, TypeOK, CommitConflicts, CommitReturns, CommitFails, SetStaging, Ends, Staging, rows, bounds
  <2> QED BY <2>1, <2>2, CallOnlyCore
<1> QED BY <1>1, <1>2, <1>3 DEF CommitStep

LEMMA DiscardCore ==
  ASSUME Core, NEW c \in Callers, NEW s \in Sessions, DiscardStep(c, s)
  PROVE  Core'
<1>1. CASE DiscardBegins(c, s)
  <2>1. /\ Becomes(c, "discard", s, "sent", "absent") /\ call[c].op = "none"
        /\ UNCHANGED <<rows, baseline, env, rec, bounds>>
    BY <1>1, BeginEffect DEF Core, DiscardBegins, Op
  <2>2. TypeOK'
    BY <2>1 DEF Core, TypeOK, Becomes, rows, bounds
  <2> QED BY <2>1, <2>2, CallOnlyCore DEF rows, Await, Env
<1>2. CASE DiscardClears(c, s)
  <2>1. /\ call[c].op = "discard" /\ Becomes(c, "discard", s, "acted", call[c].answer)
        /\ baseline' = [baseline EXCEPT ![s] = FALSE] /\ UNCHANGED <<rows, env, rec, bounds>>
    BY <1>2, MoveEffect DEF Core, DiscardClears, In, Await
  <2>2. TypeOK'
    BY <2>1 DEF Core, TypeOK, Becomes, rows, bounds
  <2>3. call[c].answer \in Env
    BY <2>1, CallRecord DEF Core
  <2> QED BY <2>1, <2>2, <2>3, CallOnlyCore DEF rows, Await
<1>3. CASE DiscardReturns(c, s)
  <2>1. /\ call[c].op = "discard" /\ Ends(c) /\ staging' = [staging EXCEPT ![s] = "discarded"]
        /\ UNCHANGED <<status, ref, lastCommit, baseline, env, rec, bounds>>
    BY <1>3, ReturnEffect DEF Core, DiscardReturns, In, SetStaging
  <2>2. TypeOK'
    BY <2>1 DEF Core, TypeOK, Ends, Staging, bounds
  <2> QED BY <2>1, <2>2, CallOnlyCore
<1> QED BY <1>1, <1>2, <1>3 DEF DiscardStep

LEMMA EnvChangesCore ==
  ASSUME Core, NEW s \in Sessions, EnvChanges(s)
  PROVE  Core'
<1>1. /\ env' \in [Sessions -> Env] /\ \A t \in Sessions : env[t] # "absent" => env'[t] # "absent"
      /\ UNCHANGED <<status, ref, staging, lastCommit, baseline, call, rec, setting, crashes>>
  BY DEF Core, TypeOK, EnvChanges, Env, rows, bounds
<1>2. \A d \in Callers : call[d].op = "create" => call[d].s \in Sessions
  BY CallRecord DEF Core
<1>3. TypeOK'
  BY <1>1 DEF Core, TypeOK
<1>4. ReferenceKept' /\ CreationIsFirst'
  BY <1>1, <1>2 DEF Core, ReferenceKept, CreationIsFirst
<1>5. AnswersFit' /\ ListIsTrue' /\ CreatingHasOwner'
  BY <1>1 DEF Core, AnswersFit, ListIsTrue, CreatingHasOwner, Creating
<1> QED BY <1>3, <1>4, <1>5 DEF Core

LEMMA CrashCore ==
  ASSUME Core, Crash
  PROVE  Core'
<1>1. /\ call' = [c \in Callers |-> Idle] /\ rec' = [NotReconciling EXCEPT !.at = "waiting"]
      /\ UNCHANGED <<status, ref, staging, lastCommit, baseline, env, setting>>
      /\ crashes < setting.maxCrashes /\ crashes' = crashes + 1
  BY DEF Crash, rows
<1>2. /\ rec' \in Reconciliation /\ rec'.at = "waiting" /\ rec'.todo = {}
      /\ \A c \in Callers : call'[c].op = "none"
  BY <1>1 DEF NotReconciling, Reconciliation, Env, Idle
<1>3. crashes' \in 0..setting'.maxCrashes
  BY <1>1, SettingsAssumption DEF Core, TypeOK
<1>4. TypeOK'
  BY <1>1, <1>2, <1>3 DEF Core, TypeOK, Call, Reconciliation
<1> QED BY <1>1, <1>2, <1>4 DEF Core, AnswersFit, ReferenceKept, CreationIsFirst, ListIsTrue, CreatingHasOwner

\* Steps of the reconciliation that write no status, and lose no session without a reference.
LEMMA ReconcileOnlyCore ==
  ASSUME Core, UNCHANGED <<status, ref, env, call, baseline, lastCommit, bounds>>, staging' \in [Sessions -> Staging],
         ListIsTrue', CreatingHasOwner'
  PROVE  Core'
<1>1. TypeOK'
  BY DEF Core, TypeOK, ListIsTrue, Reconciliation, bounds
<1> QED BY <1>1 DEF Core, AnswersFit, ReferenceKept, CreationIsFirst

LEMMA ReconcileListsCore ==
  ASSUME Core, ReconcileLists
  PROVE  Core'
<1> DEFINE listed == {t \in Sessions : status[t] \in {"creating", "ready", "stopping"}}
           all == {[s |-> s, status |-> status[s], ref |-> ref[s]] : s \in listed}
<1>1. /\ rec.at = "waiting" /\ rec' = [[rec EXCEPT !.at = "working"] EXCEPT !.todo = all]
      /\ UNCHANGED <<rows, baseline, env, call, bounds>>
  BY DEF Core, ListIsTrue, Reconciliation, ReconcileLists
<1>2. \A e \in all : e \in Listed /\ (e.ref \/ e.status # "creating" => ref[e.s])
  BY DEF Core, TypeOK, ReferenceKept, Listed
<1>3. ASSUME NEW s \in Sessions, status[s] = "creating"
      PROVE  \E e \in all : e.s = s
  <2>1. [s |-> s, status |-> status[s], ref |-> ref[s]] \in all
    BY <1>3
  <2> QED BY <2>1
<1> HIDE DEF all
<1>4. rec' \in Reconciliation /\ rec'.at = "working" /\ rec'.todo = all
  BY <1>1, <1>2 DEF Core, ListIsTrue, Reconciliation
<1>5. ListIsTrue' /\ CreatingHasOwner'
  BY <1>1, <1>2, <1>3, <1>4 DEF ListIsTrue, CreatingHasOwner, rows
<1> QED BY <1>1, <1>5, ReconcileOnlyCore DEF Core, TypeOK, rows

LEMMA DropEffect ==
  ASSUME Core, NEW e, Drop(e)
  PROVE  rec' \in Reconciliation /\ rec'.at = "working" /\ rec'.todo = rec.todo \ {e}
<1>1. rec' = [[[[rec EXCEPT !.at = "working"] EXCEPT !.todo = rec.todo \ {e}] EXCEPT !.entry = Idle] EXCEPT !.answer = "absent"]
  BY DEF Core, ListIsTrue, Reconciliation, Drop
<1> QED BY <1>1 DEF Core, ListIsTrue, Reconciliation, Env

\* An entry is dropped together with a status that is not "creating", or of a session with a reference.
LEMMA DropCore ==
  ASSUME Core, NEW e \in Listed, rec.at \in {"working", "answered"}, Drop(e), NEW st \in Status \ {"absent"},
         status' = [status EXCEPT ![e.s] = st],
         st \in {"ready", "stopping", "stopped", "destroyed", "creating"} => ref[e.s],
         UNCHANGED <<ref, staging, lastCommit, baseline, env, call, bounds>>
  PROVE  Core'
<1>1. rec' \in Reconciliation /\ rec'.at = "working" /\ rec'.todo = rec.todo \ {e} /\ e.s \in Sessions
  BY DropEffect DEF Listed
<1>2. TypeOK'
  BY <1>1 DEF Core, TypeOK, bounds, Reconciliation
<1>3. AnswersFit'
  BY DEF Core, AnswersFit
<1>4. ReferenceKept'
  BY <1>1 DEF Core, TypeOK, ReferenceKept
<1>5. CreationIsFirst'
  <2>1. \A t \in Sessions : status[t] # "absent" => status'[t] # "absent"
    BY <1>1 DEF Core, TypeOK
  <2>2. \A d \in Callers : call[d].op = "create" => call[d].s \in Sessions
    BY CallRecord DEF Core
  <2> QED BY <2>1, <2>2 DEF Core, CreationIsFirst
<1>6. ListIsTrue'
  BY <1>1 DEF Core, ListIsTrue
<1>7. CreatingHasOwner'
  <2> SUFFICES ASSUME NEW s \in Sessions, status'[s] = "creating", ~ref'[s]
               PROVE  \/ \E c \in Callers : Creating(c, s)'
                      \/ rec'.at \in {"waiting", "aborted"}
                      \/ \E x \in rec'.todo : x.s = s
    BY DEF CreatingHasOwner
  <2>1. s # e.s /\ status[s] = "creating" /\ ~ref[s]
    BY <1>1 DEF Core, TypeOK
  <2> QED BY <1>1, <2>1 DEF Core, CreatingHasOwner, Creating
<1> QED BY <1>2, <1>3, <1>4, <1>5, <1>6, <1>7 DEF Core

LEMMA ReconcileEntryCore ==
  ASSUME Core, NEW e \in rec.todo, ReconcileFailsEntry(e) \/ ReconcileSkips(e) \/ ReconcileAsks(e)
  PROVE  Core'
<1>1. e \in Listed /\ (e.ref \/ e.status # "creating" => ref[e.s]) /\ e.s \in Sessions
  BY DEF Core, ListIsTrue, Reconciliation, Listed
<1>2. CASE ReconcileFailsEntry(e)
  BY <1>1, <1>2, DropCore DEF ReconcileFailsEntry, SetStatus, Status
<1>3. CASE ReconcileSkips(e)
  <2>1. /\ rec.at = "working" /\ Drop(e) /\ e.status # "creating" /\ ref[e.s]
        /\ UNCHANGED <<status, ref, staging, lastCommit, baseline, env, call, bounds>>
    BY <1>1, <1>3 DEF ReconcileSkips, rows
  <2>2. rec' \in Reconciliation /\ rec'.at = "working" /\ rec'.todo = rec.todo \ {e}
    BY <2>1, DropEffect
  <2>3. ListIsTrue'
    BY <2>1, <2>2 DEF Core, ListIsTrue
  <2>4. CreatingHasOwner'
    BY <2>1, <2>2 DEF Core, CreatingHasOwner, Creating
  <2> QED BY <2>1, <2>3, <2>4, ReconcileOnlyCore DEF Core, TypeOK
<1>4. CASE ReconcileAsks(e)
  <2>1. /\ rec' = [[rec EXCEPT !.at = "asked"] EXCEPT !.entry = e] /\ rec.at = "working" /\ ref[e.s]
        /\ UNCHANGED <<status, ref, staging, lastCommit, baseline, env, call, bounds>>
    BY <1>1, <1>4 DEF Core, ListIsTrue, Reconciliation, ReconcileAsks, rows
  <2>2. rec' \in Reconciliation /\ rec'.at = "asked" /\ rec'.todo = rec.todo /\ rec'.entry = e
    BY <1>1, <2>1 DEF Core, ListIsTrue, Reconciliation
  <2>3. ListIsTrue'
    BY <1>1, <2>1, <2>2 DEF Core, ListIsTrue
  <2>4. CreatingHasOwner'
    BY <2>1, <2>2 DEF Core, CreatingHasOwner, Creating
  <2> QED BY <2>1, <2>3, <2>4, ReconcileOnlyCore DEF Core, TypeOK
<1> QED BY <1>2, <1>3, <1>4

LEMMA ReconcileAnsweredCore ==
  ASSUME Core, ReconcileAnswered
  PROVE  Core'
<1>1. /\ rec.at = "asked" /\ rec' = [[rec EXCEPT !.at = "answered"] EXCEPT !.answer = env[rec.entry.s]]
      /\ UNCHANGED <<status, ref, staging, lastCommit, baseline, env, call, bounds>>
  BY DEF Core, ListIsTrue, Reconciliation, ReconcileAnswered, rows
<1>2. /\ rec.entry \in Listed /\ rec.entry.s \in Sessions /\ ref[rec.entry.s]
      /\ env[rec.entry.s] \in Env \ {"absent"}
  BY <1>1 DEF Core, TypeOK, ListIsTrue, ReferenceKept, Listed
<1>3. /\ rec' \in Reconciliation /\ rec'.at = "answered" /\ rec'.todo = rec.todo
      /\ rec'.entry = rec.entry /\ rec'.answer = env[rec.entry.s]
  BY <1>1, <1>2 DEF Core, ListIsTrue, Reconciliation
<1>4. ListIsTrue'
  BY <1>1, <1>2, <1>3 DEF Core, ListIsTrue
<1>5. CreatingHasOwner'
  BY <1>1, <1>3 DEF Core, CreatingHasOwner, Creating
<1> QED BY <1>1, <1>4, <1>5, ReconcileOnlyCore DEF Core, TypeOK

LEMMA ReconcileAppliesCore ==
  ASSUME Core, ReconcileApplies
  PROVE  Core'
<1> DEFINE e == rec.entry
<1>1. e \in Listed /\ e.s \in Sessions /\ ref[e.s] /\ rec.answer \in Env \ {"absent"} /\ rec.at = "answered"
  BY DEF ReconcileApplies, Core, ListIsTrue, Reconciliation, Listed
<1>2. Drop(e) /\ UNCHANGED <<ref, staging, lastCommit, baseline, env, call, bounds>>
  BY DEF ReconcileApplies
<1>3. \E st \in Status \ {"absent"} : status' = [status EXCEPT ![e.s] = st]
  <2>1. status[e.s] \in Status \ {"absent"} /\ status = [status EXCEPT ![e.s] = status[e.s]]
    BY <1>1 DEF Core, TypeOK, ReferenceKept
  <2>2. rec.answer # "gone" => rec.answer \in Status \ {"absent"}
    BY <1>1 DEF Env, Status
  <2>3. "destroyed" \in Status \ {"absent"}
    BY DEF Status
  <2> QED BY <2>1, <2>2, <2>3 DEF ReconcileApplies, SetStatus
<1> QED BY <1>1, <1>2, <1>3, DropCore

LEMMA ReconcileStopsCore ==
  ASSUME Core, ReconcileAborts \/ ReconcileEnds
  PROVE  Core'
<1>1. CASE ReconcileAborts
  <2>1. /\ rec' \in Reconciliation /\ rec'.at = "aborted" /\ rec'.todo = {}
    BY <1>1 DEF ReconcileAborts, NotReconciling, Reconciliation, Env
  <2>2. ListIsTrue' /\ CreatingHasOwner'
    BY <2>1 DEF ListIsTrue, CreatingHasOwner
  <2> QED BY <1>1, <2>2, ReconcileOnlyCore DEF ReconcileAborts, Core, TypeOK, rows
<1>2. CASE ReconcileEnds
  <2>1. /\ rec' \in Reconciliation /\ rec'.at = "done" /\ rec'.todo = {}
        /\ rec.at = "working" /\ rec.todo = {}
        /\ UNCHANGED <<status, ref, lastCommit, baseline, env, call, bounds>>
    BY <1>2 DEF ReconcileEnds, NotReconciling, Reconciliation, Env
  <2>2. ListIsTrue' /\ CreatingHasOwner'
    BY <2>1 DEF Core, ListIsTrue, CreatingHasOwner, Creating
  <2>3. staging' \in [Sessions -> Staging]
    BY <1>2 DEF ReconcileEnds, Core, TypeOK, Staging
  <2> QED BY <2>1, <2>2, <2>3, ReconcileOnlyCore
<1> QED BY <1>1, <1>2

LEMMA StutterCore ==
  ASSUME Core, UNCHANGED vars
  PROVE  Core'
BY DEF vars, rows, bounds, Core, TypeOK, AnswersFit, ReferenceKept, CreationIsFirst, ListIsTrue, CreatingHasOwner, Creating

LEMMA CoreKept == Core /\ [Next]_vars => Core'
<1> SUFFICES ASSUME Core, [Next]_vars PROVE Core'
  OBVIOUS
<1>1. ASSUME NEW c \in setting.callers, NEW s \in Sessions,
             \/ CreateStep(c, s) \/ StopStep(c, s) \/ DestroyStep(c, s) \/ CommitStep(c, s) \/ DiscardStep(c, s)
      PROVE  Core'
  <2>1. c \in Callers
    BY SettingsAssumption DEF Core, TypeOK
  <2> QED BY <1>1, <2>1, CreateBeginsCore, CreateActsCore, CreateStagesCore, CreateReturnsCore, CreateFailsCore,
             StopCore, DestroyCore, CommitCore, DiscardCore DEF CreateStep
<1>2. CASE ReconcileStep
  BY <1>2, ReconcileListsCore, ReconcileEntryCore, ReconcileAnsweredCore, ReconcileAppliesCore, ReconcileStopsCore
     DEF ReconcileStep
<1> QED BY <1>1, <1>2, EnvChangesCore, CrashCore, StutterCore DEF Next

(***************************************************************************)
(* In every reachable state the core of the invariant holds.               *)
(***************************************************************************)
THEOREM CoreInvariance == Spec => []Core
BY InitCore, CoreKept, PTL DEF Spec

(***************************************************************************)
(* Type correctness of the rows, the calls and the reconciliation.         *)
(***************************************************************************)
THEOREM TypeCorrectness == Spec => []TypeOK
<1>1. Core => TypeOK
  BY DEF Core
<1> QED BY <1>1, CoreInvariance, PTL

(***************************************************************************)
(* A session that blocks other writers can be destroyed, or its creation   *)
(* is in flight, or the reconciliation has yet to mark it or gave up       *)
(* (createSession, reconcileOnStartup).                                    *)
(***************************************************************************)
THEOREM OwnerTheorem == Spec => []BlockingWriterHasOwner
<1>1. Core => BlockingWriterHasOwner
  BY DEF Core, ReferenceKept, CreatingHasOwner, Creating, BlockingWriterHasOwner, ActiveWriter
<1> QED BY <1>1, CoreInvariance, PTL

(***************************************************************************)
(* A step makes a destroyed session ready only by an answer about a        *)
(* session that the reconciliation listed before (stopSession,             *)
(* createSession, reconcileOnStartup).                                     *)
(***************************************************************************)
THEOREM DestructionTheorem == Spec => DestroyedNeverReady
<1> DEFINE Step == \A s \in Sessions :
                     /\ status[s] = "destroyed"
                     /\ ~(rec.at = "answered" /\ rec.entry.s = s /\ rec.entry.status # "ready")
                     => status'[s] # "ready"
<1>1. ASSUME Core, [Next]_vars
      PROVE  Step
  <2> SUFFICES ASSUME NEW s \in Sessions, status[s] = "destroyed",
                      ~(rec.at = "answered" /\ rec.entry.s = s /\ rec.entry.status # "ready")
               PROVE  status'[s] # "ready"
    BY DEF Step
  <2> USE <1>1
  <2>1. ASSUME NEW c \in Callers, NEW t \in Sessions, CreateStep(c, t) PROVE status'[s] # "ready"
    <3>1. CASE CreateReturns(c, t)
      <4>1. s # t
        BY <3>1 DEF Core, ReferenceKept, CreationIsFirst, CreateReturns, In
      <4> QED BY <3>1, <4>1 DEF Core, TypeOK, CreateReturns, SetStatus
    <3> QED BY <2>1, <3>1 DEF Core, TypeOK, CreateStep, CreateBegins, CreateActs, CreateStages, CreateFails, SetStatus, rows
  <2>2. ASSUME NEW c \in Callers, NEW t \in Sessions, StopStep(c, t) PROVE status'[s] # "ready"
    <3>1. CASE StopReturns(c, t)
      <4>1. call[c].answer # "ready"
        BY <3>1 DEF Core, AnswersFit, StopReturns, In
      <4> QED BY <3>1, <4>1 DEF Core, TypeOK, StopReturns, SetStatus
    <3> QED BY <2>2, <3>1 DEF StopStep, StopBegins, StopActs, StopFails, rows
  <2>3. ASSUME NEW c \in Callers, NEW t \in Sessions, DestroyStep(c, t) PROVE status'[s] # "ready"
    BY <2>3 DEF Core, TypeOK, DestroyStep, DestroyBegins, DestroyActs, DestroyReturns, DestroyClears, SetStatus, rows
  <2>4. ASSUME NEW c \in Callers, NEW t \in Sessions, CommitStep(c, t) \/ DiscardStep(c, t) PROVE status' = status
    BY <2>4 DEF CommitStep, CommitBegins, CommitReads, CommitApplies, CommitConflicts, CommitReturns, CommitFails,
                DiscardStep, DiscardBegins, DiscardClears, DiscardReturns, rows
  <2>5. CASE ReconcileStep
    <3>1. CASE ReconcileApplies
      BY <3>1 DEF Core, TypeOK, ListIsTrue, Listed, ReconcileApplies, SetStatus
    <3>2. ASSUME NEW e \in rec.todo, ReconcileFailsEntry(e) PROVE status'[s] # "ready"
      BY <3>2 DEF Core, TypeOK, ReconcileFailsEntry, SetStatus
    <3> QED BY <2>5, <3>1, <3>2 DEF ReconcileStep, ReconcileLists, ReconcileSkips, ReconcileAsks, ReconcileAnswered,
                                    ReconcileAborts, ReconcileEnds, rows
  <2>6. setting.callers \subseteq Callers
    BY SettingsAssumption DEF Core, TypeOK
  <2> QED BY <2>1, <2>2, <2>3, <2>4, <2>5, <2>6 DEF Next, EnvChanges, Crash, vars, rows
<1>2. Spec => [][Step]_vars
  BY <1>1, CoreInvariance, PTL DEF Spec
<1> QED BY <1>2 DEF DestroyedNeverReady

-----------------------------------------------------------------------------
(* Without restarts and early discards. *)

\* Nobody else works on a session in creation, whose row and stage are as createSession left them.
CreationIsAlone ==
  \A c \in Callers : call[c].op = "create" =>
    /\ status[call[c].s] = "creating"
    /\ StageMode[call[c].s] # "none" => staging[call[c].s] = "preparing"
    /\ call[c].at = "staging" => baseline[call[c].s]
    /\ \A d \in Callers \ {c} : call[d].op = "none" \/ call[d].s # call[c].s

CallsHaveRows == \A c \in Callers : call[c].op # "none" => status[call[c].s] # "absent"

ClearedIsNotReady ==
  \A c \in Callers : call[c].op = "destroy" /\ call[c].at = "clearing" => status[call[c].s] # "ready"

Fresh(s) ==
  ActiveWriter(s) /\ staging[s] \in {"preparing", "ready"} /\ status[s] \in {"creating", "ready"}
Ready(s) == StageMode[s] # "none" /\ staging[s] = "ready" /\ status[s] = "ready"

OneFresh == \A s, t \in Sessions : Fresh(s) /\ Fresh(t) => s = t
ReadyStaged == \A s \in Sessions : Ready(s) => baseline[s] \/ ClearingStage(s)

Quiet == /\ rec.at = "done" /\ CreationIsAlone /\ CallsHaveRows /\ ClearedIsNotReady
         /\ OneFresh /\ ReadyStaged

LEMMA InitQuiet == Init => Quiet
<1> SUFFICES ASSUME Init PROVE Quiet
  OBVIOUS
<1>1. /\ rec.at = "done" /\ \A c \in Callers : call[c].op = "none"
      /\ \A s \in Sessions : status[s] = "absent"
  BY DEF Init, NotReconciling, Idle
<1> QED BY <1>1 DEF Quiet, CreationIsAlone, CallsHaveRows, ClearedIsNotReady, OneFresh, ReadyStaged, Fresh, Ready

\* No session becomes fresh.
LEMMA FreshShrinks ==
  ASSUME OneFresh, \A s \in Sessions : Fresh(s)' => Fresh(s)
  PROVE  OneFresh'
BY DEF OneFresh

\* Ready stages are not cleared, or the call that clears them is still there.
LEMMA ReadyShrinks ==
  ASSUME ReadyStaged, NEW c \in Callers, \A d \in Callers \ {c} : call'[d] = call[d],
         \A s \in Sessions : Ready(s)' =>
           /\ Ready(s)
           /\ baseline'[s] = baseline[s] \/ ClearingStage(s)'
           /\ ~(In(c, "discard", s, "acted") \/ In(c, "destroy", s, "clearing"))
  PROVE  ReadyStaged'
<1> SUFFICES ASSUME NEW s \in Sessions, Ready(s)'
             PROVE  baseline'[s] \/ ClearingStage(s)'
  BY DEF ReadyStaged
<1>1. CASE baseline[s]
  BY <1>1
<1>2. CASE ClearingStage(s)
  <2>1. PICK d \in Callers : In(d, "discard", s, "acted") \/ In(d, "destroy", s, "clearing")
    BY <1>2 DEF ClearingStage
  <2>2. d # c
    BY <2>1
  <2> QED BY <2>1, <2>2 DEF ClearingStage, In
<1> QED BY <1>1, <1>2 DEF ReadyStaged

LEMMA CreateBeginsQuiet ==
  ASSUME Core, Quiet, NEW c \in Callers, NEW s \in Sessions, CreateBegins(c, s)
  PROVE  Quiet'
<1>1. /\ Becomes(c, "create", s, "sent", "absent") /\ call[c].op = "none"
      /\ status[s] = "absent" /\ UNCHANGED <<ref, lastCommit, baseline, env, rec, setting, crashes>>
      /\ status' = [status EXCEPT ![s] = "creating"]
      /\ staging' = [staging EXCEPT ![s] = IF StageMode[s] = "none" THEN "none" ELSE "preparing"]
      /\ StageMode[s] = "read_write" => \A t \in Sessions : ~ActiveWriter(t)
  BY BeginEffect DEF Core, CreateBegins, Op, SetStatus, SetStaging, bounds
<1>2. \A d \in Callers : call[d].op # "none" => call[d].s # s /\ call[d].s \in Sessions
  BY <1>1, CallRecord DEF Core, Quiet, CallsHaveRows
<1>3. CreationIsAlone'
  BY <1>1, <1>2 DEF Core, TypeOK, Quiet, CreationIsAlone, Becomes, StageMode
<1>4. CallsHaveRows' /\ ClearedIsNotReady'
  BY <1>1, <1>2 DEF Core, TypeOK, Quiet, CallsHaveRows, ClearedIsNotReady, Becomes
<1>5. OneFresh'
  <2>1. \A t \in Sessions \ {s} : Fresh(t)' <=> Fresh(t)
    BY <1>1 DEF Core, TypeOK, Fresh, ActiveWriter, StageMode
  <2>2. CASE StageMode[s] = "read_write"
    BY <1>1, <2>1, <2>2 DEF OneFresh, Fresh
  <2>3. CASE StageMode[s] # "read_write"
    BY <1>1, <2>1, <2>3 DEF Quiet, OneFresh, Fresh, ActiveWriter, StageMode
  <2> QED BY <2>2, <2>3
<1>6. ReadyStaged'
  <2>1. \A t \in Sessions : Ready(t)' => Ready(t)
    BY <1>1 DEF Core, TypeOK, Ready, StageMode
  <2> QED BY <1>1, <2>1, ReadyShrinks DEF Quiet, Becomes, In
<1> QED BY <1>1, <1>3, <1>4, <1>5, <1>6 DEF Quiet

LEMMA CreateGoesOnQuiet ==
  ASSUME Core, Quiet, NEW c \in Callers, NEW s \in Sessions,
         CreateStages(c, s) \/ \E answer \in {"ready", "creating"} : CreateActs(c, s, answer)
  PROVE  Quiet'
<1>1. /\ call[c].op = "create" /\ call[c].s = s
      /\ \/ \E answer \in Env : Becomes(c, "create", s, "acted", answer) /\ baseline' = baseline
         \/ Becomes(c, "create", s, "staging", call[c].answer) /\ baseline' = [baseline EXCEPT ![s] = TRUE]
      /\ UNCHANGED <<status, staging, rec, setting>>
  BY ActedEffect, MoveEffect DEF Core, CreateStages, CreateActs, In, Await, Env, rows, bounds
<1>2. CreationIsAlone'
  <2>1. /\ \A d \in Callers \ {c} : call'[d] = call[d] /\ (call[d].op = "none" \/ call[d].s # s)
        /\ call'[c].op = "create" /\ call'[c].s = s
        /\ call'[c].at = "staging" => baseline'[s]
        /\ status[s] = "creating" /\ (StageMode[s] # "none" => staging[s] = "preparing")
    BY <1>1 DEF Core, TypeOK, Quiet, CreationIsAlone, Becomes
  <2>2. \A t \in Sessions : baseline[t] => baseline'[t]
    BY <1>1 DEF Core, TypeOK
  <2>3. \A d \in Callers : call[d].op # "none" => call[d].s \in Sessions
    BY CallRecord DEF Core
  <2> QED BY <1>1, <2>1, <2>2, <2>3 DEF Quiet, CreationIsAlone, StageMode
<1>3. CallsHaveRows' /\ ClearedIsNotReady'
  BY <1>1 DEF Quiet, CallsHaveRows, ClearedIsNotReady, Becomes
<1>4. OneFresh'
  BY <1>1, FreshShrinks DEF Quiet, Fresh, ActiveWriter, StageMode
<1>5. ReadyStaged'
  <2>1. \A t \in Sessions : Ready(t)' => Ready(t) /\ t # s
    BY <1>1 DEF Quiet, CreationIsAlone, Ready, StageMode
  <2>2. \A t \in Sessions \ {s} : baseline'[t] = baseline[t]
    BY <1>1 DEF Core, TypeOK
  <2> QED BY <1>1, <2>1, <2>2, ReadyShrinks DEF Quiet, Becomes, In
<1> QED BY <1>1, <1>2, <1>3, <1>4, <1>5 DEF Quiet

LEMMA CreateReturnsQuiet ==
  ASSUME Core, Quiet, NEW c \in Callers, NEW s \in Sessions, CreateReturns(c, s)
  PROVE  Quiet'
<1>1. /\ call[c].op = "create" /\ call[c].s = s
      /\ StageMode[s] # "none" => call[c].at = "staging"
      /\ call[c].answer \in {"ready", "creating"} /\ Ends(c)
      /\ status' = [status EXCEPT ![s] = call[c].answer]
      /\ staging' = [staging EXCEPT ![s] = IF StageMode[s] = "none" THEN "none"
                                           ELSE IF call[c].answer = "ready" THEN "ready" ELSE "preparing"]
      /\ UNCHANGED <<baseline, rec, setting>>
  BY ReturnEffect DEF Core, AnswersFit, CreateReturns, In, SetStatus, SetStaging, bounds
<1>2. /\ status[s] = "creating"
      /\ StageMode[s] # "none" => staging[s] = "preparing" /\ baseline[s]
      /\ \A d \in Callers \ {c} : call[d].op = "none" \/ call[d].s # s
  BY <1>1 DEF Quiet, CreationIsAlone
<1>3. \A d \in Callers : call[d].op # "none" => call[d].s \in Sessions
  BY CallRecord DEF Core
<1>4. CreationIsAlone'
  BY <1>1, <1>2, <1>3 DEF Core, TypeOK, Quiet, CreationIsAlone, Ends, StageMode
<1>5. CallsHaveRows' /\ ClearedIsNotReady'
  BY <1>1, <1>2, <1>3 DEF Core, TypeOK, Quiet, CallsHaveRows, ClearedIsNotReady, Ends
<1>6. OneFresh'
  <2>1. \A t \in Sessions : Fresh(t)' => Fresh(t)
    BY <1>1, <1>2 DEF Core, TypeOK, Fresh, ActiveWriter, StageMode
  <2> QED BY <2>1, FreshShrinks DEF Quiet
<1>7. ReadyStaged'
  <2>1. ASSUME NEW t \in Sessions \ {s}, Ready(t)' PROVE baseline'[t] \/ ClearingStage(t)'
    <3>1. Ready(t)
      BY <1>1, <2>1 DEF Core, TypeOK, Ready, StageMode
    <3>2. baseline[t] \/ ClearingStage(t)
      BY <3>1 DEF Quiet, ReadyStaged
    <3> QED BY <1>1, <3>2 DEF ClearingStage, In, Ends
  <2>2. Ready(s)' => baseline'[s]
    BY <1>1, <1>2 DEF Ready, StageMode
  <2> QED BY <2>1, <2>2 DEF ReadyStaged
<1> QED BY <1>1, <1>4, <1>5, <1>6, <1>7 DEF Quiet

LEMMA CreateFailsQuiet ==
  ASSUME Core, Quiet, NEW c \in Callers, NEW s \in Sessions, CreateFails(c, s)
  PROVE  Quiet'
<1>1. /\ call[c].op = "create" /\ call[c].s = s /\ Ends(c)
      /\ status' = [status EXCEPT ![s] = "failed"]
      /\ UNCHANGED <<staging, baseline, rec, setting>>
  BY ReturnEffect DEF Core, CreateFails, In, SetStatus, bounds
<1>2. \A d \in Callers : call[d].op # "none" => call[d].s \in Sessions
  BY CallRecord DEF Core
<1>3. CreationIsAlone'
  BY <1>1, <1>2 DEF Core, TypeOK, Quiet, CreationIsAlone, Ends, StageMode
<1>4. CallsHaveRows' /\ ClearedIsNotReady'
  BY <1>1, <1>2 DEF Core, TypeOK, Quiet, CallsHaveRows, ClearedIsNotReady, Ends
<1>5. OneFresh'
  <2>1. \A t \in Sessions : Fresh(t)' => Fresh(t)
    BY <1>1 DEF Core, TypeOK, Fresh, ActiveWriter, StageMode
  <2> QED BY <2>1, FreshShrinks DEF Quiet
<1>6. ReadyStaged'
  <2>1. \A t \in Sessions : Ready(t)' => Ready(t)
    BY <1>1 DEF Core, TypeOK, Ready, StageMode
  <2> QED BY <1>1, <2>1, ReadyShrinks DEF Quiet, Ends, In
<1> QED BY <1>1, <1>3, <1>4, <1>5, <1>6 DEF Quiet

\* A method on an existing session that makes it neither ready nor fresh, and clears its stage knowingly.
LEMMA OthersQuiet ==
  ASSUME Core, Quiet, UNCHANGED <<rec, setting>>, NEW c \in Callers, NEW s \in Sessions,
         call[c].op # "create", \A d \in Callers : ~Creating(d, s),
         \/ Ends(c)
         \/ \E op \in {"stop", "destroy", "commit", "discard"}, at \in Await, answer \in Env :
              /\ Becomes(c, op, s, at, answer)
              /\ op = "destroy" /\ at = "clearing" => status'[s] # "ready",
         \A t \in Sessions \ {s} : status'[t] = status[t] /\ staging'[t] = staging[t] /\ baseline'[t] = baseline[t],
         status'[s] # "absent", status'[s] = "ready" => status[s] = "ready",
         Fresh(s)' => Fresh(s),
         Ready(s)' => Ready(s) /\ (baseline'[s] = baseline[s] \/ ClearingStage(s)'),
         \A t \in Sessions : Ready(t)' => ~(In(c, "discard", t, "acted") \/ In(c, "destroy", t, "clearing"))
  PROVE  Quiet'
<1>1. \A d \in Callers : call[d].op # "none" => call[d].s \in Sessions
  BY CallRecord DEF Core
<1>2. CreationIsAlone'
  <2>1. ASSUME NEW d \in Callers, call'[d].op = "create"
        PROVE  call'[d] = call[d] /\ call[d].s \in Sessions \ {s} /\ d # c
    BY <1>1, <2>1 DEF Ends, Becomes, Creating
  <2>2. \A d \in Callers \ {c} : call'[d] = call[d]
    BY DEF Ends, Becomes
  <2>3. call'[c].op = "none" \/ call'[c].s = s
    BY DEF Ends, Becomes
  <2> QED BY <2>1, <2>2, <2>3 DEF Quiet, CreationIsAlone, StageMode
<1>3. CallsHaveRows'
  BY <1>1 DEF Quiet, CallsHaveRows, Ends, Becomes
<1>4. ClearedIsNotReady'
  BY <1>1 DEF Quiet, ClearedIsNotReady, Ends, Becomes
<1>5. OneFresh'
  <2>1. \A t \in Sessions \ {s} : Fresh(t)' => Fresh(t)
    BY DEF Fresh, ActiveWriter, StageMode
  <2> QED BY <2>1, FreshShrinks DEF Quiet
<1>6. ReadyStaged'
  <2>1. \A t \in Sessions \ {s} : Ready(t)' => Ready(t)
    BY DEF Ready, StageMode
  <2> QED BY <2>1, ReadyShrinks DEF Quiet, Ends, Becomes
<1> QED BY <1>2, <1>3, <1>4, <1>5, <1>6 DEF Quiet

\* A session that can be stopped, destroyed, committed or discarded is not in creation any more.
LEMMA NotInCreation ==
  ASSUME Core, Quiet, NEW c \in Callers, NEW s \in Sessions,
         \/ ref[s]
         \/ status[s] # "creating"
         \/ call[c].op \notin {"create", "none"} /\ call[c].s = s
  PROVE  \A d \in Callers : ~Creating(d, s)
BY DEF Core, Quiet, CreationIsFirst, CreationIsAlone, Creating

LEMMA StopQuiet ==
  ASSUME Core, Quiet, NEW c \in Callers, NEW s \in Sessions, StopStep(c, s)
  PROVE  Quiet'
<1>1. CASE StopBegins(c, s)
  <2>1. /\ Becomes(c, "stop", s, "sent", "absent") /\ call[c].op = "none" /\ ref[s]
        /\ UNCHANGED <<status, staging, baseline, rec, setting>>
    BY <1>1, BeginEffect DEF Core, StopBegins, Op, rows, bounds
  <2> QED BY <2>1, NotInCreation, OthersQuiet
          DEF Core, ReferenceKept, Ready, Fresh, ActiveWriter, StageMode, In, Await, Env
<1>2. CASE \E answer \in {"stopping", "stopped"} : StopActs(c, s, answer)
  <2>1. /\ call[c].op = "stop" /\ call[c].s = s /\ \E answer \in Env : Becomes(c, "stop", s, "acted", answer)
        /\ UNCHANGED <<status, staging, baseline, rec, setting>>
    BY <1>2, ActedEffect DEF Core, StopActs, In, Env, rows, bounds
  <2> QED BY <2>1, NotInCreation, OthersQuiet
          DEF Quiet, CallsHaveRows, Ready, Fresh, ActiveWriter, StageMode, In, Await
<1>3. CASE StopReturns(c, s)
  <2>1. /\ call[c].op = "stop" /\ call[c].s = s /\ call[c].answer \in {"stopping", "stopped"}
        /\ Ends(c) /\ status' = [status EXCEPT ![s] = call[c].answer]
        /\ UNCHANGED <<staging, baseline, rec, setting>>
    BY <1>3, ReturnEffect DEF Core, AnswersFit, StopReturns, In, SetStatus, bounds
  <2>2. status'[s] \notin {"absent", "ready", "creating"} /\ \A t \in Sessions \ {s} : status'[t] = status[t]
    BY <2>1 DEF Core, TypeOK
  <2>3. ~Fresh(s)' /\ ~Ready(s)'
    BY <2>2 DEF Fresh, Ready
  <2> QED BY <2>1, <2>2, <2>3, NotInCreation, OthersQuiet DEF In
<1>4. CASE StopFails(c, s)
  <2>1. /\ call[c].op = "stop" /\ call[c].s = s /\ Ends(c)
        /\ UNCHANGED <<status, staging, baseline, rec, setting>>
    BY <1>4, ReturnEffect DEF Core, StopFails, In, rows, bounds
  <2> QED BY <2>1, NotInCreation, OthersQuiet
          DEF Quiet, CallsHaveRows, Ready, Fresh, ActiveWriter, StageMode, In
<1> QED BY <1>1, <1>2, <1>3, <1>4 DEF StopStep

LEMMA DestroyQuiet ==
  ASSUME Core, Quiet, NEW c \in Callers, NEW s \in Sessions, DestroyStep(c, s)
  PROVE  Quiet'
<1>1. CASE DestroyBegins(c, s)
  <2>1. /\ Becomes(c, "destroy", s, "sent", "absent") /\ call[c].op = "none" /\ ref[s]
        /\ UNCHANGED <<status, staging, baseline, rec, setting>>
    BY <1>1, BeginEffect DEF Core, DestroyBegins, Op, rows, bounds
  <2> QED BY <2>1, NotInCreation, OthersQuiet
          DEF Core, ReferenceKept, Ready, Fresh, ActiveWriter, StageMode, In, Await, Env
<1>2. CASE DestroyActs(c, s)
  <2>1. /\ call[c].op = "destroy" /\ call[c].s = s /\ call[c].at = "sent" /\ Becomes(c, "destroy", s, "acted", "gone")
        /\ UNCHANGED <<status, staging, baseline, rec, setting>>
    BY <1>2, ActedEffect DEF Core, DestroyActs, In, Env, rows, bounds
  <2> QED BY <2>1, NotInCreation, OthersQuiet
          DEF Quiet, CallsHaveRows, Ready, Fresh, ActiveWriter, StageMode, In, Await, Env
<1>3. CASE DestroyReturns(c, s)
  <2>1. /\ call[c].op = "destroy" /\ call[c].s = s /\ call[c].at = "acted" /\ call[c].answer \in Env
        /\ Becomes(c, "destroy", s, "clearing", call[c].answer) /\ status' = [status EXCEPT ![s] = "destroyed"]
        /\ UNCHANGED <<staging, baseline, rec, setting>>
    BY <1>3, MoveEffect, CallRecord DEF Core, DestroyReturns, In, SetStatus, Await, bounds
  <2>2. status'[s] = "destroyed" /\ \A t \in Sessions \ {s} : status'[t] = status[t]
    BY <2>1 DEF Core, TypeOK
  <2>3. ~Fresh(s)' /\ ~Ready(s)'
    BY <2>2 DEF Fresh, Ready
  <2> QED BY <2>1, <2>2, <2>3, NotInCreation, OthersQuiet DEF In, Await
<1>4. CASE DestroyClears(c, s)
  <2>1. /\ call[c].op = "destroy" /\ call[c].s = s /\ call[c].at = "clearing"
        /\ Ends(c) /\ baseline' = [baseline EXCEPT ![s] = FALSE]
        /\ UNCHANGED <<status, staging, rec, setting>>
    BY <1>4, ReturnEffect DEF Core, DestroyClears, In, rows, bounds
  <2>2. status[s] # "ready" /\ status[s] # "absent" /\ \A t \in Sessions \ {s} : baseline'[t] = baseline[t]
    BY <2>1 DEF Core, TypeOK, Quiet, ClearedIsNotReady, CallsHaveRows
  <2>3. ~Ready(s)' /\ (Fresh(s)' => Fresh(s))
    BY <2>1, <2>2 DEF Ready, Fresh, ActiveWriter, StageMode
  <2> QED BY <2>1, <2>2, <2>3, NotInCreation, OthersQuiet DEF In
<1> QED BY <1>1, <1>2, <1>3, <1>4 DEF DestroyStep

LEMMA CommitQuiet ==
  ASSUME Core, Quiet, NEW c \in Callers, NEW s \in Sessions, CommitStep(c, s)
  PROVE  Quiet'
<1>1. CASE CommitBegins(c, s)
  <2>1. /\ Becomes(c, "commit", s, "sent", "absent") /\ call[c].op = "none" /\ status[s] = "ready"
        /\ staging' = [staging EXCEPT ![s] = "committing"]
        /\ UNCHANGED <<status, baseline, rec, setting>>
    BY <1>1, BeginEffect DEF Core, CommitBegins, Op, SetStaging, bounds
  <2>2. staging'[s] = "committing" /\ \A t \in Sessions \ {s} : staging'[t] = staging[t]
    BY <2>1 DEF Core, TypeOK
  <2>3. ~Fresh(s)' /\ ~Ready(s)'
    BY <2>2 DEF Fresh, Ready
  <2> QED BY <2>1, <2>2, <2>3, NotInCreation, OthersQuiet DEF In, Await, Env
<1>2. CASE CommitReads(c, s) \/ CommitApplies(c, s)
  <2>1. /\ call[c].op = "commit" /\ call[c].s = s /\ UNCHANGED <<status, staging, baseline, rec, setting>>
        /\ call[c].answer \in Env /\ \E at \in Await : Becomes(c, "commit", s, at, call[c].answer)
    BY <1>2, MoveEffect, CallRecord DEF Core, CommitReads, CommitApplies, In, Await, rows, bounds
  <2> QED BY <2>1, NotInCreation, OthersQuiet
          DEF Quiet, CallsHaveRows, Ready, Fresh, ActiveWriter, StageMode, In
<1>3. CASE CommitConflicts(c, s) \/ CommitReturns(c, s) \/ CommitFails(c, s)
  <2>1. /\ call[c].op = "commit" /\ call[c].s = s /\ Ends(c) /\ UNCHANGED <<status, baseline, rec, setting>>
        /\ \/ UNCHANGED staging
           \/ \E st \in {"conflict", "committed"} : staging' = [staging EXCEPT ![s] = st]
    BY <1>3, ReturnEffect DEF Core, CommitConflicts, CommitReturns, CommitFails, In, SetStaging, rows, bounds
  <2>2. /\ staging'[s] \in {staging[s], "conflict", "committed"}
        /\ \A t \in Sessions \ {s} : staging'[t] = staging[t]
    BY <2>1 DEF Core, TypeOK
  <2>3. (Fresh(s)' => Fresh(s)) /\ (Ready(s)' => Ready(s))
    BY <2>1, <2>2 DEF Fresh, Ready, ActiveWriter, StageMode
  <2> QED BY <2>1, <2>2, <2>3, NotInCreation, OthersQuiet DEF Quiet, CallsHaveRows, In
<1> QED BY <1>1, <1>2, <1>3 DEF CommitStep

LEMMA DiscardQuiet ==
  ASSUME Core, Quiet, Undisturbed, NEW c \in Callers, NEW s \in Sessions, DiscardStep(c, s)
  PROVE  Quiet'
<1>1. CASE DiscardBegins(c, s)
  <2>1. /\ Becomes(c, "discard", s, "sent", "absent") /\ call[c].op = "none"
        /\ status[s] \notin {"absent", "creating"}
        /\ UNCHANGED <<status, staging, baseline, rec, setting>>
    BY <1>1, BeginEffect DEF Core, Undisturbed, DiscardBegins, Op, rows, bounds
  <2> QED BY <2>1, NotInCreation, OthersQuiet DEF Ready, Fresh, ActiveWriter, StageMode, In, Await, Env
<1>2. CASE DiscardClears(c, s)
  <2>1. /\ call[c].op = "discard" /\ call[c].s = s /\ call[c].at = "sent" /\ call[c].answer \in Env
        /\ Becomes(c, "discard", s, "acted", call[c].answer)
        /\ baseline' = [baseline EXCEPT ![s] = FALSE] /\ UNCHANGED <<status, staging, rec, setting>>
    BY <1>2, MoveEffect, CallRecord DEF Core, DiscardClears, In, Await, rows, bounds
  <2>2. ClearingStage(s)' /\ \A t \in Sessions \ {s} : baseline'[t] = baseline[t]
    BY <2>1 DEF Core, TypeOK, ClearingStage, In, Becomes
  <2>3. (Fresh(s)' => Fresh(s)) /\ (Ready(s)' => Ready(s))
    BY <2>1 DEF Fresh, Ready, ActiveWriter, StageMode
  <2> QED BY <2>1, <2>2, <2>3, NotInCreation, OthersQuiet DEF Quiet, CallsHaveRows, In, Await
<1>3. CASE DiscardReturns(c, s)
  <2>1. /\ call[c].op = "discard" /\ call[c].s = s /\ Ends(c) /\ staging' = [staging EXCEPT ![s] = "discarded"]
        /\ UNCHANGED <<status, baseline, rec, setting>>
    BY <1>3, ReturnEffect DEF Core, DiscardReturns, In, SetStaging, bounds
  <2>2. staging'[s] = "discarded" /\ \A t \in Sessions \ {s} : staging'[t] = staging[t]
    BY <2>1 DEF Core, TypeOK
  <2>3. ~Fresh(s)' /\ ~Ready(s)'
    BY <2>2 DEF Fresh, Ready
  <2> QED BY <2>1, <2>2, <2>3, NotInCreation, OthersQuiet DEF Quiet, CallsHaveRows, In
<1> QED BY <1>1, <1>2, <1>3 DEF DiscardStep

\* Nobody restarts the service or has started a reconciliation.
LEMMA NothingLost ==
  ASSUME Core, Quiet, Undisturbed
  PROVE  ~Crash /\ ~ReconcileStep
BY DEF Core, TypeOK, Quiet, Undisturbed, Crash, ReconcileStep, ReconcileLists, ReconcileFailsEntry, ReconcileSkips,
       ReconcileAsks, ReconcileAnswered, ReconcileApplies, ReconcileAborts, ReconcileEnds

LEMMA IdleQuiet ==
  ASSUME Quiet, UNCHANGED <<rows, baseline, call, rec, setting>>
  PROVE  Quiet'
BY DEF rows, Quiet, CreationIsAlone, CallsHaveRows, ClearedIsNotReady, OneFresh, ReadyStaged, Fresh, Ready,
       ActiveWriter, ClearingStage, In, StageMode

LEMMA QuietKept == Core /\ (Undisturbed => Quiet) /\ [Next]_vars => (Undisturbed => Quiet)'
<1> SUFFICES ASSUME Core, Undisturbed => Quiet, [Next]_vars, Undisturbed'
             PROVE  Quiet'
  OBVIOUS
<1>1. setting' = setting
  <2>1. ASSUME NEW c, NEW s, CreateStep(c, s) \/ StopStep(c, s) PROVE setting' = setting
    BY <2>1 DEF CreateStep, CreateBegins, CreateActs, CreateStages, CreateReturns, CreateFails,
                StopStep, StopBegins, StopActs, StopReturns, StopFails, bounds
  <2>2. ASSUME NEW c, NEW s, DestroyStep(c, s) \/ DiscardStep(c, s) PROVE setting' = setting
    BY <2>2 DEF DestroyStep, DestroyBegins, DestroyActs, DestroyReturns, DestroyClears,
                DiscardStep, DiscardBegins, DiscardClears, DiscardReturns, bounds
  <2>3. ASSUME NEW c, NEW s, CommitStep(c, s) PROVE setting' = setting
    BY <2>3 DEF CommitStep, CommitBegins, CommitReads, CommitApplies, CommitConflicts, CommitReturns, CommitFails, bounds
  <2>4. CASE ReconcileStep
    BY <2>4 DEF ReconcileStep, ReconcileLists, ReconcileFailsEntry, ReconcileSkips, ReconcileAsks, ReconcileAnswered,
                ReconcileApplies, ReconcileAborts, ReconcileEnds, bounds
  <2> QED BY <2>1, <2>2, <2>3, <2>4 DEF Next, EnvChanges, Crash, vars, bounds
<1>2. Undisturbed /\ Quiet
  BY <1>1 DEF Undisturbed
<1>3. ASSUME NEW c \in setting.callers, NEW s \in Sessions,
             \/ CreateStep(c, s) \/ StopStep(c, s) \/ DestroyStep(c, s) \/ CommitStep(c, s) \/ DiscardStep(c, s)
      PROVE  Quiet'
  <2>1. c \in Callers
    BY SettingsAssumption DEF Core, TypeOK
  <2> QED BY <1>2, <1>3, <2>1, CreateBeginsQuiet, CreateGoesOnQuiet, CreateReturnsQuiet, CreateFailsQuiet,
             StopQuiet, DestroyQuiet, CommitQuiet, DiscardQuiet DEF CreateStep
<1>4. ASSUME NEW s \in Sessions, EnvChanges(s) PROVE Quiet'
  BY <1>2, <1>4, IdleQuiet DEF EnvChanges, bounds
<1>5. CASE UNCHANGED vars
  BY <1>2, <1>5, IdleQuiet DEF vars, bounds
<1> QED BY <1>2, <1>3, <1>4, <1>5, NothingLost DEF Next

(***************************************************************************)
(* Without restarts and early discards the rest of the invariant holds.    *)
(***************************************************************************)
THEOREM QuietInvariance == Spec => [](Undisturbed => Quiet)
<1>1. Init => (Undisturbed => Quiet)
  BY InitQuiet
<1> QED BY <1>1, CoreInvariance, QuietKept, PTL DEF Spec

(***************************************************************************)
(* One fresh read-write stage per workspace root (createSession,           *)
(* findActiveRuntimeStageWriter).                                          *)
(***************************************************************************)
THEOREM WriterTheorem == Spec => []FreshWriterExclusive
<1>1. (Undisturbed => Quiet) => FreshWriterExclusive
  BY DEF Quiet, OneFresh, Fresh, FreshWriterExclusive
<1> QED BY <1>1, QuietInvariance, PTL

(***************************************************************************)
(* A stage that is offered for a commit has its base manifest              *)
(* (destroySession, discardWorkspaceStage).                                *)
(***************************************************************************)
THEOREM BaselineTheorem == Spec => []ReadyStageHasBaseline
<1>1. (Undisturbed => Quiet) => ReadyStageHasBaseline
  BY DEF Quiet, ReadyStaged, Ready, ReadyStageHasBaseline
<1> QED BY <1>1, QuietInvariance, PTL
=============================================================================
