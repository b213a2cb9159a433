------------------------------- MODULE PtyTail -------------------------------
(***************************************************************************)
(* The terminals (PTYs) of one runtime session.  Opening one starts a      *)
(* mirror, a coroutine that appends what the adapter streams to the        *)
(* retained events of the session.  The clients of streamPty never see the *)
(* adapter's stream: their readers poll the table, remember the number up  *)
(* to which they have read, and end with the exit or the failure of the    *)
(* PTY.  All PTYs and the session's other operations share one retention.  *)
(*                                                                         *)
(* A reader polls when its client asks for more, so any number of events   *)
(* may be appended, and trimmed, between two polls.                        *)
(***************************************************************************)
EXTENDS EventTable, FiniteSets

CONSTANTS
  Ptys,
  Readers,      \* clients of streamPty
  PageLimit,    \* the limit that a reader passes to listRuntimeSessionEvents
  ClockStepsBack, \* whether the wall clock may be set back
  Times,        \* readings of the clock, numbers
  MaxEvents,    \* bound: events of the session
  MaxCrashes    \* bound: crashes

Kinds == {"output", "long output", "exit", "stream_failed", "other"}

ASSUME TailAssumption ==
  /\ Event = [kind : Kinds, pty : Ptys, at : Times]
  /\ PageLimit \in Nat /\ Retention <= PageLimit
  /\ ClockStepsBack \in BOOLEAN
  /\ Times \subseteq Nat /\ 0 \in Times
  /\ MaxEvents \in Nat /\ MaxCrashes \in Nat

VARIABLES
  mirror,   \* per PTY: "none", "live", "over", or "lost" in a crash
  state,    \* per reader: "none", "reading", "finished", "ended", "failed", "gone"
  reads,    \* per reader: its PTY
  from,     \* per reader: the cursor it was given
  cursor,   \* per reader: nextCursor
  pending,  \* per reader: the events read and not yet delivered, a set of numbers
  got,      \* per reader: the numbers of the events delivered
  clock,
  crashes

readerVars == <<state, reads, from, cursor, pending, got>>
tailVars == <<tableVars, mirror, readerVars, clock, crashes>>

TailTypeOK ==
  /\ rows \in [DOMAIN rows -> Event]
  /\ ever \in Seq(Event)
  /\ mirror \in [Ptys -> {"none", "live", "over", "lost"}]
  /\ state \in [Readers -> {"none", "reading", "finished", "ended", "failed", "gone"}]
  /\ reads \in [Readers -> Ptys]
  /\ from \in [Readers -> Nat]
  /\ cursor \in [Readers -> Nat]
  /\ pending \in [Readers -> SUBSET Nat]
  /\ got \in [Readers -> Seq(Nat)]
  /\ clock \in Times
  /\ crashes \in 0..MaxCrashes

TailInit ==
  /\ TableInit
  /\ mirror = [p \in Ptys |-> "none"]
  /\ state = [r \in Readers |-> "none"]
  /\ reads \in [Readers -> Ptys]
  /\ from = [r \in Readers |-> 0]
  /\ cursor = [r \in Readers |-> 0]
  /\ pending = [r \in Readers |-> {}]
  /\ got = [r \in Readers |-> <<>>]
  /\ clock = 0
  /\ crashes = 0

-----------------------------------------------------------------------------
(* openPty, the mirror, and the other events of the session. *)

Record(kind, p) ==
  /\ Len(ever) < MaxEvents
  /\ AppendEvent([kind |-> kind, pty |-> p, at |-> clock])
  /\ UNCHANGED <<readerVars, clock, crashes>>

OpenPty(p) ==
  /\ mirror[p] = "none"
  /\ Record("other", p)
  /\ mirror' = [mirror EXCEPT ![p] = "live"]

\* A text longer than sanitizeValue keeps is stored as an object, no text any more.
MirrorOutput(p) ==
  /\ mirror[p] = "live"
  /\ Record("output", p) \/ Record("long output", p)
  /\ UNCHANGED mirror

\* The adapter's stream ends after the exit.
MirrorExit(p) ==
  /\ mirror[p] = "live"
  /\ Record("exit", p)
  /\ mirror' = [mirror EXCEPT ![p] = "over"]

\* The stream throws, or could not be opened.
MirrorFails(p) ==
  /\ mirror[p] = "live"
  /\ Record("stream_failed", p)
  /\ mirror' = [mirror EXCEPT ![p] = "over"]

\* writePty, resizePty, closePty, exec, commits...
OtherEvent(p) ==
  /\ mirror[p] # "none"
  /\ Record("other", p)
  /\ UNCHANGED mirror

ClockMoves ==
  /\ \E t \in Times : (t > clock \/ ClockStepsBack) /\ clock' = t
  /\ UNCHANGED <<tableVars, mirror, readerVars, crashes>>

-----------------------------------------------------------------------------
(* createRuntimePtyEventStream *)

\* Whether row s comes before row t in listRuntimeSessionEvents.
Before(s, t) ==
  \/ rows[s].at < rows[t].at
  \/ rows[s].at = rows[t].at /\ s < t

\* Its LIMIT keeps the last rows in that order.
Page == {s \in DOMAIN rows : Cardinality({t \in DOMAIN rows : Before(s, t)}) < PageLimit}

\* Rows that a reader of p which has come to number n may take.
Fresh(p, n) ==
  {s \in Page : s > n /\ rows[s].pty = p /\ rows[s].kind # "other"}

\* The cursor moves within a scan: what comes later in the page under a
\* smaller number is passed over.
Taken(p, n) == {s \in Fresh(p, n) : \A t \in Fresh(p, n) : t > s => Before(s, t)}

Deliverable(S) == {s \in S : rows[s].kind \in {"output", "exit"}}

Largest(S) == CHOOSE s \in S : \A t \in S : t <= s
Smallest(S) == CHOOSE s \in S : \A t \in S : s <= t

\* A client gives any cursor that it may know.
StreamPty(r, c) ==
  /\ state[r] = "none"
  /\ mirror[reads[r]] # "none"
  /\ c <= Len(ever)
  /\ state' = [state EXCEPT ![r] = "reading"]
  /\ from' = [from EXCEPT ![r] = c]
  /\ cursor' = [cursor EXCEPT ![r] = c]
  /\ UNCHANGED <<tableVars, mirror, reads, pending, got, clock, crashes>>

\* Defect: what follows the first event is not kept.
YieldFirst(r, events) ==
  IF events = {}
  THEN UNCHANGED <<pending, got>>
  ELSE got' = [got EXCEPT ![r] = Append(@, Smallest(events))] /\ UNCHANGED pending

\* next() returns the first of the events that were read, and keeps the others.
Yield(r, events) ==
  IF events = {}
  THEN UNCHANGED <<pending, got>>
  ELSE /\ got' = [got EXCEPT ![r] = Append(@, Smallest(events))]
       /\ pending' = [pending EXCEPT ![r] = events \ {Smallest(events)}]

NextBuffered(r) ==
  /\ state[r] \in {"reading", "finished"}
  /\ pending[r] # {}
  /\ Yield(r, pending[r])
  /\ UNCHANGED <<tableVars, mirror, state, reads, from, cursor, clock, crashes>>

NextDone(r) ==
  /\ state[r] = "finished"
  /\ pending[r] = {}
  /\ state' = [state EXCEPT ![r] = "ended"]
  /\ UNCHANGED <<tableVars, mirror, reads, from, cursor, pending, got, clock, crashes>>

\* Defect: the cursor stays behind the last event that was read.
PollBehind(r) ==
  LET taken == Taken(reads[r], cursor[r])
  IN /\ state[r] = "reading" /\ pending[r] = {} /\ Deliverable(taken) # {}
     /\ cursor' = [cursor EXCEPT ![r] = Largest(taken) - 1]
     /\ Yield(r, Deliverable(taken))
     /\ UNCHANGED <<tableVars, mirror, state, reads, from, clock, crashes>>

\* Defect: the exit does not end the reader.
PollOn(r) ==
  LET taken == Taken(reads[r], cursor[r])
  IN /\ state[r] = "reading" /\ pending[r] = {} /\ taken # {}
     /\ cursor' = [cursor EXCEPT ![r] = Largest(taken)]
     /\ Yield(r, Deliverable(taken))
     /\ UNCHANGED <<tableVars, mirror, state, reads, from, clock, crashes>>

Poll(r) ==
  LET taken == Taken(reads[r], cursor[r])
  IN /\ state[r] = "reading"
     /\ pending[r] = {}
     /\ taken # {}
     /\ \A s \in taken : rows[s].kind # "stream_failed"
     /\ cursor' = [cursor EXCEPT ![r] = Largest(taken)]
     /\ Yield(r, Deliverable(taken))
     /\ state' = [state EXCEPT ![r] = IF \E s \in taken : rows[s].kind = "exit" THEN "finished" ELSE @]
     /\ UNCHANGED <<tableVars, mirror, reads, from, clock, crashes>>

\* The scan comes to a failure of the stream and throws.
PollFails(r) ==
  LET failures == {s \in Taken(reads[r], cursor[r]) : rows[s].kind = "stream_failed"}
  IN /\ state[r] = "reading"
     /\ pending[r] = {}
     /\ failures # {}
     /\ cursor' = [cursor EXCEPT ![r] = Smallest(failures)]
     /\ state' = [state EXCEPT ![r] = "failed"]
     /\ UNCHANGED <<tableVars, mirror, reads, from, pending, got, clock, crashes>>

\* The client hangs up.
Leave(r) ==
  /\ state[r] \in {"reading", "finished"}
  /\ state' = [state EXCEPT ![r] = "gone"]
  /\ UNCHANGED <<tableVars, mirror, reads, from, cursor, pending, got, clock, crashes>>

\* Mirrors and readers live in memory, and the restart starts no mirror again.
Crash ==
  /\ crashes < MaxCrashes
  /\ crashes' = crashes + 1
  /\ mirror' = [p \in Ptys |-> IF mirror[p] = "live" THEN "lost" ELSE mirror[p]]
  /\ state' = [r \in Readers |-> IF state[r] \in {"reading", "finished"} THEN "gone" ELSE state[r]]
  /\ UNCHANGED <<tableVars, reads, from, cursor, pending, got, clock>>

-----------------------------------------------------------------------------
PtyStep(p) == OpenPty(p) \/ MirrorOutput(p) \/ MirrorExit(p) \/ MirrorFails(p) \/ OtherEvent(p)

ReaderNext(r) == NextBuffered(r) \/ NextDone(r) \/ Poll(r) \/ PollFails(r)

TailNext ==
  \/ \E p \in Ptys : PtyStep(p)
  \/ \E r \in Readers : ReaderNext(r) \/ Leave(r) \/ \E c \in 0..MaxEvents : StreamPty(r, c)
  \/ ClockMoves
  \/ Crash

TailSpec == TailInit /\ [][TailNext]_tailVars

\* A client that has not hung up keeps asking, and a poll follows every 50 ms.
FairTailSpec == TailSpec /\ \A r \in Readers : WF_tailVars(ReaderNext(r))

-----------------------------------------------------------------------------
Delivered(r) == {got[r][i] : i \in 1..Len(got[r])}

Received(r) == Delivered(r) \cup pending[r]

\* Rows of the reader's PTY that its cursor has come to.
PassedRows(r) == {s \in DOMAIN rows : from[r] < s /\ s <= cursor[r] /\ rows[s].pty = reads[r]}

(***************************************************************************)
(* A reader delivers events of its own PTY, in the order in which they     *)
(* were appended and none twice, whatever is trimmed between its polls.    *)
(***************************************************************************)
DeliversInOrder ==
  \A r \in Readers :
    /\ \A s \in Delivered(r) :
         s \in 1..Len(ever) /\ ever[s].pty = reads[r] /\ ever[s].kind \in {"output", "exit"}
    /\ \A i, j \in 1..Len(got[r]) : i < j => got[r][i] < got[r][j]

(***************************************************************************)
(* A reader passes over nothing that is still retained: every output and   *)
(* exit of its PTY up to its cursor has been delivered or is buffered.     *)
(***************************************************************************)
SkipsNothingRetained ==
  \A r \in Readers : state[r] \in {"reading", "finished", "ended"} =>
    \A s \in PassedRows(r) : rows[s].kind \in {"output", "exit"} => s \in Received(r)

(***************************************************************************)
(* A stream ends in order only after it has delivered the exit of its PTY, *)
(* with everything before the exit delivered too.                          *)
(***************************************************************************)
EndsWithExit ==
  \A r \in Readers : state[r] = "ended" =>
    /\ pending[r] = {}
    /\ got[r] # <<>>
    /\ ever[got[r][Len(got[r])]].kind = "exit"

\* After the exit of a PTY its mirror is over, and streams nothing more.
ExitIsLast ==
  \A s \in 1..Len(ever) : ever[s].kind = "exit" =>
    /\ mirror[ever[s].pty] = "over"
    /\ \A t \in 1..Len(ever) : s < t /\ ever[t].pty = ever[s].pty => ever[t].kind = "other"

\* What a reader has read lies between its cursors, buffered after delivered.
ReaderConsistent(r) ==
  /\ from[r] <= cursor[r] /\ cursor[r] <= Len(ever)
  /\ \A s \in Received(r) :
       /\ s \in 1..Len(ever) /\ from[r] < s /\ s <= cursor[r]
       /\ ever[s].pty = reads[r] /\ ever[s].kind \in {"output", "exit"}
  /\ \A i, j \in 1..Len(got[r]) : i < j => got[r][i] < got[r][j]
  /\ \A s \in Delivered(r), t \in pending[r] : s < t
  /\ state[r] = "none" => Received(r) = {}
  /\ state[r] \in {"finished", "ended"} => \E s \in Received(r) : ever[s].kind = "exit"
  /\ state[r] = "ended" => pending[r] = {}

\* The inductive invariant, for any clock.
TailInv ==
  /\ TailTypeOK
  /\ HoldsLatest
  /\ ExitIsLast
  /\ \A r \in Readers : ReaderConsistent(r)

\* The order of the numbers is the order of the times.
TimesInOrder ==
  /\ \A s \in 1..Len(ever) : ever[s].at <= clock
  /\ \A s, t \in 1..Len(ever) : s < t => ever[s].at <= ever[t].at

\* The row that would end the reader is in the table.
EndOnRecord(r) ==
  \E s \in DOMAIN rows : s > from[r] /\ rows[s].pty = reads[r] /\ rows[s].kind \in {"exit", "stream_failed"}

(***************************************************************************)
(* A reader whose PTY has ended, with an exit or a failure, ends too, or   *)
(* it has waited until other events of the session pushed that row out of  *)
(* the window (createRuntimePtyEventStream has no other end).              *)
(***************************************************************************)
EveryReaderEnds ==
  \A r \in Readers :
    state[r] \in {"reading", "finished"} /\ EndOnRecord(r)
      ~> state[r] \in {"ended", "failed", "gone"} \/ ~EndOnRecord(r)

(***************************************************************************)
(* A reader delivers the outputs of its PTY in their order, each once, and *)
(* ends after the exit, when it has delivered all that it received         *)
(* (createRuntimePtyEventStream).                                          *)
(***************************************************************************)
ReadersKeepOrder == DeliversInOrder /\ EndsWithExit
=============================================================================
