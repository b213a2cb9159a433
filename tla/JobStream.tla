------------------------------ MODULE JobStream ------------------------------
(***************************************************************************)
(* JobStreamBroker: the live stream of one job.  The broker keeps the most *)
(* recent events of a job in a buffer, replays them to a client that opens *)
(* the stream and forwards later events, and forgets a finished job after  *)
(* a while.  All of it is in memory: a restart forgets every job.          *)
(*                                                                         *)
(* Jobs do not interact here, so one job is modelled.  Its events are      *)
(* numbered in the order of publication and the last one is the terminal   *)
(* event.  Every method of the broker is synchronous, hence atomic.        *)
(***************************************************************************)
EXTENDS Integers, Sequences

CONSTANTS
  Clients,          \* those who may stream the job
  MaxHistory,       \* maxHistoryEvents
  CompactionFloor,  \* the 32 of JobHistoryBuffer.push
  MaxPublished      \* bound: events published

ASSUME StreamAssumption ==
  /\ MaxHistory \in Nat \ {0}
  /\ CompactionFloor \in Nat \ {0}
  /\ MaxPublished \in Nat

VARIABLES
  row,          \* the job's row: "none", "open" or "terminal"
  published,    \* number of the last published event
  known,        \* the broker has an entry for the job in its streams map
  entries,      \* entries of the entry's JobHistoryBuffer
  start,        \* its start
  terminal,     \* the entry's terminal flag
  subscribers,  \* the entry's subscribers, by client
  timer,        \* the entry's cleanup timer is armed
  conn,         \* the state of a client's stream
  received      \* the events it got

broker == <<known, entries, start, terminal, subscribers, timer>>
streams == <<conn, received>>
vars == <<row, published, broker, streams>>

TypeOK ==
  /\ row \in {"none", "open", "terminal"}
  /\ published \in 0..MaxPublished
  /\ known \in BOOLEAN
  /\ entries \in Seq(1..MaxPublished)
  /\ start \in Nat
  /\ terminal \in BOOLEAN
  /\ subscribers \in SUBSET Clients
  /\ timer \in BOOLEAN
  /\ conn \in [Clients -> {"none", "open", "closed", "cancelled"}]
  /\ received \in [Clients -> Seq(1..MaxPublished)]

\* A broker without an entry for the job; ensure() creates one just like it.
Forget ==
  /\ known' = FALSE
  /\ entries' = <<>>
  /\ start' = 0
  /\ terminal' = FALSE
  /\ subscribers' = {}
  /\ timer' = FALSE

Init ==
  /\ row = "none"
  /\ published = 0
  /\ known = FALSE
  /\ entries = <<>>
  /\ start = 0
  /\ terminal = FALSE
  /\ subscribers = {}
  /\ timer = FALSE
  /\ conn = [c \in Clients |-> "none"]
  /\ received = [c \in Clients |-> <<>>]

-----------------------------------------------------------------------------
(* JobHistoryBuffer *)

History == SubSeq(entries, start + 1, Len(entries))

CompactAt == IF MaxHistory > CompactionFloor THEN MaxHistory ELSE CompactionFloor

\* Defect: compaction drops one entry too many.
PushTooMuch(e) ==
  LET pushed == Append(entries, e)
      first  == IF Len(pushed) - start <= MaxHistory THEN start ELSE start + 1
  IN  IF first # start /\ first >= CompactAt
        THEN entries' = SubSeq(pushed, first + 2, Len(pushed)) /\ start' = 0
        ELSE entries' = pushed /\ start' = first

\* Old entries are skipped one by one, and removed once enough have been skipped.
Push(e) ==
  LET pushed == Append(entries, e)
      first  == IF Len(pushed) - start <= MaxHistory THEN start ELSE start + 1
  IN  IF first # start /\ first >= CompactAt
        THEN entries' = SubSeq(pushed, first + 1, Len(pushed)) /\ start' = 0
        ELSE entries' = pushed /\ start' = first

-----------------------------------------------------------------------------
(* JobStreamBroker *)

Deliver(e) == received' = [c \in Clients |-> IF c \in subscribers THEN Append(received[c], e) ELSE received[c]]

\* The events of a job that goes on.  Its first one is published by submitJob.
Publish ==
  /\ row # "terminal"
  /\ published < MaxPublished - 1
  /\ row' = "open"
  /\ published' = published + 1
  /\ known' = TRUE
  /\ Push(published + 1)
  /\ Deliver(published + 1)
  /\ UNCHANGED <<terminal, subscribers, timer, conn>>

\* Defect: the subscribers are dropped before they are served.
PublishTerminalFirst ==
  /\ row = "open"
  /\ published < MaxPublished
  /\ row' = "terminal"
  /\ published' = published + 1
  /\ Push(published + 1)
  /\ terminal' = TRUE
  /\ conn' = [c \in Clients |-> IF c \in subscribers THEN "closed" ELSE conn[c]]
  /\ subscribers' = {}
  /\ timer' = TRUE
  /\ UNCHANGED <<known, received>>

\* The terminal event: each subscriber gets it, leaves and is closed, and the
\* last one to leave arms the cleanup timer.
PublishTerminal ==
  /\ row = "open"
  /\ published < MaxPublished
  /\ row' = "terminal"
  /\ published' = published + 1
  /\ Push(published + 1)
  /\ Deliver(published + 1)
  /\ terminal' = TRUE
  /\ conn' = [c \in Clients |-> IF c \in subscribers THEN "closed" ELSE conn[c]]
  /\ subscribers' = {}
  /\ timer' = TRUE
  /\ UNCHANGED known

\* Defect: the timer is stopped for the replay and not armed again.
StreamDisarms(c) ==
  /\ row # "none"
  /\ conn[c] # "open"
  /\ known' = TRUE
  /\ received' = [received EXCEPT ![c] = History]
  /\ conn' = [conn EXCEPT ![c] = IF terminal THEN "closed" ELSE "open"]
  /\ subscribers' = IF terminal THEN subscribers ELSE subscribers \cup {c}
  /\ timer' = FALSE
  /\ UNCHANGED <<row, published, entries, start, terminal>>

\* stream, for a job that has a row: the replay stops and restarts the timer of
\* a finished job, and subscribes to any other.
Stream(c) ==
  /\ row # "none"
  /\ conn[c] # "open"
  /\ known' = TRUE
  /\ received' = [received EXCEPT ![c] = History]
  /\ \/ /\ terminal
        /\ timer' = TRUE
        /\ conn' = [conn EXCEPT ![c] = "closed"]
        /\ UNCHANGED subscribers
     \/ /\ ~terminal
        /\ timer' = FALSE
        /\ conn' = [conn EXCEPT ![c] = "open"]
        /\ subscribers' = subscribers \cup {c}
  /\ UNCHANGED <<row, published, entries, start, terminal>>

\* The client goes away; the timer is armed only for a finished job.
Cancel(c) ==
  /\ conn[c] = "open"
  /\ conn' = [conn EXCEPT ![c] = "cancelled"]
  /\ subscribers' = subscribers \ {c}
  /\ timer' = (timer \/ (terminal /\ subscribers' = {}))
  /\ UNCHANGED <<row, published, known, entries, start, terminal, received>>

\* The cleanup timer fires.
CleanupFires ==
  /\ timer
  /\ \/ terminal /\ subscribers = {} /\ Forget
     \/ ~(terminal /\ subscribers = {}) /\ timer' = FALSE
        /\ UNCHANGED <<known, entries, start, terminal, subscribers>>
  /\ UNCHANGED <<row, published, streams>>

\* The control plane crashes and restarts, which fails the job if it was under
\* way, without an event.
Restart ==
  /\ row' \in (IF row = "none" THEN {"none", "terminal"} ELSE {"terminal"})
  /\ published' = 0
  /\ Forget
  /\ conn' = [c \in Clients |-> "none"]
  /\ received' = [c \in Clients |-> <<>>]

Next ==
  \/ Publish \/ PublishTerminal
  \/ \E c \in Clients : Stream(c) \/ Cancel(c)
  \/ CleanupFires
  \/ Restart

Spec == Init /\ [][Next]_vars

-----------------------------------------------------------------------------
(* Properties. *)

Recent == IF published < MaxHistory THEN published ELSE MaxHistory

(***************************************************************************)
(* As long as the broker knows the job, its buffer holds exactly the last  *)
(* MaxHistory events in order: neither skipping old entries nor compacting *)
(* the array ever loses, repeats or resurrects one (JobHistoryBuffer).     *)
(***************************************************************************)
HistoryIsRecent ==
  known /\ (row = "open" \/ terminal) =>
    /\ Len(entries) - start = Recent
    /\ \A i \in (start + 1)..Len(entries) : entries[i] = published - Len(entries) + i

(***************************************************************************)
(* The buffer's array stays bounded, although entries are only skipped     *)
(* most of the time: it never holds more than the history and the skipped  *)
(* entries that wait for the next compaction.                              *)
(***************************************************************************)
BufferBounded == Len(entries) < MaxHistory + CompactAt

(***************************************************************************)
(* A client whose stream of a running job is open has got, without a gap   *)
(* or a repetition between replay and live events, every event from some   *)
(* point on up to the last one published, and at least the recent ones.    *)
(***************************************************************************)
Contiguous(s) == \A i \in 1..Len(s) : s[i] = s[1] + i - 1

OpenStreamIsCurrent ==
  row = "open" => \A c \in Clients : conn[c] = "open" =>
    /\ Len(received[c]) >= Recent
    /\ Contiguous(received[c])
    /\ received[c] # <<>> => received[c][Len(received[c])] = published

(***************************************************************************)
(* A stream the broker closed has told its client the outcome, as its last *)
(* event, whether it was open when the job ended or opened afterwards.     *)
(***************************************************************************)
ClosedStreamTellsOutcome ==
  \A c \in Clients : conn[c] = "closed" =>
    /\ row = "terminal"
    /\ received[c] # <<>>
    /\ received[c][Len(received[c])] = published
    /\ Contiguous(received[c])

(***************************************************************************)
(* The memory of a finished job is always given back: while the broker     *)
(* still holds it, nobody subscribes to it and its timer is armed, although*)
(* every replay stops that timer.                                          *)
(***************************************************************************)
FinishedJobIsForgotten ==
  terminal => known /\ timer /\ subscribers = {}

(***************************************************************************)
(* The inductive invariant behind the properties above: besides them, what *)
(* the broker's entry looks like for a job that is not accepted yet, under *)
(* way, finished, or finished and forgotten; that its subscribers are the  *)
(* clients whose streams are open; and that the timer runs exactly for the *)
(* finished ones.                                                          *)
(***************************************************************************)
EntryConsistent ==
  /\ row = "none" => ~known /\ published = 0 /\ \A c \in Clients : conn[c] # "open"
  /\ row = "open" => known /\ ~terminal /\ published > 0
  /\ ~known \/ (row = "terminal" /\ ~terminal) => entries = <<>> /\ start = 0 /\ ~terminal
  /\ ~known => subscribers = {}
  /\ subscribers = {c \in Clients : conn[c] = "open"}
  /\ timer <=> terminal
  /\ terminal => published > 0
  /\ start < CompactAt

IInv ==
  /\ TypeOK
  /\ EntryConsistent
  /\ HistoryIsRecent
  /\ BufferBounded
  /\ OpenStreamIsCurrent
  /\ ClosedStreamTellsOutcome
  /\ FinishedJobIsForgotten

(***************************************************************************)
(* The history is a window of the latest events, in an array that stays    *)
(* within its bound, whatever has been skipped and compacted               *)
(* (JobHistoryBuffer).                                                     *)
(***************************************************************************)
HistoryIsWindow == TypeOK /\ HistoryIsRecent /\ BufferBounded

(***************************************************************************)
(* No client misses anything: an open stream is up to date and without a   *)
(* gap, and one that the broker closed has told its client the outcome     *)
(* (streamJobEvents).                                                      *)
(***************************************************************************)
ClientsAreServed == OpenStreamIsCurrent /\ ClosedStreamTellsOutcome
=============================================================================
