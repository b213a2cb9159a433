---------------------------- MODULE NodeTransport ----------------------------
(***************************************************************************)
(* OutboundWssNodeTransport: requests to one node that keeps a WebSocket   *)
(* open into the control plane, and reconnects when it loses it.           *)
(*                                                                         *)
(* Every method and socket callback is synchronous, hence one step.  The   *)
(* map liveConnections holds at most one connection of the node; a         *)
(* connection belongs to the socket it was attached with, and is named by  *)
(* it.  A request is a promise of its response and a queue of events with  *)
(* a single consumer, which takes the entries in the order of their push,  *)
(* so the queue is modelled by the sequence of all pushes.                 *)
(*                                                                         *)
(* The node and the network are external: frames of a socket arrive in     *)
(* order, a lost socket delivers some of them, and its close is noticed    *)
(* at some later time.  The in-process handlers are left out.              *)
(***************************************************************************)
EXTENDS Naturals, Sequences

CONSTANTS
  Requests,   \* the requests that may be sent
  Kind,       \* "execute" (also heartbeat and RPC), "pty" or "abort", per request
  Sockets,    \* the sockets the node may open, numbered in the order it does
  NoSocket,   \* no connection
  MaxEvents   \* bound: events the node sends for each request, a PTY's exit included

ASSUME TransportAssumption ==
  /\ Kind \in [Requests -> {"execute", "pty", "abort"}]
  /\ Sockets \subseteq Nat /\ NoSocket \notin Sockets
  /\ MaxEvents \in [Requests -> Nat]

VARIABLES
  current,   \* the node's entry in liveConnections
  pending,   \* the pending map of each connection
  quiet,     \* the current connection's lastSeenAt is older than staleConnectionMs
  health,    \* health_status of the node's row
  conn,      \* the connection a request was sent on
  response,  \* its response promise
  stream,    \* the entries pushed to its event queue
  socket,    \* the node's sockets: a lost one is "replaced" if its successor was there
             \* before its close is noticed, and "late" when it has been
  wire,      \* the frames on their way from the node, per socket
  node,      \* what the node has done about a request
  sent       \* the events it has sent for it

connections == <<current, pending, quiet, health>>
requests == <<conn, response, stream>>
peer == <<socket, wire, node, sent>>
vars == <<connections, requests, peer>>

Value(n) == [type |-> "value", n |-> n]
Done == [type |-> "done", n |-> 0]
Failed == [type |-> "error", n |-> 0]
Entry == [type : {"value", "done", "error"}, n : Nat]

\* The node has lost the socket and the close callback is still to come.
Unnoticed == {"lost", "replaced"}

Frame == [type : {"event", "exit", "resolved", "error"}, r : Requests, n : Nat]

TypeOK ==
  /\ current \in Sockets \cup {NoSocket}
  /\ pending \in [Sockets -> SUBSET Requests]
  /\ quiet \in BOOLEAN
  /\ health \in {"unknown", "healthy", "stale"}
  /\ conn \in [Requests -> Sockets \cup {NoSocket}]
  /\ response \in [Requests -> {"unsent", "pending", "resolved", "error", "rejected"}]
  /\ stream \in [Requests -> Seq(Entry)]
  /\ socket \in [Sockets -> {"unused", "open", "closed"} \cup Unnoticed \cup {"late"}]
  /\ wire \in [Sockets -> Seq(Frame)]
  /\ node \in [Requests -> {"unasked", "asked", "answered", "finished"}]
  /\ sent \in [Requests -> Nat] /\ \A r \in Requests : sent[r] <= MaxEvents[r]

Init ==
  /\ current = NoSocket
  /\ pending = [s \in Sockets |-> {}]
  /\ quiet = FALSE
  /\ health = "unknown"
  /\ conn = [r \in Requests |-> NoSocket]
  /\ response = [r \in Requests |-> "unsent"]
  /\ stream = [r \in Requests |-> <<>>]
  /\ socket = [s \in Sockets |-> "unused"]
  /\ wire = [s \in Sockets |-> <<>>]
  /\ node = [r \in Requests |-> "unasked"]
  /\ sent = [r \in Requests |-> 0]

-----------------------------------------------------------------------------
(* Promises and queues. *)

\* Defect: the queue is a stack.
PushFirst(r, e) == stream' = [stream EXCEPT ![r] = <<e>> \o @]

Push(r, e) == stream' = [stream EXCEPT ![r] = Append(@, e)]

\* A promise settles once.
Settle(r, outcome) == IF response[r] = "pending" THEN outcome ELSE response[r]

\* Detaching rejects what is pending on the connection in the map.
RejectPending(r) == IF r \in pending[current] THEN Settle(r, "rejected") ELSE response[r]

\* Defect: detaching fails the event queues and leaves the responses pending.
DetachFailsStreams(refused) ==
  /\ current' = NoSocket
  /\ health' = "stale"
  /\ response' = [r \in Requests |-> IF r \in refused THEN "rejected" ELSE response[r]]
  /\ stream' = [r \in Requests |-> IF r \in pending[current] THEN Append(stream[r], Failed) ELSE stream[r]]
  /\ UNCHANGED <<pending, quiet>>

\* detachLiveConnection; refused are the requests that found the connection stale.
DetachCurrent(refused) ==
  /\ current' = NoSocket
  /\ health' = "stale"
  /\ response' = [r \in Requests |-> IF r \in refused THEN "rejected" ELSE RejectPending(r)]
  /\ stream' = [r \in Requests |-> IF r \in pending[current] THEN Append(stream[r], Failed) ELSE stream[r]]
  /\ UNCHANGED <<pending, quiet>>

-----------------------------------------------------------------------------
(* Socket callbacks. *)

\* The node opens a socket, having none that it believes open: the host may not have
\* noticed yet that the old one is gone.
Attach(s) ==
  /\ socket[s] = "unused"
  /\ \A t \in Sockets : socket[t] # "open" /\ (t < s => socket[t] # "unused")
  /\ socket' = [t \in Sockets |-> IF t = s THEN "open"
                                 ELSE IF socket[t] = "lost" THEN "replaced" ELSE socket[t]]
  /\ current' = s
  /\ quiet' = FALSE
  /\ health' = "healthy"
  /\ UNCHANGED <<pending, requests, wire, node, sent>>

\* The close callback names the node, not the socket.
SocketCloses(s) ==
  /\ socket[s] \in {"open"} \cup Unnoticed
  /\ socket' = [socket EXCEPT ![s] = IF @ = "replaced" THEN "late" ELSE "closed"]
  /\ wire' = [wire EXCEPT ![s] = <<>>]
  /\ \/ current # NoSocket /\ DetachCurrent({}) /\ UNCHANGED conn
     \/ current = NoSocket /\ UNCHANGED <<connections, requests>>
  /\ UNCHANGED <<node, sent>>

\* The request is no longer in the connection's pending map.
Forget(r) == pending' = [pending EXCEPT ![current] = @ \ {r}]

\* Defect: a streaming request is forgotten with its response like any other.
HandleResponseForgetting(r, outcome) ==
  /\ response' = [response EXCEPT ![r] = Settle(r, outcome)]
  /\ \/ Kind[r] = "pty" /\ outcome = "resolved" /\ UNCHANGED stream
     \/ ~(Kind[r] = "pty" /\ outcome = "resolved") /\ Push(r, Done)
  /\ Forget(r)

\* A response ends the events, unless they are kept after it.  (resolve and
\* closeEvents may both push an end; only the first is ever taken.)
HandleResponse(r, outcome) ==
  /\ response' = [response EXCEPT ![r] = Settle(r, outcome)]
  /\ \/ Kind[r] = "pty" /\ outcome = "resolved" /\ UNCHANGED <<stream, pending>>
     \/ ~(Kind[r] = "pty" /\ outcome = "resolved") /\ Push(r, Done) /\ Forget(r)

HandleEvent(r, f) ==
  /\ \/ f.type = "event" /\ Push(r, Value(f.n)) /\ UNCHANGED pending
     \/ f.type = "exit" /\ stream' = [stream EXCEPT ![r] = @ \o <<Value(f.n), Done>>] /\ Forget(r)
  /\ UNCHANGED response

\* A message of any socket of the node is looked up in the current connection;
\* without one, handleLiveMessage throws.
Deliver(s) ==
  /\ socket[s] \in {"open"} \cup Unnoticed
  /\ wire[s] # <<>>
  /\ wire' = [wire EXCEPT ![s] = Tail(@)]
  /\ LET f == Head(wire[s])
     IN  \/ current = NoSocket /\ UNCHANGED <<connections, requests>>
         \/ /\ current # NoSocket
            /\ quiet' = FALSE
            /\ health' = "healthy"
            /\ \/ f.r \notin pending[current] /\ UNCHANGED <<pending, response, stream>>
               \/ f.r \in pending[current] /\ f.type \in {"resolved", "error"} /\ HandleResponse(f.r, f.type)
               \/ f.r \in pending[current] /\ f.type \in {"event", "exit"} /\ HandleEvent(f.r, f)
            /\ UNCHANGED <<current, conn>>
  /\ UNCHANGED <<socket, node, sent>>

-----------------------------------------------------------------------------
(* Requests. *)

\* sendLiveRequest on a connection, in the map or not; only an open socket
\* brings the request to the node.
SendOn(r, s) ==
  /\ pending' = [pending EXCEPT ![s] = @ \cup {r}]
  /\ conn' = [conn EXCEPT ![r] = s]
  /\ response' = [response EXCEPT ![r] = "pending"]
  /\ node' = [node EXCEPT ![r] = IF socket[s] = "open" THEN "asked" ELSE @]
  /\ UNCHANGED <<current, quiet, health, stream, socket, wire, sent>>

Send(r) ==
  /\ response[r] = "unsent"
  /\ Kind[r] # "abort"
  /\ current # NoSocket
  /\ ~quiet
  /\ SendOn(r, current)

\* getUsableLiveConnection finds no connection, or a stale one which it detaches;
\* the caller gets an error at once.
SendFails(r) ==
  /\ response[r] = "unsent"
  /\ Kind[r] # "abort"
  /\ \/ /\ current = NoSocket
        /\ response' = [response EXCEPT ![r] = "rejected"]
        /\ UNCHANGED <<connections, stream>>
     \/ current # NoSocket /\ quiet /\ DetachCurrent({r})
  /\ UNCHANGED <<conn, peer>>

\* The abort of an execution goes to the connection the execution was sent on.
Abort(r, x) ==
  /\ response[r] = "unsent"
  /\ Kind[r] = "abort"
  /\ Kind[x] = "execute"
  /\ response[x] = "pending"
  /\ SendOn(r, conn[x])

-----------------------------------------------------------------------------
(* The node, the network and the clock. *)

\* The node writes to the socket it has open, whichever a request came by.
Write(s, f) ==
  /\ socket[s] = "open"
  /\ wire' = [wire EXCEPT ![s] = Append(@, f)]
  /\ UNCHANGED <<connections, requests, socket>>

NodeEmits(r, s) ==
  /\ \/ Kind[r] = "execute" /\ node[r] = "asked"
     \/ Kind[r] = "pty" /\ node[r] = "answered"
  /\ sent[r] < MaxEvents[r]
  /\ sent' = [sent EXCEPT ![r] = @ + 1]
  /\ Write(s, [type |-> "event", r |-> r, n |-> sent[r] + 1])
  /\ UNCHANGED node

NodeAnswers(r, s, outcome) ==
  /\ node[r] = "asked"
  /\ node' = [node EXCEPT ![r] = IF Kind[r] = "pty" /\ outcome = "resolved" THEN "answered" ELSE "finished"]
  /\ Write(s, [type |-> outcome, r |-> r, n |-> 0])
  /\ UNCHANGED sent

NodeExits(r, s) ==
  /\ node[r] = "answered"
  /\ sent[r] < MaxEvents[r]
  /\ sent' = [sent EXCEPT ![r] = @ + 1]
  /\ node' = [node EXCEPT ![r] = "finished"]
  /\ Write(s, [type |-> "exit", r |-> r, n |-> sent[r] + 1])

LoseSocket(s) ==
  /\ socket[s] = "open"
  /\ socket' = [socket EXCEPT ![s] = "lost"]
  /\ UNCHANGED <<connections, requests, wire, node, sent>>

GrowsQuiet ==
  /\ current # NoSocket
  /\ ~quiet
  /\ quiet' = TRUE
  /\ UNCHANGED <<current, pending, health, requests, peer>>

NodeStep(r, s) ==
  \/ NodeEmits(r, s) \/ NodeExits(r, s)
  \/ \E outcome \in {"resolved", "error"} : NodeAnswers(r, s, outcome)

Next ==
  \/ \E s \in Sockets : Attach(s) \/ SocketCloses(s) \/ Deliver(s) \/ LoseSocket(s)
  \/ \E r \in Requests : Send(r) \/ SendFails(r)
  \/ \E r, x \in Requests : Abort(r, x)
  \/ \E r \in Requests, s \in Sockets : NodeStep(r, s)
  \/ GrowsQuiet

Spec == Init /\ [][Next]_vars

\* The node answers what it was asked, the network delivers what was written to
\* an open socket, and the loss of a socket is noticed in the end.
Fairness ==
  /\ \A r \in Requests : WF_vars(\E s \in Sockets, outcome \in {"resolved", "error"} : NodeAnswers(r, s, outcome))
  /\ \A s \in Sockets : WF_vars(Deliver(s)) /\ WF_vars(socket[s] \in Unnoticed /\ SocketCloses(s))

FairSpec == Spec /\ Fairness

-----------------------------------------------------------------------------
(* Properties. *)

\* What the consumer of a request's events gets: the entries up to the first end.
Ends(r) == {i \in 1..Len(stream[r]) : stream[r][i].type # "value"}
Ended(r) == Ends(r) # {}
FirstEnd(r) == CHOOSE i \in Ends(r) : \A j \in Ends(r) : i <= j

(***************************************************************************)
(* The consumer of a request's events gets them in the order in which the  *)
(* node sent them and without a gap, whatever sockets are lost, replaced   *)
(* or found stale on the way (handleLiveMessage, createStreamQueue).       *)
(***************************************************************************)
HeardInOrder ==
  \A r \in Requests : \A i \in 1..Len(stream[r]) :
    (\A j \in 1..i : stream[r][j].type = "value") => stream[r][i].n = i /\ i <= sent[r]

(***************************************************************************)
(* A normal end of the events means that the node said so and that nothing *)
(* is missing: a disconnection, which may strike between any two frames,   *)
(* never looks like the completion of a request (failEvents, closeEvents). *)
(***************************************************************************)
DoneIsComplete ==
  \A r \in Requests : Ended(r) /\ stream[r][FirstEnd(r)] = Done =>
    node[r] = "finished" /\ FirstEnd(r) = sent[r] + 1

(***************************************************************************)
(* Nobody waits for events of a request that is settled: whether by a      *)
(* response, an error or a detached connection, its queue has an end,      *)
(* unless it is the open stream of a PTY (keepEventsAfterResponse).        *)
(***************************************************************************)
SettledStreamEnds ==
  \A r \in Requests : conn[r] # NoSocket =>
    /\ response[r] \in {"error", "rejected"} => Ended(r)
    /\ response[r] = "resolved" /\ Kind[r] # "pty" => Ended(r)

(***************************************************************************)
(* Whatever is still under way, a response or the events of a PTY, belongs *)
(* to the current connection, so that its response, its close or its       *)
(* staleness will settle it, as long as no socket was replaced before its  *)
(* close was noticed.                                                      *)
(***************************************************************************)
Overlapped == \E s \in Sockets : socket[s] \in {"replaced", "late"}

InFlight(r) == response[r] = "pending" \/ (response[r] = "resolved" /\ ~Ended(r))

InFlightReachable ==
  ~Overlapped => \A r \in Requests :
    InFlight(r) => current # NoSocket /\ conn[r] = current /\ r \in pending[current]

(***************************************************************************)
(* The node's row, which the scheduler reads, says healthy exactly while   *)
(* requests can be sent to the node, across replaced, stale and lost       *)
(* connections (touchNodeHealth).                                          *)
(***************************************************************************)
HealthTellsConnection == health = "healthy" <=> current # NoSocket

(***************************************************************************)
(* Every request sent to the node is settled, if the node answers and lost *)
(* sockets are noticed before the node is back.                            *)
(***************************************************************************)
EveryRequestSettles ==
  \A r \in Requests : response[r] = "pending" ~> response[r] # "pending" \/ Overlapped

(***************************************************************************)
(* What the consumer of a request's events gets is what the node sent, in  *)
(* order; it ends when the request is settled, and it ends normally only   *)
(* when it is complete.                                                    *)
(***************************************************************************)
StreamsAreFaithful == HeardInOrder /\ DoneIsComplete /\ SettledStreamEnds

(***************************************************************************)
(* The connections, the requests and the node's row agree: what is under   *)
(* way can be settled by the current connection, which is what the health  *)
(* in the row tells.                                                       *)
(***************************************************************************)
ConnectionsAgree == TypeOK /\ InFlightReachable /\ HealthTellsConnection
=============================================================================
