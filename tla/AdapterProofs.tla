---------------------------- MODULE AdapterProofs ----------------------------
(***************************************************************************)
(* Proofs about the adapters.  NodeTransport: for every set of requests    *)
(* and sockets and every number of events.  Sandboxes: for every set of    *)
(* jobs, nodes, services and sessions, any number of calls in flight, and  *)
(* any number of instances, errors and restarts.                           *)
(***************************************************************************)
EXTENDS NodeTransport, Sandboxes, TLAPS, WellFoundedInduction

-----------------------------------------------------------------------------
(* Sockets and connections. *)

\* The connection in the map is of the youngest socket, whose loss nobody has
\* noticed yet; the open socket, if any, is the youngest too.
Youngest ==
  /\ current # NoSocket =>
       socket[current] \in {"open", "lost"} /\ \A t \in Sockets : t > current => socket[t] = "unused"
  /\ \A s, t \in Sockets : s < t /\ socket[s] \in {"unused", "open"} => socket[t] = "unused"
  /\ \A s \in Sockets : socket[s] = "unused" => wire[s] = << >> /\ pending[s] = {}

\* A request is pending on the connection that it was sent on, and on no other.
Placed ==
  /\ \A s \in Sockets : \A r \in pending[s] : conn[r] = s /\ response[r] # "unsent"
  /\ \A r \in Requests :
       /\ conn[r] # NoSocket => socket[conn[r]] # "unused"
       /\ response[r] = "unsent" => conn[r] = NoSocket /\ stream[r] = << >> /\ node[r] = "unasked"
       /\ response[r] = "pending" \/ node[r] # "unasked" => conn[r] # NoSocket

\* The node speaks of what it was asked, and not on a socket older than the request's.
Spoken ==
  /\ \A r \in Requests : node[r] = "unasked" => sent[r] = 0
  /\ \A s \in Sockets : \A i \in 1..Len(wire[s]) :
       LET r == wire[s][i].r
       IN  node[r] # "unasked" /\ s >= conn[r]

Connected == TypeOK /\ Youngest /\ Placed /\ Spoken /\ HealthTellsConnection

-----------------------------------------------------------------------------
(* Frames and streams. *)

\* The request can still be settled by its connection, and its events pushed.
Live(r) == current # NoSocket /\ r \in pending[current]

IsEvent(f, r) == f.r = r /\ f.type \in {"event", "exit"}
IsAnswer(f, r) == f.r = r /\ f.type = "resolved"
IsLast(f, r) == f.r = r /\ (f.type \in {"exit", "error"} \/ (f.type = "resolved" /\ Kind[r] # "pty"))

\* The frames w hold the events k + 1, ..., m of the request, in this order.
Follows(r, w, k, m) ==
  /\ \A i \in 1..Len(w) : IsEvent(w[i], r) => w[i].n \in (k + 1)..m
  /\ \A i, j \in 1..Len(w) : i < j /\ IsEvent(w[i], r) /\ IsEvent(w[j], r) => w[i].n < w[j].n
  /\ \A n \in (k + 1)..m : \E i \in 1..Len(w) : IsEvent(w[i], r) /\ w[i].n = n

\* No event follows the frame that ends the request.
EndsLast(r, w, st) ==
  \A i \in 1..Len(w) : IsLast(w[i], r) =>
    st = "finished" /\ \A j \in (i + 1)..Len(w) : ~IsEvent(w[j], r)

\* A PTY's answer comes before its exit.
AnswerFirst(r, w, st) ==
  /\ st = "answered" => \E j \in 1..Len(w) : IsAnswer(w[j], r)
  /\ \A i \in 1..Len(w) : w[i].r = r /\ w[i].type = "exit" =>
       \E j \in 1..(i - 1) : IsAnswer(w[j], r)

\* The first i entries of the stream q are values; they are the events 1, 2, ...; and
\* a normal end comes after the last of the m events of a finished request.
Values(q, i) == \A j \in 1..i : q[j].type = "value"

Heard(q, m) == \A i \in 1..Len(q) : Values(q, i) => q[i].n = i /\ i <= m

Complete(q, st, m) ==
  \A i \in 1..Len(q) : q[i] = Done /\ Values(q, i - 1) => st = "finished" /\ i = m + 1

\* While a request is live, its stream is a prefix of what the node sent, and the
\* rest is on its way.
LiveFits(r) ==
  Live(r) => /\ Values(stream[r], Len(stream[r]))
             /\ Len(stream[r]) <= sent[r]
             /\ Follows(r, wire[current], Len(stream[r]), sent[r])
             /\ EndsLast(r, wire[current], node[r])
             /\ response[r] = "pending" => AnswerFirst(r, wire[current], node[r])

SettledEnds(r) == conn[r] # NoSocket =>
  /\ response[r] \in {"error", "rejected"} => Ended(r)
  /\ response[r] = "resolved" /\ Kind[r] # "pty" => Ended(r)

Reachable(r) == ~Overlapped /\ InFlight(r) => Live(r)

Faithful(r) ==
  /\ LiveFits(r)
  /\ Heard(stream[r], sent[r])
  /\ Complete(stream[r], node[r], sent[r])
  /\ SettledEnds(r)
  /\ Reachable(r)

Inv == Connected /\ \A r \in Requests : Faithful(r)

LEMMA InitConnected == Init => Connected
<1> SUFFICES ASSUME Init PROVE Connected
  OBVIOUS
<1>1. TypeOK
  <2>1. /\ stream \in [Requests -> Seq(Entry)]
        /\ wire \in [Sockets -> Seq(Frame)]
    BY DEF Init
  <2>2. sent \in [Requests -> Nat] /\ \A r \in Requests : sent[r] <= MaxEvents[r]
    BY TransportAssumption DEF Init
  <2> QED BY <2>1, <2>2 DEF Init, TypeOK, Unnoticed
<1>2. Youngest /\ Placed /\ Spoken /\ HealthTellsConnection
  BY DEF Init, Youngest, Placed, Spoken, HealthTellsConnection
<1> QED BY <1>1, <1>2 DEF Connected

LEMMA AttachConnected ==
  ASSUME Connected, NEW s \in Sockets, Attach(s)
  PROVE  Connected'
<1> USE DEF Connected
<1>1. /\ socket[s] = "unused" /\ socket' = [t \in Sockets |-> IF t = s THEN "open"
                                            ELSE IF socket[t] = "lost" THEN "replaced" ELSE socket[t]]
      /\ \A t \in Sockets : socket[t] # "open" /\ (t < s => socket[t] # "unused")
      /\ current' = s /\ quiet' = FALSE /\ health' = "healthy"
      /\ UNCHANGED <<pending, conn, response, stream, wire, node, sent>>
  BY DEF Attach, requests
<1>2. TypeOK'
  BY <1>1 DEF TypeOK, Unnoticed
<1>3. Youngest'
  BY <1>1, TransportAssumption DEF Youngest, TypeOK
<1>4. Placed' /\ Spoken'
  BY <1>1 DEF Placed, Spoken, TypeOK
<1>5. HealthTellsConnection'
  BY <1>1, TransportAssumption DEF HealthTellsConnection
<1> QED BY <1>2, <1>3, <1>4, <1>5

LEMMA DetachEffect ==
  ASSUME TypeOK, NEW refused \in SUBSET Requests, current # NoSocket, DetachCurrent(refused)
  PROVE  /\ current' = NoSocket /\ health' = "stale" /\ UNCHANGED <<pending, quiet>>
         /\ response' \in [Requests -> {"unsent", "pending", "resolved", "error", "rejected"}]
         /\ stream' \in [Requests -> Seq(Entry)]
         /\ \A r \in Requests :
              /\ r \in pending[current] => /\ stream'[r] = Append(stream[r], Failed)
                                           /\ response'[r] \in {"rejected", response[r]}
                                           /\ response'[r] # "pending"
              /\ r \notin pending[current] => /\ stream'[r] = stream[r]
                                              /\ r \notin refused => response'[r] = response[r]
              /\ r \in refused => response'[r] = "rejected"
<1>1. /\ current' = NoSocket /\ health' = "stale" /\ UNCHANGED <<pending, quiet>>
      /\ response' = [r \in Requests |-> IF r \in refused THEN "rejected" ELSE RejectPending(r)]
      /\ stream' = [r \in Requests |-> IF r \in pending[current] THEN Append(stream[r], Failed) ELSE stream[r]]
  BY DEF DetachCurrent
<1>2. \A r \in Requests : stream[r] \in Seq(Entry) /\ Append(stream[r], Failed) \in Seq(Entry)
  <2>1. Failed \in Entry
    BY DEF Failed, Entry
  <2>2. \A q \in Seq(Entry) : Append(q, Failed) \in Seq(Entry)
    BY <2>1
  <2> QED BY <2>2 DEF TypeOK
<1>3. stream' \in [Requests -> Seq(Entry)]
  BY <1>1, <1>2
<1>4. \A r \in Requests : RejectPending(r) \in {"unsent", "pending", "resolved", "error", "rejected"}
  BY DEF RejectPending, Settle, TypeOK
<1>5. response' \in [Requests -> {"unsent", "pending", "resolved", "error", "rejected"}]
  BY <1>1, <1>4
<1> QED BY <1>1, <1>3, <1>5 DEF RejectPending, Settle

LEMMA SocketClosesConnected ==
  ASSUME Connected, NEW s \in Sockets, SocketCloses(s)
  PROVE  Connected'
<1> USE DEF Connected
<1>1. /\ socket[s] \in {"open", "lost", "replaced"}
      /\ socket' = [socket EXCEPT ![s] = IF @ = "replaced" THEN "late" ELSE "closed"]
      /\ wire' = [wire EXCEPT ![s] = << >>]
      /\ UNCHANGED <<pending, quiet, conn, node, sent>>
  BY DEF SocketCloses, Unnoticed, DetachCurrent, connections, requests
<1>2. \/ current # NoSocket /\ DetachCurrent({})
      \/ current = NoSocket /\ UNCHANGED <<current, health, response, stream>>
  BY DEF SocketCloses, connections, requests
<1>3. /\ current' = NoSocket
      /\ response' \in [Requests -> {"unsent", "pending", "resolved", "error", "rejected"}]
      /\ stream' \in [Requests -> Seq(Entry)]
      /\ health' \in {"unknown", "stale"} \/ UNCHANGED <<current, health>>
      /\ health' \in {"unknown", "healthy", "stale"}
  BY <1>2, DetachEffect DEF TypeOK
<1>4. TypeOK'
  BY <1>1, <1>3 DEF TypeOK, Unnoticed
<1>5. Youngest'
  BY <1>1, <1>3 DEF Youngest, TypeOK
<1>6. \A r \in Requests :
                          /\ response'[r] = "unsent" => response[r] = "unsent" /\ stream'[r] = stream[r]
                          /\ response'[r] = "pending" => response[r] = "pending"
                          /\ response[r] # "unsent" => response'[r] # "unsent"
  <2>1. CASE current # NoSocket /\ DetachCurrent({})
    BY <2>1, DetachEffect DEF Placed, TypeOK
  <2>2. CASE current = NoSocket /\ UNCHANGED <<current, health, response, stream>>
    BY <2>2, TransportAssumption DEF TypeOK, Placed
  <2> QED BY <1>2, <2>1, <2>2
<1>7. Placed'
  BY <1>1, <1>6 DEF Placed, TypeOK
<1>8. Spoken'
  BY <1>1 DEF Spoken, TypeOK
<1>9. HealthTellsConnection'
  BY <1>2, <1>3, DetachEffect DEF HealthTellsConnection
<1> QED BY <1>4, <1>5, <1>7, <1>8, <1>9

\* What a frame of a live request does; only the current socket can bring one.
Handled(r, f) ==
  \/ /\ f.type \in {"resolved", "error"}
     /\ response' = [response EXCEPT ![r] = Settle(r, f.type)]
     /\ \/ Kind[r] = "pty" /\ f.type = "resolved" /\ UNCHANGED <<stream, pending>>
        \/ IsLast(f, r) /\ Push(r, Done) /\ Forget(r)
  \/ f.type = "event" /\ Push(r, Value(f.n)) /\ UNCHANGED <<pending, response>>
  \/ /\ f.type = "exit" /\ Forget(r) /\ UNCHANGED response
     /\ stream' = [stream EXCEPT ![r] = @ \o <<Value(f.n), Done>>]

LEMMA DeliverEffect ==
  ASSUME Connected, NEW s \in Sockets, Deliver(s)
  PROVE  /\ wire[s] \in Seq(Frame) /\ wire[s] # << >> /\ Head(wire[s]) \in Frame
         /\ wire' = [wire EXCEPT ![s] = Tail(@)]
         /\ UNCHANGED <<socket, node, sent, current, conn>>
         /\ current = NoSocket => health' = health
         /\ current # NoSocket => health' = "healthy"
         /\ quiet' \in BOOLEAN
         /\ \/ ~Live(Head(wire[s]).r) /\ UNCHANGED <<pending, response, stream>>
            \/ /\ Live(Head(wire[s]).r) /\ s = current
               /\ Handled(Head(wire[s]).r, Head(wire[s]))
<1> DEFINE f == Head(wire[s])
<1> USE DEF Connected
<1>1. wire[s] \in Seq(Frame) /\ wire[s] # << >> /\ f \in Frame /\ f = wire[s][1] /\ 1 \in 1..Len(wire[s])
  BY DEF Deliver, TypeOK
<1>2. Live(f.r) => s = current
  <2>1. SUFFICES ASSUME Live(f.r) PROVE s = current
    OBVIOUS
  <2>2. current \in Sockets /\ conn[f.r] = current
    BY <2>1 DEF Live, Placed, TypeOK
  <2>3. s >= conn[f.r] /\ socket[s] # "unused"
    BY <1>1 DEF Spoken, Youngest
  <2> QED BY <2>1, <2>2, <2>3, TransportAssumption DEF Youngest, Live
<1>3. CASE current = NoSocket /\ UNCHANGED <<connections, requests>>
  BY <1>1, <1>3 DEF Deliver, Live, connections, requests, TypeOK
<1>4. CASE /\ current # NoSocket /\ quiet' = FALSE /\ health' = "healthy" /\ UNCHANGED <<current, conn>>
           /\ f.r \notin pending[current] /\ UNCHANGED <<pending, response, stream>>
  BY <1>1, <1>4 DEF Deliver, Live
<1>5. CASE /\ current # NoSocket /\ quiet' = FALSE /\ health' = "healthy" /\ UNCHANGED <<current, conn>>
           /\ f.r \in pending[current] /\ f.type \in {"resolved", "error"} /\ HandleResponse(f.r, f.type)
  <2>1. Live(f.r) /\ Handled(f.r, f)
    BY <1>5 DEF Live, Handled, HandleResponse, IsLast
  <2> QED BY <1>1, <1>2, <1>5, <2>1 DEF Deliver
<1>6. CASE /\ current # NoSocket /\ quiet' = FALSE /\ health' = "healthy" /\ UNCHANGED <<current, conn>>
           /\ f.r \in pending[current] /\ f.type \in {"event", "exit"} /\ HandleEvent(f.r, f)
  <2>1. Live(f.r) /\ Handled(f.r, f)
    BY <1>6 DEF Live, Handled, HandleEvent
  <2> QED BY <1>1, <1>2, <1>6, <2>1 DEF Deliver
<1> QED BY <1>3, <1>4, <1>5, <1>6 DEF Deliver

\* The entries that the handlers push are entries.
LEMMA EntriesAreTyped ==
  ASSUME NEW q \in Seq(Entry), NEW n \in Nat
  PROVE  /\ Append(q, Value(n)) \in Seq(Entry)
         /\ Append(q, Done) \in Seq(Entry)
         /\ q \o <<Value(n), Done>> \in Seq(Entry)
<1>1. Value(n) \in Entry /\ Done \in Entry
  BY DEF Value, Done, Entry
<1> QED BY <1>1

\* A handled frame leaves the request sent, and pending nowhere else.
LEMMA HandledEffect ==
  ASSUME Connected, NEW r \in Requests, NEW f \in Frame, Live(r), Handled(r, f)
  PROVE  /\ response' \in [Requests -> {"unsent", "pending", "resolved", "error", "rejected"}]
         /\ stream' \in [Requests -> Seq(Entry)]
         /\ pending' \in [Sockets -> SUBSET Requests]
         /\ \A t \in Sockets : pending'[t] \subseteq pending[t]
         /\ \A q \in Requests \ {r} : response'[q] = response[q] /\ stream'[q] = stream[q]
         /\ \A q \in Requests \ {r}, t \in Sockets : q \in pending[t] => q \in pending'[t]
         /\ response'[r] \in {response[r], "resolved", "error"}
         /\ response[r] # "unsent"
<1> USE DEF Connected
<1>1. current \in Sockets /\ r \in pending[current] /\ response[r] # "unsent"
  BY DEF Live, TypeOK, Placed
<1>2. f.type \in {"event", "exit", "resolved", "error"} /\ f.n \in Nat
  BY DEF Frame
<1>3. /\ Append(stream[r], Value(f.n)) \in Seq(Entry)
      /\ Append(stream[r], Done) \in Seq(Entry)
      /\ stream[r] \o <<Value(f.n), Done>> \in Seq(Entry)
  BY <1>2, EntriesAreTyped DEF TypeOK
<1>4. PICK x \in {response[r], "resolved", "error"} : response' = [response EXCEPT ![r] = x]
  <2>1. \/ response' = response
        \/ response' = [response EXCEPT ![r] = Settle(r, f.type)] /\ f.type \in {"resolved", "error"}
    BY DEF Handled
  <2>2. response' = response => response' = [response EXCEPT ![r] = response[r]]
    BY DEF TypeOK
  <2> QED BY <2>1, <2>2 DEF Settle
<1>5. \/ stream' = stream
      \/ stream' = [stream EXCEPT ![r] = Append(stream[r], Value(f.n))]
      \/ stream' = [stream EXCEPT ![r] = Append(stream[r], Done)]
      \/ stream' = [stream EXCEPT ![r] = stream[r] \o <<Value(f.n), Done>>]
  BY DEF Handled, Push, TypeOK
<1>6. pending' = pending \/ pending' = [pending EXCEPT ![current] = @ \ {r}]
  BY DEF Handled, Forget
<1>7. /\ response' \in [Requests -> {"unsent", "pending", "resolved", "error", "rejected"}]
      /\ response'[r] \in {response[r], "resolved", "error"}
      /\ \A q \in Requests \ {r} : response'[q] = response[q]
  BY <1>4 DEF TypeOK
<1>8. /\ stream' \in [Requests -> Seq(Entry)]
      /\ \A q \in Requests \ {r} : stream'[q] = stream[q]
  BY <1>3, <1>5 DEF TypeOK
<1>9. /\ pending' \in [Sockets -> SUBSET Requests]
      /\ \A t \in Sockets : pending'[t] \subseteq pending[t]
      /\ \A q \in Requests \ {r}, t \in Sockets : q \in pending[t] => q \in pending'[t]
  BY <1>1, <1>6 DEF TypeOK
<1> QED BY <1>1, <1>7, <1>8, <1>9

LEMMA DeliverConnected ==
  ASSUME Connected, NEW s \in Sockets, Deliver(s)
  PROVE  Connected'
<1> USE DEF Connected
<1> DEFINE f == Head(wire[s])
<1>1. /\ wire[s] \in Seq(Frame) /\ wire[s] # << >> /\ f \in Frame /\ f.r \in Requests
      /\ wire' = [wire EXCEPT ![s] = Tail(@)]
      /\ UNCHANGED <<socket, node, sent, current, conn>>
      /\ current = NoSocket => health' = health
      /\ current # NoSocket => health' = "healthy"
      /\ quiet' \in BOOLEAN
  BY DeliverEffect DEF Frame
<1>2. \/ UNCHANGED <<pending, response, stream>>
      \/ Live(f.r) /\ Handled(f.r, f)
  BY DeliverEffect
<1>3. /\ response' \in [Requests -> {"unsent", "pending", "resolved", "error", "rejected"}]
      /\ stream' \in [Requests -> Seq(Entry)]
      /\ pending' \in [Sockets -> SUBSET Requests]
      /\ \A t \in Sockets : pending'[t] \subseteq pending[t]
      /\ \A r \in Requests : /\ response[r] = "unsent" => stream'[r] = stream[r]
                             /\ response'[r] = "unsent" <=> response[r] = "unsent"
                             /\ response'[r] = "pending" => response[r] = "pending"
  <2>1. CASE UNCHANGED <<pending, response, stream>>
    BY <2>1 DEF TypeOK
  <2>2. CASE Live(f.r) /\ Handled(f.r, f)
    BY <1>1, <2>2, HandledEffect
  <2> QED BY <1>2, <2>1, <2>2
<1>4. /\ wire' \in [Sockets -> Seq(Frame)]
      /\ \A t \in Sockets \ {s} : wire'[t] = wire[t]
      /\ Len(wire'[s]) = Len(wire[s]) - 1
      /\ \A i \in 1..Len(wire'[s]) : i + 1 \in 1..Len(wire[s]) /\ wire'[s][i] = wire[s][i + 1]
  <2>1. /\ Tail(wire[s]) \in Seq(Frame) /\ Len(Tail(wire[s])) = Len(wire[s]) - 1
        /\ \A i \in 1..Len(Tail(wire[s])) : i + 1 \in 1..Len(wire[s]) /\ Tail(wire[s])[i] = wire[s][i + 1]
    BY <1>1
  <2> QED BY <1>1, <2>1 DEF TypeOK
<1>5. TypeOK'
  BY <1>1, <1>3, <1>4 DEF TypeOK
<1>6. Youngest'
  <2>1. socket[s] # "unused"
    BY DEF Deliver, Unnoticed
  <2> QED BY <1>1, <1>3, <1>4, <2>1 DEF Youngest, TypeOK
<1>7. Placed'
  BY <1>1, <1>3 DEF Placed, TypeOK
<1>8. Spoken'
  <2>1. \A t \in Sockets : \A i \in 1..Len(wire'[t]) :
          \E j \in 1..Len(wire[t]) : wire'[t][i] = wire[t][j]
    BY <1>4
  <2> QED BY <1>1, <2>1 DEF Spoken
<1>9. HealthTellsConnection'
  BY <1>1 DEF HealthTellsConnection
<1> QED BY <1>5, <1>6, <1>7, <1>8, <1>9

LEMMA FramesAreTyped ==
  ASSUME TypeOK, NEW s \in Sockets
  PROVE  wire[s] \in Seq(Frame) /\ \A i \in 1..Len(wire[s]) : wire[s][i] \in Frame /\ wire[s][i].r \in Requests
<1>1. wire[s] \in Seq(Frame)
  BY DEF TypeOK
<1>2. \A w \in Seq(Frame) : \A i \in 1..Len(w) : w[i] \in Frame
  OBVIOUS
<1>3. \A f \in Frame : f.r \in Requests
  BY DEF Frame
<1> QED BY <1>1, <1>2, <1>3

LEMMA SendOnConnected ==
  ASSUME Connected, NEW r \in Requests, NEW s \in Sockets, socket[s] # "unused",
         response[r] = "unsent", SendOn(r, s)
  PROVE  Connected'
<1> USE DEF Connected
<1>1. /\ pending' = [pending EXCEPT ![s] = @ \cup {r}]
      /\ conn' = [conn EXCEPT ![r] = s]
      /\ response' = [response EXCEPT ![r] = "pending"]
      /\ node' = [node EXCEPT ![r] = IF socket[s] = "open" THEN "asked" ELSE @]
      /\ UNCHANGED <<current, quiet, health, stream, socket, wire, sent>>
  BY DEF SendOn
<1>2. conn[r] = NoSocket /\ node[r] = "unasked" /\ \A t \in Sockets : r \notin pending[t]
  BY DEF Placed
<1>3. TypeOK'
  BY <1>1 DEF TypeOK, Unnoticed
<1>4. Youngest'
  BY <1>1 DEF Youngest, TypeOK
<1>5. Placed'
  BY <1>1, <1>2, TransportAssumption DEF Placed, TypeOK
<1>6. Spoken'
  <2>1. \A t \in Sockets : \A i \in 1..Len(wire[t]) : wire[t][i].r # r
    BY <1>2 DEF Spoken
  <2>2. \A t \in Sockets : \A i \in 1..Len(wire[t]) : wire[t][i] \in Frame /\ wire[t][i].r \in Requests
    BY FramesAreTyped
  <2>3. \A q \in Requests \ {r} : conn'[q] = conn[q] /\ node'[q] = node[q]
    BY <1>1 DEF TypeOK
  <2>4. \A q \in Requests : node'[q] = "unasked" => node[q] = "unasked"
    BY <1>1 DEF TypeOK
  <2>5. wire' = wire /\ sent' = sent
    BY <1>1
  <2> QED BY <2>1, <2>2, <2>3, <2>4, <2>5 DEF Spoken
<1>7. HealthTellsConnection'
  BY <1>1 DEF HealthTellsConnection
<1> QED BY <1>3, <1>4, <1>5, <1>6, <1>7

LEMMA AbortTarget ==
  ASSUME Connected, NEW r \in Requests, NEW x \in Requests, Abort(r, x)
  PROVE  conn[x] \in Sockets /\ socket[conn[x]] # "unused" /\ response[r] = "unsent"
BY DEF Abort, Connected, Placed, TypeOK

LEMMA SendFailsConnected ==
  ASSUME Connected, NEW r \in Requests, SendFails(r)
  PROVE  Connected'
<1> USE DEF Connected
<1>1. response[r] = "unsent" /\ conn[r] = NoSocket /\ UNCHANGED <<conn, socket, wire, node, sent>>
  BY DEF SendFails, Placed, peer
<1>2. CASE current = NoSocket /\ response' = [response EXCEPT ![r] = "rejected"]
           /\ UNCHANGED <<current, pending, quiet, health, stream>>
  <2>1. TypeOK'
    BY <1>1, <1>2 DEF TypeOK, Unnoticed
  <2>2. Youngest' /\ Placed' /\ Spoken' /\ HealthTellsConnection'
    BY <1>1, <1>2 DEF Youngest, Placed, Spoken, HealthTellsConnection, TypeOK
  <2> QED BY <2>1, <2>2
<1>3. CASE current # NoSocket /\ DetachCurrent({r})
  <2>1. /\ current' = NoSocket /\ health' = "stale" /\ UNCHANGED <<pending, quiet>>
        /\ response' \in [Requests -> {"unsent", "pending", "resolved", "error", "rejected"}]
        /\ stream' \in [Requests -> Seq(Entry)]
    BY <1>3, DetachEffect
  <2>2. \A q \in Requests :
          /\ response'[q] = "unsent" => response[q] = "unsent" /\ stream'[q] = stream[q]
          /\ response'[q] = "pending" => response[q] = "pending"
          /\ response[q] # "unsent" => response'[q] # "unsent"
    <3>1. \A q \in Requests :
            /\ q \in pending[current] => response'[q] \in {"rejected", response[q]} /\ response'[q] # "pending"
            /\ q \notin pending[current] => stream'[q] = stream[q] /\ (q # r => response'[q] = response[q])
            /\ q = r => response'[q] = "rejected"
      BY <1>3, DetachEffect
    <3>2. \A q \in Requests : q \in pending[current] => response[q] # "unsent"
      BY <1>3 DEF Placed, TypeOK
    <3> QED BY <3>1, <3>2
  <2>3. TypeOK'
    BY <1>1, <2>1 DEF TypeOK, Unnoticed
  <2>4. Youngest'
    BY <1>1, <2>1 DEF Youngest, TypeOK
  <2>5. Placed'
    BY <1>1, <2>1, <2>2 DEF Placed, TypeOK
  <2>6. Spoken' /\ HealthTellsConnection'
    BY <1>1, <2>1 DEF Spoken, HealthTellsConnection, TypeOK
  <2> QED BY <2>3, <2>4, <2>5, <2>6
<1> QED BY <1>2, <1>3 DEF SendFails, connections

-----------------------------------------------------------------------------
(* What the node writes. *)

\* Any of the node's steps writes one frame about a request it was asked.
Wrote(r, s, f) ==
  /\ socket[s] = "open"
  /\ f \in Frame /\ f.r = r
  /\ node[r] \in {"asked", "answered"}
  /\ wire' = [wire EXCEPT ![s] = Append(@, f)]
  /\ UNCHANGED <<current, pending, quiet, health, conn, response, stream, socket>>
  /\ \A q \in Requests \ {r} : node'[q] = node[q] /\ sent'[q] = sent[q]
  /\ IF f.type \in {"event", "exit"} THEN f.n = sent[r] + 1 /\ sent'[r] = sent[r] + 1
                                     ELSE sent'[r] = sent[r]
  /\ CASE f.type = "event" -> node'[r] = node[r]
       [] f.type = "exit" -> node[r] = "answered" /\ node'[r] = "finished"
       [] f.type = "resolved" -> node'[r] = IF Kind[r] = "pty" THEN "answered" ELSE "finished"
       [] f.type = "error" -> node'[r] = "finished"

LEMMA NodeStepWrites ==
  ASSUME TypeOK, NEW r \in Requests, NEW s \in Sockets, NodeStep(r, s)
  PROVE  /\ \E f \in Frame : Wrote(r, s, f)
         /\ node' \in [Requests -> {"unasked", "asked", "answered", "finished"}]
         /\ sent' \in [Requests -> Nat] /\ \A q \in Requests : sent'[q] <= MaxEvents[q]
<1>1. CASE NodeEmits(r, s)
  <2> DEFINE f == [type |-> "event", r |-> r, n |-> sent[r] + 1]
  <2>1. f \in Frame
    BY DEF Frame, TypeOK
  <2>2. Wrote(r, s, f)
    BY <1>1, <2>1 DEF NodeEmits, Wrote, Write, TypeOK, connections, requests
  <2>3. /\ node' \in [Requests -> {"unasked", "asked", "answered", "finished"}]
        /\ sent' \in [Requests -> Nat] /\ \A q \in Requests : sent'[q] <= MaxEvents[q]
    <3>1. sent[r] < MaxEvents[r] /\ sent' = [sent EXCEPT ![r] = @ + 1]
      BY <1>1 DEF NodeEmits
    <3>2. node' \in [Requests -> {"unasked", "asked", "answered", "finished"}]
      BY <1>1 DEF NodeEmits, TypeOK
    <3>3. sent \in [Requests -> Nat] /\ MaxEvents \in [Requests -> Nat] /\ \A q \in Requests : sent[q] <= MaxEvents[q]
      BY TransportAssumption DEF TypeOK
    <3> QED BY <3>1, <3>2, <3>3
  <2> QED BY <2>1, <2>2, <2>3
<1>2. CASE NodeExits(r, s)
  <2> DEFINE f == [type |-> "exit", r |-> r, n |-> sent[r] + 1]
  <2>1. f \in Frame
    BY DEF Frame, TypeOK
  <2>2. Wrote(r, s, f)
    BY <1>2, <2>1 DEF NodeExits, Wrote, Write, TypeOK, connections, requests
  <2>3. /\ node' \in [Requests -> {"unasked", "asked", "answered", "finished"}]
        /\ sent' \in [Requests -> Nat] /\ \A q \in Requests : sent'[q] <= MaxEvents[q]
    <3>1. sent[r] < MaxEvents[r] /\ sent' = [sent EXCEPT ![r] = @ + 1]
      BY <1>2 DEF NodeExits
    <3>2. node' \in [Requests -> {"unasked", "asked", "answered", "finished"}]
      BY <1>2 DEF NodeExits, TypeOK
    <3>3. sent \in [Requests -> Nat] /\ MaxEvents \in [Requests -> Nat] /\ \A q \in Requests : sent[q] <= MaxEvents[q]
      BY TransportAssumption DEF TypeOK
    <3> QED BY <3>1, <3>2, <3>3
  <2> QED BY <2>1, <2>2, <2>3
<1>3. ASSUME NEW outcome \in {"resolved", "error"}, NodeAnswers(r, s, outcome)
      PROVE  /\ \E f \in Frame : Wrote(r, s, f)
             /\ node' \in [Requests -> {"unasked", "asked", "answered", "finished"}]
             /\ sent' \in [Requests -> Nat] /\ \A q \in Requests : sent'[q] <= MaxEvents[q]
  <2> DEFINE f == [type |-> outcome, r |-> r, n |-> 0]
  <2>1. f \in Frame
    BY DEF Frame, TypeOK
  <2>2. Wrote(r, s, f)
    <3>1. CASE outcome = "resolved"
      BY <1>3, <2>1, <3>1 DEF NodeAnswers, Wrote, Write, TypeOK, connections, requests
    <3>2. CASE outcome = "error"
      BY <1>3, <2>1, <3>2 DEF NodeAnswers, Wrote, Write, TypeOK, connections, requests
    <3> QED BY <3>1, <3>2
  <2>3. /\ node' \in [Requests -> {"unasked", "asked", "answered", "finished"}]
        /\ sent' \in [Requests -> Nat] /\ \A q \in Requests : sent'[q] <= MaxEvents[q]
    BY <1>3 DEF NodeAnswers, TypeOK
  <2> QED BY <2>1, <2>2, <2>3
<1> QED BY <1>1, <1>2, <1>3 DEF NodeStep

LEMMA NodeStepConnected ==
  ASSUME Connected, NEW r \in Requests, NEW s \in Sockets, NodeStep(r, s)
  PROVE  Connected'
<1> USE DEF Connected
<1>1. PICK f \in Frame : Wrote(r, s, f)
  BY NodeStepWrites
<1>2. /\ node' \in [Requests -> {"unasked", "asked", "answered", "finished"}]
      /\ sent' \in [Requests -> Nat] /\ \A q \in Requests : sent'[q] <= MaxEvents[q]
  BY NodeStepWrites
<1>3. /\ socket[s] = "open" /\ f.r = r
      /\ node[r] \in {"asked", "answered"} /\ node'[r] # "unasked"
      /\ wire' = [wire EXCEPT ![s] = Append(@, f)]
      /\ UNCHANGED <<current, pending, quiet, health, conn, response, stream, socket>>
      /\ \A q \in Requests \ {r} : node'[q] = node[q] /\ sent'[q] = sent[q]
  BY <1>1, <1>2 DEF Wrote, Frame
<1>4. /\ wire[s] \in Seq(Frame) /\ Append(wire[s], f) \in Seq(Frame)
      /\ Len(Append(wire[s], f)) = Len(wire[s]) + 1
      /\ \A i \in 1..Len(wire[s]) : Append(wire[s], f)[i] = wire[s][i]
      /\ Append(wire[s], f)[Len(wire[s]) + 1] = f
  BY DEF TypeOK
<1>5. TypeOK'
  BY <1>2, <1>3, <1>4 DEF TypeOK
<1>6. Youngest' /\ HealthTellsConnection'
  BY <1>3 DEF Youngest, TypeOK, HealthTellsConnection
<1>7. Placed'
  BY <1>3 DEF Placed
<1>8. Spoken'
  <2>1. conn[r] \in Sockets /\ socket[conn[r]] # "unused"
    BY <1>3 DEF Placed, TypeOK
  <2>2. s >= conn[r]
    BY <1>3, <2>1, TransportAssumption DEF Youngest
  <2>3. \A q \in Requests : node'[q] = "unasked" => sent'[q] = 0
    BY <1>3 DEF Spoken
  <2>4. \A q \in Requests : node[q] # "unasked" => node'[q] # "unasked"
    BY <1>3
  <2>5. \A t \in Sockets : \A i \in 1..Len(wire'[t]) :
          (wire'[t][i] = f /\ t = s) \/ (i \in 1..Len(wire[t]) /\ wire'[t][i] = wire[t][i])
    BY <1>3, <1>4 DEF TypeOK
  <2>6. \A t \in Sockets : \A i \in 1..Len(wire[t]) : wire[t][i].r \in Requests
    BY FramesAreTyped
  <2>7. ASSUME NEW t \in Sockets, NEW i \in 1..Len(wire'[t])
        PROVE  node'[wire'[t][i].r] # "unasked" /\ t >= conn'[wire'[t][i].r]
    BY <1>3, <2>2, <2>4, <2>5, <2>6 DEF Spoken
  <2> QED BY <2>3, <2>7 DEF Spoken
<1> QED BY <1>5, <1>6, <1>7, <1>8

LEMMA QuietStepsConnected ==
  ASSUME Connected, GrowsQuiet \/ \E s \in Sockets : LoseSocket(s)
  PROVE  Connected'
<1> USE DEF Connected
<1>1. CASE GrowsQuiet
  <2>1. quiet' = TRUE /\ UNCHANGED <<current, pending, health, conn, response, stream, socket, wire, node, sent>>
    BY <1>1 DEF GrowsQuiet, requests, peer
  <2>2. TypeOK'
    BY <2>1 DEF TypeOK, Unnoticed
  <2> QED BY <2>1, <2>2 DEF Youngest, Placed, Spoken, HealthTellsConnection
<1>2. ASSUME NEW s \in Sockets, LoseSocket(s) PROVE Connected'
  <2>1. /\ socket[s] = "open" /\ socket' = [socket EXCEPT ![s] = "lost"]
        /\ UNCHANGED <<current, quiet, pending, health, conn, response, stream, wire, node, sent>>
    BY <1>2 DEF LoseSocket, requests, connections
  <2>2. TypeOK'
    BY <2>1 DEF TypeOK, Unnoticed
  <2>3. Youngest'
    BY <2>1 DEF Youngest, TypeOK
  <2>4. Placed' /\ Spoken' /\ HealthTellsConnection'
    BY <2>1 DEF Placed, Spoken, HealthTellsConnection, TypeOK
  <2> QED BY <2>2, <2>3, <2>4
<1> QED BY <1>1, <1>2

LEMMA NextConnected == Connected /\ [Next]_vars => Connected'
<1> SUFFICES ASSUME Connected, [Next]_vars PROVE Connected'
  OBVIOUS
<1>1. ASSUME NEW s \in Sockets, Attach(s) \/ SocketCloses(s) \/ Deliver(s) \/ LoseSocket(s)
      PROVE  Connected'
  BY <1>1, AttachConnected, SocketClosesConnected, DeliverConnected, QuietStepsConnected
<1>2. ASSUME NEW r \in Requests, Send(r) \/ SendFails(r)
      PROVE  Connected'
  <2>1. CASE Send(r)
    <3>1. current \in Sockets /\ socket[current] # "unused" /\ response[r] = "unsent" /\ SendOn(r, current)
      BY <2>1 DEF Send, Connected, TypeOK, Youngest
    <3> QED BY <3>1, SendOnConnected
  <2> QED BY <1>2, <2>1, SendFailsConnected
<1>3. ASSUME NEW r \in Requests, NEW x \in Requests, Abort(r, x)
      PROVE  Connected'
  <2>1. conn[x] \in Sockets /\ socket[conn[x]] # "unused" /\ response[r] = "unsent" /\ SendOn(r, conn[x])
    BY <1>3, AbortTarget DEF Abort
  <2> QED BY <2>1, SendOnConnected
<1>4. ASSUME NEW r \in Requests, NEW s \in Sockets, NodeStep(r, s)
      PROVE  Connected'
  BY <1>4, NodeStepConnected
<1>5. CASE GrowsQuiet
  BY <1>5, QuietStepsConnected
<1>6. CASE UNCHANGED vars
  BY <1>6 DEF vars, connections, requests, peer, Connected, TypeOK, Youngest, Placed, Spoken, HealthTellsConnection
<1> QED BY <1>1, <1>2, <1>3, <1>4, <1>5, <1>6 DEF Next

-----------------------------------------------------------------------------
(* What a frame adds to the wire, and takes from it. *)

LEMMA HeadFollows ==
  ASSUME NEW r \in Requests, NEW w \in Seq(Frame), w # << >>, NEW k \in Nat, NEW m \in Nat,
         Follows(r, w, k, m)
  PROVE  /\ IsEvent(Head(w), r) => Head(w).n = k + 1 /\ k + 1 <= m /\ Follows(r, Tail(w), k + 1, m)
         /\ ~IsEvent(Head(w), r) => Follows(r, Tail(w), k, m)
<1>1. /\ Tail(w) \in Seq(Frame) /\ Len(Tail(w)) = Len(w) - 1 /\ Len(w) \in Nat /\ 1 \in 1..Len(w)
      /\ \A i \in 1..Len(Tail(w)) : i + 1 \in 1..Len(w) /\ Tail(w)[i] = w[i + 1]
      /\ Head(w) = w[1]
  OBVIOUS
<1>2. \A i \in 1..Len(w) : i = 1 \/ (i - 1 \in 1..Len(Tail(w)) /\ Tail(w)[i - 1] = w[i])
  BY <1>1
<1>3. ASSUME NEW i \in 1..Len(Tail(w)), NEW j \in 1..Len(Tail(w)), i < j,
             IsEvent(Tail(w)[i], r), IsEvent(Tail(w)[j], r)
      PROVE  Tail(w)[i].n < Tail(w)[j].n
  BY <1>1, <1>3 DEF Follows
<1>4. CASE IsEvent(Head(w), r)
  <2>1. w[1].n \in (k + 1)..m
    BY <1>1, <1>4 DEF Follows
  <2>2. PICK i \in 1..Len(w) : IsEvent(w[i], r) /\ w[i].n = k + 1
    BY <2>1 DEF Follows
  <2>3. i = 1
    <3> SUFFICES ASSUME 1 < i PROVE FALSE
      BY <1>1
    <3>1. w[1].n < w[i].n
      BY <1>1, <1>4, <2>2 DEF Follows
    <3> QED BY <2>1, <2>2, <3>1
  <2>4. \A j \in 1..Len(Tail(w)) : IsEvent(Tail(w)[j], r) => Tail(w)[j].n \in (k + 1 + 1)..m
    <3> SUFFICES ASSUME NEW j \in 1..Len(Tail(w)), IsEvent(Tail(w)[j], r)
                 PROVE  Tail(w)[j].n \in (k + 1 + 1)..m
      OBVIOUS
    <3>1. j + 1 \in 1..Len(w) /\ 1 < j + 1 /\ IsEvent(w[j + 1], r) /\ Tail(w)[j] = w[j + 1]
      BY <1>1
    <3>2. w[1].n < w[j + 1].n /\ w[j + 1].n \in (k + 1)..m
      BY <1>1, <1>4, <3>1 DEF Follows
    <3> QED BY <2>1, <3>1, <3>2
  <2>5. \A n \in (k + 1 + 1)..m : \E j \in 1..Len(Tail(w)) : IsEvent(Tail(w)[j], r) /\ Tail(w)[j].n = n
    <3> SUFFICES ASSUME NEW n \in (k + 1 + 1)..m
                 PROVE  \E j \in 1..Len(Tail(w)) : IsEvent(Tail(w)[j], r) /\ Tail(w)[j].n = n
      OBVIOUS
    <3>1. PICK j \in 1..Len(w) : IsEvent(w[j], r) /\ w[j].n = n
      BY DEF Follows
    <3>2. j # 1
      BY <2>2, <2>3, <3>1
    <3> QED BY <1>2, <3>1, <3>2
  <2>6. Follows(r, Tail(w), k + 1, m)
    BY <1>3, <2>4, <2>5 DEF Follows
  <2>7. Head(w).n = k + 1 /\ k + 1 <= m
    BY <1>1, <2>1, <2>2, <2>3
  <2> QED BY <1>4, <2>6, <2>7
<1>5. CASE ~IsEvent(Head(w), r)
  <2>1. \A j \in 1..Len(Tail(w)) : IsEvent(Tail(w)[j], r) => Tail(w)[j].n \in (k + 1)..m
    BY <1>1 DEF Follows
  <2>2. \A n \in (k + 1)..m : \E j \in 1..Len(Tail(w)) : IsEvent(Tail(w)[j], r) /\ Tail(w)[j].n = n
    <3> SUFFICES ASSUME NEW n \in (k + 1)..m
                 PROVE  \E j \in 1..Len(Tail(w)) : IsEvent(Tail(w)[j], r) /\ Tail(w)[j].n = n
      OBVIOUS
    <3>1. PICK j \in 1..Len(w) : IsEvent(w[j], r) /\ w[j].n = n
      BY DEF Follows
    <3>2. j # 1
      BY <1>1, <1>5, <3>1
    <3> QED BY <1>2, <3>1, <3>2
  <2> QED BY <1>3, <1>5, <2>1, <2>2 DEF Follows
<1> QED BY <1>4, <1>5

LEMMA TailEndsLast ==
  ASSUME NEW r \in Requests, NEW w \in Seq(Frame), w # << >>, NEW st, EndsLast(r, w, st)
  PROVE  /\ EndsLast(r, Tail(w), st)
         /\ IsLast(Head(w), r) => st = "finished" /\ \A j \in 2..Len(w) : ~IsEvent(w[j], r)
<1>1. /\ Len(Tail(w)) = Len(w) - 1 /\ Len(w) \in Nat /\ 1 \in 1..Len(w)
      /\ \A i \in 1..Len(Tail(w)) : i + 1 \in 1..Len(w) /\ Tail(w)[i] = w[i + 1]
      /\ Head(w) = w[1]
  OBVIOUS
<1>2. ASSUME NEW i \in 1..Len(Tail(w)), IsLast(Tail(w)[i], r)
      PROVE  st = "finished" /\ \A j \in (i + 1)..Len(Tail(w)) : ~IsEvent(Tail(w)[j], r)
  <2>1. i + 1 \in 1..Len(w) /\ IsLast(w[i + 1], r)
    BY <1>1, <1>2
  <2>2. st = "finished" /\ \A j \in (i + 1 + 1)..Len(w) : ~IsEvent(w[j], r)
    BY <2>1 DEF EndsLast
  <2>3. ASSUME NEW j \in (i + 1)..Len(Tail(w)) PROVE ~IsEvent(Tail(w)[j], r)
    <3>1. j \in 1..Len(Tail(w)) /\ j + 1 \in (i + 1 + 1)..Len(w)
      BY <1>1
    <3> QED BY <1>1, <2>2, <3>1
  <2> QED BY <2>2, <2>3
<1>3. IsLast(w[1], r) => st = "finished" /\ \A j \in (1 + 1)..Len(w) : ~IsEvent(w[j], r)
  BY <1>1 DEF EndsLast
<1>4. 1 + 1 = 2
  OBVIOUS
<1> QED BY <1>1, <1>2, <1>3, <1>4 DEF EndsLast

LEMMA TailAnswerFirst ==
  ASSUME NEW r \in Requests, NEW w \in Seq(Frame), w # << >>, NEW st, AnswerFirst(r, w, st)
  PROVE  /\ ~IsAnswer(Head(w), r) => AnswerFirst(r, Tail(w), st)
         /\ ~(Head(w).r = r /\ Head(w).type = "exit")
<1>1. /\ Len(Tail(w)) = Len(w) - 1 /\ Len(w) \in Nat /\ 1 \in 1..Len(w)
      /\ \A i \in 1..Len(Tail(w)) : i + 1 \in 1..Len(w) /\ Tail(w)[i] = w[i + 1]
      /\ Head(w) = w[1]
  OBVIOUS
<1>2. \A i \in 1..Len(w) : i = 1 \/ (i - 1 \in 1..Len(Tail(w)) /\ Tail(w)[i - 1] = w[i])
  BY <1>1
<1>3. ~(w[1].r = r /\ w[1].type = "exit")
  BY <1>1 DEF AnswerFirst
<1>4. ASSUME ~IsAnswer(Head(w), r) PROVE AnswerFirst(r, Tail(w), st)
  <2>1. ASSUME st = "answered" PROVE \E j \in 1..Len(Tail(w)) : IsAnswer(Tail(w)[j], r)
    <3>1. PICK j \in 1..Len(w) : IsAnswer(w[j], r)
      BY <2>1 DEF AnswerFirst
    <3>2. j # 1
      BY <1>1, <1>4, <3>1
    <3> QED BY <1>2, <3>1, <3>2
  <2>2. ASSUME NEW i \in 1..Len(Tail(w)), Tail(w)[i].r = r, Tail(w)[i].type = "exit"
        PROVE  \E j \in 1..(i - 1) : IsAnswer(Tail(w)[j], r)
    <3>1. i + 1 \in 1..Len(w) /\ w[i + 1] = Tail(w)[i]
      BY <1>1
    <3>2. PICK j \in 1..(i + 1 - 1) : IsAnswer(w[j], r)
      BY <2>2, <3>1 DEF AnswerFirst
    <3>3. j # 1 /\ j \in 1..Len(w)
      BY <1>1, <1>4, <3>1, <3>2
    <3>4. j - 1 \in 1..(i - 1) /\ Tail(w)[j - 1] = w[j]
      BY <1>2, <3>1, <3>2, <3>3
    <3> QED BY <3>2, <3>4
  <2> QED BY <2>1, <2>2 DEF AnswerFirst
<1> QED BY <1>1, <1>3, <1>4

LEMMA AppendFollows ==
  ASSUME NEW r \in Requests, NEW w \in Seq(Frame), NEW f \in Frame, NEW k \in Nat, NEW m \in Nat,
         k <= m, Follows(r, w, k, m)
  PROVE  /\ IsEvent(f, r) /\ f.n = m + 1 => Follows(r, Append(w, f), k, m + 1)
         /\ ~IsEvent(f, r) => Follows(r, Append(w, f), k, m)
<1> DEFINE v == Append(w, f)
<1>1. /\ v \in Seq(Frame) /\ Len(v) = Len(w) + 1 /\ Len(w) \in Nat /\ v[Len(w) + 1] = f
      /\ \A i \in 1..Len(w) : i \in 1..Len(v) /\ v[i] = w[i]
      /\ \A i \in 1..Len(v) : i \in 1..Len(w) \/ i = Len(w) + 1
  OBVIOUS
<1> HIDE DEF v
<1>2. CASE IsEvent(f, r) /\ f.n = m + 1
  <2>1. \A i \in 1..Len(v) : IsEvent(v[i], r) => v[i].n \in (k + 1)..(m + 1)
    BY <1>1, <1>2 DEF Follows
  <2>2. ASSUME NEW i \in 1..Len(v), NEW j \in 1..Len(v), i < j, IsEvent(v[i], r), IsEvent(v[j], r)
        PROVE  v[i].n < v[j].n
    <3>1. i \in 1..Len(w)
      BY <1>1, <2>2
    <3>2. CASE j \in 1..Len(w)
      BY <1>1, <2>2, <3>1, <3>2 DEF Follows
    <3>3. CASE j = Len(w) + 1
      <4>1. w[i].n \in (k + 1)..m
        BY <1>1, <2>2, <3>1 DEF Follows
      <4> QED BY <1>1, <1>2, <3>1, <3>3, <4>1
    <3> QED BY <1>1, <3>2, <3>3
  <2>3. ASSUME NEW n \in (k + 1)..(m + 1) PROVE \E i \in 1..Len(v) : IsEvent(v[i], r) /\ v[i].n = n
    <3>1. CASE n = m + 1
      BY <1>1, <1>2, <3>1
    <3>2. CASE n \in (k + 1)..m
      <4>1. PICK i \in 1..Len(w) : IsEvent(w[i], r) /\ w[i].n = n
        BY <3>2 DEF Follows
      <4> QED BY <1>1, <4>1
    <3> QED BY <3>1, <3>2
  <2> QED BY <1>2, <2>1, <2>2, <2>3 DEF Follows, v
<1>3. CASE ~IsEvent(f, r)
  <2>1. \A i \in 1..Len(v) : IsEvent(v[i], r) => v[i].n \in (k + 1)..m
    BY <1>1, <1>3 DEF Follows
  <2>2. \A i, j \in 1..Len(v) : i < j /\ IsEvent(v[i], r) /\ IsEvent(v[j], r) => v[i].n < v[j].n
    BY <1>1, <1>3 DEF Follows
  <2>3. ASSUME NEW n \in (k + 1)..m PROVE \E i \in 1..Len(v) : IsEvent(v[i], r) /\ v[i].n = n
    <3>1. PICK i \in 1..Len(w) : IsEvent(w[i], r) /\ w[i].n = n
      BY DEF Follows
    <3> QED BY <1>1, <3>1
  <2> QED BY <1>3, <2>1, <2>2, <2>3 DEF Follows, v
<1> QED BY <1>2, <1>3

LEMMA AppendEndsLast ==
  ASSUME NEW r \in Requests, NEW w \in Seq(Frame), NEW f \in Frame, NEW st, NEW st2,
         EndsLast(r, w, st), f.r = r => st # "finished",
         st2 = st \/ (f.r = r /\ ~IsLast(f, r)) \/ st2 = "finished",
         IsLast(f, r) => st2 = "finished"
  PROVE  EndsLast(r, Append(w, f), st2)
<1> DEFINE v == Append(w, f)
<1>1. /\ v \in Seq(Frame) /\ Len(v) = Len(w) + 1 /\ Len(w) \in Nat /\ v[Len(w) + 1] = f
      /\ \A i \in 1..Len(w) : i \in 1..Len(v) /\ v[i] = w[i]
      /\ \A i \in 1..Len(v) : i \in 1..Len(w) \/ i = Len(w) + 1
  OBVIOUS
<1> HIDE DEF v
<1>2. ASSUME NEW i \in 1..Len(v), IsLast(v[i], r)
      PROVE  st2 = "finished" /\ \A j \in (i + 1)..Len(v) : ~IsEvent(v[j], r)
  <2>1. CASE i \in 1..Len(w)
    <3>1. st = "finished" /\ \A j \in (i + 1)..Len(w) : ~IsEvent(w[j], r)
      BY <1>1, <1>2, <2>1 DEF EndsLast
    <3>2. f.r # r
      BY <3>1
    <3>3. \A j \in (i + 1)..Len(v) : ~IsEvent(v[j], r)
      BY <1>1, <2>1, <3>1, <3>2 DEF IsEvent
    <3> QED BY <3>1, <3>2, <3>3
  <2>2. CASE i = Len(w) + 1
    BY <1>1, <1>2, <2>2
  <2> QED BY <1>1, <2>1, <2>2
<1> QED BY <1>2 DEF EndsLast, v

LEMMA AppendAnswerFirst ==
  ASSUME NEW r \in Requests, NEW w \in Seq(Frame), NEW f \in Frame, NEW st, NEW st2,
         AnswerFirst(r, w, st),
         st2 = "answered" => st = "answered" \/ IsAnswer(f, r),
         f.r = r /\ f.type = "exit" => st = "answered"
  PROVE  AnswerFirst(r, Append(w, f), st2)
<1> DEFINE v == Append(w, f)
<1>1. /\ v \in Seq(Frame) /\ Len(v) = Len(w) + 1 /\ Len(w) \in Nat /\ v[Len(w) + 1] = f
      /\ \A i \in 1..Len(w) : i \in 1..Len(v) /\ v[i] = w[i]
      /\ \A i \in 1..Len(v) : i \in 1..Len(w) \/ i = Len(w) + 1
  OBVIOUS
<1> HIDE DEF v
<1>2. ASSUME st = "answered" PROVE \E j \in 1..Len(w) : IsAnswer(w[j], r) /\ IsAnswer(v[j], r)
  BY <1>1, <1>2 DEF AnswerFirst
<1>3. st2 = "answered" => \E j \in 1..Len(v) : IsAnswer(v[j], r)
  BY <1>1, <1>2
<1>4. ASSUME NEW i \in 1..Len(v), v[i].r = r, v[i].type = "exit"
      PROVE  \E j \in 1..(i - 1) : IsAnswer(v[j], r)
  <2>1. CASE i \in 1..Len(w)
    <3>1. PICK j \in 1..(i - 1) : IsAnswer(w[j], r)
      BY <1>1, <1>4, <2>1 DEF AnswerFirst
    <3>2. j \in 1..Len(w)
      BY <1>1, <2>1, <3>1
    <3> QED BY <1>1, <3>1, <3>2
  <2>2. CASE i = Len(w) + 1
    <3>1. 1..Len(w) = 1..(i - 1)
      BY <1>1, <2>2
    <3> QED BY <1>1, <1>2, <1>4, <2>2, <3>1
  <2> QED BY <1>1, <2>1, <2>2
<1> QED BY <1>3, <1>4 DEF AnswerFirst, v

-----------------------------------------------------------------------------
(* What an entry adds to a stream. *)

LEMMA PushValue ==
  ASSUME NEW q \in Seq(Entry), NEW m \in Nat, NEW st, Values(q, Len(q)), Heard(q, m), Len(q) + 1 <= m
  PROVE  LET v == Append(q, Value(Len(q) + 1))
         IN  v \in Seq(Entry) /\ Len(v) = Len(q) + 1 /\ Values(v, Len(v)) /\ Heard(v, m) /\ Complete(v, st, m)
<1> DEFINE e == Value(Len(q) + 1)
           v == Append(q, e)
<1>1. e \in Entry /\ e.type = "value" /\ e.n = Len(q) + 1
  BY DEF Value, Entry
<1>2. /\ v \in Seq(Entry) /\ Len(v) = Len(q) + 1 /\ Len(q) \in Nat /\ v[Len(q) + 1] = e
      /\ \A i \in 1..Len(q) : v[i] = q[i]
      /\ \A i \in 1..Len(v) : i \in 1..Len(q) \/ i = Len(q) + 1
  BY <1>1
<1> HIDE DEF v, e
<1>3. Values(v, Len(v))
  BY <1>1, <1>2 DEF Values
<1>4. Heard(v, m)
  <2>1. \A i \in 1..Len(q) : Values(q, i)
    BY <1>2 DEF Values
  <2> QED BY <1>1, <1>2, <2>1 DEF Heard
<1>5. Complete(v, st, m)
  BY <1>3 DEF Complete, Values, Done
<1> QED BY <1>2, <1>3, <1>4, <1>5 DEF v, e

LEMMA PushEnd ==
  ASSUME NEW q \in Seq(Entry), NEW m \in Nat, NEW st, NEW e \in {Done, Failed},
         Heard(q, m), Complete(q, st, m),
         e = Done => st = "finished" /\ Len(q) = m
  PROVE  LET v == Append(q, e)
         IN  /\ v \in Seq(Entry) /\ Heard(v, m) /\ Complete(v, st, m)
             /\ \E i \in 1..Len(v) : v[i].type # "value"
<1> DEFINE v == Append(q, e)
<1>1. e \in Entry /\ e.type # "value" /\ Done # Failed
  BY DEF Done, Failed, Entry
<1>2. /\ v \in Seq(Entry) /\ Len(v) = Len(q) + 1 /\ Len(q) \in Nat /\ v[Len(q) + 1] = e
      /\ \A i \in 1..Len(q) : v[i] = q[i]
      /\ \A i \in 1..Len(v) : i \in 1..Len(q) \/ i = Len(q) + 1
  BY <1>1
<1> HIDE DEF v
<1>3. \A i \in 0..Len(q) : Values(v, i) => Values(q, i)
  BY <1>2 DEF Values
<1>4. ~Values(v, Len(q) + 1)
  BY <1>1, <1>2 DEF Values
<1>5. Heard(v, m)
  <2> SUFFICES ASSUME NEW i \in 1..Len(v), Values(v, i) PROVE v[i].n = i /\ i <= m
    BY DEF Heard
  <2>1. i \in 1..Len(q) /\ i \in 0..Len(q)
    BY <1>2, <1>4
  <2> QED BY <1>2, <1>3, <2>1 DEF Heard
<1>6. Complete(v, st, m)
  <2> SUFFICES ASSUME NEW i \in 1..Len(v), v[i] = Done, Values(v, i - 1)
               PROVE  st = "finished" /\ i = m + 1
    BY DEF Complete
  <2>1. CASE i \in 1..Len(q)
    <3>1. i - 1 \in 0..Len(q)
      BY <1>2, <2>1
    <3> QED BY <1>2, <1>3, <2>1, <3>1 DEF Complete
  <2>2. CASE i = Len(q) + 1
    BY <1>2, <2>2
  <2> QED BY <1>2, <2>1, <2>2
<1> QED BY <1>1, <1>2, <1>5, <1>6 DEF v

-----------------------------------------------------------------------------
(* Every step keeps the streams faithful. *)

\* A request whose stream, response, connection and events a step leaves alone.
LEMMA UntouchedStream ==
  ASSUME NEW r \in Requests, Faithful(r),
         UNCHANGED <<stream[r], response[r], conn[r], sent[r], node[r]>>
  PROVE  /\ Heard(stream[r], sent[r])' /\ Complete(stream[r], node[r], sent[r])'
         /\ SettledEnds(r)' /\ InFlight(r)' = InFlight(r)
BY DEF Faithful, Heard, Complete, Values, SettledEnds, InFlight, Ended, Ends

\* LiveFits of the next state, from its parts.
LEMMA LiveFitsNext ==
  ASSUME NEW r \in Requests, NEW w, NEW q, NEW m, NEW st,
         wire'[current'] = w, stream'[r] = q, sent'[r] = m, node'[r] = st,
         Values(q, Len(q)), Len(q) <= m, Follows(r, w, Len(q), m), EndsLast(r, w, st),
         response'[r] = "pending" => AnswerFirst(r, w, st)
  PROVE  LiveFits(r)'
<1>1. /\ Values(stream[r], Len(stream[r]))'
      /\ (Len(stream[r]) <= sent[r])'
  BY DEF Values
<1>2. Follows(r, wire[current], Len(stream[r]), sent[r])'
  BY DEF Follows, IsEvent
<1>3. EndsLast(r, wire[current], node[r])'
  BY DEF EndsLast, IsEvent, IsLast
<1>4. (response[r] = "pending" => AnswerFirst(r, wire[current], node[r]))'
  BY DEF AnswerFirst, IsAnswer
<1> QED BY <1>1, <1>2, <1>3, <1>4 DEF LiveFits

LEMMA InitFaithful == Init => \A r \in Requests : Faithful(r)
<1> SUFFICES ASSUME Init, NEW r \in Requests PROVE Faithful(r)
  OBVIOUS
<1>1. stream[r] = << >> /\ response[r] = "unsent" /\ conn[r] = NoSocket /\ ~Live(r)
  BY DEF Init, Live
<1> QED BY <1>1 DEF Faithful, LiveFits, Heard, Complete, SettledEnds, Reachable, InFlight

LEMMA AttachFaithful ==
  ASSUME Inv, NEW s \in Sockets, Attach(s), NEW r \in Requests
  PROVE  Faithful(r)'
<1> USE DEF Inv, Connected
<1>1. /\ socket[s] = "unused" /\ socket' = [t \in Sockets |-> IF t = s THEN "open"
                                            ELSE IF socket[t] = "lost" THEN "replaced" ELSE socket[t]]
      /\ \A t \in Sockets : socket[t] # "open"
      /\ current' = s
      /\ UNCHANGED <<pending, conn, response, stream, wire, node, sent>>
  BY DEF Attach, requests
<1>2. ~Live(r)'
  BY <1>1 DEF Live, Youngest
<1>3. /\ Heard(stream[r], sent[r])' /\ Complete(stream[r], node[r], sent[r])'
      /\ SettledEnds(r)' /\ InFlight(r)' = InFlight(r)
  BY <1>1, UntouchedStream
<1>4. Reachable(r)'
  <2> SUFFICES ASSUME ~Overlapped' PROVE ~InFlight(r)
    BY <1>3 DEF Reachable
  <2>1. \A t \in Sockets : socket[t] \notin {"lost", "replaced", "late"}
    BY <1>1 DEF Overlapped, TypeOK
  <2>2. current = NoSocket
    BY <1>1, <2>1 DEF Youngest, TypeOK
  <2> QED BY <2>1, <2>2 DEF Overlapped, Faithful, Reachable, Live
<1> QED BY <1>2, <1>3, <1>4 DEF Faithful, LiveFits

LEMMA DetachFaithful ==
  ASSUME Inv, NEW refused \in SUBSET Requests, current # NoSocket, DetachCurrent(refused),
         \A r \in refused : conn[r] = NoSocket,
         UNCHANGED <<conn, node, sent>>, Overlapped => Overlapped', NEW r \in Requests
  PROVE  Faithful(r)'
<1> USE DEF Inv, Connected
<1>1. /\ current' = NoSocket
      /\ r \in pending[current] => /\ stream'[r] = Append(stream[r], Failed)
                                   /\ response'[r] # "pending"
      /\ r \notin pending[current] => /\ stream'[r] = stream[r]
                                      /\ r \notin refused => response'[r] = response[r]
      /\ r \in refused => response'[r] = "rejected"
  BY DetachEffect
<1>2. ~Live(r)'
  BY <1>1 DEF Live
<1>3. stream[r] \in Seq(Entry) /\ sent[r] \in Nat /\ current \in Sockets
  BY DEF TypeOK
<1>4. CASE r \in pending[current]
  <2>1. Failed # Done
    BY DEF Done, Failed
  <2>2. /\ Heard(stream'[r], sent[r]) /\ Complete(stream'[r], node[r], sent[r])
        /\ \E i \in 1..Len(stream'[r]) : stream'[r][i].type # "value"
    BY <1>1, <1>3, <1>4, <2>1, PushEnd DEF Faithful
  <2>3. Ended(r)'
    BY <2>2 DEF Ended, Ends
  <2>4. Heard(stream[r], sent[r])' /\ Complete(stream[r], node[r], sent[r])'
    BY <2>2 DEF Heard, Complete, Values
  <2> QED BY <1>1, <1>2, <1>4, <2>3, <2>4 DEF Faithful, LiveFits, SettledEnds, Reachable, InFlight
<1>5. CASE r \notin pending[current] /\ r \notin refused
  <2>1. /\ Heard(stream[r], sent[r])' /\ Complete(stream[r], node[r], sent[r])'
        /\ SettledEnds(r)' /\ InFlight(r)' = InFlight(r)
    BY <1>1, <1>5, UntouchedStream
  <2> QED BY <1>2, <1>5, <2>1 DEF Faithful, LiveFits, Reachable, Live
<1>6. CASE r \notin pending[current] /\ r \in refused
  <2>1. conn'[r] = NoSocket /\ response'[r] = "rejected" /\ stream'[r] = stream[r]
    BY <1>1, <1>6
  <2>2. Heard(stream[r], sent[r])' /\ Complete(stream[r], node[r], sent[r])'
    BY <2>1 DEF Faithful, Heard, Complete, Values
  <2> QED BY <1>2, <2>1, <2>2 DEF Faithful, LiveFits, SettledEnds, Reachable, InFlight
<1> QED BY <1>4, <1>5, <1>6

LEMMA SocketClosesFaithful ==
  ASSUME Inv, NEW s \in Sockets, SocketCloses(s), NEW r \in Requests
  PROVE  Faithful(r)'
<1>1. /\ socket' = [socket EXCEPT ![s] = IF @ = "replaced" THEN "late" ELSE "closed"]
      /\ socket[s] \in {"open", "lost", "replaced"}
      /\ UNCHANGED <<conn, node, sent>>
  BY DEF SocketCloses, Unnoticed, requests
<1>2. Overlapped => Overlapped'
  BY <1>1 DEF Overlapped, Inv, Connected, TypeOK
<1>3. CASE current # NoSocket /\ DetachCurrent({})
  BY <1>1, <1>2, <1>3, DetachFaithful
<1>4. CASE current = NoSocket /\ UNCHANGED <<current, response, stream>>
  <2>1. /\ Heard(stream[r], sent[r])' /\ Complete(stream[r], node[r], sent[r])'
        /\ SettledEnds(r)' /\ InFlight(r)' = InFlight(r)
    BY <1>1, <1>4, UntouchedStream DEF Inv
  <2> QED BY <1>2, <1>4, <2>1 DEF Inv, Faithful, LiveFits, Reachable, Live
<1> QED BY <1>3, <1>4 DEF SocketCloses, connections, requests

LEMMA SendFailsFaithful ==
  ASSUME Inv, NEW x \in Requests, SendFails(x), NEW r \in Requests
  PROVE  Faithful(r)'
<1>1. response[x] = "unsent" /\ conn[x] = NoSocket /\ UNCHANGED <<conn, socket, wire, node, sent>>
  BY DEF SendFails, Inv, Connected, Placed, peer
<1>2. Overlapped' = Overlapped
  BY <1>1 DEF Overlapped
<1>3. CASE current # NoSocket /\ DetachCurrent({x})
  BY <1>1, <1>2, <1>3, DetachFaithful
<1>4. CASE current = NoSocket /\ response' = [response EXCEPT ![x] = "rejected"] /\ UNCHANGED <<current, stream>>
  <2>1. ~Live(r) /\ ~Live(r)'
    BY <1>4 DEF Live
  <2>2. CASE r = x
    <3>1. response'[r] = "rejected" /\ conn'[r] = NoSocket
      BY <1>1, <1>4, <2>2 DEF Inv, Connected, TypeOK
    <3> QED BY <1>1, <1>4, <2>1, <3>1
            DEF Inv, Faithful, LiveFits, Heard, Complete, Values, SettledEnds, Reachable, InFlight
  <2>3. CASE r # x
    <3>1. /\ Heard(stream[r], sent[r])' /\ Complete(stream[r], node[r], sent[r])'
          /\ SettledEnds(r)' /\ InFlight(r)' = InFlight(r)
      BY <1>1, <1>4, <2>3, UntouchedStream DEF Inv, Connected, TypeOK
    <3> QED BY <1>2, <2>1, <3>1 DEF Inv, Faithful, LiveFits, Reachable
  <2> QED BY <2>2, <2>3
<1> QED BY <1>3, <1>4 DEF SendFails, connections

LEMMA SendOnFaithful ==
  ASSUME Inv, NEW x \in Requests, NEW s \in Sockets, response[x] = "unsent", SendOn(x, s),
         ~Overlapped => s = current, NEW r \in Requests
  PROVE  Faithful(r)'
<1> USE DEF Inv, Connected
<1>1. /\ pending' = [pending EXCEPT ![s] = @ \cup {x}]
      /\ conn' = [conn EXCEPT ![x] = s]
      /\ response' = [response EXCEPT ![x] = "pending"]
      /\ node' = [node EXCEPT ![x] = IF socket[s] = "open" THEN "asked" ELSE @]
      /\ UNCHANGED <<current, quiet, health, stream, socket, wire, sent>>
  BY DEF SendOn
<1>2. Overlapped' = Overlapped
  BY <1>1 DEF Overlapped
<1>3. CASE r = x
  <2>1. stream[r] = << >> /\ sent[r] = 0 /\ node[r] = "unasked"
    BY <1>3 DEF Placed, Spoken
  <2>2. \A t \in Sockets : \A i \in 1..Len(wire[t]) : wire[t][i].r # r
    BY <2>1 DEF Spoken
  <2>3. response'[r] = "pending" /\ node'[r] \in {"unasked", "asked"}
    BY <1>1, <1>3, <2>1 DEF TypeOK
  <2>4. LiveFits(r)'
    <3>1. ASSUME NEW w \in {wire[current]}, current \in Sockets
          PROVE  /\ Follows(r, w, 0, 0) /\ EndsLast(r, w, node'[r])
                 /\ AnswerFirst(r, w, node'[r])
      BY <2>2, <2>3, <3>1 DEF Follows, EndsLast, AnswerFirst, IsEvent, IsLast
    <3>2. Live(r)' => current \in Sockets
      BY <1>1 DEF Live, TypeOK
    <3>3. Len(stream'[r]) = 0 /\ sent'[r] = 0 /\ wire' = wire /\ current' = current
      BY <1>1, <2>1
    <3>4. Values(stream[r], Len(stream[r]))'
      BY <1>1, <2>1 DEF Values
    <3>5. SUFFICES ASSUME Live(r)'
                   PROVE  /\ Follows(r, wire[current], Len(stream[r]), sent[r])'
                          /\ EndsLast(r, wire[current], node[r])'
                          /\ AnswerFirst(r, wire[current], node[r])'
      BY <3>3, <3>4 DEF LiveFits
    <3>6. Follows(r, wire[current], 0, 0) /\ EndsLast(r, wire[current], node'[r])
          /\ AnswerFirst(r, wire[current], node'[r])
      BY <3>1, <3>2, <3>5
    <3> QED BY <3>3, <3>6 DEF Follows, EndsLast, AnswerFirst, IsEvent, IsAnswer, IsLast
  <2>5. Heard(stream[r], sent[r])' /\ Complete(stream[r], node[r], sent[r])' /\ SettledEnds(r)'
    BY <1>1, <2>1, <2>3 DEF Heard, Complete, SettledEnds
  <2>6. Reachable(r)'
    <3>1. Live(r)' <=> s = current
      BY <1>1, <1>3, <2>1, TransportAssumption DEF Live, Placed, TypeOK
    <3> QED BY <1>2, <3>1 DEF Reachable
  <2> QED BY <2>4, <2>5, <2>6 DEF Faithful
<1>4. CASE r # x
  <2>1. UNCHANGED <<stream[r], response[r], conn[r], sent[r], node[r], current, wire>> /\ Live(r)' = Live(r)
    BY <1>1, <1>4 DEF Live, TypeOK
  <2>2. /\ Heard(stream[r], sent[r])' /\ Complete(stream[r], node[r], sent[r])'
        /\ SettledEnds(r)' /\ InFlight(r)' = InFlight(r)
    BY <2>1, UntouchedStream
  <2>3. LiveFits(r)'
    <3>1. CASE Live(r)
      <4>1. /\ Values(stream[r], Len(stream[r])) /\ Len(stream[r]) <= sent[r]
            /\ Follows(r, wire[current], Len(stream[r]), sent[r])
            /\ EndsLast(r, wire[current], node[r])
            /\ response[r] = "pending" => AnswerFirst(r, wire[current], node[r])
        BY <3>1 DEF Faithful, LiveFits
      <4> QED BY <2>1, <4>1, LiveFitsNext
    <3>2. CASE ~Live(r)
      BY <2>1, <3>2 DEF LiveFits
    <3> QED BY <3>1, <3>2
  <2> QED BY <1>2, <2>1, <2>2, <2>3 DEF Faithful, Reachable
<1> QED BY <1>3, <1>4

LEMMA NoEventsLeft ==
  ASSUME NEW r, NEW w, NEW k \in Nat, NEW m \in Nat, k <= m, Follows(r, w, k, m),
         \A i \in 1..Len(w) : ~IsEvent(w[i], r)
  PROVE  k = m
<1> SUFFICES ASSUME k < m PROVE FALSE
  OBVIOUS
<1>1. k + 1 \in (k + 1)..m
  OBVIOUS
<1> QED BY <1>1 DEF Follows

\* A request that is not the delivered frame's.
LEMMA DeliverOther ==
  ASSUME Inv, NEW s \in Sockets, Deliver(s), NEW r \in Requests,
         r # Head(wire[s]).r \/ (UNCHANGED <<pending, response, stream>> /\ ~Live(r))
  PROVE  Faithful(r)'
<1> USE DEF Inv, Connected
<1> DEFINE f == Head(wire[s])
<1>1. /\ wire[s] \in Seq(Frame) /\ wire[s] # << >> /\ f \in Frame /\ f.r \in Requests
      /\ wire' = [wire EXCEPT ![s] = Tail(@)]
      /\ UNCHANGED <<socket, node, sent, current, conn>>
      /\ UNCHANGED <<pending, response, stream>> \/ (Live(f.r) /\ Handled(f.r, f))
  BY DeliverEffect DEF Frame
<1>2. UNCHANGED <<stream[r], response[r]>> /\ Live(r)' = Live(r)
  <2>1. CASE UNCHANGED <<pending, response, stream>>
    BY <1>1, <2>1 DEF Live
  <2>2. CASE r # f.r /\ Live(f.r) /\ Handled(f.r, f)
    BY <1>1, <2>2, HandledEffect DEF Live, TypeOK
  <2> QED BY <1>1, <2>1, <2>2
<1>3. /\ Heard(stream[r], sent[r])' /\ Complete(stream[r], node[r], sent[r])'
      /\ SettledEnds(r)' /\ InFlight(r)' = InFlight(r)
  BY <1>1, <1>2, UntouchedStream
<1>4. Overlapped' = Overlapped
  BY <1>1 DEF Overlapped
<1>5. ASSUME Live(r)
      PROVE  /\ Follows(r, wire'[current], Len(stream[r]), sent[r])
             /\ EndsLast(r, wire'[current], node[r])
             /\ response[r] = "pending" => AnswerFirst(r, wire'[current], node[r])
  <2>1. r # f.r /\ ~IsEvent(f, r) /\ ~IsAnswer(f, r)
    BY <1>5 DEF IsEvent, IsAnswer
  <2>2. current \in Sockets /\ stream[r] \in Seq(Entry) /\ Len(stream[r]) \in Nat /\ sent[r] \in Nat
    BY <1>5 DEF Live, TypeOK
  <2>3. /\ Follows(r, wire[current], Len(stream[r]), sent[r])
        /\ EndsLast(r, wire[current], node[r])
        /\ response[r] = "pending" => AnswerFirst(r, wire[current], node[r])
    BY <1>5 DEF Faithful, LiveFits
  <2>4. CASE s = current
    <3>1. wire'[current] = Tail(wire[s])
      BY <1>1, <2>4 DEF TypeOK
    <3>2. Follows(r, Tail(wire[s]), Len(stream[r]), sent[r])
      BY <1>1, <2>1, <2>2, <2>3, <2>4, HeadFollows
    <3>3. EndsLast(r, Tail(wire[s]), node[r])
      BY <1>1, <2>3, <2>4, TailEndsLast
    <3>4. response[r] = "pending" => AnswerFirst(r, Tail(wire[s]), node[r])
      BY <1>1, <2>1, <2>3, <2>4, TailAnswerFirst
    <3> QED BY <3>1, <3>2, <3>3, <3>4
  <2>5. CASE s # current
    <3>1. wire'[current] = wire[current]
      BY <1>1, <2>2, <2>5 DEF TypeOK
    <3> QED BY <2>3, <3>1
  <2> QED BY <2>4, <2>5
<1>6. LiveFits(r)'
  <2>1. CASE Live(r)
    <3>1. Values(stream[r], Len(stream[r])) /\ Len(stream[r]) <= sent[r]
      BY <2>1 DEF Faithful, LiveFits
    <3> QED BY <1>1, <1>2, <1>5, <2>1, <3>1, LiveFitsNext
  <2>2. CASE ~Live(r)
    BY <1>2, <2>2 DEF LiveFits
  <2> QED BY <2>1, <2>2
<1> QED BY <1>2, <1>3, <1>4, <1>6 DEF Faithful, Reachable

LEMMA DeliverOwn ==
  ASSUME Inv, NEW s \in Sockets, Deliver(s), NEW r \in Requests, r = Head(wire[s]).r, Live(r)
  PROVE  Faithful(r)'
<1> USE DEF Inv, Connected
<1> DEFINE f == Head(wire[s])
           q == stream[r]
           m == sent[r]
           w == wire[s]
<1>1. /\ wire[s] \in Seq(Frame) /\ wire[s] # << >> /\ f \in Frame
      /\ wire' = [wire EXCEPT ![s] = Tail(@)]
      /\ UNCHANGED <<socket, node, sent, current, conn>>
      /\ \/ ~Live(f.r) /\ UNCHANGED <<pending, response, stream>>
         \/ Live(f.r) /\ s = current /\ Handled(f.r, f)
  BY DeliverEffect
<1>0. r = f.r /\ Handled(r, f) /\ s = current
  BY <1>1
<1>2. current \in Sockets /\ q \in Seq(Entry) /\ Len(q) \in Nat /\ m \in Nat
      /\ r \in pending[current] /\ response[r] # "unsent"
  BY DEF Live, TypeOK, Placed
<1>3. wire'[current] = Tail(w) /\ Overlapped' = Overlapped
  BY <1>1, <1>2 DEF TypeOK, Overlapped
<1>4. /\ Values(q, Len(q)) /\ Len(q) <= m /\ Heard(q, m) /\ Complete(q, node[r], m)
      /\ Follows(r, w, Len(q), m) /\ EndsLast(r, w, node[r])
      /\ response[r] = "pending" => AnswerFirst(r, w, node[r])
  BY <1>0 DEF Faithful, LiveFits
<1>5. /\ IsEvent(f, r) => f.n = Len(q) + 1 /\ Len(q) + 1 <= m /\ Follows(r, Tail(w), Len(q) + 1, m)
      /\ ~IsEvent(f, r) => Follows(r, Tail(w), Len(q), m)
  BY <1>1, <1>2, <1>4, HeadFollows
<1>6. /\ EndsLast(r, Tail(w), node[r])
      /\ IsLast(f, r) => node[r] = "finished" /\ \A j \in 2..Len(w) : ~IsEvent(w[j], r)
  BY <1>1, <1>4, TailEndsLast
<1>7. response[r] = "pending" => f.type # "exit" /\ (~IsAnswer(f, r) => AnswerFirst(r, Tail(w), node[r]))
  BY <1>1, <1>4, TailAnswerFirst
<1>8. IsLast(f, r) => m = IF IsEvent(f, r) THEN Len(q) + 1 ELSE Len(q)
  <2> SUFFICES ASSUME IsLast(f, r) PROVE m = IF IsEvent(f, r) THEN Len(q) + 1 ELSE Len(q)
    OBVIOUS
  <2>1. \A i \in 1..Len(Tail(w)) : i + 1 \in 2..Len(w) /\ Tail(w)[i] = w[i + 1]
    BY <1>1
  <2>2. \A i \in 1..Len(Tail(w)) : ~IsEvent(Tail(w)[i], r)
    BY <1>6, <2>1
  <2>3. CASE IsEvent(f, r)
    <3>1. Len(q) + 1 \in Nat /\ Len(q) + 1 <= m /\ Follows(r, Tail(w), Len(q) + 1, m)
      BY <1>2, <1>5, <2>3
    <3> HIDE DEF q, m, w, f
    <3> QED BY <1>2, <2>2, <2>3, <3>1, NoEventsLeft
  <2>4. CASE ~IsEvent(f, r)
    <3> HIDE DEF q, m, w, f
    <3> QED BY <1>2, <1>4, <1>5, <2>2, <2>4, NoEventsLeft
  <2> QED BY <2>3, <2>4
\* After Forget, only the ended stream and the settled response matter.
<1>9. ASSUME Forget(r), response'[r] # "pending", Heard(stream'[r], m), Complete(stream'[r], node[r], m),
             \E i \in 1..Len(stream'[r]) : stream'[r][i].type # "value"
      PROVE  Faithful(r)'
  <2>1. ~Live(r)'
    BY <1>1, <1>2, <1>9 DEF Forget, Live, TypeOK
  <2>2. Ended(r)'
    BY <1>9 DEF Ended, Ends
  <2>3. Heard(stream[r], sent[r])' /\ Complete(stream[r], node[r], sent[r])'
    BY <1>1, <1>9 DEF Heard, Complete, Values
  <2> QED BY <1>9, <2>1, <2>2, <2>3 DEF Faithful, LiveFits, SettledEnds, Reachable, InFlight
<1>10. CASE f.type = "event" /\ Push(r, Value(f.n)) /\ UNCHANGED <<pending, response>>
  <2>1. IsEvent(f, r) /\ ~IsAnswer(f, r)
    BY <1>10 DEF IsEvent, IsAnswer
  <2>2. stream'[r] = Append(q, Value(Len(q) + 1))
    BY <1>5, <1>10, <2>1 DEF Push, TypeOK
  <2>3. /\ Len(stream'[r]) = Len(q) + 1 /\ Values(stream'[r], Len(stream'[r])) /\ Heard(stream'[r], m)
        /\ Complete(stream'[r], node[r], m)
    <3> HIDE DEF q, m, f, w
    <3>1. Len(q) + 1 <= m
      BY <1>5, <2>1
    <3> QED BY <1>2, <1>4, <2>2, <3>1, PushValue
  <2>4. Heard(stream[r], sent[r])' /\ Complete(stream[r], node[r], sent[r])' /\ Values(stream[r], Len(stream[r]))'
    BY <1>1, <2>3 DEF Heard, Complete, Values
  <2>5. ~Ended(r) /\ ~Ended(r)'
    BY <1>4, <2>4 DEF Ended, Ends, Values
  <2>6. Live(r)'
    BY <1>1, <1>10 DEF Live
  <2>7. /\ Follows(r, wire'[current], Len(stream'[r]), m)
        /\ EndsLast(r, wire'[current], node[r])
        /\ response'[r] = "pending" => AnswerFirst(r, wire'[current], node[r])
    BY <1>3, <1>5, <1>6, <1>7, <1>10, <2>1, <2>3
  <2>8. LiveFits(r)'
    <3>1. Len(stream'[r]) <= m /\ current' = current /\ sent'[r] = m /\ node'[r] = node[r]
      BY <1>1, <1>5, <2>1, <2>3
    <3> HIDE DEF q, m, f, w
    <3> QED BY <2>3, <2>7, <3>1, LiveFitsNext
  <2>9. SettledEnds(r)'
    BY <1>1, <1>10, <2>5 DEF Faithful, SettledEnds
  <2> QED BY <2>4, <2>6, <2>8, <2>9 DEF Faithful, Reachable
<1>11. CASE f.type = "exit" /\ Forget(r) /\ UNCHANGED response
            /\ stream' = [stream EXCEPT ![r] = @ \o <<Value(f.n), Done>>]
  <2>1. IsEvent(f, r) /\ IsLast(f, r)
    BY <1>11 DEF IsEvent, IsLast
  <2>2. m = Len(q) + 1 /\ f.n = Len(q) + 1 /\ node[r] = "finished" /\ response[r] # "pending"
    BY <1>5, <1>6, <1>7, <1>8, <1>11, <2>1
  <2> DEFINE v == Append(q, Value(Len(q) + 1))
  <2>3. v \in Seq(Entry) /\ Len(v) = m /\ Heard(v, m) /\ Complete(v, node[r], m)
    <3> HIDE DEF q, m, f, w
    <3> QED BY <1>2, <1>4, <2>2, PushValue
  <2>4. stream'[r] = Append(v, Done)
    <3>1. stream'[r] = q \o <<Value(Len(q) + 1), Done>>
      BY <1>11, <2>2 DEF TypeOK
    <3>2. Value(Len(q) + 1) \in Entry /\ Done \in Entry
      BY <1>2 DEF Value, Done, Entry
    <3> HIDE DEF q
    <3> QED BY <1>2, <3>1, <3>2
  <2>5. /\ Heard(stream'[r], m) /\ Complete(stream'[r], node[r], m)
        /\ \E i \in 1..Len(stream'[r]) : stream'[r][i].type # "value"
    <3>1. m \in Nat
      BY <1>2
    <3> HIDE DEF v, m
    <3>2. Done \in {Done, Failed}
      OBVIOUS
    <3>3. LET u == Append(v, Done)
          IN  Heard(u, m) /\ Complete(u, node[r], m) /\ \E i \in 1..Len(u) : u[i].type # "value"
      BY <2>2, <2>3, <3>1, <3>2, PushEnd
    <3> QED BY <2>4, <3>3
  <2> QED BY <1>9, <1>11, <2>2, <2>5
<1>12. CASE /\ f.type \in {"resolved", "error"}
            /\ response' = [response EXCEPT ![r] = Settle(r, f.type)]
            /\ IsLast(f, r) /\ Push(r, Done) /\ Forget(r)
  <2>1. ~IsEvent(f, r) /\ m = Len(q) /\ node[r] = "finished"
    BY <1>6, <1>8, <1>12 DEF IsEvent
  <2>2. stream'[r] = Append(q, Done)
    BY <1>12 DEF Push, TypeOK
  <2>3. /\ Heard(stream'[r], m) /\ Complete(stream'[r], node[r], m)
        /\ \E i \in 1..Len(stream'[r]) : stream'[r][i].type # "value"
    <3> HIDE DEF q, m, f, w
    <3>1. Done \in {Done, Failed}
      OBVIOUS
    <3>2. LET u == Append(q, Done)
          IN  Heard(u, m) /\ Complete(u, node[r], m) /\ \E i \in 1..Len(u) : u[i].type # "value"
      BY <1>2, <1>4, <2>1, <3>1, PushEnd
    <3> QED BY <2>2, <3>2
  <2>4. response'[r] # "pending"
    BY <1>12 DEF Settle, TypeOK
  <2> QED BY <1>9, <1>12, <2>3, <2>4
<1>13. CASE /\ f.type \in {"resolved", "error"}
            /\ response' = [response EXCEPT ![r] = Settle(r, f.type)]
            /\ Kind[r] = "pty" /\ f.type = "resolved" /\ UNCHANGED <<stream, pending>>
  <2>1. response'[r] # "pending" /\ (response'[r] = response[r] \/ response'[r] = "resolved")
    BY <1>13 DEF Settle, TypeOK
  <2>2. Live(r)' /\ ~IsEvent(f, r)
    BY <1>1, <1>13 DEF Live, IsEvent
  <2>3. Heard(stream[r], sent[r])' /\ Complete(stream[r], node[r], sent[r])' /\ Values(stream[r], Len(stream[r]))'
    BY <1>1, <1>4, <1>13 DEF Heard, Complete, Values
  <2>4. LiveFits(r)'
    <3>1. Follows(r, wire'[current], Len(q), m) /\ EndsLast(r, wire'[current], node[r])
      BY <1>3, <1>5, <1>6, <2>2
    <3>2. stream'[r] = q /\ current' = current /\ sent'[r] = m /\ node'[r] = node[r]
      BY <1>1, <1>13
    <3> HIDE DEF q, m, f, w
    <3> QED BY <1>4, <2>1, <3>1, <3>2, LiveFitsNext
  <2>5. SettledEnds(r)'
    BY <1>1, <1>13, <2>1 DEF Faithful, SettledEnds, Ended, Ends
  <2> QED BY <2>2, <2>3, <2>4, <2>5 DEF Faithful, Reachable
<1> QED BY <1>0, <1>10, <1>11, <1>12, <1>13 DEF Handled

LEMMA DeliverFaithful ==
  ASSUME Inv, NEW s \in Sockets, Deliver(s), NEW r \in Requests
  PROVE  Faithful(r)'
<1>1. ~Live(Head(wire[s]).r) => UNCHANGED <<pending, response, stream>>
  BY DeliverEffect DEF Inv
<1>2. CASE r # Head(wire[s]).r
  BY <1>2, DeliverOther
<1>3. CASE r = Head(wire[s]).r /\ ~Live(r)
  BY <1>1, <1>3, DeliverOther
<1>4. CASE r = Head(wire[s]).r /\ Live(r)
  BY <1>4, DeliverOwn
<1> QED BY <1>2, <1>3, <1>4

LEMMA NodeStepFaithful ==
  ASSUME Inv, NEW x \in Requests, NEW s \in Sockets, NodeStep(x, s), NEW r \in Requests
  PROVE  Faithful(r)'
<1> USE DEF Inv, Connected
<1>1. PICK f \in Frame : Wrote(x, s, f)
  BY NodeStepWrites
<1>2. /\ socket[s] = "open" /\ f.r = x
      /\ node[x] \in {"asked", "answered"}
      /\ wire' = [wire EXCEPT ![s] = Append(@, f)]
      /\ UNCHANGED <<current, pending, conn, response, stream, socket>>
      /\ \A q \in Requests \ {x} : node'[q] = node[q] /\ sent'[q] = sent[q]
  BY <1>1 DEF Wrote
<1>3. /\ f.type \in {"event", "exit", "resolved", "error"} /\ sent[x] \in Nat
      /\ IsEvent(f, x) => f.n = sent[x] + 1 /\ sent'[x] = sent[x] + 1
      /\ ~IsEvent(f, x) => sent'[x] = sent[x]
      /\ IsLast(f, x) => node'[x] = "finished"
      /\ node'[x] = node[x] \/ (f.r = x /\ ~IsLast(f, x)) \/ node'[x] = "finished"
      /\ node'[x] = "answered" => node[x] = "answered" \/ IsAnswer(f, x)
      /\ f.type = "exit" => node[x] = "answered"
  <2>1. f.type \in {"event", "exit", "resolved", "error"} /\ sent[x] \in Nat
    BY DEF Frame, TypeOK
  <2>2. CASE f.type = "event"
    BY <1>1, <1>2, <2>1, <2>2 DEF Wrote, IsEvent, IsLast, IsAnswer
  <2>3. CASE f.type = "exit"
    BY <1>1, <1>2, <2>1, <2>3 DEF Wrote, IsEvent, IsLast, IsAnswer
  <2>4. CASE f.type = "resolved"
    BY <1>1, <1>2, <2>1, <2>4 DEF Wrote, IsEvent, IsLast, IsAnswer
  <2>5. CASE f.type = "error"
    BY <1>1, <1>2, <2>1, <2>5 DEF Wrote, IsEvent, IsLast, IsAnswer
  <2> QED BY <2>1, <2>2, <2>3, <2>4, <2>5
<1>4. Live(r)' = Live(r) /\ Overlapped' = Overlapped /\ InFlight(r)' = InFlight(r) /\ SettledEnds(r)' = SettledEnds(r)
  BY <1>2 DEF Live, Overlapped, InFlight, SettledEnds, Ended, Ends
\* A socket that a live request does not use is not open.
<1>5. Live(x) => s = current
  BY <1>2, TransportAssumption DEF Live, Youngest, TypeOK
<1>6. CASE r # x
  <2>1. UNCHANGED <<stream[r], response[r], conn[r], sent[r], node[r]>>
    BY <1>2, <1>6
  <2>2. Heard(stream[r], sent[r])' /\ Complete(stream[r], node[r], sent[r])'
    BY <2>1, UntouchedStream
  <2>3. LiveFits(r)'
    <3>1. CASE Live(r)
      <4>1. current \in Sockets /\ stream[r] \in Seq(Entry) /\ Len(stream[r]) \in Nat /\ sent[r] \in Nat
        BY <3>1 DEF Live, TypeOK
      <4>2. /\ Values(stream[r], Len(stream[r])) /\ Len(stream[r]) <= sent[r]
            /\ Follows(r, wire[current], Len(stream[r]), sent[r])
            /\ EndsLast(r, wire[current], node[r])
            /\ response[r] = "pending" => AnswerFirst(r, wire[current], node[r])
        BY <3>1 DEF Faithful, LiveFits
      <4>3. CASE s # current
        <5>1. wire'[current'] = wire[current]
          BY <1>2, <4>1, <4>3 DEF TypeOK
        <5> QED BY <2>1, <4>2, <5>1, LiveFitsNext
      <4>4. CASE s = current
        <5>1. wire'[current'] = Append(wire[current], f) /\ wire[current] \in Seq(Frame)
          BY <1>2, <4>1, <4>4, FramesAreTyped DEF TypeOK
        <5>2. ~IsEvent(f, r) /\ ~IsAnswer(f, r) /\ ~IsLast(f, r) /\ f.r # r
          BY <1>2, <1>6 DEF IsEvent, IsAnswer, IsLast
        <5>3. Follows(r, Append(wire[current], f), Len(stream[r]), sent[r])
          BY <4>1, <4>2, <5>1, <5>2, AppendFollows
        <5>4. EndsLast(r, Append(wire[current], f), node[r])
          BY <4>2, <5>1, <5>2, AppendEndsLast
        <5>5. response[r] = "pending" => AnswerFirst(r, Append(wire[current], f), node[r])
          BY <4>2, <5>1, <5>2, AppendAnswerFirst
        <5> QED BY <1>2, <2>1, <4>2, <5>1, <5>3, <5>4, <5>5, LiveFitsNext
      <4> QED BY <4>3, <4>4
    <3>2. CASE ~Live(r)
      BY <1>4, <3>2 DEF LiveFits
    <3> QED BY <3>1, <3>2
  <2> QED BY <1>4, <2>2, <2>3 DEF Faithful, Reachable
<1>7. CASE r = x
  <2>1. sent'[r] \in Nat /\ sent[r] <= sent'[r] /\ sent[r] \in Nat /\ stream'[r] = stream[r] /\ stream[r] \in Seq(Entry)
    BY <1>2, <1>3, <1>7 DEF TypeOK
  <2>2. Heard(stream[r], sent[r])'
    <3>1. Heard(stream[r], sent'[r])
      BY <2>1 DEF Faithful, Heard
    <3> QED BY <2>1, <3>1 DEF Heard, Values
  <2>3. Complete(stream[r], node[r], sent[r])'
    <3>1. ~\E i \in 1..Len(stream[r]) : stream[r][i] = Done /\ Values(stream[r], i - 1)
      BY <1>2, <1>7 DEF Faithful, Complete
    <3> QED BY <2>1, <3>1 DEF Complete, Values
  <2>4. LiveFits(r)'
    <3>1. CASE Live(r)
      <4>1. current \in Sockets /\ s = current /\ Len(stream[r]) \in Nat
        BY <1>5, <1>7, <2>1, <3>1 DEF Live, TypeOK
      <4>2. /\ Values(stream[r], Len(stream[r])) /\ Len(stream[r]) <= sent[r]
            /\ Follows(r, wire[current], Len(stream[r]), sent[r])
            /\ EndsLast(r, wire[current], node[r])
            /\ response[r] = "pending" => AnswerFirst(r, wire[current], node[r])
        BY <3>1 DEF Faithful, LiveFits
      <4>3. wire'[current'] = Append(wire[current], f) /\ wire[current] \in Seq(Frame)
        BY <1>2, <4>1, FramesAreTyped DEF TypeOK
      <4>4. Follows(r, Append(wire[current], f), Len(stream[r]), sent'[r])
        BY <1>3, <1>7, <2>1, <4>1, <4>2, <4>3, AppendFollows
      <4>5. EndsLast(r, Append(wire[current], f), node'[r])
        BY <1>2, <1>3, <1>7, <4>2, <4>3, AppendEndsLast
      <4>6. response'[r] = "pending" => AnswerFirst(r, Append(wire[current], f), node'[r])
        BY <1>2, <1>3, <1>7, <4>2, <4>3, AppendAnswerFirst
      <4>7. Len(stream[r]) <= sent'[r]
        BY <2>1, <4>1, <4>2
      <4> QED BY <2>1, <4>2, <4>3, <4>4, <4>5, <4>6, <4>7, LiveFitsNext
    <3>2. CASE ~Live(r)
      BY <1>4, <3>2 DEF LiveFits
    <3> QED BY <3>1, <3>2
  <2> QED BY <1>4, <2>2, <2>3, <2>4 DEF Faithful, Reachable
<1> QED BY <1>6, <1>7

\* The steps that leave the requests, the wires and the map of connections alone.
LEMMA QuietStepsFaithful ==
  ASSUME Inv, NEW r \in Requests,
         UNCHANGED <<current, pending, conn, response, stream, wire, node, sent>>, Overlapped => Overlapped'
  PROVE  Faithful(r)'
<1>1. /\ Heard(stream[r], sent[r])' /\ Complete(stream[r], node[r], sent[r])'
      /\ SettledEnds(r)' /\ InFlight(r)' = InFlight(r)
  BY UntouchedStream DEF Inv
<1>2. Live(r)' = Live(r)
  BY DEF Live
<1>3. LiveFits(r)'
  <2>1. CASE Live(r)
    <3>1. /\ Values(stream[r], Len(stream[r])) /\ Len(stream[r]) <= sent[r]
          /\ Follows(r, wire[current], Len(stream[r]), sent[r])
          /\ EndsLast(r, wire[current], node[r])
          /\ response[r] = "pending" => AnswerFirst(r, wire[current], node[r])
      BY <2>1 DEF Inv, Faithful, LiveFits
    <3> QED BY <3>1, LiveFitsNext
  <2>2. CASE ~Live(r)
    BY <1>2, <2>2 DEF LiveFits
  <2> QED BY <2>1, <2>2
<1> QED BY <1>1, <1>2, <1>3 DEF Inv, Faithful, Reachable

LEMMA NextFaithful == Inv /\ [Next]_vars => \A r \in Requests : Faithful(r)'
<1> SUFFICES ASSUME Inv, [Next]_vars, NEW r \in Requests PROVE Faithful(r)'
  OBVIOUS
<1>1. ASSUME NEW s \in Sockets, Attach(s) \/ SocketCloses(s) \/ Deliver(s) PROVE Faithful(r)'
  BY <1>1, AttachFaithful, SocketClosesFaithful, DeliverFaithful
<1>2. ASSUME NEW s \in Sockets, LoseSocket(s) PROVE Faithful(r)'
  <2>1. /\ socket[s] = "open" /\ socket' = [socket EXCEPT ![s] = "lost"]
        /\ UNCHANGED <<current, pending, conn, response, stream, wire, node, sent>>
    BY <1>2 DEF LoseSocket, connections, requests
  <2>2. Overlapped => Overlapped'
    BY <2>1 DEF Overlapped, Inv, Connected, TypeOK
  <2> QED BY <2>1, <2>2, QuietStepsFaithful
<1>3. ASSUME NEW x \in Requests, Send(x) \/ SendFails(x) PROVE Faithful(r)'
  <2>1. CASE Send(x)
    <3>1. current \in Sockets /\ response[x] = "unsent" /\ SendOn(x, current)
      BY <2>1 DEF Send, Inv, Connected, TypeOK
    <3> QED BY <3>1, SendOnFaithful
  <2> QED BY <1>3, <2>1, SendFailsFaithful
<1>4. ASSUME NEW y \in Requests, NEW x \in Requests, Abort(y, x) PROVE Faithful(r)'
  <2>1. conn[x] \in Sockets /\ response[y] = "unsent" /\ SendOn(y, conn[x])
    BY <1>4, AbortTarget DEF Abort, Inv
  <2>2. ~Overlapped => conn[x] = current
    <3>1. ~Overlapped => Live(x)
      BY <1>4 DEF Abort, Inv, Faithful, Reachable, InFlight
    <3> QED BY <3>1 DEF Live, Inv, Connected, Placed, TypeOK
  <2> QED BY <2>1, <2>2, SendOnFaithful
<1>5. ASSUME NEW x \in Requests, NEW s \in Sockets, NodeStep(x, s) PROVE Faithful(r)'
  BY <1>5, NodeStepFaithful
<1>6. CASE GrowsQuiet
  BY <1>6, QuietStepsFaithful DEF GrowsQuiet, requests, peer, Overlapped
<1>7. CASE UNCHANGED vars
  BY <1>7, QuietStepsFaithful DEF vars, connections, requests, peer, Overlapped
<1> QED BY <1>1, <1>2, <1>3, <1>4, <1>5, <1>6, <1>7 DEF Next

-----------------------------------------------------------------------------
(* The theorems. *)

\* The inductive invariant: connections, frames and streams fit together.
THEOREM Invariance == Spec => []Inv
<1>1. Init => Inv
  BY InitConnected, InitFaithful DEF Inv
<1>2. Inv /\ [Next]_vars => Inv'
  BY NextConnected, NextFaithful DEF Inv
<1> QED BY <1>1, <1>2, PTL DEF Spec

\* A non-empty set of naturals has a least element.
LEMMA Least ==
  ASSUME NEW S, S \subseteq Nat, S # {}
  PROVE  \E n \in S : \A k \in S : n <= k
<1> DEFINE Below == OpToRel(<, Nat)
<1>1. IsWellFoundedOn(Below, Nat)
  BY NatLessThanWellFounded
<1>2. \A k, n \in Nat : k < n => <<k, n>> \in Below
  BY DEF OpToRel
<1> HIDE DEF Below
<1>3. PICK n \in S : \A k \in S : ~(<<k, n>> \in Below)
  BY <1>1, WFMin
<1>4. \A k \in S : ~(k < n) /\ k \in Nat /\ n \in Nat
  BY <1>2, <1>3
<1> QED BY <1>4

\* The end that the consumer sees is the first one, and only values come before.
LEMMA FirstEndIsFirst ==
  ASSUME NEW r \in Requests, TypeOK, Ended(r)
  PROVE  FirstEnd(r) \in 1..Len(stream[r]) /\ Values(stream[r], FirstEnd(r) - 1)
<1>1. \A i \in 1..Len(stream[r]) : i \in Nat
  BY DEF TypeOK
<1>2. Ends(r) \in SUBSET Nat /\ Ends(r) # {}
  BY <1>1 DEF Ends, Ended
<1>3. \E i \in Ends(r) : \A j \in Ends(r) : i <= j
  BY <1>2, Least
<1>4. FirstEnd(r) \in Ends(r) /\ \A j \in Ends(r) : FirstEnd(r) <= j
  BY <1>3 DEF FirstEnd
<1>5. Len(stream[r]) \in Nat
  BY DEF TypeOK
<1>6. FirstEnd(r) \in 1..Len(stream[r])
  BY <1>4 DEF Ends
<1> QED BY <1>4, <1>5, <1>6 DEF Ends, Values

LEMMA InvIsFaithful == Inv => StreamsAreFaithful
<1> SUFFICES ASSUME Inv, NEW r \in Requests
             PROVE  /\ \A i \in 1..Len(stream[r]) :
                         (\A j \in 1..i : stream[r][j].type = "value") => stream[r][i].n = i /\ i <= sent[r]
                    /\ Ended(r) /\ stream[r][FirstEnd(r)] = Done =>
                         node[r] = "finished" /\ FirstEnd(r) = sent[r] + 1
                    /\ SettledEnds(r)
  BY DEF StreamsAreFaithful, HeardInOrder, DoneIsComplete, SettledStreamEnds, SettledEnds
<1>1. Heard(stream[r], sent[r]) /\ Complete(stream[r], node[r], sent[r]) /\ SettledEnds(r) /\ TypeOK
  BY DEF Inv, Faithful, Connected
<1> QED BY <1>1, FirstEndIsFirst DEF Heard, Complete, Values

LEMMA InvAgrees == Inv => ConnectionsAgree
BY DEF Inv, Connected, ConnectionsAgree, InFlightReachable, Faithful, Reachable, Live, Placed, TypeOK

(***************************************************************************)
(* For every number of requests, sockets and events: the consumer of a     *)
(* request's events hears a gapless prefix of what the node sent, a normal *)
(* end only after the last of them, and an end whenever the request is     *)
(* settled (handleLiveMessage, detachLiveConnection).                      *)
(***************************************************************************)
THEOREM StreamTheorem == Spec => []StreamsAreFaithful
BY Invariance, InvIsFaithful, PTL

(***************************************************************************)
(* Unless a socket was replaced before its close was noticed, what is      *)
(* under way hangs on the current connection; the row's health tells       *)
(* whether there is one (attachLiveConnection, touchNodeHealth).           *)
(***************************************************************************)
THEOREM ConnectionTheorem == Spec => []ConnectionsAgree
BY Invariance, InvAgrees, PTL

-----------------------------------------------------------------------------
(* Sandboxes: the inductive invariant. *)

\* Whose call it is tells its owner; where it waits tells its method, and it has no instance
\* while it waits for its creation.
Shape(d) == d # Idle =>
  /\ d.op = "task" => d.owner \in Jobs
  /\ d.op \in {"launch", "revoke", "restart"} => d.owner \in Nodes /\ d.svc \in Services
  /\ d.op \in {"create", "destroy", "stop", "use"} => d.owner \in Sessions
  /\ d.at = "create" => d.op \in {"task", "launch", "restart", "create"}
  /\ d.at = "start" => d.op = "create"
  /\ d.at = "endpoint" => d.op = "launch"
  /\ d.at = "connect" => d.op \in {"launch", "restart", "use"}
  /\ d.at \in {"process", "wait", "expose"} => d.op \in {"launch", "restart"}
  /\ d.at \in {"unexpose", "killProcess"} => d.op \in {"revoke", "restart"}
  /\ d.at = "create" <=> d.id = None

\* An instance of owner o that was made.
MadeFor(i, o) == i \in Instances /\ i[1] = o /\ i[2] <= made[o]

\* Who names an instance names one of its own.
NamesFit ==
  /\ \A c \in Slots : Shape(call[c])
  /\ \A c \in Slots : call[c] # Idle /\ call[c].id # None => MadeFor(call[c].id, call[c].owner)
  /\ \A n \in Nodes : nodeInstances[n] # None => MadeFor(nodeInstances[n], n)
  /\ \A s \in Sessions : ref[s] # None => MadeFor(ref[s], s)
  /\ provider = "cloudflare" => \A o \in Owners : made[o] <= 1

\* A session has no reference and no other call while it is created; afterwards its calls go to the
\* instance of its reference.
SessionsFit ==
  /\ \A s \in Sessions : told[s] = "none" <=> ref[s] = None
  /\ \A c \in Slots : call[c] # Idle =>
       /\ call[c].op = "create" =>
            /\ ref[call[c].owner] = None
            /\ \A d \in Slots \ {c} : call[d] # Idle => call[d].owner # call[c].owner
       /\ call[c].op \in {"destroy", "stop", "use"} => ref[call[c].owner] = call[c].id
       /\ call[c].at = "start" => state[call[c].id] # "paused"

\* Who creates an instance for a node is alone in that, or the node is raced.
CreatorsFit ==
  \A c \in Slots : \A n \in Nodes \ racedNodes : Creating(c, n) =>
    nodeInstances[n] = None /\ \A d \in Slots \ {c} : ~Creating(d, n)

\* The call will end instance i, or return it.
Answers(c, i) == call[c] # Idle /\ call[c].id = i
  /\ (call[c].op = "task" \/ call[c].at \in {"kill", "start"})

\* Every running instance is named by a call that will end or return it, by its node or by its session.
RunningIsKept ==
  \A i \in Instances : Alive(i) =>
    \/ \E c \in Slots : Answers(c, i)
    \/ i[1] \in Nodes /\ nodeInstances[i[1]] = i
    \/ i[1] \in Sessions /\ ref[i[1]] = i
    \/ i \in lost
    \/ i[1] \in Nodes /\ (provider = "cloudflare" \/ i[1] \in racedNodes)

\* An instance that is being disposed of is in the cache no more.
DisposedIsForgotten ==
  \A c \in Slots : call[c] # Idle /\ call[c].op \in {"revoke", "restart"} /\ call[c].at = "kill" =>
    provider # "cloudflare" /\ nodeInstances[call[c].owner] # call[c].id

ForNode(c) == call[c] # Idle /\ call[c].op \in {"launch", "revoke", "restart"}
Settled(x) == x \in AllServices /\ x \notin raced /\ x \notin erred

\* A service that is settled has one call at a time; what that call has read of the caches and seen of the
\* provider is still so, and a process in the cache listens or is waited for.
ServicesFit ==
  /\ \A c, d \in Slots : c # d /\ ForNode(c) /\ ForNode(d) /\ Service(c) = Service(d)
                         => Service(c) \in raced
  /\ \A c \in Slots : ForNode(c) /\ Settled(Service(c)) =>
       /\ call[c].at = "unexpose" /\ Service(c) \in servicePorts => "port" \in call[c].read
       /\ call[c].at = "killProcess" => Service(c) \notin exposed
       /\ call[c].at = "expose" /\ call[c].owner \notin endedNodes => process[Service(c)] = "listening"
  /\ \A x \in serviceProcesses : Settled(x) /\ x[1] \notin endedNodes =>
       process[x] = "listening" \/ \E c \in Slots : Reached(c, "wait") /\ Service(c) = x

\* The invariant.
SandboxInv ==
  /\ SandboxTypeOK /\ NamesFit /\ SessionsFit /\ DestroyedIsGone
  /\ CreatorsFit /\ RunningIsKept
  /\ DisposedIsForgotten /\ CachedIsUsable
  /\ ServicesFit /\ ExposedIsKnown
-----------------------------------------------------------------------------
(* Sandboxes: calls. *)

\* Slot c has record r next, and the other slots keep theirs.
Moves(c, r) == r \in {Idle} \cup Call /\ call' = [call EXCEPT ![c] = r]

\* A free slot is not a call, and None is no instance.
LEMMA IdleIsNoCall == Idle \notin Call /\ None \notin Instances
<1>1. ASSUME Idle \in Call PROVE FALSE
  <2>1. Idle.op \in Ops
    BY <1>1 DEF Call
  <2> QED BY <2>1 DEF Idle, Ops
<1> QED BY <1>1, InstanceAssumption

\* The record that a call begins with.
LEMMA BeginIs ==
  ASSUME NEW op \in Ops, NEW o \in Owners, NEW svc \in Services \cup {None}, NEW at \in Awaits
  PROVE
            /\ Begin(op, o, svc, at) = [op |-> op, owner |-> o, svc |-> svc, at |-> at, id |-> None,
               read |-> {}]
         /\ Begin(op, o, svc, at) \in Call
<1>1. Begin(op, o, svc, at) = [op |-> op, owner |-> o, svc |-> svc, at |-> at, id |-> None, read |-> {}]
  BY DEF Begin
<1>2. {} \in SUBSET {"port", "process"} /\ None \in Instances \cup {None}
  OBVIOUS
<1> QED BY <1>1, <1>2 DEF Call

\* The record of a call that begins with an instance.
LEMMA BeginWithIs ==
  ASSUME NEW op \in Ops, NEW o \in Owners, NEW svc \in Services \cup {None}, NEW at \in Awaits,
         NEW i \in Instances
  PROVE  \E r \in Call :
           /\ r = [Begin(op, o, svc, at) EXCEPT !.id = i]
           /\ r.op = op /\ r.owner = o /\ r.svc = svc /\ r.at = at /\ r.id = i /\ r.read = {}
<1>1. PICK b \in Call : b = Begin(op, o, svc, at)
  BY BeginIs
<1>2. b = [op |-> op, owner |-> o, svc |-> svc, at |-> at, id |-> None, read |-> {}]
  BY <1>1, BeginIs
<1>3. PICK r \in Call : r = [b EXCEPT !.id = i]
  BY <1>1 DEF Call
<1> QED BY <1>1, <1>2, <1>3

\* A slot whose call begins.
LEMMA BeginsIs ==
  ASSUME NEW c \in Slots, NEW op \in Ops, NEW o \in Owners, NEW svc \in Services \cup {None},
         NEW at \in Awaits,
         Await(c, Begin(op, o, svc, at))
  PROVE  \E r \in Call :
           /\ Moves(c, r)
           /\ r.op = op /\ r.owner = o /\ r.svc = svc /\ r.at = at /\ r.id = None /\ r.read = {}
<1>1. PICK r \in Call : r = Begin(op, o, svc, at)
  BY BeginIs
<1>2. r.op = op /\ r.owner = o /\ r.svc = svc /\ r.at = at /\ r.id = None /\ r.read = {}
  BY <1>1 DEF Begin
<1> QED BY <1>1, <1>2 DEF Await, Moves

\* A slot whose call begins with an instance.
LEMMA BeginsWithIs ==
  ASSUME NEW c \in Slots, NEW op \in Ops, NEW o \in Owners, NEW svc \in Services \cup {None},
         NEW at \in Awaits,
         NEW i \in Instances, Await(c, [Begin(op, o, svc, at) EXCEPT !.id = i])
  PROVE  \E r \in Call :
           /\ Moves(c, r)
           /\ r.op = op /\ r.owner = o /\ r.svc = svc /\ r.at = at /\ r.id = i /\ r.read = {}
<1>1. PICK b \in Call : b = Begin(op, o, svc, at)
  BY BeginIs
<1>2. b = [op |-> op, owner |-> o, svc |-> svc, at |-> at, id |-> None, read |-> {}]
  BY <1>1, BeginIs
<1>3. PICK r \in Call : r = [b EXCEPT !.id = i]
  BY <1>1 DEF Call
<1>4. r.op = op /\ r.owner = o /\ r.svc = svc /\ r.at = at /\ r.id = i /\ r.read = {}
  BY <1>1, <1>2, <1>3
<1>5. Moves(c, r)
  BY <1>1, <1>3 DEF Await, Moves
<1> QED BY <1>4, <1>5

\* A slot whose call goes on with an instance.
LEMMA GoWithIs ==
  ASSUME ProviderTypeOK, NEW c \in Slots, call[c] # Idle, NEW at \in Awaits, NEW i \in Instances,
         GoWith(c, at, i)
  PROVE  \E r \in Call :
           /\ Moves(c, r)
           /\ r.op = call[c].op /\ r.owner = call[c].owner /\ r.svc = call[c].svc /\ r.read = call[c].read
           /\ r.at = at /\ r.id = i
<1>1. call[c] \in Call /\ call \in [Slots -> {Idle} \cup Call]
  BY DEF ProviderTypeOK
<1>2. PICK r \in Call : r = [call[c] EXCEPT !.at = at, !.id = i]
  BY <1>1 DEF Call
<1>3. call' = [call EXCEPT ![c] = r]
  BY <1>1, <1>2 DEF GoWith
<1> QED BY <1>1, <1>2, <1>3 DEF Moves, Call

\* A slot whose call goes on with the instance it has.
LEMMA GoToIs ==
  ASSUME ProviderTypeOK, NEW c \in Slots, call[c] # Idle, NEW at \in Awaits, GoTo(c, at)
  PROVE  \E r \in Call :
           /\ Moves(c, r)
           /\ r.op = call[c].op /\ r.owner = call[c].owner /\ r.svc = call[c].svc /\ r.read = call[c].read
           /\ r.at = at /\ r.id = call[c].id
<1>1. call[c] \in Call /\ call \in [Slots -> {Idle} \cup Call]
  BY DEF ProviderTypeOK
<1>2. PICK r \in Call : r = [call[c] EXCEPT !.at = at]
  BY <1>1 DEF Call
<1>3. call' = [call EXCEPT ![c] = r]
  BY <1>1, <1>2 DEF GoTo
<1> QED BY <1>1, <1>2, <1>3 DEF Moves, Call

\* A slot whose call returns.
LEMMA ReturnIs == \A c \in Slots : Return(c) => Moves(c, Idle)
BY DEF Return, Await, Moves

\* What a slot that moves leaves of the others.
LEMMA MovesIs ==
  ASSUME ProviderTypeOK, NEW c \in Slots, NEW r, Moves(c, r)
  PROVE  /\ call' \in [Slots -> {Idle} \cup Call]
         /\ call'[c] = r /\ \A d \in Slots \ {c} : call'[d] = call[d]
BY DEF ProviderTypeOK, Moves

\* The record of a call that goes on with ensureNodeConnection.
LEMMA EnsuringIs ==
  ASSUME SandboxTypeOK, NamesFit, NEW op \in {"launch", "restart"}, NEW n \in Nodes, NEW s \in Services
  PROVE  LET r == Ensuring(op, n, s) IN
           /\ r \in Call /\ r.op = op /\ r.owner = n /\ r.svc = s /\ r.read = {} /\ r.id = nodeInstances[n]
           /\ r.at = IF nodeInstances[n] = None THEN "create" ELSE "connect"
           /\ Shape(r)
<1>1. n \in Owners /\ nodeInstances[n] \in Instances \cup {None} /\ op \in Ops /\ s \in Services \cup {None}
  BY DEF SandboxTypeOK, NodeTypeOK, Owners, Ops
<1>2. "create" \in Awaits /\ "connect" \in Awaits
  BY DEF Awaits
<1>3. CASE nodeInstances[n] = None
  <2>1. Ensuring(op, n, s) = Begin(op, n, s, "create")
    BY <1>3 DEF Ensuring
  <2>2. PICK r \in Call : r = Begin(op, n, s, "create")
    BY <1>1, <1>2, BeginIs
  <2>3. r = [op |-> op, owner |-> n, svc |-> s, at |-> "create", id |-> None, read |-> {}]
    BY <1>1, <1>2, <2>2, BeginIs
  <2> QED BY <1>3, <2>1, <2>2, <2>3 DEF Shape
<1>4. CASE nodeInstances[n] # None
  <2>1. Ensuring(op, n, s) = [Begin(op, n, s, "connect") EXCEPT !.id = nodeInstances[n]]
    BY <1>4 DEF Ensuring
  <2>2. PICK i \in Instances : i = nodeInstances[n]
    BY <1>1, <1>4
  <2>3. PICK r \in Call :
          /\ r = [Begin(op, n, s, "connect") EXCEPT !.id = i]
          /\ r.op = op /\ r.owner = n /\ r.svc = s /\ r.at = "connect" /\ r.id = i /\ r.read = {}
    BY <1>1, <1>2, BeginWithIs
  <2> QED BY <1>4, <2>1, <2>2, <2>3 DEF Shape
<1> QED BY <1>3, <1>4

\* Where a call for a node goes on when it has its instance.
LEMMA GoOnIs ==
  ASSUME SandboxTypeOK, NamesFit, NEW c \in Slots, call[c] # Idle, call[c].op \in {"launch", "restart"},
         NEW i \in Instances, GoOn(c, i)
  PROVE  \/ Moves(c, Idle)
         \/ \E r \in Call :
              /\ Moves(c, r) /\ Shape(r)
              /\ r.op = call[c].op /\ r.owner = call[c].owner /\ r.svc = call[c].svc
                 /\ r.read = call[c].read
              /\ r.id = i
              /\ \/ r.at = "endpoint"
                 \/ r.at = "expose" /\ Service(c) \in serviceProcesses
                 \/ r.at = "process" /\ Service(c) \notin serviceProcesses
<1>1. ProviderTypeOK /\ {"endpoint", "expose", "process"} \subseteq Awaits /\ Shape(call[c]) /\ i # None
  BY IdleIsNoCall DEF SandboxTypeOK, Awaits, NamesFit
<1>2. \/ Return(c)
      \/ call[c].op = "launch" /\ GoWith(c, "endpoint", i)
      \/ Service(c) \in serviceProcesses /\ GoWith(c, "expose", i)
      \/ Service(c) \notin serviceProcesses /\ GoWith(c, "process", i)
  BY DEF GoOn, CloudflareNext, OpenSandboxNext
<1>3. CASE Return(c)
  BY <1>3, ReturnIs
<1>4. ASSUME NEW at \in {"endpoint", "expose", "process"}, GoWith(c, at, i),
             at = "endpoint" => call[c].op = "launch"
      PROVE  \E r \in Call :
               /\ Moves(c, r) /\ Shape(r)
               /\ r.op = call[c].op /\ r.owner = call[c].owner /\ r.svc = call[c].svc
                  /\ r.read = call[c].read
               /\ r.id = i /\ r.at = at
  <2>1. PICK r \in Call :
          /\ Moves(c, r)
          /\ r.op = call[c].op /\ r.owner = call[c].owner /\ r.svc = call[c].svc /\ r.read = call[c].read
          /\ r.at = at /\ r.id = i
    BY <1>1, <1>4, GoWithIs
  <2>2. Shape(r)
    BY <1>1, <1>4, <2>1 DEF Shape
  <2> QED BY <2>1, <2>2
<1> QED BY <1>2, <1>3, <1>4

-----------------------------------------------------------------------------
(* Sandboxes: types and names. *)

\* An instance that is made is new, unless Cloudflare finds the one of that name.
LEMMA MakeIs ==
  ASSUME SandboxTypeOK, NamesFit, NEW o \in Owners, Make(o)
  PROVE  /\ NewInstance(o) \in Instances /\ NewInstance(o)[1] = o
         /\ state' = [state EXCEPT ![NewInstance(o)] = "running"]
         /\ state' \in [Instances -> States] /\ made' \in [Owners -> 0..MaxMade]
         /\ \A p \in Owners : made[p] <= made'[p]
         /\ \A i \in Instances : i = NewInstance(o) => MadeFor(i, o)'
         /\ provider # "cloudflare" => NewInstance(o)[2] = made[o] + 1
         /\ provider = "cloudflare" => \A p \in Owners : made'[p] <= 1
<1>1. made \in [Owners -> 0..MaxMade] /\ state \in [Instances -> States] /\ MaxMade \in Nat \ {0}
  BY ProviderAssumption DEF SandboxTypeOK, ProviderTypeOK
<1>2. PICK k \in Nat : k = IF provider = "cloudflare" THEN 1 ELSE made[o] + 1
  BY <1>1
<1>3. NewInstance(o) = <<o, k>> /\ k \in 1..MaxMade
  BY <1>1, <1>2 DEF Make, CanMake, NewInstance
<1>4. NewInstance(o) \in Instances /\ NewInstance(o)[1] = o /\ NewInstance(o)[2] = k
  BY <1>3 DEF Instances
<1>5. state' = [state EXCEPT ![NewInstance(o)] = "running"] /\ made' = [made EXCEPT ![o] = k]
  BY <1>4 DEF Make
<1>6. state' \in [Instances -> States] /\ made' \in [Owners -> 0..MaxMade]
  <2>1. "running" \in States
    BY DEF States
  <2>2. k \in 0..MaxMade
    BY <1>1, <1>3
  <2> QED BY <1>1, <1>5, <2>1, <2>2
<1>7. \A p \in Owners : made[p] <= made'[p]
  BY <1>1, <1>2, <1>5 DEF NamesFit
<1>8. provider = "cloudflare" => \A p \in Owners : made'[p] <= 1
  BY <1>1, <1>2, <1>5 DEF NamesFit
<1>9. \A i \in Instances : i = NewInstance(o) => MadeFor(i, o)'
  BY <1>1, <1>4, <1>5 DEF MadeFor
<1> QED BY <1>2, <1>4, <1>5, <1>6, <1>7, <1>8, <1>9

\* An instance that was made stays made.
LEMMA MadeStays ==
  ASSUME SandboxTypeOK, \A p \in Owners : made[p] <= made'[p], made' \in [Owners -> 0..MaxMade],
         NEW o \in Owners, NEW i, MadeFor(i, o)
  PROVE  MadeFor(i, o)'
<1>1. made[o] \in Nat /\ made'[o] \in Nat /\ made[o] <= made'[o]
  BY ProviderAssumption DEF SandboxTypeOK, ProviderTypeOK
<1>2. i \in Instances /\ i[1] = o /\ i[2] <= made[o] /\ i[2] \in Nat
  BY ProviderAssumption DEF MadeFor, Instances
<1> QED BY <1>1, <1>2 DEF MadeFor

\* A step that moves one slot keeps the names.
LEMMA CallNames ==
  ASSUME SandboxTypeOK, NamesFit, NEW c \in Slots, NEW r, Moves(c, r), Shape(r),
         r # Idle => r.id = None \/ MadeFor(r.id, r.owner) \/ MadeFor(r.id, r.owner)',
         \A p \in Owners : made[p] <= made'[p], made' \in [Owners -> 0..MaxMade],
         \A n \in Nodes : nodeInstances'[n] \in {None, nodeInstances[n]} \/ MadeFor(nodeInstances[n], n)',
         \A s \in Sessions : ref'[s] \in {None, ref[s]} \/ MadeFor(ref[s], s)',
         provider' = provider, provider = "cloudflare" => \A p \in Owners : made'[p] <= 1
  PROVE  NamesFit' /\ call' \in [Slots -> {Idle} \cup Call]
<1>1. /\ call' \in [Slots -> {Idle} \cup Call] /\ call'[c] = r
      /\ \A d \in Slots \ {c} : call'[d] = call[d]
  BY MovesIs DEF SandboxTypeOK
<1>2. \A d \in Slots : Shape(call'[d])
  BY <1>1 DEF NamesFit
<1>3. \A d \in Slots : call[d] # Idle => call[d].owner \in Owners
  BY DEF SandboxTypeOK, ProviderTypeOK, Call
<1>4. \A o \in Owners : \A i : MadeFor(i, o) => MadeFor(i, o)'
  BY MadeStays
<1>5. ASSUME NEW d \in Slots, call'[d] # Idle, call'[d].id # None
      PROVE  MadeFor(call[d].id, call[d].owner)'
  <2>1. PICK q : q = call'[d]
    OBVIOUS
  <2>2. q.owner \in Owners
    BY <1>1, <1>5, <2>1 DEF Call
  <2>3. MadeFor(q.id, q.owner) \/ MadeFor(q.id, q.owner)'
    BY <1>1, <1>5, <2>1 DEF NamesFit
  <2>4. MadeFor(q.id, q.owner)'
    BY <1>4, <2>2, <2>3
  <2> QED BY <2>1, <2>4 DEF MadeFor
<1>6. ASSUME NEW n \in Nodes, nodeInstances'[n] # None
      PROVE  MadeFor(nodeInstances[n], n)'
  <2>1. CASE nodeInstances'[n] = nodeInstances[n]
    <3>1. PICK i : i = nodeInstances[n]
      OBVIOUS
    <3>2. MadeFor(i, n)'
      BY <1>4, <1>6, <2>1, <3>1 DEF NamesFit, Owners
    <3> QED BY <2>1, <3>1, <3>2 DEF MadeFor
  <2> QED BY <1>6, <2>1
<1>7. ASSUME NEW s \in Sessions, ref'[s] # None
      PROVE  MadeFor(ref[s], s)'
  <2>1. CASE ref'[s] = ref[s]
    <3>1. PICK i : i = ref[s]
      OBVIOUS
    <3>2. MadeFor(i, s)'
      BY <1>4, <1>7, <2>1, <3>1 DEF NamesFit, Owners
    <3> QED BY <2>1, <3>1, <3>2 DEF MadeFor
  <2> QED BY <1>7, <2>1
<1> QED BY <1>1, <1>2, <1>5, <1>6, <1>7 DEF NamesFit

\* The same for a step that makes nothing.
LEMMA QuietNames ==
  ASSUME SandboxTypeOK, NamesFit, NEW c \in Slots, NEW r, Moves(c, r), Shape(r),
         UNCHANGED <<made, provider>>,
         r # Idle => r.id = None \/ MadeFor(r.id, r.owner),
         \A n \in Nodes : nodeInstances'[n] \in {None, nodeInstances[n]},
         \A s \in Sessions : ref'[s] \in {None, ref[s]}
  PROVE  NamesFit' /\ call' \in [Slots -> {Idle} \cup Call]
<1>1. /\ made' \in [Owners -> 0..MaxMade] /\ \A p \in Owners : made[p] <= made'[p]
      /\ provider = "cloudflare" => \A p \in Owners : made'[p] <= 1
  BY ProviderAssumption DEF SandboxTypeOK, ProviderTypeOK, NamesFit
<1> QED BY <1>1, CallNames

\* A kill keeps the types.
LEMMA KillTypes ==
  ASSUME SandboxTypeOK, NEW i \in Instances, Kill(i) \/ KillFails(i)
  PROVE  state' \in [Instances -> States] /\ lost' \in SUBSET Instances /\ faults' \in 0..MaxFaults
<1>1. "absent" \in States /\ MaxFaults \in Nat
  BY ProviderAssumption DEF States
<1> QED BY <1>1 DEF Kill, KillFails, Fault, SandboxTypeOK, ProviderTypeOK

\* An error keeps the type of the counter.
LEMMA FaultType ==
  ASSUME SandboxTypeOK, Fault \/ NoFault
  PROVE  faults' \in 0..MaxFaults
BY ProviderAssumption DEF Fault, NoFault, SandboxTypeOK, ProviderTypeOK

\* A creation that fails leaves an instance behind only if it is noted as lost.
LEMMA MakeFailsIs ==
  ASSUME SandboxTypeOK, NamesFit, NEW o \in Owners, MakeFails(o)
  PROVE  /\ state' \in [Instances -> States] /\ made' \in [Owners -> 0..MaxMade]
            /\ lost' \in SUBSET Instances
         /\ faults' \in 0..MaxFaults /\ lost \subseteq lost'
         /\ \A p \in Owners : made[p] <= made'[p]
         /\ provider = "cloudflare" => \A p \in Owners : made'[p] <= 1
         /\ \A i \in Instances : state'[i] # state[i] => i \in lost' /\ i[1] = o
<1>1. faults' \in 0..MaxFaults
  BY FaultType DEF MakeFails
<1>2. CASE Make(o) /\ lost' = lost \cup {NewInstance(o)}
  BY <1>1, <1>2, MakeIs DEF SandboxTypeOK, ProviderTypeOK
<1>3. CASE UNCHANGED <<state, made, lost>>
  BY <1>1, <1>3, ProviderAssumption DEF SandboxTypeOK, ProviderTypeOK, NamesFit
<1> QED BY <1>2, <1>3 DEF MakeFails

\* Types and names.
NamesInv == SandboxTypeOK /\ NamesFit

\* What the record of a call tells.
LEMMA CallIs ==
  ASSUME ProviderTypeOK, NamesFit, NEW c \in Slots, call[c] # Idle
  PROVE  /\ call[c] \in Call /\ call[c].owner \in Owners /\ Shape(call[c])
         /\ call[c].at # "create" => call[c].id \in Instances
         /\ call[c].op \in {"launch", "revoke", "restart"} => Service(c) \in AllServices
         /\ call[c].at \in {"endpoint", "process", "wait", "expose", "unexpose", "killProcess"}
            => Service(c) \in AllServices
         /\ call[c].op \in {"destroy", "stop", "use", "create"} => call[c].owner \in Sessions
<1>1. call[c] \in Call /\ Shape(call[c])
  BY DEF ProviderTypeOK, NamesFit
<1>2. call[c].owner \in Owners /\ call[c].id \in Instances \cup {None}
  BY <1>1 DEF Call
<1> QED BY <1>1, <1>2 DEF Shape, Service, AllServices

\* A task that begins keeps types and names.
LEMMA TaskBeginsNames ==
  ASSUME NamesInv, NEW c \in Slots, NEW j \in Jobs, TaskBegins(c, j), UNCHANGED sessionVars
  PROVE  NamesInv'
<1> USE DEF NamesInv
<1>1. SandboxTypeOK /\ NamesFit /\ ProviderTypeOK
  BY DEF SandboxTypeOK
<1>2. PICK r : r \in Call /\ Moves(c, r) /\ r.op = "task" /\ r.owner = j /\ r.at = "create" /\ r.id = None
  BY <1>1, BeginsIs DEF TaskBegins, Owners, Ops, Awaits
<1>3. Shape(r) /\ (r # Idle => r.id = None \/ MadeFor(r.id, r.owner))
  BY <1>1, <1>2 DEF Shape
<1>4. NamesFit' /\ call' \in [Slots -> {Idle} \cup Call]
  BY <1>1, <1>2, <1>3, QuietNames DEF TaskBegins, cacheVars, serviceVars, historyVars, nodeVars,
      sessionVars, Rest
<1> QED BY <1>1, <1>4 DEF TaskBegins, SandboxTypeOK, ProviderTypeOK, NodeTypeOK, SessionTypeOK, cacheVars,
      serviceVars, historyVars, nodeVars, sessionVars, Rest

\* A task that has run keeps types and names.
LEMMA WorkEndsNames ==
  ASSUME NamesInv, NEW c \in Slots, WorkEnds(c), UNCHANGED sessionVars
  PROVE  NamesInv'
<1> USE DEF NamesInv
<1>1. SandboxTypeOK /\ NamesFit /\ ProviderTypeOK
  BY DEF SandboxTypeOK
<1>2. PICK r : r \in Call /\ Moves(c, r) /\ r.owner = call[c].owner /\ r.op = call[c].op
               /\ r.svc = call[c].svc
             /\ r.at = "kill" /\ r.id = call[c].id
  BY <1>1, GoToIs DEF WorkEnds, At, Reached, Awaits
<1>3. Shape(r) /\ (r # Idle => r.id = None \/ MadeFor(r.id, r.owner))
  BY <1>1, <1>2 DEF WorkEnds, At, Reached, Shape, NamesFit
<1>4. NamesFit' /\ call' \in [Slots -> {Idle} \cup Call]
  BY <1>1, <1>2, <1>3, QuietNames DEF WorkEnds, cacheVars, serviceVars, historyVars, nodeVars, sessionVars,
      Rest
<1> QED BY <1>1, <1>4 DEF WorkEnds, SandboxTypeOK, ProviderTypeOK, NodeTypeOK, SessionTypeOK, cacheVars,
      serviceVars, historyVars, nodeVars, sessionVars, Rest

\* The end of a task's sandbox keeps types and names.
LEMMA TaskKilledNames ==
  ASSUME NamesInv, NEW c \in Slots, TaskKilled(c), UNCHANGED sessionVars
  PROVE  NamesInv'
<1> USE DEF NamesInv
<1>1. SandboxTypeOK /\ NamesFit /\ ProviderTypeOK
  BY DEF SandboxTypeOK
<1>2. PICK r : Moves(c, r) /\ r = Idle
  BY <1>1, ReturnIs DEF TaskKilled
<1>3. Shape(r) /\ (r # Idle => r.id = None \/ MadeFor(r.id, r.owner))
  BY <1>1, <1>2 DEF Shape
<1>4. NamesFit' /\ call' \in [Slots -> {Idle} \cup Call]
  BY <1>1, <1>2, <1>3, QuietNames DEF TaskKilled, cacheVars, serviceVars, historyVars, nodeVars,
      sessionVars, Rest
<1>5. call[c].id \in Instances
  BY <1>1, CallIs DEF TaskKilled, At, Reached, Shape
<1>6. state' \in [Instances -> States] /\ lost' \in SUBSET Instances /\ faults' \in 0..MaxFaults
  BY <1>1, <1>5, KillTypes DEF TaskKilled
<1> QED BY <1>1, <1>4, <1>5, <1>6 DEF TaskKilled, SandboxTypeOK, ProviderTypeOK, NodeTypeOK, SessionTypeOK,
      cacheVars, serviceVars, historyVars, nodeVars, sessionVars, Rest

\* A connection that fails keeps types and names.
LEMMA EnsureConnectFailsNames ==
  ASSUME NamesInv, NEW c \in Slots, EnsureConnectFails(c), UNCHANGED sessionVars
  PROVE  NamesInv'
<1> USE DEF NamesInv
<1>1. SandboxTypeOK /\ NamesFit /\ ProviderTypeOK
  BY DEF SandboxTypeOK
<1>2. PICK r : Moves(c, r) /\ r = Idle
  BY <1>1, ReturnIs DEF EnsureConnectFails
<1>3. Shape(r) /\ (r # Idle => r.id = None \/ MadeFor(r.id, r.owner))
  BY <1>1, <1>2 DEF Shape
<1>4. NamesFit' /\ call' \in [Slots -> {Idle} \cup Call]
  BY <1>1, <1>2, <1>3, QuietNames DEF EnsureConnectFails, cacheVars, serviceVars, historyVars, nodeVars,
      sessionVars, Rest
<1>5. Service(c) \in AllServices
  BY <1>1, CallIs DEF EnsureConnectFails, At, Reached
<1>6. faults' \in 0..MaxFaults
  BY <1>1, FaultType DEF EnsureConnectFails
<1> QED BY <1>1, <1>4, <1>5, <1>6 DEF EnsureConnectFails, SandboxTypeOK, ProviderTypeOK, NodeTypeOK,
      SessionTypeOK, NoteError, cacheVars, serviceVars, historyVars, nodeVars, sessionVars, Rest

\* The endpoint of a service keeps types and names.
LEMMA EndpointNames ==
  ASSUME NamesInv, NEW c \in Slots, Endpoint(c), UNCHANGED sessionVars
  PROVE  NamesInv'
<1> USE DEF NamesInv
<1>1. SandboxTypeOK /\ NamesFit /\ ProviderTypeOK
  BY DEF SandboxTypeOK
<1>2. PICK r : Moves(c, r) /\ r = Idle
  BY <1>1, ReturnIs DEF Endpoint
<1>3. Shape(r) /\ (r # Idle => r.id = None \/ MadeFor(r.id, r.owner))
  BY <1>1, <1>2 DEF Shape
<1>4. NamesFit' /\ call' \in [Slots -> {Idle} \cup Call]
  BY <1>1, <1>2, <1>3, QuietNames DEF Endpoint, cacheVars, serviceVars, historyVars, nodeVars, sessionVars,
      Rest
<1>5. faults' \in 0..MaxFaults
  BY <1>1, FaultType DEF Endpoint
<1> QED BY <1>1, <1>4, <1>5 DEF Endpoint, SandboxTypeOK, ProviderTypeOK, NodeTypeOK, SessionTypeOK,
      cacheVars, serviceVars, historyVars, nodeVars, sessionVars, Rest

\* A process that starts keeps types and names.
LEMMA ProcessStartsNames ==
  ASSUME NamesInv, NEW c \in Slots, ProcessStarts(c), UNCHANGED sessionVars
  PROVE  NamesInv'
<1> USE DEF NamesInv
<1>1. SandboxTypeOK /\ NamesFit /\ ProviderTypeOK
  BY DEF SandboxTypeOK
<1>2. PICK r : r \in Call /\ Moves(c, r) /\ r.owner = call[c].owner /\ r.op = call[c].op
               /\ r.svc = call[c].svc
             /\ r.at = "wait" /\ r.id = call[c].id
  BY <1>1, GoToIs DEF ProcessStarts, At, Reached, Awaits
<1>3. Shape(r) /\ (r # Idle => r.id = None \/ MadeFor(r.id, r.owner))
  BY <1>1, <1>2 DEF ProcessStarts, At, Reached, Shape, NamesFit
<1>4. NamesFit' /\ call' \in [Slots -> {Idle} \cup Call]
  BY <1>1, <1>2, <1>3, QuietNames DEF ProcessStarts, cacheVars, serviceVars, historyVars, nodeVars,
      sessionVars, Rest
<1>5. Service(c) \in AllServices
  BY <1>1, CallIs DEF ProcessStarts, At, Reached
<1> QED BY <1>1, <1>4, <1>5 DEF ProcessStarts, SandboxTypeOK, ProviderTypeOK, NodeTypeOK, SessionTypeOK,
      cacheVars, serviceVars, historyVars, nodeVars, sessionVars, Rest

\* A port that opens keeps types and names.
LEMMA PortOpensNames ==
  ASSUME NamesInv, NEW c \in Slots, PortOpens(c), UNCHANGED sessionVars
  PROVE  NamesInv'
<1> USE DEF NamesInv
<1>1. SandboxTypeOK /\ NamesFit /\ ProviderTypeOK
  BY DEF SandboxTypeOK
<1>2. PICK r : r \in Call /\ Moves(c, r) /\ r.owner = call[c].owner /\ r.op = call[c].op
               /\ r.svc = call[c].svc
             /\ r.at = "expose" /\ r.id = call[c].id
  BY <1>1, GoToIs DEF PortOpens, At, Reached, Awaits
<1>3. Shape(r) /\ (r # Idle => r.id = None \/ MadeFor(r.id, r.owner))
  BY <1>1, <1>2 DEF PortOpens, At, Reached, Shape, NamesFit
<1>4. NamesFit' /\ call' \in [Slots -> {Idle} \cup Call]
  BY <1>1, <1>2, <1>3, QuietNames DEF PortOpens, cacheVars, serviceVars, historyVars, nodeVars,
      sessionVars, Rest
<1>5. Service(c) \in AllServices
  BY <1>1, CallIs DEF PortOpens, At, Reached
<1> QED BY <1>1, <1>4, <1>5 DEF PortOpens, SandboxTypeOK, ProviderTypeOK, NodeTypeOK, SessionTypeOK,
      cacheVars, serviceVars, historyVars, nodeVars, sessionVars, Rest

\* A port that is exposed keeps types and names.
LEMMA PortExposedNames ==
  ASSUME NamesInv, NEW c \in Slots, PortExposed(c), UNCHANGED sessionVars
  PROVE  NamesInv'
<1> USE DEF NamesInv
<1>1. SandboxTypeOK /\ NamesFit /\ ProviderTypeOK
  BY DEF SandboxTypeOK
<1>2. PICK r : Moves(c, r) /\ r = Idle
  BY <1>1, ReturnIs DEF PortExposed
<1>3. Shape(r) /\ (r # Idle => r.id = None \/ MadeFor(r.id, r.owner))
  BY <1>1, <1>2 DEF Shape
<1>4. NamesFit' /\ call' \in [Slots -> {Idle} \cup Call]
  BY <1>1, <1>2, <1>3, QuietNames DEF PortExposed, cacheVars, serviceVars, historyVars, nodeVars,
      sessionVars, Rest
<1>5. Service(c) \in AllServices
  BY <1>1, CallIs DEF PortExposed, At, Reached
<1> QED BY <1>1, <1>4, <1>5 DEF PortExposed, SandboxTypeOK, ProviderTypeOK, NodeTypeOK, SessionTypeOK,
      cacheVars, serviceVars, historyVars, nodeVars, sessionVars, Rest

\* A launch that rejects keeps types and names.
LEMMA LaunchRejectsNames ==
  ASSUME NamesInv, NEW c \in Slots, LaunchRejects(c), UNCHANGED sessionVars
  PROVE  NamesInv'
<1> USE DEF NamesInv
<1>1. SandboxTypeOK /\ NamesFit /\ ProviderTypeOK
  BY DEF SandboxTypeOK
<1>2. PICK r : Moves(c, r) /\ r = Idle
  BY <1>1, ReturnIs DEF LaunchRejects
<1>3. Shape(r) /\ (r # Idle => r.id = None \/ MadeFor(r.id, r.owner))
  BY <1>1, <1>2 DEF Shape
<1>4. NamesFit' /\ call' \in [Slots -> {Idle} \cup Call]
  BY <1>1, <1>2, <1>3, QuietNames DEF LaunchRejects, cacheVars, serviceVars, historyVars, nodeVars,
      sessionVars, Rest
<1>5. Service(c) \in AllServices
  BY <1>1, CallIs DEF LaunchRejects, At, Reached
<1>6. faults' \in 0..MaxFaults
  BY <1>1, FaultType DEF LaunchRejects
<1> QED BY <1>1, <1>4, <1>5, <1>6 DEF LaunchRejects, SandboxTypeOK, ProviderTypeOK, NodeTypeOK,
      SessionTypeOK, NoteError, cacheVars, serviceVars, historyVars, nodeVars, sessionVars, Rest

\* The removal of a port keeps types and names.
LEMMA UnexposeNames ==
  ASSUME NamesInv, NEW c \in Slots, Unexpose(c), UNCHANGED sessionVars
  PROVE  NamesInv'
<1> USE DEF NamesInv
<1>1. SandboxTypeOK /\ NamesFit /\ ProviderTypeOK
  BY DEF SandboxTypeOK
<1>2. PICK r : r \in Call /\ Moves(c, r) /\ r.owner = call[c].owner /\ r.op = call[c].op
               /\ r.svc = call[c].svc
             /\ r.at = "killProcess" /\ r.id = call[c].id
  BY <1>1, GoToIs DEF Unexpose, At, Reached, Awaits
<1>3. Shape(r) /\ (r # Idle => r.id = None \/ MadeFor(r.id, r.owner))
  BY <1>1, <1>2 DEF Unexpose, At, Reached, Shape, NamesFit
<1>4. NamesFit' /\ call' \in [Slots -> {Idle} \cup Call]
  BY <1>1, <1>2, <1>3, QuietNames DEF Unexpose, cacheVars, serviceVars, historyVars, nodeVars, sessionVars,
      Rest
<1>5. Service(c) \in AllServices
  BY <1>1, CallIs DEF Unexpose, At, Reached
<1>6. faults' \in 0..MaxFaults
  BY <1>1, FaultType DEF Unexpose
<1> QED BY <1>1, <1>4, <1>5, <1>6 DEF Unexpose, SandboxTypeOK, ProviderTypeOK, NodeTypeOK, SessionTypeOK,
      NoteError, cacheVars, serviceVars, historyVars, nodeVars, sessionVars, Rest

\* A creation that begins keeps types and names.
LEMMA CreateBeginsNames ==
  ASSUME NamesInv, NEW c \in Slots, NEW s \in Sessions, CreateBegins(c, s), UNCHANGED nodeVars
  PROVE  NamesInv'
<1> USE DEF NamesInv
<1>1. SandboxTypeOK /\ NamesFit /\ ProviderTypeOK
  BY DEF SandboxTypeOK
<1>2. PICK r : r \in Call /\ Moves(c, r) /\ r.op = "create" /\ r.owner = s /\ r.at = "create" /\ r.id = None
  BY <1>1, BeginsIs DEF CreateBegins, Owners, Ops, Awaits
<1>3. Shape(r) /\ (r # Idle => r.id = None \/ MadeFor(r.id, r.owner))
  BY <1>1, <1>2 DEF Shape
<1>4. NamesFit' /\ call' \in [Slots -> {Idle} \cup Call]
  BY <1>1, <1>2, <1>3, QuietNames DEF CreateBegins, cacheVars, serviceVars, historyVars, nodeVars,
      sessionVars, Rest
<1> QED BY <1>1, <1>4 DEF CreateBegins, SandboxTypeOK, ProviderTypeOK, NodeTypeOK, SessionTypeOK,
      cacheVars, serviceVars, historyVars, nodeVars, sessionVars, Rest

\* A destruction keeps types and names.
LEMMA DestroyEndsNames ==
  ASSUME NamesInv, NEW c \in Slots, DestroyEnds(c), UNCHANGED nodeVars
  PROVE  NamesInv'
<1> USE DEF NamesInv
<1>1. SandboxTypeOK /\ NamesFit /\ ProviderTypeOK
  BY DEF SandboxTypeOK
<1>2. PICK r : Moves(c, r) /\ r = Idle
  BY <1>1, ReturnIs DEF DestroyEnds
<1>3. Shape(r) /\ (r # Idle => r.id = None \/ MadeFor(r.id, r.owner))
  BY <1>1, <1>2 DEF Shape
<1>4. NamesFit' /\ call' \in [Slots -> {Idle} \cup Call]
  BY <1>1, <1>2, <1>3, QuietNames DEF DestroyEnds, cacheVars, serviceVars, historyVars, nodeVars,
      sessionVars, Rest
<1>5. call[c].owner \in Sessions /\ call[c].id \in Instances
  BY <1>1, CallIs DEF DestroyEnds, At, Reached, Shape
<1>6. CASE Kill(call[c].id)
  BY <1>1, <1>4, <1>5, <1>6, KillTypes DEF DestroyEnds, SandboxTypeOK, ProviderTypeOK, NodeTypeOK,
      SessionTypeOK, nodeVars, sessionVars, Rest, Statuses
<1>7. CASE ~Kill(call[c].id)
  BY <1>1, <1>4, <1>5, <1>7, FaultType DEF DestroyEnds, SandboxTypeOK, ProviderTypeOK, NodeTypeOK,
      SessionTypeOK, nodeVars, sessionVars, Rest, Statuses
<1> QED BY <1>1, <1>4, <1>5, <1>6, <1>7 DEF DestroyEnds, SandboxTypeOK, ProviderTypeOK, NodeTypeOK,
      SessionTypeOK, cacheVars, serviceVars, historyVars, nodeVars, sessionVars, Rest

\* A stop keeps types and names.
LEMMA StopEndsNames ==
  ASSUME NamesInv, NEW c \in Slots, StopEnds(c), UNCHANGED nodeVars
  PROVE  NamesInv'
<1> USE DEF NamesInv
<1>1. SandboxTypeOK /\ NamesFit /\ ProviderTypeOK
  BY DEF SandboxTypeOK
<1>2. PICK r : Moves(c, r) /\ r = Idle
  BY <1>1, ReturnIs DEF StopEnds
<1>3. Shape(r) /\ (r # Idle => r.id = None \/ MadeFor(r.id, r.owner))
  BY <1>1, <1>2 DEF Shape
<1>4. NamesFit' /\ call' \in [Slots -> {Idle} \cup Call]
  BY <1>1, <1>2, <1>3, QuietNames DEF StopEnds, cacheVars, serviceVars, historyVars, nodeVars, sessionVars,
      Rest
<1>5. call[c].owner \in Sessions /\ call[c].id \in Instances
  BY <1>1, CallIs DEF StopEnds, At, Reached, Shape
<1>6. faults' \in 0..MaxFaults
  BY <1>1, FaultType DEF StopEnds
<1>7. "paused" \in States
  BY DEF States
<1> QED BY <1>1, <1>4, <1>5, <1>6, <1>7 DEF StopEnds, SandboxTypeOK, ProviderTypeOK, NodeTypeOK,
      SessionTypeOK, Statuses, cacheVars, serviceVars, historyVars, nodeVars, sessionVars, Rest

\* A status that is read keeps types and names.
LEMMA GetEndsNames ==
  ASSUME NamesInv, NEW c \in Slots, GetEnds(c), UNCHANGED nodeVars
  PROVE  NamesInv'
<1> USE DEF NamesInv
<1>1. SandboxTypeOK /\ NamesFit /\ ProviderTypeOK
  BY DEF SandboxTypeOK
<1>2. PICK r : Moves(c, r) /\ r = Idle
  BY <1>1, ReturnIs DEF GetEnds
<1>3. Shape(r) /\ (r # Idle => r.id = None \/ MadeFor(r.id, r.owner))
  BY <1>1, <1>2 DEF Shape
<1>4. NamesFit' /\ call' \in [Slots -> {Idle} \cup Call]
  BY <1>1, <1>2, <1>3, QuietNames DEF GetEnds, cacheVars, serviceVars, historyVars, nodeVars, sessionVars,
      Rest
<1>5. call[c].owner \in Sessions /\ call[c].id \in Instances
  BY <1>1, CallIs DEF GetEnds, At, Reached, Shape
<1>6. faults' \in 0..MaxFaults
  BY <1>1, FaultType DEF GetEnds
<1>7. StatusOf(call[c].id) \in Statuses
  BY DEF StatusOf, OpenSandboxStatus, CloudflareStatus, Statuses
<1> QED BY <1>1, <1>4, <1>5, <1>6, <1>7 DEF GetEnds, SandboxTypeOK, ProviderTypeOK, NodeTypeOK,
      SessionTypeOK, cacheVars, serviceVars, historyVars, nodeVars, sessionVars, Rest

\* Work in a session that ends keeps types and names.
LEMMA UseEndsNames ==
  ASSUME NamesInv, NEW c \in Slots, UseEnds(c), UNCHANGED nodeVars
  PROVE  NamesInv'
<1> USE DEF NamesInv
<1>1. SandboxTypeOK /\ NamesFit /\ ProviderTypeOK
  BY DEF SandboxTypeOK
<1>2. PICK r : Moves(c, r) /\ r = Idle
  BY <1>1, ReturnIs DEF UseEnds
<1>3. Shape(r) /\ (r # Idle => r.id = None \/ MadeFor(r.id, r.owner))
  BY <1>1, <1>2 DEF Shape
<1>4. NamesFit' /\ call' \in [Slots -> {Idle} \cup Call]
  BY <1>1, <1>2, <1>3, QuietNames DEF UseEnds, cacheVars, serviceVars, historyVars, nodeVars, sessionVars,
      Rest
<1> QED BY <1>1, <1>4 DEF UseEnds, SandboxTypeOK, ProviderTypeOK, NodeTypeOK, SessionTypeOK, cacheVars,
      serviceVars, historyVars, nodeVars, sessionVars, Rest

\* Work in a session that begins keeps types and names.
LEMMA UseConnectsNames ==
  ASSUME NamesInv, NEW c \in Slots, UseConnects(c), UNCHANGED nodeVars
  PROVE  NamesInv'
<1> USE DEF NamesInv
<1>1. SandboxTypeOK /\ NamesFit /\ ProviderTypeOK
  BY DEF SandboxTypeOK
<1>2. PICK r : \/ Moves(c, r) /\ r = Idle
             \/ /\ r \in Call /\ Moves(c, r) /\ r.owner = call[c].owner /\ r.op = call[c].op
                   /\ r.svc = call[c].svc
                /\ r.at = "work" /\ r.id = call[c].id
  BY <1>1, GoToIs, ReturnIs DEF UseConnects, At, Reached, Awaits
<1>3. Shape(r) /\ (r # Idle => r.id = None \/ MadeFor(r.id, r.owner))
  BY <1>1, <1>2 DEF UseConnects, At, Reached, Shape, NamesFit
<1>4. NamesFit' /\ call' \in [Slots -> {Idle} \cup Call]
  BY <1>1, <1>2, <1>3, QuietNames DEF UseConnects, cacheVars, serviceVars, historyVars, nodeVars,
      sessionVars, Rest
<1> QED BY <1>1, <1>4 DEF UseConnects, SandboxTypeOK, ProviderTypeOK, NodeTypeOK, SessionTypeOK, cacheVars,
      serviceVars, historyVars, nodeVars, sessionVars, Rest

\* A task that has its sandbox keeps types and names.
LEMMA TaskCreatedNames ==
  ASSUME NamesInv, NEW c \in Slots, TaskCreated(c), UNCHANGED sessionVars
  PROVE  NamesInv'
<1> USE DEF NamesInv
<1>1. SandboxTypeOK /\ NamesFit /\ ProviderTypeOK /\ call[c] # Idle /\ call[c].op = "task"
      /\ call[c].owner \in Owners
  BY CallIs DEF SandboxTypeOK, TaskCreated, At, Reached
<1>2. PICK i \in Instances : i = NewInstance(call[c].owner) /\ GoWith(c, "work", i)
  BY <1>1, MakeIs DEF TaskCreated
<1>3. PICK r \in Call : Moves(c, r) /\ r.owner = call[c].owner /\ r.op = call[c].op /\ r.at = "work"
                        /\ r.id = i
  BY <1>1, <1>2, GoWithIs DEF Awaits
<1>4. Shape(r) /\ MadeFor(r.id, r.owner)'
  BY <1>1, <1>2, <1>3, CallIs, MakeIs, IdleIsNoCall DEF Shape, TaskCreated
<1>5. /\ state' \in [Instances -> States] /\ made' \in [Owners -> 0..MaxMade]
      /\ \A p \in Owners : made[p] <= made'[p]
      /\ provider = "cloudflare" => \A p \in Owners : made'[p] <= 1
  BY <1>1, MakeIs DEF TaskCreated
<1>6. NamesFit' /\ call' \in [Slots -> {Idle} \cup Call]
  BY <1>1, <1>3, <1>4, <1>5, CallNames DEF TaskCreated, nodeVars, sessionVars
<1> QED BY <1>1, <1>5, <1>6 DEF TaskCreated, SandboxTypeOK, ProviderTypeOK, NodeTypeOK, SessionTypeOK,
      nodeVars, sessionVars

\* A task whose sandbox cannot be created keeps types and names.
LEMMA TaskCreateFailsNames ==
  ASSUME NamesInv, NEW c \in Slots, TaskCreateFails(c), UNCHANGED sessionVars
  PROVE  NamesInv'
<1> USE DEF NamesInv
<1>1. SandboxTypeOK /\ NamesFit /\ ProviderTypeOK /\ call[c] # Idle /\ call[c].owner \in Owners
  BY CallIs DEF SandboxTypeOK, TaskCreateFails, At, Reached
<1>2. Moves(c, Idle) /\ Shape(Idle)
  BY ReturnIs DEF TaskCreateFails, Shape
<1>3. /\ state' \in [Instances -> States] /\ made' \in [Owners -> 0..MaxMade] /\ lost' \in SUBSET Instances
      /\ faults' \in 0..MaxFaults
      /\ \A p \in Owners : made[p] <= made'[p]
      /\ provider = "cloudflare" => \A p \in Owners : made'[p] <= 1
  BY <1>1, MakeFailsIs DEF TaskCreateFails
<1>4. NamesFit' /\ call' \in [Slots -> {Idle} \cup Call]
  BY <1>1, <1>2, <1>3, CallNames DEF TaskCreateFails, nodeVars, sessionVars
<1> QED BY <1>1, <1>3, <1>4 DEF TaskCreateFails, SandboxTypeOK, ProviderTypeOK, NodeTypeOK, SessionTypeOK,
      nodeVars, sessionVars

\* One that cannot be made keeps types and names.
LEMMA EnsureCreateFailsNames ==
  ASSUME NamesInv, NEW c \in Slots, EnsureCreateFails(c), UNCHANGED sessionVars
  PROVE  NamesInv'
<1> USE DEF NamesInv
<1>1. /\ SandboxTypeOK /\ NamesFit /\ ProviderTypeOK /\ call[c] # Idle /\ call[c].owner \in Owners
      /\ Service(c) \in AllServices
  BY CallIs DEF SandboxTypeOK, EnsureCreateFails, Reached
<1>2. Moves(c, Idle) /\ Shape(Idle)
  BY ReturnIs DEF EnsureCreateFails, Shape
<1>3. /\ state' \in [Instances -> States] /\ made' \in [Owners -> 0..MaxMade] /\ lost' \in SUBSET Instances
      /\ faults' \in 0..MaxFaults
      /\ \A p \in Owners : made[p] <= made'[p]
      /\ provider = "cloudflare" => \A p \in Owners : made'[p] <= 1
  BY <1>1, MakeFailsIs DEF EnsureCreateFails
<1>4. NamesFit' /\ call' \in [Slots -> {Idle} \cup Call]
  BY <1>1, <1>2, <1>3, CallNames DEF EnsureCreateFails, cacheVars, sessionVars
<1> QED BY <1>1, <1>3, <1>4 DEF EnsureCreateFails, SandboxTypeOK, ProviderTypeOK, NodeTypeOK,
      SessionTypeOK, cacheVars, serviceVars, sessionVars, NoteError

\* An instance made for a node keeps types and names.
LEMMA EnsureCreatedNames ==
  ASSUME NamesInv, NEW c \in Slots, EnsureCreated(c), UNCHANGED sessionVars
  PROVE  NamesInv'
<1> USE DEF NamesInv
<1>1. /\ SandboxTypeOK /\ NamesFit /\ ProviderTypeOK /\ call[c] # Idle
         /\ call[c].op \in {"launch", "restart"}
      /\ call[c].owner \in Owners /\ call[c].owner \in Nodes /\ call[c].svc \in Services
  BY CallIs DEF SandboxTypeOK, EnsureCreated, Reached, Shape
<1>2. PICK n \in Nodes : n = call[c].owner
  BY <1>1
<1>3. PICK i \in Instances : i = NewInstance(n)
  BY <1>1, <1>2, MakeIs DEF EnsureCreated
<1>4. Make(n) /\ nodeInstances' = [nodeInstances EXCEPT ![n] = i] /\ GoOn(c, i)
  BY <1>2, <1>3 DEF EnsureCreated
<1>5. /\ state' \in [Instances -> States] /\ made' \in [Owners -> 0..MaxMade]
      /\ \A p \in Owners : made[p] <= made'[p]
      /\ provider = "cloudflare" => \A p \in Owners : made'[p] <= 1
      /\ MadeFor(i, n)'
  BY <1>1, <1>2, <1>3, <1>4, MakeIs
<1>6. PICK r : /\ Moves(c, r) /\ Shape(r)
               /\ r # Idle => r.id = i /\ r.owner = n
  <2>1. CASE Moves(c, Idle)
    BY <2>1 DEF Shape
  <2>2. CASE ~Moves(c, Idle)
    <3>1. PICK r \in Call : Moves(c, r) /\ Shape(r) /\ r.owner = call[c].owner /\ r.id = i
      BY <1>1, <1>4, <2>2, GoOnIs
    <3> QED BY <1>2, <3>1
  <2> QED BY <2>1, <2>2
<1>7. \A m \in Nodes : nodeInstances'[m] = nodeInstances[m] \/ MadeFor(nodeInstances[m], m)'
  BY <1>1, <1>4, <1>5 DEF SandboxTypeOK, NodeTypeOK, MadeFor
<1>8. r # Idle => MadeFor(r.id, r.owner)'
  BY <1>5, <1>6
<1>9. NamesFit' /\ call' \in [Slots -> {Idle} \cup Call]
  BY <1>1, <1>5, <1>6, <1>7, <1>8, CallNames DEF EnsureCreated, sessionVars
<1> QED BY <1>1, <1>4, <1>5, <1>9 DEF EnsureCreated, SandboxTypeOK, ProviderTypeOK, NodeTypeOK,
      SessionTypeOK, serviceVars, historyVars, sessionVars

\* A connection to the instance of a node keeps types and names.
LEMMA EnsureConnectedNames ==
  ASSUME NamesInv, NEW c \in Slots, EnsureConnected(c), UNCHANGED sessionVars
  PROVE  NamesInv'
<1> USE DEF NamesInv
<1>1. /\ SandboxTypeOK /\ NamesFit /\ ProviderTypeOK /\ call[c] # Idle
         /\ call[c].op \in {"launch", "restart"}
      /\ call[c].id \in Instances /\ call[c].at = "connect" /\ Shape(call[c])
         /\ MadeFor(call[c].id, call[c].owner)
  BY CallIs, IdleIsNoCall DEF SandboxTypeOK, EnsureConnected, Reached, NamesFit
<1>2. PICK i \in Instances : i = call[c].id /\ GoOn(c, i)
  BY <1>1 DEF EnsureConnected
<1>3. PICK r : /\ Moves(c, r) /\ Shape(r)
               /\ r # Idle => r.id = i /\ r.owner = call[c].owner
  <2>1. CASE Moves(c, Idle)
    BY <2>1 DEF Shape
  <2>2. CASE ~Moves(c, Idle)
    <3>1. PICK r \in Call : Moves(c, r) /\ Shape(r) /\ r.owner = call[c].owner /\ r.id = i
      BY <1>1, <1>2, <2>2, GoOnIs
    <3> QED BY <1>2, <3>1
  <2> QED BY <2>1, <2>2
<1>4. NamesFit' /\ call' \in [Slots -> {Idle} \cup Call]
  BY <1>1, <1>2, <1>3, QuietNames DEF EnsureConnected, nodeVars, sessionVars
<1> QED BY <1>1, <1>4 DEF EnsureConnected, SandboxTypeOK, ProviderTypeOK, NodeTypeOK, SessionTypeOK,
      nodeVars, sessionVars

\* A call that goes on with ensureNodeConnection.
LEMMA EnsureNames ==
  ASSUME SandboxTypeOK, NamesFit, NEW c \in Slots, NEW op \in {"launch", "restart"}, NEW n \in Nodes,
         NEW s \in Services,
         Await(c, Ensuring(op, n, s)), UNCHANGED <<made, provider, ref, nodeInstances>>
  PROVE  NamesFit' /\ call' \in [Slots -> {Idle} \cup Call]
<1>1. PICK r \in Call : r = Ensuring(op, n, s) /\ r.owner = n /\ r.id = nodeInstances[n] /\ Shape(r)
  BY EnsuringIs
<1>2. Moves(c, r)
  BY <1>1 DEF Await, Moves
<1>3. r.id = None \/ MadeFor(r.id, r.owner)
  BY <1>1 DEF NamesFit
<1> QED BY <1>1, <1>2, <1>3, QuietNames

\* A call that begins with the instance that its node or session has.
LEMMA BeginWithNames ==
  ASSUME SandboxTypeOK, NamesFit, NEW c \in Slots, NEW r \in Call, Moves(c, r), Shape(r),
         MadeFor(r.id, r.owner),
         UNCHANGED <<made, provider, ref>>, \A n \in Nodes : nodeInstances'[n] \in {None, nodeInstances[n]}
  PROVE  NamesFit' /\ call' \in [Slots -> {Idle} \cup Call]
BY QuietNames

\* A launch that begins keeps types and names.
LEMMA LaunchBeginsNames ==
  ASSUME NamesInv, NEW c \in Slots, NEW n \in Nodes, NEW s \in Services, LaunchBegins(c, n, s),
         UNCHANGED sessionVars
  PROVE  NamesInv'
<1>1. NamesFit' /\ call' \in [Slots -> {Idle} \cup Call]
  BY EnsureNames DEF NamesInv, LaunchBegins, cacheVars, sessionVars
<1>2. racedNodes' \in SUBSET Nodes /\ raced' \in SUBSET AllServices
  BY DEF NamesInv, LaunchBegins, NoteCreation, NoteCall, SandboxTypeOK, NodeTypeOK, AllServices
<1> QED BY <1>1, <1>2 DEF NamesInv, LaunchBegins, SandboxTypeOK, ProviderTypeOK, NodeTypeOK, SessionTypeOK,
      cacheVars, serviceVars, sessionVars

\* The record of a revocation or restart that disposes of the instance of its node.
LEMMA DisposeBeginsIs ==
  ASSUME SandboxTypeOK, NamesFit, NEW c \in Slots, NEW op \in {"revoke", "restart"}, NEW n \in Nodes,
         NEW s \in Services,
         nodeInstances[n] # None, DisposeBegins(c, op, n, s)
  PROVE  /\ nodeInstances' = [nodeInstances EXCEPT ![n] = None]
         /\ \E r \in Call :
              /\ Moves(c, r) /\ Shape(r)
              /\ r.op = op /\ r.owner = n /\ r.svc = s /\ r.at = "kill" /\ r.id = nodeInstances[n]
                 /\ r.read = {}
<1>1. PICK i \in Instances : i = nodeInstances[n]
  BY DEF SandboxTypeOK, NodeTypeOK
<1>2. n \in Owners /\ op \in Ops /\ s \in Services \cup {None} /\ "kill" \in Awaits /\ i # None
  BY IdleIsNoCall DEF Owners, Ops, Awaits
<1>3. PICK r \in Call :
        /\ Moves(c, r)
        /\ r.op = op /\ r.owner = n /\ r.svc = s /\ r.at = "kill" /\ r.id = i /\ r.read = {}
  BY <1>1, <1>2, BeginsWithIs DEF DisposeBegins
<1>4. Shape(r)
  BY <1>2, <1>3 DEF Shape
<1> QED BY <1>1, <1>3, <1>4 DEF DisposeBegins

\* That of one that first removes the port and the process of its service.
LEMMA CloudflareRevokeIs ==
  ASSUME SandboxTypeOK, NamesFit, NEW c \in Slots, NEW op \in {"revoke", "restart"}, NEW n \in Nodes,
         NEW s \in Services,
         CloudflareRevoke(c, op, n, s)
  PROVE  \E r \in Call :
           /\ Moves(c, r) /\ Shape(r)
           /\ r.op = op /\ r.owner = n /\ r.svc = s /\ r.at = "unexpose" /\ r.id = nodeInstances[n]
           /\ ("port" \in r.read) <=> (<<n, s>> \in servicePorts)
           /\ ("process" \in r.read) <=> (<<n, s>> \in serviceProcesses)
<1>1. PICK i \in Instances : i = nodeInstances[n]
  BY DEF SandboxTypeOK, NodeTypeOK, CloudflareRevoke
<1>2. n \in Owners /\ op \in Ops /\ s \in Services \cup {None} /\ "unexpose" \in Awaits /\ i # None
  BY IdleIsNoCall DEF Owners, Ops, Awaits
<1>3. PICK read \in SUBSET {"port", "process"} :
        read = {r \in {"port", "process"} :
                  <<n, s>> \in IF r = "port" THEN servicePorts ELSE serviceProcesses}
  OBVIOUS
<1>4. PICK b \in Call : b = Begin(op, n, s, "unexpose")
  BY <1>2, BeginIs
<1>5. b = [op |-> op, owner |-> n, svc |-> s, at |-> "unexpose", id |-> None, read |-> {}]
  BY <1>2, <1>4, BeginIs
<1>6. PICK r \in Call : r = [b EXCEPT !.id = i, !.read = read]
  BY <1>4 DEF Call
<1>7. r.id = i /\ r.read = read
  BY <1>4, <1>6 DEF Call
<1>8. b.op = op /\ b.owner = n /\ b.svc = s /\ b.at = "unexpose"
  BY <1>5
<1>9. r.op = op /\ r.owner = n /\ r.svc = s /\ r.at = "unexpose"
  BY <1>4, <1>6, <1>8 DEF Call
<1>10. call' = [call EXCEPT ![c] = r]
  BY <1>1, <1>3, <1>4, <1>6 DEF CloudflareRevoke, Await
<1>11. Shape(r)
  BY <1>2, <1>7, <1>9 DEF Shape
<1>12. ("port" \in r.read <=> <<n, s>> \in servicePorts)
       /\ ("process" \in r.read <=> <<n, s>> \in serviceProcesses)
  BY <1>3, <1>7
<1> QED BY <1>1, <1>6, <1>7, <1>9, <1>10, <1>11, <1>12 DEF Moves

\* A revocation that begins keeps types and names.
LEMMA RevokeBeginsNames ==
  ASSUME NamesInv, NEW c \in Slots, NEW n \in Nodes, NEW s \in Services, RevokeBegins(c, n, s),
         UNCHANGED sessionVars
  PROVE  NamesInv'
<1>1. SandboxTypeOK /\ NamesFit
  BY DEF NamesInv
<1>2. raced' \in SUBSET AllServices
  BY DEF NamesInv, RevokeBegins, NoteCall, SandboxTypeOK, NodeTypeOK, AllServices
<1>3. nodeInstances[n] # None => MadeFor(nodeInstances[n], n)
  BY <1>1 DEF NamesFit
<1>4. CASE provider = "cloudflare"
  <2>1. CloudflareRevoke(c, "revoke", n, s) /\ UNCHANGED <<cacheVars, racedNodes>>
    BY <1>4 DEF RevokeBegins
  <2>2. PICK r \in Call :
          /\ Moves(c, r) /\ Shape(r)
          /\ r.op = "revoke" /\ r.owner = n /\ r.svc = s /\ r.at = "unexpose" /\ r.id = nodeInstances[n]
          /\ ("port" \in r.read) <=> (<<n, s>> \in servicePorts)
          /\ ("process" \in r.read) <=> (<<n, s>> \in serviceProcesses)
    BY <1>1, <2>1, CloudflareRevokeIs, Zenon
  <2>3. NamesFit' /\ call' \in [Slots -> {Idle} \cup Call]
    BY <1>1, <1>3, <2>1, <2>2, BeginWithNames DEF RevokeBegins, CloudflareRevoke, cacheVars, sessionVars
  <2> QED BY <1>1, <1>2, <2>1, <2>3 DEF NamesInv, RevokeBegins, SandboxTypeOK, ProviderTypeOK, NodeTypeOK,
        SessionTypeOK, cacheVars, serviceVars, sessionVars
<1>5. CASE provider # "cloudflare"
  <2>1. nodeInstances[n] # None /\ DisposeBegins(c, "revoke", n, s)
        /\ UNCHANGED <<serviceProcesses, servicePorts, racedNodes>>
    BY <1>5 DEF RevokeBegins, OpenSandboxRevoke
  <2>2. /\ nodeInstances' = [nodeInstances EXCEPT ![n] = None]
        /\ \E r \in Call : Moves(c, r) /\ Shape(r) /\ r.owner = n /\ r.id = nodeInstances[n]
    BY <1>1, <2>1, DisposeBeginsIs
  <2>3. NamesFit' /\ call' \in [Slots -> {Idle} \cup Call]
    BY <1>1, <1>3, <2>1, <2>2, BeginWithNames DEF RevokeBegins, sessionVars, SandboxTypeOK, NodeTypeOK
  <2> QED BY <1>1, <1>2, <2>1, <2>2, <2>3 DEF NamesInv, RevokeBegins, SandboxTypeOK, ProviderTypeOK,
        NodeTypeOK, SessionTypeOK, serviceVars, sessionVars
<1> QED BY <1>4, <1>5

\* A restart of a service that begins keeps types and names.
LEMMA RestartBeginsNames ==
  ASSUME NamesInv, NEW c \in Slots, NEW n \in Nodes, NEW s \in Services, RestartBegins(c, n, s),
         UNCHANGED sessionVars
  PROVE  NamesInv'
<1>1. SandboxTypeOK /\ NamesFit
  BY DEF NamesInv
<1>2. raced' \in SUBSET AllServices
  BY DEF NamesInv, RestartBegins, NoteCall, SandboxTypeOK, NodeTypeOK, AllServices
<1>3. nodeInstances[n] # None => MadeFor(nodeInstances[n], n)
  BY <1>1 DEF NamesFit
<1>4. CASE Await(c, Ensuring("restart", n, s)) /\ NoteCreation(c, n) /\ UNCHANGED cacheVars
  <2>1. NamesFit' /\ call' \in [Slots -> {Idle} \cup Call]
    BY <1>1, <1>4, EnsureNames DEF RestartBegins, cacheVars, sessionVars
  <2>2. racedNodes' \in SUBSET Nodes
    BY <1>1, <1>4 DEF NoteCreation, SandboxTypeOK, NodeTypeOK
  <2> QED BY <1>1, <1>2, <1>4, <2>1, <2>2 DEF NamesInv, RestartBegins, SandboxTypeOK, ProviderTypeOK,
        NodeTypeOK, SessionTypeOK, cacheVars, serviceVars, sessionVars
<1>5. CASE CloudflareRevoke(c, "restart", n, s) /\ UNCHANGED <<cacheVars, racedNodes>>
  <2>2. PICK r \in Call :
          /\ Moves(c, r) /\ Shape(r)
          /\ r.op = "restart" /\ r.owner = n /\ r.svc = s /\ r.at = "unexpose" /\ r.id = nodeInstances[n]
          /\ ("port" \in r.read) <=> (<<n, s>> \in servicePorts)
          /\ ("process" \in r.read) <=> (<<n, s>> \in serviceProcesses)
    BY <1>1, <1>5, CloudflareRevokeIs, Zenon
  <2>3. NamesFit' /\ call' \in [Slots -> {Idle} \cup Call]
    BY <1>1, <1>3, <1>5, <2>2, BeginWithNames DEF RestartBegins, CloudflareRevoke, cacheVars, sessionVars
  <2> QED BY <1>1, <1>2, <1>5, <2>3 DEF NamesInv, RestartBegins, SandboxTypeOK, ProviderTypeOK, NodeTypeOK,
        SessionTypeOK, cacheVars, serviceVars, sessionVars
<1>6. CASE nodeInstances[n] # None /\ DisposeBegins(c, "restart", n, s)
           /\ UNCHANGED <<serviceProcesses, servicePorts, racedNodes>>
  <2>2. /\ nodeInstances' = [nodeInstances EXCEPT ![n] = None]
        /\ \E r \in Call : Moves(c, r) /\ Shape(r) /\ r.owner = n /\ r.id = nodeInstances[n]
    BY <1>1, <1>6, DisposeBeginsIs
  <2>3. NamesFit' /\ call' \in [Slots -> {Idle} \cup Call]
    BY <1>1, <1>3, <1>6, <2>2, BeginWithNames DEF RestartBegins, sessionVars, SandboxTypeOK, NodeTypeOK
  <2> QED BY <1>1, <1>2, <1>6, <2>2, <2>3 DEF NamesInv, RestartBegins, SandboxTypeOK, ProviderTypeOK,
        NodeTypeOK, SessionTypeOK, serviceVars, sessionVars
<1> QED BY <1>4, <1>5, <1>6 DEF RestartBegins, CloudflareRestart, OpenSandboxRestart, cacheVars

\* A revocation that has ended, or a restart that goes on with a launch.
LEMMA AfterRevocation ==
  ASSUME SandboxTypeOK, NamesFit, NEW c \in Slots, call[c] # Idle, call[c].op \in {"revoke", "restart"},
         IF call[c].op = "revoke"
         THEN Return(c) /\ UNCHANGED racedNodes
         ELSE Await(c, Ensuring("restart", call[c].owner, call[c].svc)) /\ NoteCreation(c, call[c].owner),
         UNCHANGED <<made, provider, ref, nodeInstances>>
  PROVE  /\ NamesFit' /\ call' \in [Slots -> {Idle} \cup Call]
         /\ racedNodes' \in SUBSET Nodes /\ racedNodes \subseteq racedNodes'
<1>1. call[c].owner \in Nodes /\ call[c].svc \in Services
  BY CallIs DEF SandboxTypeOK, Shape
<1>2. CASE call[c].op = "revoke"
  <2>1. Return(c) /\ UNCHANGED racedNodes
    BY <1>2
  <2>2. Moves(c, Idle) /\ Shape(Idle)
    BY <2>1, ReturnIs DEF Shape
  <2>3. NamesFit' /\ call' \in [Slots -> {Idle} \cup Call]
    BY <2>2, QuietNames
  <2> QED BY <2>1, <2>3 DEF SandboxTypeOK, NodeTypeOK
<1>3. CASE call[c].op # "revoke"
  <2>1. Await(c, Ensuring("restart", call[c].owner, call[c].svc)) /\ NoteCreation(c, call[c].owner)
    BY <1>3
  <2>2. NamesFit' /\ call' \in [Slots -> {Idle} \cup Call]
    BY <1>1, <2>1, EnsureNames
  <2>3. racedNodes' \in SUBSET Nodes /\ racedNodes \subseteq racedNodes'
    BY <1>1, <2>1 DEF NoteCreation, SandboxTypeOK, NodeTypeOK
  <2> QED BY <2>2, <2>3
<1> QED BY <1>2, <1>3

\* The end of an instance that was disposed of keeps types and names.
LEMMA DisposedNames ==
  ASSUME NamesInv, NEW c \in Slots, Disposed(c), UNCHANGED sessionVars
  PROVE  NamesInv'
<1>1. SandboxTypeOK /\ NamesFit /\ call[c] # Idle /\ call[c].op \in {"revoke", "restart"}
      /\ call[c].id \in Instances
  BY CallIs DEF NamesInv, Disposed, Reached, SandboxTypeOK
<1>2. /\ NamesFit' /\ call' \in [Slots -> {Idle} \cup Call]
      /\ racedNodes' \in SUBSET Nodes
  BY <1>1, AfterRevocation DEF Disposed, sessionVars, cacheVars
<1>3. state' \in [Instances -> States] /\ lost' \in SUBSET Instances /\ faults' \in 0..MaxFaults
  BY <1>1, KillTypes DEF Disposed
<1> QED BY <1>1, <1>2, <1>3 DEF NamesInv, Disposed, SandboxTypeOK, ProviderTypeOK, NodeTypeOK,
      SessionTypeOK, cacheVars, serviceVars, sessionVars

\* The end of a process keeps types and names.
LEMMA ProcessKilledNames ==
  ASSUME NamesInv, NEW c \in Slots, ProcessKilled(c), UNCHANGED sessionVars
  PROVE  NamesInv'
<1>1. /\ SandboxTypeOK /\ NamesFit /\ call[c] # Idle /\ call[c].op \in {"revoke", "restart"}
      /\ Service(c) \in AllServices
  BY CallIs DEF NamesInv, ProcessKilled, Reached, SandboxTypeOK
<1>2. /\ NamesFit' /\ call' \in [Slots -> {Idle} \cup Call]
      /\ racedNodes' \in SUBSET Nodes
  BY <1>1, AfterRevocation DEF ProcessKilled, sessionVars
<1>3. faults' \in 0..MaxFaults
  BY <1>1, FaultType DEF ProcessKilled
<1>4. process' \in [AllServices -> {"none", "starting", "listening"}] /\ erred' \in SUBSET AllServices
  BY <1>1 DEF ProcessKilled, NoteError, SandboxTypeOK, NodeTypeOK
<1> QED BY <1>1, <1>2, <1>3, <1>4 DEF NamesInv, ProcessKilled, SandboxTypeOK, ProviderTypeOK, NodeTypeOK,
      SessionTypeOK, sessionVars

\* A creation that fails keeps types and names.
LEMMA CreateFailsNames ==
  ASSUME NamesInv, NEW c \in Slots, At(c, "create", "create"), CreateFails(c), UNCHANGED nodeVars
  PROVE  NamesInv'
<1>1. SandboxTypeOK /\ NamesFit /\ call[c] # Idle /\ call[c].owner \in Owners
  BY CallIs DEF NamesInv, SandboxTypeOK, At, Reached
<1>2. Moves(c, Idle) /\ Shape(Idle)
  BY ReturnIs DEF CreateFails, Shape
<1>3. /\ state' \in [Instances -> States] /\ made' \in [Owners -> 0..MaxMade] /\ lost' \in SUBSET Instances
      /\ faults' \in 0..MaxFaults
      /\ \A p \in Owners : made[p] <= made'[p]
      /\ provider = "cloudflare" => \A p \in Owners : made'[p] <= 1
  BY <1>1, MakeFailsIs DEF CreateFails
<1>4. NamesFit' /\ call' \in [Slots -> {Idle} \cup Call]
  BY <1>1, <1>2, <1>3, CallNames DEF CreateFails, nodeVars, sessionVars, Rest
<1> QED BY <1>1, <1>3, <1>4 DEF NamesInv, CreateFails, SandboxTypeOK, ProviderTypeOK, NodeTypeOK,
      SessionTypeOK, nodeVars, sessionVars, Rest

\* A container that was created keeps types and names.
LEMMA DockerCreatedNames ==
  ASSUME NamesInv, NEW c \in Slots, At(c, "create", "create"), DockerCreated(c), UNCHANGED nodeVars
  PROVE  NamesInv'
<1>1. SandboxTypeOK /\ NamesFit /\ ProviderTypeOK /\ call[c] # Idle /\ call[c].op = "create"
      /\ call[c].owner \in Owners
  BY CallIs DEF NamesInv, SandboxTypeOK, At, Reached
<1>2. PICK i \in Instances : i = NewInstance(call[c].owner) /\ GoWith(c, "start", i)
  BY <1>1, MakeIs DEF DockerCreated
<1>3. PICK r \in Call : Moves(c, r) /\ r.owner = call[c].owner /\ r.op = call[c].op /\ r.at = "start"
                        /\ r.id = i
  BY <1>1, <1>2, GoWithIs DEF Awaits
<1>4. Shape(r) /\ MadeFor(r.id, r.owner)'
  BY <1>1, <1>2, <1>3, CallIs, MakeIs, IdleIsNoCall DEF Shape, DockerCreated
<1>5. /\ state' \in [Instances -> States] /\ made' \in [Owners -> 0..MaxMade]
      /\ \A p \in Owners : made[p] <= made'[p]
      /\ provider = "cloudflare" => \A p \in Owners : made'[p] <= 1
  BY <1>1, MakeIs DEF DockerCreated
<1>6. NamesFit' /\ call' \in [Slots -> {Idle} \cup Call]
  BY <1>1, <1>3, <1>4, <1>5, CallNames DEF DockerCreated, nodeVars, sessionVars, Rest
<1> QED BY <1>1, <1>5, <1>6 DEF NamesInv, DockerCreated, SandboxTypeOK, ProviderTypeOK, NodeTypeOK,
      SessionTypeOK, nodeVars, sessionVars, Rest

\* A sandbox that was created keeps types and names.
LEMMA SandboxCreatedNames ==
  ASSUME NamesInv, NEW c \in Slots, At(c, "create", "create"), SandboxCreated(c), UNCHANGED nodeVars
  PROVE  NamesInv'
<1>1. /\ SandboxTypeOK /\ NamesFit /\ call[c] # Idle /\ call[c].owner \in Owners
      /\ call[c].owner \in Sessions
  BY CallIs DEF NamesInv, SandboxTypeOK, At, Reached
<1>2. PICK s \in Sessions : s = call[c].owner
  BY <1>1
<1>3. PICK i \in Instances : i = NewInstance(s)
  BY <1>1, <1>2, MakeIs DEF SandboxCreated
<1>4. Make(s) /\ ref' = [ref EXCEPT ![s] = i] /\ told' = [told EXCEPT ![s] = "ready"]
  BY <1>2, <1>3 DEF SandboxCreated, Created
<1>5. /\ state' \in [Instances -> States] /\ made' \in [Owners -> 0..MaxMade]
      /\ \A p \in Owners : made[p] <= made'[p]
      /\ provider = "cloudflare" => \A p \in Owners : made'[p] <= 1
      /\ MadeFor(i, s)'
  BY <1>1, <1>2, <1>3, <1>4, MakeIs
<1>6. Moves(c, Idle) /\ Shape(Idle)
  BY ReturnIs DEF SandboxCreated, Shape
<1>7. \A x \in Sessions : ref'[x] = ref[x] \/ MadeFor(ref[x], x)'
  BY <1>1, <1>4, <1>5 DEF SandboxTypeOK, SessionTypeOK, MadeFor
<1>8. NamesFit' /\ call' \in [Slots -> {Idle} \cup Call]
  BY <1>1, <1>5, <1>6, <1>7, CallNames DEF SandboxCreated, nodeVars, Rest
<1> QED BY <1>1, <1>4, <1>5, <1>8 DEF NamesInv, SandboxCreated, SandboxTypeOK, ProviderTypeOK, NodeTypeOK,
      SessionTypeOK, Statuses, nodeVars, Rest

\* A container that starts keeps types and names.
LEMMA DockerStartsNames ==
  ASSUME NamesInv, NEW c \in Slots, DockerStarts(c), UNCHANGED nodeVars
  PROVE  NamesInv'
<1>1. /\ SandboxTypeOK /\ NamesFit /\ call[c] # Idle /\ call[c].owner \in Owners
         /\ call[c].owner \in Sessions
      /\ call[c].id \in Instances /\ MadeFor(call[c].id, call[c].owner)
  BY CallIs, IdleIsNoCall DEF NamesInv, SandboxTypeOK, DockerStarts, At, Reached, NamesFit
<1>2. PICK s \in Sessions, i \in Instances : s = call[c].owner /\ i = call[c].id
  BY <1>1
<1>3. Moves(c, Idle) /\ Shape(Idle)
  BY ReturnIs DEF DockerStarts, Shape
<1>4. \/ ref' = [ref EXCEPT ![s] = i] /\ told' = [told EXCEPT ![s] = "ready"] /\ UNCHANGED <<lost, faults>>
      \/ UNCHANGED sessionVars /\ lost' = lost \cup {i} /\ (Fault \/ NoFault)
  BY <1>2 DEF DockerStarts, Created
<1>5. faults' \in 0..MaxFaults /\ lost' \in SUBSET Instances
  BY <1>1, <1>4, FaultType DEF SandboxTypeOK, ProviderTypeOK
<1>6. UNCHANGED <<made, provider, state, crashes>>
  BY DEF DockerStarts, Rest
<1>7. \A x \in Sessions : ref'[x] = ref[x] \/ MadeFor(ref[x], x)'
  BY <1>1, <1>2, <1>4, <1>6 DEF SandboxTypeOK, SessionTypeOK, MadeFor, sessionVars
<1>8. /\ made' \in [Owners -> 0..MaxMade] /\ \A p \in Owners : made[p] <= made'[p]
      /\ provider = "cloudflare" => \A p \in Owners : made'[p] <= 1
  BY <1>1, <1>6, ProviderAssumption DEF SandboxTypeOK, ProviderTypeOK, NamesFit
<1>9. NamesFit' /\ call' \in [Slots -> {Idle} \cup Call]
  BY <1>1, <1>3, <1>6, <1>7, <1>8, CallNames DEF nodeVars
<1> QED BY <1>1, <1>4, <1>5, <1>6, <1>9 DEF NamesInv, SandboxTypeOK, ProviderTypeOK, NodeTypeOK,
      SessionTypeOK, Statuses, nodeVars, sessionVars

\* The record of a method that begins with the instance of its session.
LEMMA MethodBeginsIs ==
  ASSUME SandboxTypeOK, NamesFit, NEW c \in Slots, NEW s \in Sessions,
         NEW op \in {"destroy", "stop", "use"}, NEW at \in {"kill", "pause", "connect"},
         op = "use" <=> at = "connect", MethodBegins(c, op, s, at)
  PROVE  \E r \in Call :
           /\ Moves(c, r) /\ Shape(r)
           /\ r.op = op /\ r.owner = s /\ r.at = at /\ r.id = ref[s]
<1>1. PICK i \in Instances : i = ref[s]
  BY DEF SandboxTypeOK, SessionTypeOK, MethodBegins
<1>2. s \in Owners /\ op \in Ops /\ at \in Awaits /\ i # None /\ None \in Services \cup {None}
  BY IdleIsNoCall DEF Owners, Ops, Awaits
<1>3. Await(c, [Begin(op, s, None, at) EXCEPT !.id = i])
  BY <1>1 DEF MethodBegins
<1>4. PICK r \in Call :
        /\ Moves(c, r)
        /\ r.op = op /\ r.owner = s /\ r.svc = None /\ r.at = at /\ r.id = i /\ r.read = {}
  BY <1>2, <1>3, BeginsWithIs
<1>5. Shape(r)
  BY <1>2, <1>4 DEF Shape
<1> QED BY <1>1, <1>4, <1>5

\* Another method that begins keeps types and names.
LEMMA MethodBeginsNames ==
  ASSUME NamesInv, NEW c \in Slots, NEW s \in Sessions,
         NEW op \in {"destroy", "stop", "use"}, NEW at \in {"kill", "pause", "connect"},
         op = "use" <=> at = "connect", MethodBegins(c, op, s, at), UNCHANGED nodeVars
  PROVE  NamesInv'
<1>1. SandboxTypeOK /\ NamesFit
  BY DEF NamesInv
<1>2. PICK r \in Call : /\ Moves(c, r) /\ Shape(r)
                        /\ r.op = op /\ r.owner = s /\ r.at = at /\ r.id = ref[s]
  BY <1>1, MethodBeginsIs
<1>3. MadeFor(r.id, r.owner)
  BY <1>1, <1>2 DEF NamesFit, MethodBegins
<1>4. NamesFit' /\ call' \in [Slots -> {Idle} \cup Call]
  BY <1>1, <1>2, <1>3, BeginWithNames DEF MethodBegins, nodeVars, sessionVars, Rest
<1> QED BY <1>1, <1>4 DEF NamesInv, MethodBegins, SandboxTypeOK, ProviderTypeOK, NodeTypeOK, SessionTypeOK,
      nodeVars, sessionVars, Rest

\* A step that touches no name.
LEMMA SameNames ==
  ASSUME NamesFit, UNCHANGED <<call, made, provider, ref>>,
         \A n \in Nodes : nodeInstances'[n] \in {None, nodeInstances[n]}
  PROVE  NamesFit'
BY DEF NamesFit, MadeFor

\* An instance that ends by itself keeps types and names.
LEMMA InstanceEndsNames ==
  ASSUME NamesInv, NEW i \in Instances, InstanceEnds(i)
  PROVE  NamesInv'
<1>1. state' \in [Instances -> States]
  BY DEF NamesInv, InstanceEnds, End, States, SandboxTypeOK, ProviderTypeOK
<1>2. faults' \in 0..MaxFaults
  BY FaultType DEF NamesInv, InstanceEnds, End
<1>3. NodeTypeOK' /\ UNCHANGED nodeInstances
  <2>1. CASE i[1] \in Nodes /\ NodeEnds(i[1])
    BY <2>1 DEF NamesInv, SandboxTypeOK, NodeTypeOK, NodeEnds, cacheVars
  <2>2. CASE UNCHANGED nodeVars
    BY <2>2 DEF NamesInv, SandboxTypeOK, NodeTypeOK, nodeVars
  <2> QED BY <2>1, <2>2 DEF InstanceEnds
<1>4. NamesFit'
  BY <1>3, SameNames DEF NamesInv, InstanceEnds, End, sessionVars
<1> QED BY <1>1, <1>2, <1>3, <1>4 DEF NamesInv, InstanceEnds, End, SandboxTypeOK, ProviderTypeOK,
      SessionTypeOK, sessionVars

\* A restart of the server keeps types and names.
LEMMA CrashNames ==
  ASSUME NamesInv, Crash
  PROVE  NamesInv'
<1>1. lost' \in SUBSET Instances /\ crashes' \in 0..MaxCrashes /\ call' \in [Slots -> {Idle} \cup Call]
  BY ProviderAssumption DEF NamesInv, Crash, Restart, SandboxTypeOK, ProviderTypeOK
<1>2. NodeTypeOK'
  BY DEF NamesInv, Crash, NodeRestart, SandboxTypeOK, NodeTypeOK, serviceVars
<1>3. NamesFit'
  <2>1. \A c \in Slots : call'[c] = Idle
    BY DEF Crash, Restart
  <2>2. \A n \in Nodes : nodeInstances'[n] = None
    BY DEF Crash, NodeRestart
  <2>3. UNCHANGED <<ref, made, provider>>
    BY DEF Crash, Restart, sessionVars
  <2> QED BY <2>1, <2>2, <2>3 DEF NamesInv, NamesFit, MadeFor, Shape
<1> QED BY <1>1, <1>2, <1>3 DEF NamesInv, Crash, Restart, SandboxTypeOK, ProviderTypeOK, SessionTypeOK,
      sessionVars

-----------------------------------------------------------------------------
(* Sandboxes: what a step leaves alone. *)

\* The calls of the node adapters, and of the runtime adapters.
NodeOps == {"task", "launch", "revoke", "restart"}
SessionOps == {"create", "destroy", "stop", "use"}

\* The other slots keep their calls.
Others(c) == \A d \in Slots \ {c} : call'[d] = call[d]

\* A slot that moves leaves the others alone.
LEMMA MovesOthers ==
  ASSUME ProviderTypeOK, NEW c \in Slots, NEW r, Moves(c, r)
  PROVE  Others(c) /\ call'[c] = r
BY DEF ProviderTypeOK, Moves, Others

\* The invariant, but for the names, in groups.
SessionsInv == SessionsFit /\ DestroyedIsGone
InstancesInv == CreatorsFit /\ DisposedIsForgotten /\ CachedIsUsable
ServicesInv == ServicesFit /\ ExposedIsKnown

\* Calls of the node adapters change nothing for sessions.
LEMMA QuietSessions ==
  ASSUME NamesInv, NamesInv', SessionsInv, NEW c \in Slots, Others(c), UNCHANGED sessionVars,
         call[c] # Idle => call[c].op \in NodeOps, call'[c] # Idle => call'[c].op \in NodeOps,
         \A i \in Instances : i[1] \in Sessions => state'[i] = state[i]
  PROVE  SessionsInv'
<1>1. \A d \in Slots : Shape(call'[d])
  BY DEF NamesInv, NamesFit
<1>2. call'[c] # Idle => call'[c].owner \notin Sessions /\ call'[c].op \notin SessionOps
      /\ call'[c].at # "start"
  BY <1>1, ProviderAssumption DEF Shape, NodeOps, SessionOps
<1>3. \A s \in Sessions : ref[s] # None => state'[ref[s]] = state[ref[s]]
  BY DEF NamesInv, NamesFit, MadeFor
<1>4. \A s \in Sessions : told'[s] = "none" <=> ref'[s] = None
  BY DEF SessionsInv, SessionsFit, sessionVars
<1>5. ASSUME NEW d \in Slots, call'[d] # Idle
      PROVE  /\ call'[d].op = "create" =>
                  /\ ref'[call'[d].owner] = None
                  /\ \A e \in Slots \ {d} : call'[e] # Idle => call'[e].owner # call'[d].owner
             /\ call'[d].op \in {"destroy", "stop", "use"} => ref'[call'[d].owner] = call'[d].id
             /\ call'[d].at = "start" => state'[call'[d].id] # "paused"
  <2>1. CASE d = c
    BY <1>2, <1>5, <2>1 DEF SessionOps
  <2>2. CASE d # c
    <3>1. call'[d] = call[d] /\ call[d] # Idle
      BY <1>5, <2>2 DEF Others
    <3>2. call[d].op = "create" =>
            /\ ref'[call[d].owner] = None
            /\ \A e \in Slots \ {d} : call'[e] # Idle => call'[e].owner # call[d].owner
      <4> SUFFICES ASSUME call[d].op = "create", NEW e \in Slots \ {d}, call'[e] # Idle
                   PROVE  ref'[call[d].owner] = None /\ call'[e].owner # call[d].owner
        BY <3>1 DEF SessionsInv, SessionsFit, sessionVars
      <4>1. call[d].owner \in Sessions /\ ref'[call[d].owner] = None
        BY <1>1, <3>1 DEF Shape, SessionsInv, SessionsFit, sessionVars
      <4>2. e = c \/ call'[e] = call[e]
        BY DEF Others
      <4> QED BY <1>2, <3>1, <4>1, <4>2 DEF SessionsInv, SessionsFit
    <3>3. call[d].op \in {"destroy", "stop", "use"} => ref'[call[d].owner] = call[d].id
      BY <3>1 DEF SessionsInv, SessionsFit, sessionVars
    <3>4. call[d].at = "start" => state'[call[d].id] # "paused"
      <4> SUFFICES ASSUME call[d].at = "start" PROVE state'[call[d].id] = state[call[d].id]
        BY <3>1 DEF SessionsInv, SessionsFit
      <4>1. call[d].owner \in Sessions /\ call[d].id # None
        BY <1>1, <3>1 DEF Shape
      <4> QED BY <3>1, <4>1 DEF NamesInv, NamesFit, MadeFor
    <3> QED BY <3>1, <3>2, <3>3, <3>4
  <2> QED BY <2>1, <2>2
<1>6. DestroyedIsGone'
  BY <1>3 DEF SessionsInv, DestroyedIsGone, Alive, sessionVars
<1> QED BY <1>4, <1>5, <1>6 DEF SessionsInv, SessionsFit

\* Calls of the runtime adapters, and tasks, change nothing for nodes.
LEMMA QuietNodes ==
  ASSUME NamesInv, NamesInv', InstancesInv, ServicesInv, NEW c \in Slots, Others(c),
         UNCHANGED <<nodeVars, provider>>,
         lost \subseteq lost', ~ForNode(c), ~ForNode(c)',
         \A i \in Instances : i[1] \in Nodes => state'[i] = state[i]
  PROVE  InstancesInv' /\ ServicesInv'
<1>1. \A d \in Slots : d # c => call'[d] = call[d] /\ (Reached(d, "wait") <=> Reached(d, "wait")')
                                /\ (ForNode(d) <=> ForNode(d)') /\ Service(d)' = Service(d)
  BY DEF Others, Reached, ForNode, Service
<1>2. ~Reached(c, "wait") /\ ~Reached(c, "wait")'
  BY DEF NamesInv, NamesFit, Shape, Reached, ForNode
<1>3. \A n \in Nodes : ~Creating(c, n)' /\ \A d \in Slots \ {c} : Creating(d, n) <=> Creating(d, n)'
  <2>1. ASSUME NEW n \in Nodes, Creating(c, n)'
        PROVE  FALSE
    <3>1. call'[c] # Idle /\ call'[c].owner = n /\ call'[c].op \in {"task", "create"} /\ Shape(call'[c])
      BY <2>1 DEF NamesInv, NamesFit, Shape, Creating, Reached, ForNode
    <3> QED BY <3>1, ProviderAssumption DEF Shape
  <2> QED BY <2>1, <1>1 DEF Creating, Reached
<1>4. \A n \in Nodes : nodeInstances[n] # None => state'[nodeInstances[n]] = state[nodeInstances[n]]
  BY DEF NamesInv, NamesFit, MadeFor
<1>5. CreatorsFit'
  BY <1>3 DEF InstancesInv, CreatorsFit, nodeVars
<1>6. DisposedIsForgotten'
  <2> SUFFICES ASSUME NEW d \in Slots, call'[d] # Idle, call'[d].op \in {"revoke", "restart"},
                      call'[d].at = "kill"
               PROVE  provider # "cloudflare" /\ nodeInstances[call'[d].owner] # call'[d].id
    BY DEF DisposedIsForgotten, nodeVars
  <2>1. d # c
    BY DEF ForNode
  <2> QED BY <1>1, <2>1 DEF InstancesInv, DisposedIsForgotten
<1>7. CachedIsUsable'
  BY <1>4 DEF InstancesInv, CachedIsUsable, Alive, nodeVars
<1>8. ExposedIsKnown'
  BY DEF ServicesInv, ExposedIsKnown, nodeVars
<1>9. ServicesFit'
  <2>1. \A d, e \in Slots : d # e /\ ForNode(d)' /\ ForNode(e)' /\ Service(d)' = Service(e)'
                            => Service(d)' \in raced
    BY <1>1 DEF ServicesInv, ServicesFit
  <2>2. ASSUME NEW d \in Slots, ForNode(d)', Settled(Service(d))'
        PROVE  /\ call'[d].at = "unexpose" /\ Service(d)' \in servicePorts => "port" \in call'[d].read
               /\ call'[d].at = "killProcess" => Service(d)' \notin exposed
               /\ call'[d].at = "expose" /\ call'[d].owner \notin endedNodes
                  => process[Service(d)'] = "listening"
    <3>1. call'[d] = call[d] /\ ForNode(d) /\ Service(d)' = Service(d) /\ Settled(Service(d))
      BY <1>1, <2>2 DEF Settled, nodeVars
    <3> QED BY <3>1 DEF ServicesInv, ServicesFit
  <2>3. ASSUME NEW x \in serviceProcesses, Settled(x), x[1] \notin endedNodes, process[x] # "listening"
        PROVE  \E d \in Slots : Reached(d, "wait")' /\ Service(d)' = x
    <3>1. PICK d \in Slots : Reached(d, "wait") /\ Service(d) = x
      BY <2>3 DEF ServicesInv, ServicesFit
    <3> QED BY <1>1, <1>2, <3>1
  <2> QED BY <2>1, <2>2, <2>3 DEF ServicesFit, Settled, nodeVars
<1> QED BY <1>5, <1>6, <1>7, <1>8, <1>9 DEF InstancesInv, ServicesInv

\* Who holds instance i, or why nobody does.
Kept(i) ==
  \/ \E c \in Slots : Answers(c, i)
  \/ i[1] \in Nodes /\ nodeInstances[i[1]] = i
  \/ i[1] \in Sessions /\ ref[i[1]] = i
  \/ i \in lost
  \/ i[1] \in Nodes /\ (provider = "cloudflare" \/ i[1] \in racedNodes)

\* RunningIsKept, instance by instance.
LEMMA KeptIs == RunningIsKept <=> \A i \in Instances : Alive(i) => Kept(i)
BY DEF RunningIsKept, Kept

\* What is kept stays kept but for what the slot of the step, the caches and the references give up.
LEMMA KeptStays ==
  ASSUME NEW c \in Slots, Others(c), UNCHANGED provider, lost \subseteq lost',
         racedNodes \subseteq racedNodes',
         NEW i \in Instances, Kept(i), Answers(c, i) => Kept(i)',
         i[1] \in Nodes /\ nodeInstances[i[1]] = i => nodeInstances'[i[1]] = i \/ Kept(i)',
         i[1] \in Sessions /\ ref[i[1]] = i => ref'[i[1]] = i
  PROVE  Kept(i)'
<1>1. \A d \in Slots \ {c} : Answers(d, i) => Answers(d, i)'
  BY DEF Others, Answers
<1> QED BY <1>1 DEF Kept

-----------------------------------------------------------------------------
(* Sandboxes: the runtime adapters. *)

RestInv == SessionsInv /\ InstancesInv /\ ServicesInv /\ RunningIsKept

\* The invariant in two groups: names, and what is said with them.
LEMMA SandboxInvParts == SandboxInv <=> NamesInv /\ RestInv
BY DEF SandboxInv, NamesInv, RestInv, SessionsInv, InstancesInv, ServicesInv

\* A step of a call for session s.
LEMMA SessionStep ==
  ASSUME NamesInv, NamesInv', SessionsInv, NEW c \in Slots, NEW s \in Sessions, Others(c),
         \A x \in Sessions \ {s} : ref'[x] = ref[x] /\ told'[x] = told[x],
         \A i \in Instances : i[1] \in Sessions \ {s} => state'[i] = state[i],
         told'[s] = "none" <=> ref'[s] = None,
         told'[s] = "destroyed" /\ ref'[s] # None => ~(state'[ref'[s]] \in {"running", "paused"}),
         call'[c] # Idle =>
           /\ call'[c].owner = s
           /\ call'[c].op = "create" =>
                /\ ref'[s] = None
                /\ \A d \in Slots \ {c} : call[d] # Idle => call[d].owner # s
           /\ call'[c].op \in {"destroy", "stop", "use"} => ref'[s] = call'[c].id
           /\ call'[c].at = "start" => state'[call'[c].id] # "paused",
         \A d \in Slots \ {c} : call[d] # Idle /\ call[d].owner = s =>
           /\ call[d].op # "create" /\ call[d].at # "start"
           /\ call[d].op \in {"destroy", "stop", "use"} => ref'[s] = call[d].id
  PROVE  SessionsInv'
<1>1. \A x \in Sessions : told'[x] = "none" <=> ref'[x] = None
  BY DEF SessionsInv, SessionsFit
<1>2. DestroyedIsGone'
  <2> SUFFICES ASSUME NEW x \in Sessions, told'[x] = "destroyed", ref'[x] # None
               PROVE  ~(state'[ref'[x]] \in {"running", "paused"})
    BY DEF DestroyedIsGone, Alive
  <2>1. CASE x = s
    BY <2>1
  <2>2. CASE x # s
    <3>1. ref'[x] = ref[x] /\ told'[x] = told[x] /\ MadeFor(ref[x], x)
      BY <2>2 DEF NamesInv, NamesFit
    <3>2. state'[ref[x]] = state[ref[x]]
      BY <2>2, <3>1 DEF MadeFor
    <3> QED BY <3>1, <3>2 DEF SessionsInv, DestroyedIsGone, Alive
  <2> QED BY <2>1, <2>2
<1>3. ASSUME NEW d \in Slots, call'[d] # Idle
      PROVE  /\ call'[d].op = "create" =>
                  /\ ref'[call'[d].owner] = None
                  /\ \A e \in Slots \ {d} : call'[e] # Idle => call'[e].owner # call'[d].owner
             /\ call'[d].op \in {"destroy", "stop", "use"} => ref'[call'[d].owner] = call'[d].id
             /\ call'[d].at = "start" => state'[call'[d].id] # "paused"
  <2>1. CASE d = c
    BY <1>3, <2>1 DEF Others
  <2>2. CASE d # c
    <3>1. call'[d] = call[d] /\ call[d] # Idle /\ Shape(call[d])
      BY <1>3, <2>2 DEF Others, NamesInv, NamesFit
    <3>2. CASE call[d].owner = s
      BY <2>2, <3>1, <3>2
    <3>3. CASE call[d].owner # s
      <4>1. call[d].op = "create" =>
              /\ ref'[call[d].owner] = None
              /\ \A e \in Slots \ {d} : call'[e] # Idle => call'[e].owner # call[d].owner
        <5> SUFFICES ASSUME call[d].op = "create", NEW e \in Slots \ {d}, call'[e] # Idle
                     PROVE  ref'[call[d].owner] = None /\ call'[e].owner # call[d].owner
          BY <3>1, <3>3 DEF Shape, SessionsInv, SessionsFit
        <5>1. ref'[call[d].owner] = None
          BY <3>1, <3>3 DEF Shape, SessionsInv, SessionsFit
        <5>2. e = c \/ call'[e] = call[e]
          BY DEF Others
        <5> QED BY <3>1, <3>3, <5>1, <5>2 DEF SessionsInv, SessionsFit
      <4>2. call[d].op \in {"destroy", "stop", "use"} => ref'[call[d].owner] = call[d].id
        BY <3>1, <3>3 DEF Shape, SessionsInv, SessionsFit
      <4>3. call[d].at = "start" => state'[call[d].id] # "paused"
        <5> SUFFICES ASSUME call[d].at = "start" PROVE state'[call[d].id] = state[call[d].id]
          BY <3>1 DEF SessionsInv, SessionsFit
        <5>1. call[d].owner \in Sessions \ {s} /\ call[d].id # None
          BY <3>1, <3>3 DEF Shape
        <5> QED BY <3>1, <5>1 DEF NamesInv, NamesFit, MadeFor
      <4> QED BY <3>1, <4>1, <4>2, <4>3
    <3> QED BY <3>2, <3>3
  <2> QED BY <2>1, <2>2
<1> QED BY <1>1, <1>2, <1>3 DEF SessionsInv, SessionsFit

\* An instance of a session or a job is none of a node.
LEMMA NotOfNode ==
  ASSUME NEW c \in Slots, NamesInv
  PROVE  /\ call[c] # Idle /\ call[c].op \in SessionOps \cup {"task"} => ~ForNode(c)
            /\ call[c].owner \notin Nodes
         /\ call[c] # Idle /\ call[c].op \in NodeOps => call[c].owner \notin Sessions
         /\ call[c] # Idle /\ call[c].op \in SessionOps => call[c].owner \in Sessions
         /\ call[c] = Idle => ~ForNode(c)
         /\ call[c] # Idle /\ call[c].id # None =>
              call[c].id \in Instances /\ call[c].id[1] = call[c].owner
<1>1. Shape(call[c]) /\ (call[c] # Idle /\ call[c].id # None => MadeFor(call[c].id, call[c].owner))
  BY DEF NamesInv, NamesFit
<1> QED BY <1>1, ProviderAssumption DEF Shape, ForNode, NodeOps, SessionOps, MadeFor

\* A creation that begins keeps the rest of the invariant.
LEMMA CreateBeginsRest ==
  ASSUME NamesInv, RestInv, NamesInv', NEW c \in Slots, NEW s \in Sessions, CreateBegins(c, s),
         UNCHANGED nodeVars
  PROVE  RestInv'
<1> USE DEF RestInv
<1>1. PICK r \in Call : Moves(c, r) /\ r.op = "create" /\ r.owner = s /\ r.at = "create" /\ r.id = None
  BY BeginsIs DEF CreateBegins, Owners, Ops, Awaits
<1>2. Others(c) /\ call'[c] = r /\ call[c] = Idle /\ r # Idle /\ ~ForNode(c) /\ ~ForNode(c)'
  BY <1>1, MovesOthers, IdleIsNoCall DEF NamesInv, SandboxTypeOK, CreateBegins, Free, ForNode
<1>3. UNCHANGED <<state, made, lost, ref, told, provider, nodeVars>>
  BY DEF CreateBegins, Rest, sessionVars
<1>4. SessionsInv'
  <2>1. ref[s] = None /\ told[s] = "none" /\ \A d \in Slots : call[d] # Idle => call[d].owner # s
    BY DEF SessionsInv, SessionsFit, CreateBegins, Served
  <2> QED BY <1>1, <1>2, <1>3, <2>1, SessionStep
<1>5. InstancesInv' /\ ServicesInv'
  BY <1>2, <1>3, QuietNodes
<1>6. RunningIsKept'
  <2> SUFFICES ASSUME NEW i \in Instances, Alive(i)' PROVE Kept(i)'
    BY DEF RunningIsKept, Kept
  <2>1. Kept(i) /\ ~Answers(c, i)
    BY <1>2, <1>3, KeptIs DEF Alive, Answers
  <2> QED BY <1>2, <1>3, <2>1, KeptStays DEF nodeVars
<1> QED BY <1>4, <1>5, <1>6

\* Another method that begins keeps the rest of the invariant.
LEMMA MethodBeginsRest ==
  ASSUME NamesInv, RestInv, NamesInv', NEW c \in Slots, NEW s \in Sessions,
         NEW op \in {"destroy", "stop", "use"}, NEW at \in {"kill", "pause", "connect"},
         op = "use" <=> at = "connect", MethodBegins(c, op, s, at), UNCHANGED nodeVars
  PROVE  RestInv'
<1> USE DEF RestInv
<1>1. PICK r \in Call : /\ Moves(c, r) /\ Shape(r)
                        /\ r.op = op /\ r.owner = s /\ r.at = at /\ r.id = ref[s]
  BY MethodBeginsIs DEF NamesInv
<1>2. Others(c) /\ call'[c] = r /\ call[c] = Idle /\ r # Idle /\ ~ForNode(c) /\ ~ForNode(c)'
  BY <1>1, MovesOthers, IdleIsNoCall DEF NamesInv, SandboxTypeOK, MethodBegins, Free, ForNode
<1>3. UNCHANGED <<state, made, lost, ref, told, provider, nodeVars>> /\ ref[s] # None
  BY DEF MethodBegins, Rest, sessionVars
<1>4. SessionsInv'
  <2>1. \A d \in Slots : call[d] # Idle /\ call[d].owner = s =>
           /\ call[d].op # "create" /\ call[d].at # "start"
           /\ call[d].op \in {"destroy", "stop", "use"} => ref[s] = call[d].id
    BY <1>3 DEF SessionsInv, SessionsFit, NamesInv, NamesFit, Shape
  <2>2. told[s] # "none" /\ (told[s] = "destroyed" => ~(state[ref[s]] \in {"running", "paused"}))
    BY <1>3 DEF SessionsInv, SessionsFit, DestroyedIsGone, Alive
  <2> QED BY <1>1, <1>2, <1>3, <2>1, <2>2, SessionStep
<1>5. InstancesInv' /\ ServicesInv'
  BY <1>2, <1>3, QuietNodes
<1>6. RunningIsKept'
  <2> SUFFICES ASSUME NEW i \in Instances, Alive(i)' PROVE Kept(i)'
    BY DEF RunningIsKept, Kept
  <2>1. Kept(i) /\ ~Answers(c, i)
    BY <1>2, <1>3, KeptIs DEF Alive, Answers
  <2> QED BY <1>2, <1>3, <2>1, KeptStays DEF nodeVars
<1> QED BY <1>4, <1>5, <1>6

\* A creation that fails keeps the rest of the invariant.
LEMMA CreateFailsRest ==
  ASSUME NamesInv, RestInv, NamesInv', NEW c \in Slots, At(c, "create", "create"), CreateFails(c),
         UNCHANGED nodeVars
  PROVE  RestInv'
<1> USE DEF RestInv
<1>1. call[c] # Idle /\ call[c].op = "create" /\ call[c].owner \in Sessions /\ ~ForNode(c)
      /\ call[c].id = None
  BY NotOfNode DEF NamesInv, NamesFit, Shape, At, Reached, SessionOps
<1>2. Others(c) /\ call'[c] = Idle /\ ~ForNode(c)'
  BY ReturnIs, MovesOthers DEF NamesInv, SandboxTypeOK, CreateFails, ForNode
<1>9. PICK s \in Sessions : s = call[c].owner /\ s \in Owners
  BY <1>1 DEF Owners
<1>3. /\ UNCHANGED <<ref, told, provider, nodeVars>> /\ lost \subseteq lost'
      /\ \A i \in Instances : state'[i] # state[i] => i \in lost' /\ i[1] = s
      /\ \A i \in Instances : i[1] \in Nodes => state'[i] = state[i]
  BY <1>9, MakeFailsIs, ProviderAssumption DEF NamesInv, CreateFails, Rest, sessionVars
<1>4. SessionsInv'
  <2>1. ref[s] = None /\ told[s] = "none" /\ \A d \in Slots \ {c} : call[d] # Idle => call[d].owner # s
    BY <1>1, <1>9 DEF SessionsInv, SessionsFit, At, Reached
  <2> QED BY <1>2, <1>9, <1>3, <2>1, SessionStep
<1>5. InstancesInv' /\ ServicesInv'
  BY <1>1, <1>2, <1>3, QuietNodes
<1>6. RunningIsKept'
  <2> SUFFICES ASSUME NEW i \in Instances, Alive(i)' PROVE Kept(i)'
    BY DEF RunningIsKept, Kept
  <2>1. CASE Alive(i)
    <3>1. Kept(i) /\ ~Answers(c, i)
      BY <1>1, <2>1, KeptIs, IdleIsNoCall DEF Answers
    <3> QED BY <1>2, <1>3, <3>1, KeptStays DEF nodeVars
  <2>2. CASE ~Alive(i)
    BY <1>3, <2>2 DEF Alive, Kept
  <2> QED BY <2>1, <2>2
<1> QED BY <1>4, <1>5, <1>6

\* A container that was created keeps the rest of the invariant.
LEMMA DockerCreatedRest ==
  ASSUME NamesInv, RestInv, NamesInv', NEW c \in Slots, At(c, "create", "create"), DockerCreated(c),
         UNCHANGED nodeVars
  PROVE  RestInv'
<1> USE DEF RestInv
<1>1. call[c] # Idle /\ call[c].op = "create" /\ call[c].owner \in Sessions /\ ~ForNode(c)
      /\ call[c].id = None
  BY NotOfNode DEF NamesInv, NamesFit, Shape, At, Reached, SessionOps
<1>9. PICK s \in Sessions : s = call[c].owner /\ s \in Owners
  BY <1>1 DEF Owners
<1>10. PICK j \in Instances : j = NewInstance(s) /\ j[1] = s /\ state' = [state EXCEPT ![j] = "running"]
  BY <1>9, MakeIs DEF DockerCreated, NamesInv
<1>11. PICK r \in Call : Moves(c, r) /\ r.op = "create" /\ r.owner = s /\ r.at = "start" /\ r.id = j
  BY <1>1, <1>9, <1>10, GoWithIs DEF DockerCreated, NamesInv, SandboxTypeOK, Awaits
<1>2. Others(c) /\ call'[c] = r /\ r # Idle /\ ~ForNode(c)'
  BY <1>11, MovesOthers, IdleIsNoCall DEF NamesInv, SandboxTypeOK, ForNode
<1>3. /\ UNCHANGED <<ref, told, provider, nodeVars, lost>> /\ state'[j] = "running"
      /\ \A i \in Instances : i # j => state'[i] = state[i]
      /\ \A i \in Instances : i[1] \in Nodes => state'[i] = state[i]
  BY <1>10, ProviderAssumption DEF NamesInv, SandboxTypeOK, ProviderTypeOK, DockerCreated, Rest, sessionVars
<1>4. SessionsInv'
  <2>1. ref[s] = None /\ told[s] = "none" /\ \A d \in Slots \ {c} : call[d] # Idle => call[d].owner # s
    BY <1>1, <1>9 DEF SessionsInv, SessionsFit, At, Reached
  <2>2. \A i \in Instances : i[1] \in Sessions \ {s} => state'[i] = state[i]
    BY <1>3, <1>10
  <2> QED BY <1>2, <1>3, <1>10, <1>11, <2>1, <2>2, SessionStep
<1>5. InstancesInv' /\ ServicesInv'
  BY <1>1, <1>2, <1>3, QuietNodes
<1>6. RunningIsKept'
  <2> SUFFICES ASSUME NEW i \in Instances, Alive(i)' PROVE Kept(i)'
    BY DEF RunningIsKept, Kept
  <2>1. CASE Alive(i)
    <3>1. Kept(i) /\ ~Answers(c, i)
      BY <1>1, <2>1, KeptIs, IdleIsNoCall DEF Answers
    <3> QED BY <1>2, <1>3, <3>1, KeptStays DEF nodeVars
  <2>2. CASE ~Alive(i)
    <3>1. i = j
      BY <1>3, <2>2 DEF Alive
    <3> QED BY <1>2, <1>11, <3>1 DEF Kept, Answers
  <2> QED BY <2>1, <2>2
<1> QED BY <1>4, <1>5, <1>6

\* A sandbox that was created keeps the rest of the invariant.
LEMMA SandboxCreatedRest ==
  ASSUME NamesInv, RestInv, NamesInv', NEW c \in Slots, At(c, "create", "create"), SandboxCreated(c),
         UNCHANGED nodeVars
  PROVE  RestInv'
<1> USE DEF RestInv
<1>1. call[c] # Idle /\ call[c].op = "create" /\ call[c].owner \in Sessions /\ ~ForNode(c)
      /\ call[c].id = None
  BY NotOfNode DEF NamesInv, NamesFit, Shape, At, Reached, SessionOps
<1>9. PICK s \in Sessions : s = call[c].owner /\ s \in Owners
  BY <1>1 DEF Owners
<1>10. PICK j \in Instances : j = NewInstance(s) /\ j[1] = s /\ state' = [state EXCEPT ![j] = "running"]
  BY <1>9, MakeIs DEF SandboxCreated, NamesInv
<1>2. Others(c) /\ call'[c] = Idle /\ ~ForNode(c)'
  BY ReturnIs, MovesOthers DEF NamesInv, SandboxTypeOK, SandboxCreated, ForNode
<1>3. /\ UNCHANGED <<provider, nodeVars, lost>> /\ state'[j] = "running"
      /\ ref' = [ref EXCEPT ![s] = j] /\ told' = [told EXCEPT ![s] = "ready"]
      /\ \A i \in Instances : i # j => state'[i] = state[i]
      /\ \A i \in Instances : i[1] \in Nodes => state'[i] = state[i]
  BY <1>9, <1>10, ProviderAssumption DEF NamesInv, SandboxTypeOK, ProviderTypeOK, SandboxCreated, Created,
      Rest
<1>12. /\ ref'[s] = j /\ told'[s] = "ready" /\ j # None
       /\ \A x \in Sessions \ {s} : ref'[x] = ref[x] /\ told'[x] = told[x]
  BY <1>3, IdleIsNoCall DEF NamesInv, SandboxTypeOK, SessionTypeOK
<1>4. SessionsInv'
  <2>1. ref[s] = None /\ told[s] = "none" /\ \A d \in Slots \ {c} : call[d] # Idle => call[d].owner # s
    BY <1>1, <1>9 DEF SessionsInv, SessionsFit, At, Reached
  <2>2. \A i \in Instances : i[1] \in Sessions \ {s} => state'[i] = state[i]
    BY <1>3, <1>10
  <2> QED BY <1>2, <1>3, <1>12, <2>1, <2>2, SessionStep
<1>5. InstancesInv' /\ ServicesInv'
  BY <1>1, <1>2, <1>3, QuietNodes
<1>6. RunningIsKept'
  <2> SUFFICES ASSUME NEW i \in Instances, Alive(i)' PROVE Kept(i)'
    BY DEF RunningIsKept, Kept
  <2>1. CASE Alive(i)
    <3>1. Kept(i) /\ ~Answers(c, i)
      BY <1>1, <2>1, KeptIs, IdleIsNoCall DEF Answers
    <3>2. ref[s] = None
      BY <1>1, <1>9 DEF SessionsInv, SessionsFit
    <3>3. i[1] \in Sessions /\ ref[i[1]] = i => ref'[i[1]] = i
      BY <1>12, <3>2, IdleIsNoCall
    <3> QED BY <1>2, <1>3, <3>1, <3>3, KeptStays DEF nodeVars
  <2>2. CASE ~Alive(i)
    <3>1. i = j
      BY <1>3, <2>2 DEF Alive
    <3> QED BY <1>10, <1>12, <3>1 DEF Kept
  <2> QED BY <2>1, <2>2
<1> QED BY <1>4, <1>5, <1>6

\* A container that starts keeps the rest of the invariant.
LEMMA DockerStartsRest ==
  ASSUME NamesInv, RestInv, NamesInv', NEW c \in Slots, DockerStarts(c), UNCHANGED nodeVars
  PROVE  RestInv'
<1> USE DEF RestInv
<1>1. /\ call[c] # Idle /\ call[c].op = "create" /\ call[c].at = "start" /\ call[c].owner \in Sessions
         /\ ~ForNode(c)
      /\ call[c].id # None
  BY NotOfNode DEF NamesInv, NamesFit, Shape, DockerStarts, At, Reached, SessionOps
<1>9. PICK s \in Sessions, j \in Instances : s = call[c].owner /\ j = call[c].id /\ j[1] = s
  BY <1>1, NotOfNode
<1>2. Others(c) /\ call'[c] = Idle /\ ~ForNode(c)'
  BY ReturnIs, MovesOthers DEF NamesInv, SandboxTypeOK, DockerStarts, ForNode
<1>3. /\ UNCHANGED <<provider, nodeVars, state>> /\ lost \subseteq lost'
      /\ \/ Alive(j) /\ ref' = [ref EXCEPT ![s] = j] /\ told' = [told EXCEPT ![s] = "ready"]
         \/ UNCHANGED <<ref, told>> /\ j \in lost'
  BY <1>9 DEF DockerStarts, Created, Rest, sessionVars
<1>12. /\ \/ ref'[s] = j /\ told'[s] = "ready" /\ j # None
          \/ ref'[s] = ref[s] /\ told'[s] = told[s] /\ j \in lost'
       /\ \A x \in Sessions \ {s} : ref'[x] = ref[x] /\ told'[x] = told[x]
  BY <1>3, IdleIsNoCall DEF NamesInv, SandboxTypeOK, SessionTypeOK
<1>4. SessionsInv'
  <2>1. ref[s] = None /\ told[s] = "none" /\ \A d \in Slots \ {c} : call[d] # Idle => call[d].owner # s
    BY <1>1, <1>9 DEF SessionsInv, SessionsFit
  <2> QED BY <1>2, <1>3, <1>12, <2>1, SessionStep
<1>5. InstancesInv' /\ ServicesInv'
  BY <1>1, <1>2, <1>3, QuietNodes
<1>6. RunningIsKept'
  <2> SUFFICES ASSUME NEW i \in Instances, Alive(i)' PROVE Kept(i)'
    BY DEF RunningIsKept, Kept
  <2>1. Kept(i) /\ (Answers(c, i) => i = j)
    BY <1>3, <1>9, KeptIs DEF Alive, Answers
  <2>2. ref[s] = None
    BY <1>1, <1>9 DEF SessionsInv, SessionsFit
  <2>3. i[1] \in Sessions /\ ref[i[1]] = i => ref'[i[1]] = i
    BY <1>12, <2>2, IdleIsNoCall
  <2>4. Kept(j)'
    BY <1>9, <1>12 DEF Kept
  <2>5. Answers(c, i) => Kept(i)'
    BY <2>1, <2>4
  <2> QED BY <1>2, <1>3, <2>1, <2>3, <2>5, KeptStays DEF nodeVars
<1> QED BY <1>4, <1>5, <1>6

\* A destruction keeps the rest of the invariant.
LEMMA DestroyEndsRest ==
  ASSUME NamesInv, RestInv, NamesInv', NEW c \in Slots, DestroyEnds(c), UNCHANGED nodeVars
  PROVE  RestInv'
<1> USE DEF RestInv
<1>1. call[c] # Idle /\ call[c].op = "destroy" /\ call[c].owner \in Sessions /\ ~ForNode(c)
      /\ call[c].id # None
  BY NotOfNode DEF NamesInv, NamesFit, Shape, DestroyEnds, At, Reached, SessionOps
<1>9. PICK s \in Sessions, j \in Instances :
         s = call[c].owner /\ j = call[c].id /\ j[1] = s /\ ref[s] = j /\ told[s] # "none" /\ j # None
  BY <1>1, NotOfNode DEF SessionsInv, SessionsFit
<1>2. Others(c) /\ call'[c] = Idle /\ ~ForNode(c)'
  BY ReturnIs, MovesOthers DEF NamesInv, SandboxTypeOK, DestroyEnds, ForNode
<1>3. /\ UNCHANGED <<provider, nodeVars, lost, ref>>
      /\ \/ state' = [state EXCEPT ![j] = "absent"] /\ told' = [told EXCEPT ![s] = "destroyed"]
         \/ UNCHANGED <<state, told>>
         \/ UNCHANGED state /\ state[j] = "absent" /\ told' = [told EXCEPT ![s] = "destroyed"]
  BY <1>9 DEF DestroyEnds, Kill, Fault, IsMissing, Present, Rest
<1>12. /\ \A i \in Instances : i # j => state'[i] = state[i]
       /\ \A x \in Sessions \ {s} : told'[x] = told[x]
       /\ \/ told'[s] = "destroyed" /\ state'[j] = "absent"
          \/ told'[s] = told[s] /\ state'[j] = state[j]
  BY <1>3 DEF NamesInv, SandboxTypeOK, ProviderTypeOK, SessionTypeOK
<1>13. /\ \A i \in Instances : i[1] \in Nodes => state'[i] = state[i]
       /\ \A i \in Instances : Alive(i)' => Alive(i)
  BY <1>9, <1>12, ProviderAssumption DEF Alive
<1>4. SessionsInv'
  <2>1. \A d \in Slots : call[d] # Idle /\ call[d].owner = s =>
           /\ call[d].op # "create" /\ call[d].at # "start"
           /\ call[d].op \in {"destroy", "stop", "use"} => ref[s] = call[d].id
    BY <1>9 DEF SessionsInv, SessionsFit, NamesInv, NamesFit, Shape
  <2>2. told'[s] = "destroyed" => ~(state'[ref'[s]] \in {"running", "paused"})
    BY <1>3, <1>9, <1>12 DEF SessionsInv, DestroyedIsGone, Alive
  <2>3. told'[s] # "none" /\ ref'[s] # None
    BY <1>3, <1>9, <1>12
  <2> QED BY <1>2, <1>3, <1>9, <1>12, <2>1, <2>2, <2>3, SessionStep
<1>5. InstancesInv' /\ ServicesInv'
  BY <1>1, <1>2, <1>3, <1>13, QuietNodes
<1>6. RunningIsKept'
  <2> SUFFICES ASSUME NEW i \in Instances, Alive(i)' PROVE Kept(i)'
    BY DEF RunningIsKept, Kept
  <2>1. Kept(i) /\ (Answers(c, i) => i = j)
    BY <1>9, <1>13, KeptIs DEF Answers
  <2>2. Answers(c, i) => Kept(i)'
    BY <1>3, <1>9, <2>1 DEF Kept
  <2> QED BY <1>2, <1>3, <2>1, <2>2, KeptStays DEF nodeVars
<1> QED BY <1>4, <1>5, <1>6

\* A stop keeps the rest of the invariant.
LEMMA StopEndsRest ==
  ASSUME NamesInv, RestInv, NamesInv', NEW c \in Slots, StopEnds(c), UNCHANGED nodeVars
  PROVE  RestInv'
<1> USE DEF RestInv
<1>1. call[c] # Idle /\ call[c].op = "stop" /\ call[c].owner \in Sessions /\ ~ForNode(c)
      /\ call[c].id # None
  BY NotOfNode DEF NamesInv, NamesFit, Shape, StopEnds, At, Reached, SessionOps
<1>9. PICK s \in Sessions, j \in Instances :
         s = call[c].owner /\ j = call[c].id /\ j[1] = s /\ ref[s] = j /\ told[s] # "none" /\ j # None
  BY <1>1, NotOfNode DEF SessionsInv, SessionsFit
<1>2. Others(c) /\ call'[c] = Idle /\ ~ForNode(c)'
  BY ReturnIs, MovesOthers DEF NamesInv, SandboxTypeOK, StopEnds, ForNode
<1>3. /\ UNCHANGED <<provider, nodeVars, lost, ref>>
      /\ \/ Alive(j) /\ state' = [state EXCEPT ![j] = "paused"] /\ told' = [told EXCEPT ![s] = "stopped"]
         \/ UNCHANGED <<state, told>>
  BY <1>9 DEF StopEnds, Rest
<1>12. /\ \A i \in Instances : i # j => state'[i] = state[i]
       /\ \A x \in Sessions \ {s} : told'[x] = told[x]
       /\ \/ told'[s] = "stopped" /\ Alive(j)
          \/ told'[s] = told[s] /\ state'[j] = state[j]
  BY <1>3 DEF NamesInv, SandboxTypeOK, ProviderTypeOK, SessionTypeOK
<1>13. /\ \A i \in Instances : i[1] \in Nodes => state'[i] = state[i]
       /\ \A i \in Instances : Alive(i)' => Alive(i)
  BY <1>9, <1>12, ProviderAssumption DEF Alive
<1>4. SessionsInv'
  <2>1. \A d \in Slots : call[d] # Idle /\ call[d].owner = s =>
           /\ call[d].op # "create" /\ call[d].at # "start"
           /\ call[d].op \in {"destroy", "stop", "use"} => ref[s] = call[d].id
    BY <1>9 DEF SessionsInv, SessionsFit, NamesInv, NamesFit, Shape
  <2>2. told'[s] = "destroyed" => ~(state'[ref'[s]] \in {"running", "paused"})
    BY <1>3, <1>9, <1>12 DEF SessionsInv, DestroyedIsGone, Alive
  <2>3. told'[s] # "none" /\ ref'[s] # None
    BY <1>3, <1>9, <1>12
  <2> QED BY <1>2, <1>3, <1>9, <1>12, <2>1, <2>2, <2>3, SessionStep
<1>5. InstancesInv' /\ ServicesInv'
  BY <1>1, <1>2, <1>3, <1>13, QuietNodes
<1>6. RunningIsKept'
  <2> SUFFICES ASSUME NEW i \in Instances, Alive(i)' PROVE Kept(i)'
    BY DEF RunningIsKept, Kept
  <2>1. Kept(i) /\ (Answers(c, i) => i = j)
    BY <1>9, <1>13, KeptIs DEF Answers
  <2>2. Answers(c, i) => Kept(i)'
    BY <1>3, <1>9, <2>1 DEF Kept
  <2> QED BY <1>2, <1>3, <2>1, <2>2, KeptStays DEF nodeVars
<1> QED BY <1>4, <1>5, <1>6

\* A status that is read keeps the rest of the invariant.
LEMMA GetEndsRest ==
  ASSUME NamesInv, RestInv, NamesInv', NEW c \in Slots, GetEnds(c), UNCHANGED nodeVars
  PROVE  RestInv'
<1> USE DEF RestInv
<1>1. call[c] # Idle /\ call[c].op = "use" /\ call[c].owner \in Sessions /\ ~ForNode(c) /\ call[c].id # None
  BY NotOfNode DEF NamesInv, NamesFit, Shape, GetEnds, At, Reached, SessionOps
<1>9. PICK s \in Sessions, j \in Instances :
         s = call[c].owner /\ j = call[c].id /\ j[1] = s /\ ref[s] = j /\ told[s] # "none" /\ j # None
  BY <1>1, NotOfNode DEF SessionsInv, SessionsFit
<1>2. Others(c) /\ call'[c] = Idle /\ ~ForNode(c)'
  BY ReturnIs, MovesOthers DEF NamesInv, SandboxTypeOK, GetEnds, ForNode
<1>3. /\ UNCHANGED <<provider, nodeVars, lost, ref, state>>
      /\ told' = [told EXCEPT ![s] = StatusOf(j)] \/ UNCHANGED told
  BY <1>9 DEF GetEnds, Rest
<1>12. /\ \A x \in Sessions \ {s} : told'[x] = told[x]
       /\ told'[s] = StatusOf(j) \/ told'[s] = told[s]
  BY <1>3 DEF NamesInv, SandboxTypeOK, SessionTypeOK
<1>13. StatusOf(j) # "none" /\ (StatusOf(j) = "destroyed" => ~Alive(j))
  BY DEF StatusOf, Present, CloudflareStatus, OpenSandboxStatus, Alive
<1>4. SessionsInv'
  <2>1. \A d \in Slots : call[d] # Idle /\ call[d].owner = s =>
           /\ call[d].op # "create" /\ call[d].at # "start"
           /\ call[d].op \in {"destroy", "stop", "use"} => ref[s] = call[d].id
    BY <1>9 DEF SessionsInv, SessionsFit, NamesInv, NamesFit, Shape
  <2>2. told'[s] = "destroyed" => ~(state'[ref'[s]] \in {"running", "paused"})
    BY <1>3, <1>9, <1>12, <1>13 DEF SessionsInv, DestroyedIsGone, Alive
  <2>3. told'[s] # "none" /\ ref'[s] # None
    BY <1>3, <1>9, <1>12, <1>13
  <2> QED BY <1>2, <1>3, <1>9, <1>12, <2>1, <2>2, <2>3, SessionStep
<1>5. InstancesInv' /\ ServicesInv'
  BY <1>1, <1>2, <1>3, QuietNodes
<1>6. RunningIsKept'
  <2> SUFFICES ASSUME NEW i \in Instances, Alive(i)' PROVE Kept(i)'
    BY DEF RunningIsKept, Kept
  <2>1. Kept(i) /\ (Answers(c, i) => i = j)
    BY <1>3, <1>9, KeptIs DEF Alive, Answers
  <2>2. Answers(c, i) => Kept(i)'
    BY <1>3, <1>9, <2>1 DEF Kept
  <2> QED BY <1>2, <1>3, <2>1, <2>2, KeptStays DEF nodeVars
<1> QED BY <1>4, <1>5, <1>6

\* Work in a session that ends keeps the rest of the invariant.
LEMMA UseEndsRest ==
  ASSUME NamesInv, RestInv, NamesInv', NEW c \in Slots, UseEnds(c), UNCHANGED nodeVars
  PROVE  RestInv'
<1> USE DEF RestInv
<1>1. call[c] # Idle /\ call[c].op = "use" /\ call[c].owner \in Sessions /\ ~ForNode(c) /\ call[c].id # None
  BY NotOfNode DEF NamesInv, NamesFit, Shape, UseEnds, At, Reached, SessionOps
<1>9. PICK s \in Sessions, j \in Instances :
         s = call[c].owner /\ j = call[c].id /\ j[1] = s /\ ref[s] = j /\ told[s] # "none" /\ j # None
  BY <1>1, NotOfNode DEF SessionsInv, SessionsFit
<1>2. Others(c) /\ call'[c] = Idle /\ ~ForNode(c)'
  BY ReturnIs, MovesOthers DEF NamesInv, SandboxTypeOK, UseEnds, ForNode
<1>3. UNCHANGED <<provider, nodeVars, lost, ref, told, state>>
  BY DEF UseEnds, Rest, sessionVars
<1>4. SessionsInv'
  <2>1. \A d \in Slots : call[d] # Idle /\ call[d].owner = s =>
           /\ call[d].op # "create" /\ call[d].at # "start"
           /\ call[d].op \in {"destroy", "stop", "use"} => ref[s] = call[d].id
    BY <1>9 DEF SessionsInv, SessionsFit, NamesInv, NamesFit, Shape
  <2>2. told[s] = "destroyed" => ~(state[ref[s]] \in {"running", "paused"})
    BY <1>9 DEF SessionsInv, DestroyedIsGone, Alive
  <2> QED BY <1>2, <1>3, <1>9, <2>1, <2>2, SessionStep
<1>5. InstancesInv' /\ ServicesInv'
  BY <1>1, <1>2, <1>3, QuietNodes
<1>6. RunningIsKept'
  <2> SUFFICES ASSUME NEW i \in Instances, Alive(i)' PROVE Kept(i)'
    BY DEF RunningIsKept, Kept
  <2>1. Kept(i) /\ (Answers(c, i) => i = j)
    BY <1>3, <1>9, KeptIs DEF Alive, Answers
  <2>2. Answers(c, i) => Kept(i)'
    BY <1>3, <1>9, <2>1 DEF Kept
  <2> QED BY <1>2, <1>3, <2>1, <2>2, KeptStays DEF nodeVars
<1> QED BY <1>4, <1>5, <1>6

\* Work in a session that begins keeps the rest of the invariant.
LEMMA UseConnectsRest ==
  ASSUME NamesInv, RestInv, NamesInv', NEW c \in Slots, UseConnects(c), UNCHANGED nodeVars
  PROVE  RestInv'
<1> USE DEF RestInv
<1>1. call[c] # Idle /\ call[c].op = "use" /\ call[c].owner \in Sessions /\ ~ForNode(c) /\ call[c].id # None
  BY NotOfNode DEF NamesInv, NamesFit, Shape, UseConnects, At, Reached, SessionOps
<1>9. PICK s \in Sessions, j \in Instances :
         s = call[c].owner /\ j = call[c].id /\ j[1] = s /\ ref[s] = j /\ told[s] # "none" /\ j # None
  BY <1>1, NotOfNode DEF SessionsInv, SessionsFit
<1>10. PICK r : /\ Moves(c, r)
                /\ r # Idle => r.op = "use" /\ r.owner = s /\ r.at = "work" /\ r.id = j
  BY <1>1, <1>9, GoToIs, ReturnIs DEF UseConnects, At, Reached, Awaits, NamesInv, SandboxTypeOK
<1>2. Others(c) /\ call'[c] = r /\ ~ForNode(c)'
  BY <1>10, MovesOthers DEF NamesInv, SandboxTypeOK, ForNode
<1>3. UNCHANGED <<provider, nodeVars, lost, ref, told, state>>
  BY DEF UseConnects, Rest, sessionVars
<1>4. SessionsInv'
  <2>1. \A d \in Slots : call[d] # Idle /\ call[d].owner = s =>
           /\ call[d].op # "create" /\ call[d].at # "start"
           /\ call[d].op \in {"destroy", "stop", "use"} => ref[s] = call[d].id
    BY <1>9 DEF SessionsInv, SessionsFit, NamesInv, NamesFit, Shape
  <2>2. told[s] = "destroyed" => ~(state[ref[s]] \in {"running", "paused"})
    BY <1>9 DEF SessionsInv, DestroyedIsGone, Alive
  <2> QED BY <1>2, <1>3, <1>9, <1>10, <2>1, <2>2, SessionStep
<1>5. InstancesInv' /\ ServicesInv'
  BY <1>1, <1>2, <1>3, QuietNodes
<1>6. RunningIsKept'
  <2> SUFFICES ASSUME NEW i \in Instances, Alive(i)' PROVE Kept(i)'
    BY DEF RunningIsKept, Kept
  <2>1. Kept(i) /\ (Answers(c, i) => i = j)
    BY <1>3, <1>9, KeptIs DEF Alive, Answers
  <2>2. Answers(c, i) => Kept(i)'
    BY <1>3, <1>9, <2>1 DEF Kept
  <2> QED BY <1>2, <1>3, <2>1, <2>2, KeptStays DEF nodeVars
<1> QED BY <1>4, <1>5, <1>6

-----------------------------------------------------------------------------
(* Sandboxes: tasks. *)

\* A task that begins keeps the rest of the invariant.
LEMMA TaskBeginsRest ==
  ASSUME NamesInv, RestInv, NamesInv', NEW c \in Slots, NEW j \in Jobs, TaskBegins(c, j),
         UNCHANGED sessionVars
  PROVE  RestInv'
<1> USE DEF RestInv
<1>10. PICK r \in Call : Moves(c, r) /\ r.op = "task"
  BY BeginsIs DEF TaskBegins, Owners, Ops, Awaits
<1>1. call[c] = Idle /\ ~ForNode(c)
  BY DEF TaskBegins, Free, ForNode
<1>2. Others(c) /\ call'[c] = r /\ ~ForNode(c)' /\ r.op \in NodeOps
  BY <1>10, MovesOthers DEF NamesInv, SandboxTypeOK, ForNode, NodeOps
<1>3. UNCHANGED <<provider, nodeVars, state, lost, ref>>
  BY DEF TaskBegins, sessionVars
<1>5. SessionsInv'
  BY <1>1, <1>2, <1>3, QuietSessions DEF NodeOps
<1>6. InstancesInv' /\ ServicesInv'
  BY <1>1, <1>2, <1>3, QuietNodes
<1>7. RunningIsKept'
  <2> SUFFICES ASSUME NEW i \in Instances, Alive(i)' PROVE Kept(i)'
    BY DEF RunningIsKept, Kept
  <2>1. Kept(i) /\ ~Answers(c, i)
    BY <1>1, <1>3, KeptIs DEF Alive, Answers
  <2> QED BY <1>2, <1>3, <2>1, KeptStays DEF nodeVars
<1> QED BY <1>5, <1>6, <1>7

\* A task that has its sandbox keeps the rest of the invariant.
LEMMA TaskCreatedRest ==
  ASSUME NamesInv, RestInv, NamesInv', NEW c \in Slots, TaskCreated(c), UNCHANGED sessionVars
  PROVE  RestInv'
<1> USE DEF RestInv
<1>1. /\ call[c] # Idle /\ call[c].op = "task" /\ call[c].owner \in Jobs /\ call[c].at = "create"
         /\ ~ForNode(c)
      /\ IF call[c].at = "create" THEN call[c].id = None ELSE call[c].id # None
  BY NotOfNode DEF NamesInv, NamesFit, Shape, TaskCreated, At, Reached, SessionOps
<1>9. PICK j \in Jobs : j = call[c].owner /\ j \in Owners /\ j \notin Nodes /\ j \notin Sessions
  BY <1>1, ProviderAssumption DEF Owners
<1>10. PICK k \in Instances : k = NewInstance(j) /\ k[1] = j /\ state' = [state EXCEPT ![k] = "running"]
  BY <1>9, MakeIs DEF TaskCreated, NamesInv
<1>11. PICK r \in Call : Moves(c, r) /\ r.op = "task" /\ r.id = k
  BY <1>1, <1>9, <1>10, GoWithIs DEF TaskCreated, NamesInv, SandboxTypeOK, Awaits
<1>2. Others(c) /\ call'[c] = r /\ r # Idle /\ ~ForNode(c)' /\ r.op \in NodeOps
  BY <1>11, MovesOthers, IdleIsNoCall DEF NamesInv, SandboxTypeOK, ForNode, NodeOps
<1>3. /\ UNCHANGED <<ref, provider, nodeVars, lost>>
      /\ \A i \in Instances : i # k => state'[i] = state[i]
      /\ \A i \in Instances : i[1] \in Nodes \cup Sessions => state'[i] = state[i]
  BY <1>9, <1>10 DEF NamesInv, SandboxTypeOK, ProviderTypeOK, TaskCreated, sessionVars
<1>5. SessionsInv'
  BY <1>1, <1>2, <1>3, QuietSessions DEF NodeOps
<1>6. InstancesInv' /\ ServicesInv'
  BY <1>1, <1>2, <1>3, QuietNodes
<1>7. RunningIsKept'
  <2> SUFFICES ASSUME NEW i \in Instances, Alive(i)' PROVE Kept(i)'
    BY DEF RunningIsKept, Kept
  <2>1. CASE i = k
    BY <1>2, <1>11, <2>1 DEF Kept, Answers
  <2>2. CASE i # k
    <3>1. Kept(i) /\ ~Answers(c, i)
      BY <1>1, <1>3, <2>2, KeptIs, IdleIsNoCall DEF Answers, Alive
    <3> QED BY <1>2, <1>3, <3>1, KeptStays DEF nodeVars
  <2> QED BY <2>1, <2>2
<1> QED BY <1>5, <1>6, <1>7

\* A task whose sandbox cannot be created keeps the rest of the invariant.
LEMMA TaskCreateFailsRest ==
  ASSUME NamesInv, RestInv, NamesInv', NEW c \in Slots, TaskCreateFails(c), UNCHANGED sessionVars
  PROVE  RestInv'
<1> USE DEF RestInv
<1>1. /\ call[c] # Idle /\ call[c].op = "task" /\ call[c].owner \in Jobs /\ call[c].at = "create"
         /\ ~ForNode(c)
      /\ IF call[c].at = "create" THEN call[c].id = None ELSE call[c].id # None
  BY NotOfNode DEF NamesInv, NamesFit, Shape, TaskCreateFails, At, Reached, SessionOps
<1>9. PICK j \in Jobs : j = call[c].owner /\ j \in Owners /\ j \notin Nodes /\ j \notin Sessions
  BY <1>1, ProviderAssumption DEF Owners
<1>2. Others(c) /\ call'[c] = Idle /\ ~ForNode(c)'
  BY ReturnIs, MovesOthers DEF NamesInv, SandboxTypeOK, TaskCreateFails, ForNode
<1>3. /\ UNCHANGED <<ref, provider, nodeVars>> /\ lost \subseteq lost'
      /\ \A i \in Instances : state'[i] # state[i] => i \in lost' /\ i[1] = j
      /\ \A i \in Instances : i[1] \in Nodes \cup Sessions => state'[i] = state[i]
  BY <1>9, MakeFailsIs DEF NamesInv, TaskCreateFails, sessionVars
<1>5. SessionsInv'
  BY <1>1, <1>2, <1>3, QuietSessions DEF NodeOps
<1>6. InstancesInv' /\ ServicesInv'
  BY <1>1, <1>2, <1>3, QuietNodes
<1>7. RunningIsKept'
  <2> SUFFICES ASSUME NEW i \in Instances, Alive(i)' PROVE Kept(i)'
    BY DEF RunningIsKept, Kept
  <2>1. CASE Alive(i)
    <3>1. Kept(i) /\ ~Answers(c, i)
      BY <1>1, <2>1, KeptIs, IdleIsNoCall DEF Answers
    <3> QED BY <1>2, <1>3, <3>1, KeptStays DEF nodeVars
  <2>2. CASE ~Alive(i)
    BY <1>3, <2>2 DEF Alive, Kept
  <2> QED BY <2>1, <2>2
<1> QED BY <1>5, <1>6, <1>7

\* A task that has run keeps the rest of the invariant.
LEMMA WorkEndsRest ==
  ASSUME NamesInv, RestInv, NamesInv', NEW c \in Slots, WorkEnds(c), UNCHANGED sessionVars
  PROVE  RestInv'
<1> USE DEF RestInv
<1>1. /\ call[c] # Idle /\ call[c].op = "task" /\ call[c].owner \in Jobs /\ call[c].at = "work"
         /\ ~ForNode(c)
      /\ IF call[c].at = "create" THEN call[c].id = None ELSE call[c].id # None
  BY NotOfNode DEF NamesInv, NamesFit, Shape, WorkEnds, At, Reached, SessionOps
<1>9. PICK j \in Jobs : j = call[c].owner /\ j \in Owners /\ j \notin Nodes /\ j \notin Sessions
  BY <1>1, ProviderAssumption DEF Owners
<1>10. PICK r \in Call : Moves(c, r) /\ r.op = "task" /\ r.id = call[c].id
  BY <1>1, GoToIs DEF WorkEnds, Awaits, NamesInv, SandboxTypeOK
<1>2. Others(c) /\ call'[c] = r /\ r # Idle /\ ~ForNode(c)' /\ r.op \in NodeOps
  BY <1>10, MovesOthers, IdleIsNoCall DEF NamesInv, SandboxTypeOK, ForNode, NodeOps
<1>3. UNCHANGED <<provider, nodeVars, state, lost, ref>>
  BY DEF WorkEnds, sessionVars
<1>5. SessionsInv'
  BY <1>1, <1>2, <1>3, QuietSessions DEF NodeOps
<1>6. InstancesInv' /\ ServicesInv'
  BY <1>1, <1>2, <1>3, QuietNodes
<1>7. RunningIsKept'
  <2> SUFFICES ASSUME NEW i \in Instances, Alive(i)' PROVE Kept(i)'
    BY DEF RunningIsKept, Kept
  <2>1. Kept(i)
    BY <1>3, KeptIs DEF Alive
  <2>2. Answers(c, i) => Kept(i)'
    BY <1>2, <1>10 DEF Kept, Answers
  <2> QED BY <1>2, <1>3, <2>1, <2>2, KeptStays DEF nodeVars
<1> QED BY <1>5, <1>6, <1>7

\* The end of a task's sandbox keeps the rest of the invariant.
LEMMA TaskKilledRest ==
  ASSUME NamesInv, RestInv, NamesInv', NEW c \in Slots, TaskKilled(c), UNCHANGED sessionVars
  PROVE  RestInv'
<1> USE DEF RestInv
<1>1. /\ call[c] # Idle /\ call[c].op = "task" /\ call[c].owner \in Jobs /\ call[c].at = "kill"
         /\ ~ForNode(c)
      /\ IF call[c].at = "create" THEN call[c].id = None ELSE call[c].id # None
  BY NotOfNode DEF NamesInv, NamesFit, Shape, TaskKilled, At, Reached, SessionOps
<1>9. PICK j \in Jobs : j = call[c].owner /\ j \in Owners /\ j \notin Nodes /\ j \notin Sessions
  BY <1>1, ProviderAssumption DEF Owners
<1>10. PICK k \in Instances : k = call[c].id /\ k[1] = j
  BY <1>1, <1>9, NotOfNode
<1>2. Others(c) /\ call'[c] = Idle /\ ~ForNode(c)'
  BY ReturnIs, MovesOthers DEF NamesInv, SandboxTypeOK, TaskKilled, ForNode
<1>11. \/ state' = [state EXCEPT ![k] = "absent"] /\ UNCHANGED lost
       \/ UNCHANGED state /\ lost' = lost \cup {k}
  BY <1>10 DEF TaskKilled, Kill, KillFails
<1>3. /\ UNCHANGED <<ref, provider, nodeVars>> /\ lost \subseteq lost'
      /\ \A i \in Instances : i # k => state'[i] = state[i]
      /\ ~Alive(k)' \/ (k \in lost' /\ UNCHANGED state)
      /\ \A i \in Instances : i[1] \in Nodes \cup Sessions => state'[i] = state[i]
  BY <1>9, <1>10, <1>11 DEF NamesInv, SandboxTypeOK, ProviderTypeOK, TaskKilled, sessionVars, Alive
<1>5. SessionsInv'
  BY <1>1, <1>2, <1>3, QuietSessions DEF NodeOps
<1>6. InstancesInv' /\ ServicesInv'
  BY <1>1, <1>2, <1>3, QuietNodes
<1>7. RunningIsKept'
  <2> SUFFICES ASSUME NEW i \in Instances, Alive(i)' PROVE Kept(i)'
    BY DEF RunningIsKept, Kept
  <2>1. CASE i = k
    BY <1>3, <2>1 DEF Kept
  <2>2. CASE i # k
    <3>1. Kept(i) /\ ~Answers(c, i)
      BY <1>3, <1>10, <2>2, KeptIs DEF Answers, Alive
    <3> QED BY <1>2, <1>3, <3>1, KeptStays DEF nodeVars
  <2> QED BY <2>1, <2>2
<1> QED BY <1>5, <1>6, <1>7

-----------------------------------------------------------------------------
(* Sandboxes: the services of a node. *)

\* Nobody but slot c has a call for service x, unless the service is raced after the step.
Alone(c, x) == \A d \in Slots \ {c} : ForNode(d) /\ Service(d) = x => x \in raced'

\* What races and errors leave of the histories.
HistoriesGrow == raced \subseteq raced' /\ erred \subseteq erred' /\ UNCHANGED endedNodes

\* What the invariant says of service x to the call of slot c.
LEMMA OwnService ==
  ASSUME NamesInv, ServicesInv, NEW c \in Slots, NEW x \in AllServices, Alone(c, x), HistoriesGrow,
         Settled(x)'
  PROVE  /\ Settled(x)
         /\ x \in serviceProcesses /\ x[1] \notin endedNodes =>
              process[x] = "listening" \/ (Reached(c, "wait") /\ Service(c) = x)
         /\ x \in exposed => x \in servicePorts
         /\ ForNode(c) /\ Service(c) = x =>
              /\ call[c].at = "unexpose" /\ x \in servicePorts => "port" \in call[c].read
              /\ call[c].at = "killProcess" => x \notin exposed
              /\ call[c].at = "expose" /\ x[1] \notin endedNodes => process[x] = "listening"
<1>1. Settled(x)
  BY DEF Settled, HistoriesGrow
<1>2. ASSUME x \in serviceProcesses, x[1] \notin endedNodes, process[x] # "listening"
      PROVE  Reached(c, "wait") /\ Service(c) = x
  <2>1. PICK d \in Slots : Reached(d, "wait") /\ Service(d) = x
    BY <1>1, <1>2 DEF ServicesInv, ServicesFit
  <2>2. ForNode(d)
    BY <2>1 DEF NamesInv, NamesFit, Shape, Reached, ForNode
  <2>3. d = c
    BY <2>1, <2>2 DEF Alone, Settled
  <2> QED BY <2>1, <2>3
<1>3. x \in exposed => x \in servicePorts
  BY <1>1 DEF ServicesInv, ExposedIsKnown, Settled
<1>4. ASSUME ForNode(c), Service(c) = x
      PROVE  /\ call[c].at = "unexpose" /\ x \in servicePorts => "port" \in call[c].read
             /\ call[c].at = "killProcess" => x \notin exposed
             /\ call[c].at = "expose" /\ x[1] \notin endedNodes => process[x] = "listening"
  <2>1. x[1] = call[c].owner
    BY <1>4 DEF Service
  <2> QED BY <1>1, <1>4, <2>1 DEF ServicesInv, ServicesFit
<1> QED BY <1>1, <1>2, <1>3, <1>4

\* A step of a call for service x.
LEMMA ServiceStep ==
  ASSUME NamesInv, NamesInv', ServicesInv, NEW c \in Slots, NEW x \in AllServices, Others(c), Alone(c, x),
         HistoriesGrow,
         ForNode(c) => Service(c) = x, ForNode(c)' => Service(c)' = x,
         \A y \in AllServices \ {x} : /\ y \in exposed' <=> y \in exposed
                                      /\ y \in servicePorts' <=> y \in servicePorts
                                      /\ y \in serviceProcesses' <=> y \in serviceProcesses
                                      /\ process'[y] = process[y],
         Settled(x)' =>
           /\ ForNode(c)' =>
                /\ call'[c].at = "unexpose" /\ x \in servicePorts' => "port" \in call'[c].read
                /\ call'[c].at = "killProcess" => x \notin exposed'
                /\ call'[c].at = "expose" /\ x[1] \notin endedNodes => process'[x] = "listening"
           /\ x \in serviceProcesses' /\ x[1] \notin endedNodes =>
                process'[x] = "listening" \/ (Reached(c, "wait")' /\ Service(c)' = x)
           /\ x \in exposed' => x \in servicePorts'
  PROVE  ServicesInv'
<1>1. \A d \in Slots \ {c} : /\ call'[d] = call[d] /\ (Reached(d, "wait") <=> Reached(d, "wait")')
                             /\ (ForNode(d) <=> ForNode(d)') /\ Service(d)' = Service(d)
  BY DEF Others, Reached, ForNode, Service
<1>2. \A y : Settled(y)' => Settled(y)
  BY DEF HistoriesGrow, Settled
<1>3. ASSUME NEW d \in Slots, NEW e \in Slots, d # e, ForNode(d)', ForNode(e)', Service(d)' = Service(e)'
      PROVE  Service(d)' \in raced'
  <2>1. CASE d = c \/ e = c
    BY <1>1, <1>3, <2>1 DEF Alone
  <2>2. CASE d # c /\ e # c
    <3>1. ForNode(d) /\ ForNode(e) /\ Service(d) = Service(e) /\ Service(d)' = Service(d)
      BY <1>1, <1>3, <2>2
    <3>2. Service(d) \in raced
      BY <1>3, <3>1 DEF ServicesInv, ServicesFit
    <3> QED BY <3>1, <3>2 DEF HistoriesGrow
  <2> QED BY <2>1, <2>2
<1>4. ASSUME NEW d \in Slots, ForNode(d)', Settled(Service(d))'
      PROVE  /\ call'[d].at = "unexpose" /\ Service(d)' \in servicePorts' => "port" \in call'[d].read
             /\ call'[d].at = "killProcess" => Service(d)' \notin exposed'
             /\ call'[d].at = "expose" /\ call'[d].owner \notin endedNodes'
                => process'[Service(d)'] = "listening"
  <2>1. CASE d = c
    <3>1. Service(d)' = x /\ Settled(x)' /\ x[1] = call'[d].owner
      BY <1>4, <2>1 DEF Settled, Service
    <3> QED BY <1>4, <2>1, <3>1 DEF HistoriesGrow
  <2>2. CASE d # c
    <3>1. /\ ForNode(d) /\ call'[d] = call[d] /\ Service(d)' = Service(d)
      BY <1>1, <1>4, <2>2
    <3>2. Settled(Service(d)) /\ Service(d) \notin raced' /\ Service(d) \in AllServices
      BY <1>4, <3>1 DEF Settled, HistoriesGrow
    <3>3. Service(d) # x
      BY <2>2, <3>1, <3>2 DEF Alone
    <3>4. /\ call[d].at = "unexpose" /\ Service(d) \in servicePorts => "port" \in call[d].read
          /\ call[d].at = "killProcess" => Service(d) \notin exposed
          /\ call[d].at = "expose" /\ call[d].owner \notin endedNodes => process[Service(d)] = "listening"
      BY <3>1, <3>2 DEF ServicesInv, ServicesFit
    <3> QED BY <3>1, <3>2, <3>3, <3>4 DEF HistoriesGrow
  <2> QED BY <2>1, <2>2
<1>5. ASSUME NEW y \in serviceProcesses', Settled(y)', y[1] \notin endedNodes'
      PROVE  process'[y] = "listening" \/ \E d \in Slots : Reached(d, "wait")' /\ Service(d)' = y
  <2>1. CASE y = x
    BY <1>5, <2>1 DEF HistoriesGrow
  <2>2. CASE y # x
    <3>1. y \in serviceProcesses /\ Settled(y) /\ process'[y] = process[y] /\ y[1] \notin endedNodes
      BY <1>2, <1>5, <2>2 DEF Settled, HistoriesGrow
    <3>2. process[y] = "listening" \/ \E d \in Slots : Reached(d, "wait") /\ Service(d) = y
      BY <3>1 DEF ServicesInv, ServicesFit
    <3>3. ASSUME NEW d \in Slots, Reached(d, "wait"), Service(d) = y
          PROVE  d # c
      <4>1. ForNode(d)
        BY <3>3 DEF NamesInv, NamesFit, Shape, Reached, ForNode
      <4> QED BY <2>2, <3>3, <4>1
    <3> QED BY <1>1, <3>1, <3>2, <3>3
  <2> QED BY <2>1, <2>2
<1>6. ASSUME NEW y \in exposed'
      PROVE  y \in servicePorts' \/ y \in raced' \/ y \in erred'
  <2>0. y \in AllServices
    BY DEF NamesInv, SandboxTypeOK, NodeTypeOK
  <2>1. CASE y = x
    BY <1>6, <2>0, <2>1 DEF Settled
  <2>2. CASE y # x
    BY <1>6, <2>0, <2>2 DEF ServicesInv, ExposedIsKnown, HistoriesGrow
  <2> QED BY <2>1, <2>2
<1> QED BY <1>3, <1>4, <1>5, <1>6 DEF ServicesInv, ServicesFit, ExposedIsKnown

\* A step of a call for service x that changes neither the service nor its caches.
LEMMA QuietService ==
  ASSUME NamesInv, NamesInv', ServicesInv, NEW c \in Slots, NEW x \in AllServices, Others(c), Alone(c, x),
         HistoriesGrow,
         ForNode(c) => Service(c) = x, ForNode(c)' => Service(c)' = x,
         UNCHANGED <<serviceProcesses, servicePorts, process, exposed>>,
         Reached(c, "wait") => x \in erred',
         ForNode(c)' => /\ call'[c].at # "killProcess"
                        /\ call'[c].at = "unexpose" => ("port" \in call'[c].read <=> x \in servicePorts)
                        /\ call'[c].at = "expose" => x \in serviceProcesses
  PROVE  ServicesInv'
<1>1. ASSUME Settled(x)'
      PROVE  /\ x \in serviceProcesses /\ x[1] \notin endedNodes => process[x] = "listening"
             /\ x \in exposed => x \in servicePorts
  BY <1>1, OwnService DEF Settled
<1> QED BY <1>1, ServiceStep

-----------------------------------------------------------------------------
(* Sandboxes: the instance of a node. *)

\* A call that disposes of its instance.
Disposing(d) == d # Idle /\ d.op \in {"revoke", "restart"} /\ d.at = "kill"

\* A step of a call for node n.
LEMMA InstanceStep ==
  ASSUME NamesInv, NamesInv', InstancesInv, NEW c \in Slots, NEW n \in Nodes, Others(c),
         UNCHANGED <<endedNodes, provider>>, lost \subseteq lost', racedNodes \subseteq racedNodes',
         \A m \in Nodes \ {n} : nodeInstances'[m] = nodeInstances[m],
         \A i \in Instances : i[1] \in Nodes \ {n} => state'[i] = state[i],
         ForNode(c)' => call'[c].owner = n,
         n \notin racedNodes' =>
           /\ Creating(c, n)' => nodeInstances'[n] = None /\ \A d \in Slots \ {c} : ~Creating(d, n)
           /\ \A d \in Slots \ {c} : Creating(d, n) => nodeInstances'[n] = None,
         Disposing(call'[c]) => provider # "cloudflare" /\ nodeInstances'[n] # call'[c].id,
         \A d \in Slots \ {c} : Disposing(call[d]) /\ call[d].owner = n => nodeInstances'[n] # call[d].id,
         nodeInstances'[n] # None =>
           state'[nodeInstances'[n]] \in {"running", "paused"} \/ nodeInstances'[n] \in lost'
             \/ n \in endedNodes
  PROVE  InstancesInv'
<1>1. \A d \in Slots \ {c} : call'[d] = call[d] /\ \A m \in Nodes : Creating(d, m)' <=> Creating(d, m)
  BY DEF Others, Creating, Reached
<1>2. \A m \in Nodes \ {n} : ~Creating(c, m)'
  <2> SUFFICES ASSUME NEW m \in Nodes \ {n}, Creating(c, m)' PROVE FALSE
    OBVIOUS
  <2>1. Shape(call'[c]) /\ call'[c] # Idle /\ call'[c].owner = m /\ call'[c].at = "create"
    BY DEF NamesInv, NamesFit, Creating, Reached
  <2>2. call'[c].op \in {"launch", "restart"}
    BY <2>1, ProviderAssumption DEF Shape
  <2> QED BY <2>1, <2>2 DEF ForNode
<1>3. CreatorsFit'
  <2> SUFFICES ASSUME NEW d \in Slots, NEW m \in Nodes \ racedNodes', Creating(d, m)'
               PROVE  nodeInstances'[m] = None /\ \A e \in Slots \ {d} : ~Creating(e, m)'
    BY DEF CreatorsFit
  <2>1. CASE m = n
    <3>1. n \notin racedNodes /\ \A e \in Slots \ {c} : Creating(e, n)' <=> Creating(e, n)
      BY <1>1, <2>1
    <3>2. \A e, f \in Slots : Creating(e, n) /\ Creating(f, n) => e = f
      BY <3>1 DEF InstancesInv, CreatorsFit
    <3> QED BY <2>1, <3>1, <3>2
  <2>2. CASE m # n
    BY <1>1, <1>2, <2>2 DEF InstancesInv, CreatorsFit
  <2> QED BY <2>1, <2>2
<1>4. DisposedIsForgotten'
  <2> SUFFICES ASSUME NEW d \in Slots, Disposing(call'[d])
               PROVE  provider # "cloudflare" /\ nodeInstances'[call'[d].owner] # call'[d].id
    BY DEF DisposedIsForgotten, Disposing
  <2>1. CASE d = c
    BY <2>1 DEF Disposing, ForNode
  <2>2. CASE d # c
    <3>1. call'[d] = call[d] /\ Disposing(call[d]) /\ call[d].owner \in Nodes
      BY <1>1, <2>2 DEF NamesInv, NamesFit, Shape, Disposing
    <3>2. provider # "cloudflare" /\ nodeInstances[call[d].owner] # call[d].id
      BY <3>1 DEF InstancesInv, DisposedIsForgotten, Disposing
    <3> QED BY <2>2, <3>1, <3>2
  <2> QED BY <2>1, <2>2
<1>5. CachedIsUsable'
  <2> SUFFICES ASSUME NEW m \in Nodes, nodeInstances'[m] # None
               PROVE  state'[nodeInstances'[m]] \in {"running", "paused"} \/ nodeInstances'[m] \in lost'
                      \/ m \in endedNodes
    BY DEF CachedIsUsable, Alive
  <2>1. CASE m = n
    BY <2>1
  <2>2. CASE m # n
    <3>1. nodeInstances'[m] = nodeInstances[m] /\ nodeInstances[m] \in Instances /\ nodeInstances[m][1] = m
      BY <2>2 DEF NamesInv, NamesFit, MadeFor
    <3>2. state'[nodeInstances[m]] = state[nodeInstances[m]]
      BY <2>2, <3>1
    <3> QED BY <2>2, <3>1, <3>2 DEF InstancesInv, CachedIsUsable, Alive
  <2> QED BY <2>1, <2>2
<1> QED BY <1>3, <1>4, <1>5 DEF InstancesInv

\* A step of a call for a node that has its instance and does not dispose of it.
LEMMA QuietInstance ==
  ASSUME NamesInv, NamesInv', SessionsInv, InstancesInv, RunningIsKept, NEW c \in Slots, Others(c),
         ForNode(c),
         call[c].at # "kill",
         UNCHANGED <<endedNodes, provider, nodeInstances, racedNodes, state, lost, sessionVars>>,
         call'[c] # Idle => /\ call'[c].owner = call[c].owner /\ call'[c].op = call[c].op
                            /\ call'[c].at \notin {"create", "kill"}
  PROVE  SessionsInv' /\ InstancesInv' /\ RunningIsKept'
<1>1. PICK n \in Nodes : n = call[c].owner
  BY DEF ForNode, NamesInv, NamesFit, Shape
<1>2. SessionsInv'
  BY QuietSessions DEF ForNode, NodeOps
<1>3. InstancesInv'
  <2>1. ~Creating(c, n)' /\ ~Disposing(call'[c])
    BY DEF Creating, Reached, Disposing
  <2>2. n \notin racedNodes => \A d \in Slots \ {c} : Creating(d, n) => nodeInstances[n] = None
    BY DEF InstancesInv, CreatorsFit
  <2>3. \A d \in Slots : Disposing(call[d]) /\ call[d].owner = n => nodeInstances[n] # call[d].id
    BY DEF InstancesInv, DisposedIsForgotten, Disposing
  <2>4. nodeInstances[n] # None =>
          state[nodeInstances[n]] \in {"running", "paused"} \/ nodeInstances[n] \in lost \/ n \in endedNodes
    BY DEF InstancesInv, CachedIsUsable, Alive
  <2>5. ForNode(c)' => call'[c].owner = n
    BY <1>1 DEF ForNode
  <2> QED BY <2>1, <2>2, <2>3, <2>4, <2>5, InstanceStep
<1>4. RunningIsKept'
  <2> SUFFICES ASSUME NEW i \in Instances, Alive(i)' PROVE Kept(i)'
    BY DEF RunningIsKept, Kept
  <2>1. Kept(i)
    BY KeptIs DEF Alive
  <2>2. ~Answers(c, i)
    BY DEF Answers, ForNode, NamesInv, NamesFit, Shape
  <2> QED BY <2>1, <2>2, KeptStays DEF sessionVars
<1> QED BY <1>2, <1>3, <1>4

\* A call that goes on with ensureNodeConnection.
LEMMA EnsureInstance ==
  ASSUME NamesInv, NamesInv', InstancesInv, NEW c \in Slots, NEW n \in Nodes,
         NEW op \in {"launch", "restart"},
         NEW s \in Services, Await(c, Ensuring(op, n, s)), NoteCreation(c, n),
         UNCHANGED <<endedNodes, provider, nodeInstances>>, lost \subseteq lost',
         \A i \in Instances : i[1] \in Nodes /\ state'[i] # state[i] =>
           i[1] = n /\ (i \in lost' \/ i # nodeInstances[n])
  PROVE  /\ InstancesInv' /\ Others(c) /\ racedNodes \subseteq racedNodes'
         /\ call'[c] # Idle /\ call'[c].op = op /\ call'[c].owner = n /\ call'[c].svc = s
         /\ call'[c].at \in {"create", "connect"}
<1>1. PICK r \in Call : /\ r = Ensuring(op, n, s) /\ r.op = op /\ r.owner = n /\ r.svc = s
                        /\ r.at = IF nodeInstances[n] = None THEN "create" ELSE "connect"
  BY EnsuringIs DEF NamesInv
<1>2. Moves(c, r) /\ Others(c) /\ call'[c] = r /\ r # Idle
  BY <1>1, MovesOthers, IdleIsNoCall DEF Await, Moves, NamesInv, SandboxTypeOK
<1>3. racedNodes \subseteq racedNodes'
  BY DEF NoteCreation
<1>4. InstancesInv'
  <2>1. n \notin racedNodes' =>
           /\ Creating(c, n)' => nodeInstances'[n] = None /\ \A d \in Slots \ {c} : ~Creating(d, n)
           /\ \A d \in Slots \ {c} : Creating(d, n) => nodeInstances'[n] = None
    <3> SUFFICES ASSUME n \notin racedNodes'
                 PROVE  /\ Creating(c, n)' => nodeInstances[n] = None
                           /\ \A d \in Slots \ {c} : ~Creating(d, n)
                        /\ \A d \in Slots \ {c} : Creating(d, n) => nodeInstances[n] = None
      OBVIOUS
    <3>1. nodeInstances[n] = None => \A d \in Slots \ {c} : ~Creating(d, n)
      BY DEF NoteCreation
    <3>2. Creating(c, n)' => nodeInstances[n] = None
      BY <1>1, <1>2 DEF Creating, Reached
    <3>3. n \notin racedNodes
      BY <1>3
    <3> QED BY <3>1, <3>2, <3>3 DEF InstancesInv, CreatorsFit
  <2>2. \A d \in Slots : Disposing(call[d]) /\ call[d].owner = n => nodeInstances[n] # call[d].id
    BY DEF InstancesInv, DisposedIsForgotten, Disposing
  <2>3. ASSUME nodeInstances[n] # None
        PROVE  state'[nodeInstances[n]] \in {"running", "paused"} \/ nodeInstances[n] \in lost'
               \/ n \in endedNodes
    <3>1. nodeInstances[n] \in Instances /\ nodeInstances[n][1] = n
      BY <2>3 DEF NamesInv, NamesFit, MadeFor
    <3> QED BY <2>3, <3>1 DEF InstancesInv, CachedIsUsable, Alive
  <2>4. ~Disposing(call'[c])
    BY <1>1, <1>2 DEF Disposing
  <2>5. ForNode(c)' => call'[c].owner = n
    BY <1>1, <1>2
  <2> QED BY <1>2, <1>3, <2>1, <2>2, <2>3, <2>4, <2>5, InstanceStep
<1> QED BY <1>1, <1>2, <1>3, <1>4

\* A call for a node, and its service.
LEMMA ForNodeIs ==
  ASSUME NamesInv, ServicesInv, raced \subseteq raced', NEW c \in Slots, ForNode(c)
  PROVE  /\ call[c] # Idle /\ call[c].op \in NodeOps /\ call[c].owner \in Nodes /\ call[c].svc \in Services
         /\ call[c].owner \in Owners /\ Shape(call[c])
         /\ Service(c) \in AllServices /\ Alone(c, Service(c))
         /\ call[c].at # "create" => call[c].id \in Instances /\ call[c].id[1] = call[c].owner
<1>1. /\ call[c] # Idle /\ call[c].op \in NodeOps /\ call[c].owner \in Nodes /\ call[c].svc \in Services
      /\ Shape(call[c]) /\ (call[c].id # None => MadeFor(call[c].id, call[c].owner))
  BY DEF ForNode, NodeOps, NamesInv, NamesFit, Shape
<1>2. Alone(c, Service(c))
  BY DEF Alone, ServicesInv, ServicesFit
<1> QED BY <1>1, <1>2 DEF Owners, Service, AllServices, Shape, MadeFor

\* A connection to the instance of a node keeps the rest of the invariant.
LEMMA EnsureConnectedRest ==
  ASSUME NamesInv, RestInv, NamesInv', NEW c \in Slots, EnsureConnected(c), UNCHANGED sessionVars
  PROVE  RestInv'
<1> USE DEF RestInv
<1>1. ForNode(c) /\ call[c].at = "connect" /\ HistoriesGrow
  BY CallIs DEF EnsureConnected, At, Reached, ForNode, NamesInv, SandboxTypeOK, Shape, NoteError,
      HistoriesGrow, nodeVars, historyVars
<1>2. PICK x \in AllServices : x = Service(c) /\ Alone(c, x)
  BY <1>1, ForNodeIs DEF HistoriesGrow
<1>3. /\ Others(c)
      /\ call'[c] # Idle =>
           /\ call'[c].owner = call[c].owner /\ call'[c].op = call[c].op /\ Service(c)' = x
           /\ call'[c].at \in {"endpoint", "expose", "process"}
           /\ call'[c].at = "expose" => x \in serviceProcesses
  <2>1. call[c].op \in {"launch", "restart"} /\ call[c].id \in Instances /\ GoOn(c, call[c].id)
    BY <1>1, ForNodeIs DEF EnsureConnected, HistoriesGrow
  <2>2. CASE Moves(c, Idle)
    BY <2>2, MovesOthers DEF NamesInv, SandboxTypeOK
  <2>3. CASE ~Moves(c, Idle)
    <3>1. PICK r \in Call :
              /\ Moves(c, r) /\ Shape(r)
              /\ r.op = call[c].op /\ r.owner = call[c].owner /\ r.svc = call[c].svc
                 /\ r.read = call[c].read
              /\ r.id = call[c].id
              /\ \/ r.at = "endpoint"
                 \/ r.at = "expose" /\ Service(c) \in serviceProcesses
                 \/ r.at = "process" /\ Service(c) \notin serviceProcesses
      BY <1>1, <2>1, <2>3, GoOnIs DEF NamesInv, ForNode
    <3>2. Others(c) /\ call'[c] = r
      BY <3>1, MovesOthers DEF NamesInv, SandboxTypeOK
    <3> QED BY <1>2, <3>1, <3>2 DEF Service
  <2> QED BY <2>2, <2>3
<1>4. UNCHANGED <<endedNodes, provider, nodeInstances, racedNodes, state, lost, sessionVars>>
  BY DEF EnsureConnected, cacheVars, nodeVars, historyVars
<1>5. UNCHANGED <<serviceProcesses, servicePorts, process, exposed>>
  BY DEF EnsureConnected, cacheVars, serviceVars, nodeVars
<1>6. ServicesInv'
  <2>1. ForNode(c)' => call'[c] # Idle
    BY DEF ForNode
  <2> QED BY <1>1, <1>2, <1>3, <1>5, <2>1, QuietService DEF Reached
<1>7. SessionsInv' /\ InstancesInv' /\ RunningIsKept'
  BY <1>1, <1>3, <1>4, QuietInstance
<1> QED BY <1>6, <1>7

\* A connection that fails keeps the rest of the invariant.
LEMMA EnsureConnectFailsRest ==
  ASSUME NamesInv, RestInv, NamesInv', NEW c \in Slots, EnsureConnectFails(c), UNCHANGED sessionVars
  PROVE  RestInv'
<1> USE DEF RestInv
<1>1. ForNode(c) /\ call[c].at = "connect" /\ HistoriesGrow
  BY CallIs DEF EnsureConnectFails, At, Reached, ForNode, NamesInv, SandboxTypeOK, Shape, NoteError,
      HistoriesGrow, nodeVars, historyVars
<1>2. PICK x \in AllServices : x = Service(c) /\ Alone(c, x)
  BY <1>1, ForNodeIs DEF HistoriesGrow
<1>3. Others(c) /\ call'[c] = Idle /\ ~ForNode(c)'
  BY ReturnIs, MovesOthers DEF NamesInv, SandboxTypeOK, EnsureConnectFails, ForNode
<1>4. UNCHANGED <<endedNodes, provider, nodeInstances, racedNodes, state, lost, sessionVars>>
  BY DEF EnsureConnectFails, cacheVars, nodeVars, historyVars
<1>5. UNCHANGED <<serviceProcesses, servicePorts, process, exposed>>
  BY DEF EnsureConnectFails, cacheVars, serviceVars, nodeVars
<1>6. ServicesInv'
  BY <1>1, <1>2, <1>3, <1>5, QuietService DEF Reached
<1>7. SessionsInv' /\ InstancesInv' /\ RunningIsKept'
  BY <1>1, <1>3, <1>4, QuietInstance
<1> QED BY <1>6, <1>7

\* The endpoint of a service keeps the rest of the invariant.
LEMMA EndpointRest ==
  ASSUME NamesInv, RestInv, NamesInv', NEW c \in Slots, Endpoint(c), UNCHANGED sessionVars
  PROVE  RestInv'
<1> USE DEF RestInv
<1>1. ForNode(c) /\ call[c].at = "endpoint" /\ HistoriesGrow
  BY CallIs DEF Endpoint, At, Reached, ForNode, NamesInv, SandboxTypeOK, Shape, NoteError, HistoriesGrow,
      nodeVars, historyVars
<1>2. PICK x \in AllServices : x = Service(c) /\ Alone(c, x)
  BY <1>1, ForNodeIs DEF HistoriesGrow
<1>3. Others(c) /\ call'[c] = Idle /\ ~ForNode(c)'
  BY ReturnIs, MovesOthers DEF NamesInv, SandboxTypeOK, Endpoint, ForNode
<1>4. UNCHANGED <<endedNodes, provider, nodeInstances, racedNodes, state, lost, sessionVars>>
  BY DEF Endpoint, cacheVars, nodeVars, historyVars
<1>5. UNCHANGED <<serviceProcesses, servicePorts, process, exposed>>
  BY DEF Endpoint, cacheVars, serviceVars, nodeVars
<1>6. ServicesInv'
  BY <1>1, <1>2, <1>3, <1>5, QuietService DEF Reached
<1>7. SessionsInv' /\ InstancesInv' /\ RunningIsKept'
  BY <1>1, <1>3, <1>4, QuietInstance
<1> QED BY <1>6, <1>7

\* A process that starts keeps the rest of the invariant.
LEMMA ProcessStartsRest ==
  ASSUME NamesInv, RestInv, NamesInv', NEW c \in Slots, ProcessStarts(c), UNCHANGED sessionVars
  PROVE  RestInv'
<1> USE DEF RestInv
<1>1. ForNode(c) /\ call[c].at = "process" /\ HistoriesGrow
  BY CallIs DEF ProcessStarts, At, Reached, ForNode, NamesInv, SandboxTypeOK, Shape, NoteError,
      HistoriesGrow, nodeVars, historyVars
<1>2. PICK x \in AllServices : x = Service(c) /\ Alone(c, x)
  BY <1>1, ForNodeIs DEF HistoriesGrow
<1>3. /\ Others(c) /\ call'[c].at = "wait" /\ call'[c].owner = call[c].owner /\ call'[c].op = call[c].op
      /\ Service(c)' = x /\ call'[c].read = call[c].read /\ call'[c] # Idle
  <2>1. PICK r \in Call : /\ Moves(c, r) /\ r.at = "wait" /\ r.owner = call[c].owner /\ r.op = call[c].op
                          /\ r.svc = call[c].svc /\ r.read = call[c].read
    BY <1>1, GoToIs DEF ProcessStarts, Reached, Awaits, NamesInv, SandboxTypeOK
  <2>2. Others(c) /\ call'[c] = r /\ r # Idle
    BY <2>1, MovesOthers, IdleIsNoCall DEF NamesInv, SandboxTypeOK
  <2> QED BY <1>2, <2>1, <2>2 DEF Service
<1>4. UNCHANGED <<endedNodes, provider, nodeInstances, racedNodes, state, lost, sessionVars>>
  BY DEF ProcessStarts, cacheVars, nodeVars, historyVars
<1>5. ASSUME Settled(x)'
      PROVE  /\ x \in serviceProcesses /\ x[1] \notin endedNodes =>
                  process[x] = "listening" \/ call[c].at = "wait"
             /\ x \in exposed => x \in servicePorts
             /\ call[c].at = "unexpose" /\ x \in servicePorts => "port" \in call[c].read
             /\ call[c].at = "killProcess" => x \notin exposed
             /\ call[c].at = "expose" /\ x[1] \notin endedNodes => process[x] = "listening"
  BY <1>1, <1>2, <1>5, OwnService DEF Reached
<1>6. ServicesInv'
  <2>1. /\ serviceProcesses' = serviceProcesses \cup {x} /\ UNCHANGED <<servicePorts, exposed>>
        /\ \A y \in AllServices \ {x} : process'[y] = process[y]
    BY <1>2 DEF ProcessStarts, NamesInv, SandboxTypeOK, NodeTypeOK
  <2>2. Reached(c, "wait")'
    BY <1>3 DEF Reached
  <2> QED BY <1>1, <1>2, <1>3, <1>5, <2>1, <2>2, ServiceStep
<1>7. SessionsInv' /\ InstancesInv' /\ RunningIsKept'
  BY <1>1, <1>3, <1>4, QuietInstance
<1> QED BY <1>6, <1>7

\* A port that opens keeps the rest of the invariant.
LEMMA PortOpensRest ==
  ASSUME NamesInv, RestInv, NamesInv', NEW c \in Slots, PortOpens(c), UNCHANGED sessionVars
  PROVE  RestInv'
<1> USE DEF RestInv
<1>1. ForNode(c) /\ call[c].at = "wait" /\ HistoriesGrow
  BY CallIs DEF PortOpens, At, Reached, ForNode, NamesInv, SandboxTypeOK, Shape, NoteError, HistoriesGrow,
      nodeVars, historyVars
<1>2. PICK x \in AllServices : x = Service(c) /\ Alone(c, x)
  BY <1>1, ForNodeIs DEF HistoriesGrow
<1>3. /\ Others(c) /\ call'[c].at = "expose" /\ call'[c].owner = call[c].owner /\ call'[c].op = call[c].op
      /\ Service(c)' = x /\ call'[c].read = call[c].read /\ call'[c] # Idle
  <2>1. PICK r \in Call : /\ Moves(c, r) /\ r.at = "expose" /\ r.owner = call[c].owner /\ r.op = call[c].op
                          /\ r.svc = call[c].svc /\ r.read = call[c].read
    BY <1>1, GoToIs DEF PortOpens, Reached, Awaits, NamesInv, SandboxTypeOK
  <2>2. Others(c) /\ call'[c] = r /\ r # Idle
    BY <2>1, MovesOthers, IdleIsNoCall DEF NamesInv, SandboxTypeOK
  <2> QED BY <1>2, <2>1, <2>2 DEF Service
<1>4. UNCHANGED <<endedNodes, provider, nodeInstances, racedNodes, state, lost, sessionVars>>
  BY DEF PortOpens, cacheVars, nodeVars, historyVars
<1>5. ASSUME Settled(x)'
      PROVE  /\ x \in serviceProcesses /\ x[1] \notin endedNodes =>
                  process[x] = "listening" \/ call[c].at = "wait"
             /\ x \in exposed => x \in servicePorts
             /\ call[c].at = "unexpose" /\ x \in servicePorts => "port" \in call[c].read
             /\ call[c].at = "killProcess" => x \notin exposed
             /\ call[c].at = "expose" /\ x[1] \notin endedNodes => process[x] = "listening"
  BY <1>1, <1>2, <1>5, OwnService DEF Reached
<1>6. ServicesInv'
  <2>1. /\ UNCHANGED <<servicePorts, exposed, serviceProcesses>> /\ process'[x] = "listening"
        /\ \A y \in AllServices \ {x} : process'[y] = process[y]
    BY <1>2 DEF PortOpens, NamesInv, SandboxTypeOK, NodeTypeOK, cacheVars
  <2> QED BY <1>1, <1>2, <1>3, <1>5, <2>1, ServiceStep
<1>7. SessionsInv' /\ InstancesInv' /\ RunningIsKept'
  BY <1>1, <1>3, <1>4, QuietInstance
<1> QED BY <1>6, <1>7

\* A port that is exposed keeps the rest of the invariant.
LEMMA PortExposedRest ==
  ASSUME NamesInv, RestInv, NamesInv', NEW c \in Slots, PortExposed(c), UNCHANGED sessionVars
  PROVE  RestInv'
<1> USE DEF RestInv
<1>1. ForNode(c) /\ call[c].at = "expose" /\ HistoriesGrow
  BY CallIs DEF PortExposed, At, Reached, ForNode, NamesInv, SandboxTypeOK, Shape, NoteError,
      HistoriesGrow, nodeVars, historyVars
<1>2. PICK x \in AllServices : x = Service(c) /\ Alone(c, x)
  BY <1>1, ForNodeIs DEF HistoriesGrow
<1>3. Others(c) /\ call'[c] = Idle /\ ~ForNode(c)'
  BY ReturnIs, MovesOthers DEF NamesInv, SandboxTypeOK, PortExposed, ForNode
<1>4. UNCHANGED <<endedNodes, provider, nodeInstances, racedNodes, state, lost, sessionVars>>
  BY DEF PortExposed, cacheVars, nodeVars, historyVars
<1>5. ASSUME Settled(x)'
      PROVE  /\ x \in serviceProcesses /\ x[1] \notin endedNodes =>
                  process[x] = "listening" \/ call[c].at = "wait"
             /\ x \in exposed => x \in servicePorts
             /\ call[c].at = "unexpose" /\ x \in servicePorts => "port" \in call[c].read
             /\ call[c].at = "killProcess" => x \notin exposed
             /\ call[c].at = "expose" /\ x[1] \notin endedNodes => process[x] = "listening"
  BY <1>1, <1>2, <1>5, OwnService DEF Reached
<1>6. ServicesInv'
  <2>1. /\ UNCHANGED <<process, serviceProcesses>>
        /\ exposed' = exposed \cup {x} /\ servicePorts' = servicePorts \cup {x}
    BY <1>2 DEF PortExposed
  <2> QED BY <1>1, <1>2, <1>3, <1>5, <2>1, ServiceStep
<1>7. SessionsInv' /\ InstancesInv' /\ RunningIsKept'
  BY <1>1, <1>3, <1>4, QuietInstance
<1> QED BY <1>6, <1>7

\* A launch that rejects keeps the rest of the invariant.
LEMMA LaunchRejectsRest ==
  ASSUME NamesInv, RestInv, NamesInv', NEW c \in Slots, LaunchRejects(c), UNCHANGED sessionVars
  PROVE  RestInv'
<1> USE DEF RestInv
<1>1. ForNode(c) /\ call[c].at \in {"process", "wait", "expose"} /\ HistoriesGrow
  BY CallIs DEF LaunchRejects, At, Reached, ForNode, NamesInv, SandboxTypeOK, Shape, NoteError,
      HistoriesGrow, nodeVars, historyVars
<1>2. PICK x \in AllServices : x = Service(c) /\ Alone(c, x)
  BY <1>1, ForNodeIs DEF HistoriesGrow
<1>3. Others(c) /\ call'[c] = Idle /\ ~ForNode(c)'
  BY ReturnIs, MovesOthers DEF NamesInv, SandboxTypeOK, LaunchRejects, ForNode
<1>4. UNCHANGED <<endedNodes, provider, nodeInstances, racedNodes, state, lost, sessionVars>>
  BY DEF LaunchRejects, cacheVars, nodeVars, historyVars
<1>6. ServicesInv'
  <2>1. /\ UNCHANGED <<servicePorts, serviceProcesses>>
        /\ exposed' = exposed \/ exposed' = exposed \cup {x}
        /\ \A y \in AllServices \ {x} : process'[y] = process[y]
    BY <1>2 DEF LaunchRejects, NamesInv, SandboxTypeOK, NodeTypeOK, cacheVars, serviceVars
  <2>2. ~Settled(x)'
    BY <1>2 DEF LaunchRejects, NoteError, Settled
  <2> QED BY <1>1, <1>2, <1>3, <2>1, <2>2, ServiceStep
<1>7. SessionsInv' /\ InstancesInv' /\ RunningIsKept'
  BY <1>1, <1>3, <1>4, QuietInstance
<1> QED BY <1>6, <1>7

\* The removal of a port keeps the rest of the invariant.
LEMMA UnexposeRest ==
  ASSUME NamesInv, RestInv, NamesInv', NEW c \in Slots, Unexpose(c), UNCHANGED sessionVars
  PROVE  RestInv'
<1> USE DEF RestInv
<1>1. ForNode(c) /\ call[c].at = "unexpose" /\ HistoriesGrow
  BY CallIs DEF Unexpose, At, Reached, ForNode, NamesInv, SandboxTypeOK, Shape, NoteError, HistoriesGrow,
      nodeVars, historyVars
<1>2. PICK x \in AllServices : x = Service(c) /\ Alone(c, x)
  BY <1>1, ForNodeIs DEF HistoriesGrow
<1>3. /\ Others(c) /\ call'[c].at = "killProcess" /\ call'[c].owner = call[c].owner
         /\ call'[c].op = call[c].op
      /\ Service(c)' = x /\ call'[c].read = call[c].read /\ call'[c] # Idle
  <2>1. PICK r \in Call : /\ Moves(c, r) /\ r.at = "killProcess" /\ r.owner = call[c].owner
                             /\ r.op = call[c].op
                          /\ r.svc = call[c].svc /\ r.read = call[c].read
    BY <1>1, GoToIs DEF Unexpose, Reached, Awaits, NamesInv, SandboxTypeOK
  <2>2. Others(c) /\ call'[c] = r /\ r # Idle
    BY <2>1, MovesOthers, IdleIsNoCall DEF NamesInv, SandboxTypeOK
  <2> QED BY <1>2, <2>1, <2>2 DEF Service
<1>4. UNCHANGED <<endedNodes, provider, nodeInstances, racedNodes, state, lost, sessionVars>>
  BY DEF Unexpose, cacheVars, nodeVars, historyVars
<1>5. ASSUME Settled(x)'
      PROVE  /\ x \in serviceProcesses /\ x[1] \notin endedNodes =>
                  process[x] = "listening" \/ call[c].at = "wait"
             /\ x \in exposed => x \in servicePorts
             /\ call[c].at = "unexpose" /\ x \in servicePorts => "port" \in call[c].read
             /\ call[c].at = "killProcess" => x \notin exposed
             /\ call[c].at = "expose" /\ x[1] \notin endedNodes => process[x] = "listening"
  BY <1>1, <1>2, <1>5, OwnService DEF Reached
<1>6. ServicesInv'
  <2>1. /\ UNCHANGED <<servicePorts, serviceProcesses, process>>
        /\ \/ exposed' = IF "port" \in call[c].read THEN exposed \ {x} ELSE exposed
           \/ UNCHANGED exposed /\ x \in erred'
    BY <1>2 DEF Unexpose, NoteError, Unexposes, cacheVars
  <2>2. Settled(x)' => x \notin exposed' /\ x \notin erred'
    BY <1>1, <1>5, <2>1 DEF Settled
  <2> QED BY <1>1, <1>2, <1>3, <1>5, <2>1, <2>2, ServiceStep
<1>7. SessionsInv' /\ InstancesInv' /\ RunningIsKept'
  BY <1>1, <1>3, <1>4, QuietInstance
<1> QED BY <1>6, <1>7

\* A call that begins notes that another one of its service is in flight.
LEMMA NoteCallIs ==
  ASSUME NEW c \in Slots, NEW n \in Nodes, NEW s \in Services, NoteCall(c, n, s),
         UNCHANGED <<erred, endedNodes>>
  PROVE  HistoriesGrow /\ Alone(c, <<n, s>>)
<1>1. raced \subseteq raced'
  BY DEF NoteCall
<1>2. ASSUME NEW d \in Slots \ {c}, ForNode(d), Service(d) = <<n, s>> PROVE <<n, s>> \in raced'
  BY <1>2 DEF NoteCall, ForNode, Service
<1> QED BY <1>1, <1>2 DEF HistoriesGrow, Alone

\* A call for a node that is not there yet answers no instance, and the others are kept as they were.
LEMMA BeginKept ==
  ASSUME RunningIsKept, NEW c \in Slots, Others(c), call[c] = Idle,
         UNCHANGED <<provider, state, sessionVars>>,
         lost \subseteq lost', racedNodes \subseteq racedNodes',
         \A m \in Nodes, i \in Instances : nodeInstances[m] = i => nodeInstances'[m] = i \/ Answers(c, i)'
  PROVE  RunningIsKept'
<1> SUFFICES ASSUME NEW i \in Instances, Alive(i)' PROVE Kept(i)'
  BY DEF RunningIsKept, Kept
<1>1. Kept(i) /\ ~Answers(c, i)
  BY KeptIs DEF Alive, Answers
<1>2. ASSUME i[1] \in Nodes, nodeInstances[i[1]] = i PROVE nodeInstances'[i[1]] = i \/ Kept(i)'
  BY <1>2 DEF Kept
<1> QED BY <1>1, <1>2, KeptStays DEF sessionVars

\* A launch that begins keeps the rest of the invariant.
LEMMA LaunchBeginsRest ==
  ASSUME NamesInv, RestInv, NamesInv', NEW c \in Slots, NEW n \in Nodes, NEW s \in Services,
         LaunchBegins(c, n, s),
         UNCHANGED sessionVars
  PROVE  RestInv'
<1> USE DEF RestInv
<1>1. /\ Await(c, Ensuring("launch", n, s)) /\ NoteCreation(c, n) /\ call[c] = Idle
      /\ HistoriesGrow /\ Alone(c, <<n, s>>)
      /\ UNCHANGED <<provider, state, lost, nodeInstances, endedNodes, serviceProcesses, servicePorts,
         process, exposed>>
  BY NoteCallIs DEF LaunchBegins, Free, cacheVars, serviceVars
<1>2. /\ InstancesInv' /\ Others(c) /\ racedNodes \subseteq racedNodes'
      /\ call'[c] # Idle /\ call'[c].op = "launch" /\ call'[c].owner = n /\ call'[c].svc = s
      /\ call'[c].at \in {"create", "connect"}
  BY <1>1, EnsureInstance
<1>3. SessionsInv'
  BY <1>1, <1>2, QuietSessions DEF NodeOps
<1>4. ServicesInv'
  <2>1. PICK x \in AllServices : x = <<n, s>>
    BY DEF AllServices
  <2>2. Service(c)' = x /\ ~ForNode(c) /\ ~Reached(c, "wait")
    BY <1>1, <1>2, <2>1 DEF Service, ForNode, Reached
  <2> QED BY <1>1, <1>2, <2>1, <2>2, QuietService
<1>5. RunningIsKept'
  BY <1>1, <1>2, BeginKept
<1> QED BY <1>2, <1>3, <1>4, <1>5

\* A revocation or a restart begins with the disposal of the instance of its node.
LEMMA DisposalBegins ==
  ASSUME NamesInv, RestInv, NamesInv', NEW c \in Slots, NEW op \in {"revoke", "restart"}, NEW n \in Nodes,
         NEW s \in Services, call[c] = Idle, provider # "cloudflare", nodeInstances[n] # None,
           DisposeBegins(c, op, n, s),
         NoteCall(c, n, s),
         UNCHANGED <<provider, state, lost, racedNodes, erred, endedNodes, serviceProcesses, servicePorts,
           serviceVars,
                     sessionVars>>
  PROVE  RestInv'
<1> USE DEF RestInv
<1>1. PICK i \in Instances : i = nodeInstances[n] /\ i[1] = n
  BY DEF NamesInv, NamesFit, MadeFor
<1>2. nodeInstances' = [nodeInstances EXCEPT ![n] = None]
  BY DEF DisposeBegins
<1>3. PICK r \in Call : /\ Moves(c, r) /\ Shape(r)
                        /\ r.op = op /\ r.owner = n /\ r.svc = s /\ r.at = "kill" /\ r.id = i /\ r.read = {}
  BY <1>1, DisposeBeginsIs DEF NamesInv
<1>4. Others(c) /\ call'[c] = r /\ r # Idle /\ i # None
  BY <1>3, MovesOthers, IdleIsNoCall DEF NamesInv, SandboxTypeOK
<1>5. nodeInstances'[n] = None /\ \A m \in Nodes \ {n} : nodeInstances'[m] = nodeInstances[m]
  BY <1>2 DEF NamesInv, SandboxTypeOK, NodeTypeOK
<1>6. InstancesInv'
  <2>1. n \notin racedNodes' =>
           /\ Creating(c, n)' => nodeInstances'[n] = None /\ \A d \in Slots \ {c} : ~Creating(d, n)
           /\ \A d \in Slots \ {c} : Creating(d, n) => nodeInstances'[n] = None
    BY <1>3, <1>4, <1>5 DEF Creating, Reached
  <2>2. Disposing(call'[c]) => provider # "cloudflare" /\ nodeInstances'[n] # call'[c].id
    BY <1>3, <1>4, <1>5
  <2>3. \A d \in Slots \ {c} : Disposing(call[d]) /\ call[d].owner = n => nodeInstances'[n] # call[d].id
    BY <1>5 DEF Disposing, NamesInv, NamesFit, Shape
  <2> QED BY <1>3, <1>4, <1>5, <2>1, <2>2, <2>3, InstanceStep
<1>7. SessionsInv'
  BY <1>3, <1>4, QuietSessions DEF NodeOps
<1>8. ServicesInv'
  <2>1. PICK x \in AllServices : x = <<n, s>>
    BY DEF AllServices
  <2>2. Service(c)' = x /\ ~ForNode(c) /\ ~Reached(c, "wait")
    BY <1>3, <1>4, <2>1 DEF Service, ForNode, Reached
  <2>3. HistoriesGrow /\ Alone(c, x)
    BY <2>1, NoteCallIs
  <2> QED BY <1>3, <1>4, <2>2, <2>3, QuietService DEF serviceVars
<1>9. RunningIsKept'
  <2>1. Answers(c, i)'
    BY <1>3, <1>4 DEF Answers
  <2>2. \A m \in Nodes, j \in Instances : nodeInstances[m] = j => nodeInstances'[m] = j \/ Answers(c, j)'
    BY <1>1, <1>5, <2>1
  <2> QED BY <1>4, <2>2, BeginKept
<1> QED BY <1>6, <1>7, <1>8, <1>9

\* One on Cloudflare begins with the removal of the port.
LEMMA RemovalBegins ==
  ASSUME NamesInv, RestInv, NamesInv', NEW c \in Slots, NEW op \in {"revoke", "restart"}, NEW n \in Nodes,
         NEW s \in Services, NEW r \in Call, Moves(c, r), Shape(r), r.op = op, r.owner = n, r.svc = s,
           r.at = "unexpose",
         ("port" \in r.read) <=> (<<n, s>> \in servicePorts), call[c] = Idle, NoteCall(c, n, s),
         UNCHANGED <<provider, state, lost, racedNodes, erred, endedNodes, cacheVars, serviceVars,
           sessionVars>>
  PROVE  RestInv'
<1> USE DEF RestInv
<1>2. Others(c) /\ call'[c] = r /\ r # Idle
  BY MovesOthers, IdleIsNoCall DEF NamesInv, SandboxTypeOK
<1>3. UNCHANGED <<nodeInstances, serviceProcesses, servicePorts, process, exposed>>
  BY DEF cacheVars, serviceVars
<1>4. InstancesInv'
  <2>1. n \notin racedNodes' =>
           /\ Creating(c, n)' => nodeInstances'[n] = None /\ \A d \in Slots \ {c} : ~Creating(d, n)
           /\ \A d \in Slots \ {c} : Creating(d, n) => nodeInstances'[n] = None
    BY <1>2, <1>3 DEF Creating, Reached, InstancesInv, CreatorsFit
  <2>2. ~Disposing(call'[c])
    BY <1>2 DEF Disposing
  <2>3. \A d \in Slots \ {c} : Disposing(call[d]) /\ call[d].owner = n => nodeInstances'[n] # call[d].id
    BY <1>3 DEF InstancesInv, DisposedIsForgotten, Disposing
  <2>4. nodeInstances[n] # None =>
          state[nodeInstances[n]] \in {"running", "paused"} \/ nodeInstances[n] \in lost \/ n \in endedNodes
    BY DEF InstancesInv, CachedIsUsable, Alive
  <2> QED BY <1>2, <1>3, <2>1, <2>2, <2>3, <2>4, InstanceStep
<1>5. SessionsInv'
  BY <1>2, QuietSessions DEF NodeOps
<1>6. ServicesInv'
  <2>1. PICK x \in AllServices : x = <<n, s>>
    BY DEF AllServices
  <2>2. Service(c)' = x /\ ~ForNode(c) /\ ~Reached(c, "wait")
    BY <1>2, <2>1 DEF Service, ForNode, Reached
  <2>3. HistoriesGrow /\ Alone(c, x)
    BY <2>1, NoteCallIs
  <2> QED BY <1>2, <1>3, <2>1, <2>2, <2>3, QuietService
<1>7. RunningIsKept'
  BY <1>2, <1>3, BeginKept
<1> QED BY <1>4, <1>5, <1>6, <1>7

\* A revocation that begins keeps the rest of the invariant.
LEMMA RevokeBeginsRest ==
  ASSUME NamesInv, RestInv, NamesInv', NEW c \in Slots, NEW n \in Nodes, NEW s \in Services,
         RevokeBegins(c, n, s),
         UNCHANGED sessionVars
  PROVE  RestInv'
<1>1. CASE provider = "cloudflare"
  <2>1. SandboxTypeOK /\ NamesFit /\ CloudflareRevoke(c, "revoke", n, s)
    BY <1>1 DEF NamesInv, RevokeBegins
  <2>2. PICK r \in Call :
          /\ Moves(c, r) /\ Shape(r)
          /\ r.op = "revoke" /\ r.owner = n /\ r.svc = s /\ r.at = "unexpose" /\ r.id = nodeInstances[n]
          /\ ("port" \in r.read) <=> (<<n, s>> \in servicePorts)
          /\ ("process" \in r.read) <=> (<<n, s>> \in serviceProcesses)
    BY <2>1, CloudflareRevokeIs, Zenon
  <2> QED BY <1>1, <2>2, RemovalBegins DEF RevokeBegins, Free
<1>2. CASE provider # "cloudflare"
  BY <1>2, DisposalBegins DEF RevokeBegins, OpenSandboxRevoke, Free
<1> QED BY <1>1, <1>2

\* A restart of a service that begins keeps the rest of the invariant.
LEMMA RestartBeginsRest ==
  ASSUME NamesInv, RestInv, NamesInv', NEW c \in Slots, NEW n \in Nodes, NEW s \in Services,
         RestartBegins(c, n, s),
         UNCHANGED sessionVars
  PROVE  RestInv'
<1>1. CASE CloudflareRevoke(c, "restart", n, s) /\ UNCHANGED <<cacheVars, racedNodes>>
  <2>1. SandboxTypeOK /\ NamesFit /\ CloudflareRevoke(c, "restart", n, s)
    BY <1>1 DEF NamesInv
  <2>2. PICK r \in Call :
          /\ Moves(c, r) /\ Shape(r)
          /\ r.op = "restart" /\ r.owner = n /\ r.svc = s /\ r.at = "unexpose" /\ r.id = nodeInstances[n]
          /\ ("port" \in r.read) <=> (<<n, s>> \in servicePorts)
          /\ ("process" \in r.read) <=> (<<n, s>> \in serviceProcesses)
    BY <2>1, CloudflareRevokeIs, Zenon
  <2> QED BY <1>1, <2>2, RemovalBegins DEF RestartBegins, Free
<1>2. CASE /\ provider # "cloudflare" /\ nodeInstances[n] # None /\ DisposeBegins(c, "restart", n, s)
           /\ UNCHANGED <<serviceProcesses, servicePorts, racedNodes>>
  BY <1>2, DisposalBegins DEF RestartBegins, Free
<1>3. CASE Await(c, Ensuring("restart", n, s)) /\ NoteCreation(c, n) /\ UNCHANGED cacheVars
  <2> USE DEF RestInv
  <2>1. /\ call[c] = Idle /\ HistoriesGrow /\ Alone(c, <<n, s>>)
        /\ UNCHANGED <<provider, state, lost, nodeInstances, endedNodes, serviceProcesses, servicePorts,
           process, exposed>>
    BY <1>3, NoteCallIs DEF RestartBegins, Free, cacheVars, serviceVars
  <2>2. /\ InstancesInv' /\ Others(c) /\ racedNodes \subseteq racedNodes'
        /\ call'[c] # Idle /\ call'[c].op = "restart" /\ call'[c].owner = n /\ call'[c].svc = s
        /\ call'[c].at \in {"create", "connect"}
    BY <1>3, <2>1, EnsureInstance
  <2>3. SessionsInv'
    BY <2>1, <2>2, QuietSessions DEF NodeOps
  <2>4. ServicesInv'
    <3>1. PICK x \in AllServices : x = <<n, s>>
      BY DEF AllServices
    <3>2. Service(c)' = x /\ ~ForNode(c) /\ ~Reached(c, "wait")
      BY <2>1, <2>2, <3>1 DEF Service, ForNode, Reached
    <3> QED BY <2>1, <2>2, <3>1, <3>2, QuietService
  <2>5. RunningIsKept'
    BY <2>1, <2>2, BeginKept
  <2> QED BY <2>2, <2>3, <2>4, <2>5
<1> QED BY <1>1, <1>2, <1>3 DEF RestartBegins, CloudflareRestart, OpenSandboxRestart

\* An instance made for a node keeps the rest of the invariant.
LEMMA EnsureCreatedRest ==
  ASSUME NamesInv, RestInv, NamesInv', NEW c \in Slots, EnsureCreated(c), UNCHANGED sessionVars
  PROVE  RestInv'
<1> USE DEF RestInv
<1>1. /\ ForNode(c) /\ call[c].at = "create" /\ call[c].op \in {"launch", "restart"} /\ HistoriesGrow
      /\ SandboxTypeOK /\ NamesFit /\ call[c] # Idle
  BY DEF EnsureCreated, Reached, ForNode, NamesInv, HistoriesGrow, historyVars
<1>2. /\ call[c].owner \in Nodes /\ call[c].owner \in Owners /\ call[c].id = None
         /\ call[c].owner \notin Sessions
      /\ Service(c) \in AllServices /\ Alone(c, Service(c))
  BY <1>1, ForNodeIs, ProviderAssumption DEF HistoriesGrow, Shape
<1>3. PICK n \in Nodes : n = call[c].owner
  BY <1>2
<1>4. PICK i \in Instances : i = NewInstance(n) /\ i[1] = n
  BY <1>1, <1>2, <1>3, MakeIs DEF EnsureCreated
<1>5. /\ Make(n) /\ nodeInstances' = [nodeInstances EXCEPT ![n] = i] /\ GoOn(c, i)
      /\ UNCHANGED <<provider, lost, racedNodes, endedNodes, serviceProcesses, servicePorts, process,
         exposed>>
  BY <1>3, <1>4 DEF EnsureCreated, serviceVars, historyVars
<1>6. /\ state' = [state EXCEPT ![i] = "running"] /\ (provider # "cloudflare" => i[2] = made[n] + 1)
  BY <1>1, <1>2, <1>3, <1>4, <1>5, MakeIs
<1>7. /\ Others(c)
      /\ call'[c] # Idle =>
           /\ call'[c].owner = n /\ call'[c].op = call[c].op /\ Service(c)' = Service(c)
           /\ call'[c].at \in {"endpoint", "expose", "process"}
           /\ call'[c].at = "expose" => Service(c) \in serviceProcesses
  <2>2. CASE Moves(c, Idle)
    BY <2>2, MovesOthers DEF NamesInv, SandboxTypeOK
  <2>3. CASE ~Moves(c, Idle)
    <3>1. PICK r \in Call :
              /\ Moves(c, r) /\ Shape(r)
              /\ r.op = call[c].op /\ r.owner = call[c].owner /\ r.svc = call[c].svc
                 /\ r.read = call[c].read
              /\ r.id = i
              /\ \/ r.at = "endpoint"
                 \/ r.at = "expose" /\ Service(c) \in serviceProcesses
                 \/ r.at = "process" /\ Service(c) \notin serviceProcesses
      BY <1>1, <1>5, <2>3, GoOnIs
    <3>2. Others(c) /\ call'[c] = r
      BY <3>1, MovesOthers DEF NamesInv, SandboxTypeOK
    <3> QED BY <1>3, <3>1, <3>2 DEF Service
  <2> QED BY <2>2, <2>3
<1>8. /\ nodeInstances'[n] = i /\ \A m \in Nodes \ {n} : nodeInstances'[m] = nodeInstances[m]
      /\ state'[i] = "running" /\ \A j \in Instances \ {i} : state'[j] = state[j]
  BY <1>1, <1>5, <1>6 DEF SandboxTypeOK, NodeTypeOK, ProviderTypeOK
<1>9. Creating(c, n)
  BY <1>1, <1>3 DEF Creating, Reached
<1>10. SessionsInv'
  BY <1>1, <1>2, <1>3, <1>4, <1>7, <1>8, QuietSessions DEF NodeOps
<1>11. InstancesInv'
  <2>1. n \notin racedNodes' => ~Creating(c, n)' /\ \A d \in Slots \ {c} : ~Creating(d, n)
    BY <1>5, <1>7, <1>9 DEF Creating, Reached, InstancesInv, CreatorsFit
  <2>2. ~Disposing(call'[c])
    BY <1>7 DEF Disposing
  <2>3. ASSUME NEW d \in Slots \ {c}, Disposing(call[d]), call[d].owner = n
        PROVE  i # call[d].id
    <3>1. provider # "cloudflare"
      BY <2>3 DEF InstancesInv, DisposedIsForgotten, Disposing
    <3>2. MadeFor(call[d].id, n)
      BY <1>1, <2>3 DEF NamesFit, Disposing, Shape
    <3>3. made[n] \in Nat
      BY <1>1, <1>2, <1>3 DEF SandboxTypeOK, ProviderTypeOK
    <3>4. i[2] = made[n] + 1
      BY <1>6, <3>1
    <3> QED BY <3>2, <3>3, <3>4 DEF MadeFor, Instances
  <2>4. ForNode(c)' => call'[c].owner = n
    BY <1>7 DEF ForNode
  <2>5. \A j \in Instances : j[1] \in Nodes \ {n} => state'[j] = state[j]
    BY <1>4, <1>8
  <2> QED BY <1>5, <1>7, <1>8, <2>1, <2>2, <2>3, <2>4, <2>5, InstanceStep
<1>12. ServicesInv'
  <2>1. PICK x \in AllServices : x = Service(c)
    BY <1>2
  <2>2. ForNode(c)' => call'[c] # Idle
    BY DEF ForNode
  <2> QED BY <1>1, <1>2, <1>5, <1>7, <2>1, <2>2, QuietService DEF Reached
<1>13. RunningIsKept'
  <2> SUFFICES ASSUME NEW j \in Instances, Alive(j)' PROVE Kept(j)'
    BY DEF RunningIsKept, Kept
  <2>1. CASE j = i
    BY <1>4, <1>8, <2>1 DEF Kept
  <2>2. CASE j # i
    <3>1. Kept(j) /\ ~Answers(c, j)
      BY <1>2, <1>8, <2>2, KeptIs, IdleIsNoCall DEF Alive, Answers
    <3>2. j[1] \in Nodes /\ nodeInstances[j[1]] = j => nodeInstances'[j[1]] = j \/ Kept(j)'
      <4> SUFFICES ASSUME nodeInstances[n] = j PROVE n \in racedNodes'
        BY <1>8, <2>2, ProviderAssumption DEF Kept, NamesInv, NamesFit, MadeFor
      <4> QED BY <1>5, <1>9, IdleIsNoCall DEF InstancesInv, CreatorsFit
    <3> QED BY <1>5, <1>7, <3>1, <3>2, KeptStays DEF sessionVars
  <2> QED BY <2>1, <2>2
<1> QED BY <1>10, <1>11, <1>12, <1>13

\* One that cannot be made keeps the rest of the invariant.
LEMMA EnsureCreateFailsRest ==
  ASSUME NamesInv, RestInv, NamesInv', NEW c \in Slots, EnsureCreateFails(c), UNCHANGED sessionVars
  PROVE  RestInv'
<1> USE DEF RestInv
<1>1. /\ ForNode(c) /\ call[c].at = "create" /\ HistoriesGrow /\ SandboxTypeOK /\ NamesFit /\ call[c] # Idle
      /\ Service(c) \in erred'
  BY DEF EnsureCreateFails, Reached, ForNode, NamesInv, HistoriesGrow, NoteError
<1>2. /\ call[c].owner \in Nodes /\ call[c].owner \in Owners /\ call[c].id = None
         /\ call[c].owner \notin Sessions
      /\ Service(c) \in AllServices /\ Alone(c, Service(c))
  BY <1>1, ForNodeIs, ProviderAssumption DEF HistoriesGrow, Shape
<1>3. PICK n \in Nodes : n = call[c].owner
  BY <1>2
<1>4. Others(c) /\ call'[c] = Idle /\ ~ForNode(c)' /\ ~Creating(c, n)'
  BY ReturnIs, MovesOthers DEF NamesInv, SandboxTypeOK, EnsureCreateFails, ForNode, Creating, Reached
<1>5. lost \subseteq lost' /\ \A i \in Instances : state'[i] # state[i] => i \in lost' /\ i[1] = n
  BY <1>1, <1>2, <1>3, MakeFailsIs DEF EnsureCreateFails
<1>6. UNCHANGED <<provider, nodeInstances, racedNodes, endedNodes, serviceProcesses, servicePorts, process,
      exposed>>
  BY DEF EnsureCreateFails, cacheVars, serviceVars
<1>7. Creating(c, n)
  BY <1>1, <1>3 DEF Creating, Reached
<1>8. SessionsInv'
  BY <1>1, <1>2, <1>3, <1>4, <1>5, QuietSessions DEF ForNode, NodeOps
<1>9. InstancesInv'
  <2>1. n \notin racedNodes => \A d \in Slots \ {c} : Creating(d, n) => nodeInstances[n] = None
    BY DEF InstancesInv, CreatorsFit
  <2>2. \A d \in Slots \ {c} : Disposing(call[d]) /\ call[d].owner = n => nodeInstances[n] # call[d].id
    BY DEF InstancesInv, DisposedIsForgotten, Disposing
  <2>3. nodeInstances[n] # None =>
          state'[nodeInstances[n]] \in {"running", "paused"} \/ nodeInstances[n] \in lost'
            \/ n \in endedNodes
    BY <1>1, <1>5 DEF InstancesInv, CachedIsUsable, Alive, NamesFit, MadeFor
  <2>4. \A i \in Instances : i[1] \in Nodes \ {n} => state'[i] = state[i]
    BY <1>5
  <2> QED BY <1>4, <1>5, <1>6, <2>1, <2>2, <2>3, <2>4, InstanceStep DEF Disposing
<1>10. ServicesInv'
  <2>1. PICK x \in AllServices : x = Service(c)
    BY <1>2
  <2> QED BY <1>1, <1>2, <1>4, <1>6, <2>1, QuietService DEF Reached
<1>11. RunningIsKept'
  <2> SUFFICES ASSUME NEW i \in Instances, Alive(i)' PROVE Kept(i)'
    BY DEF RunningIsKept, Kept
  <2>1. CASE i \in lost'
    BY <2>1 DEF Kept
  <2>2. CASE i \notin lost'
    <3>1. Kept(i) /\ ~Answers(c, i)
      BY <1>2, <1>5, <2>2, KeptIs, IdleIsNoCall DEF Alive, Answers
    <3> QED BY <1>4, <1>5, <1>6, <3>1, KeptStays DEF sessionVars
  <2> QED BY <2>1, <2>2
<1> QED BY <1>8, <1>9, <1>10, <1>11

\* What the end of a revocation, or the launch that a restart goes on with, means for the node.
LEMMA AfterRevocationInstance ==
  ASSUME NamesInv, NamesInv', InstancesInv, NEW c \in Slots, call[c] # Idle,
         call[c].op \in {"revoke", "restart"},
         IF call[c].op = "revoke"
         THEN Return(c) /\ UNCHANGED racedNodes
         ELSE Await(c, Ensuring("restart", call[c].owner, call[c].svc)) /\ NoteCreation(c, call[c].owner),
         UNCHANGED <<endedNodes, provider, nodeInstances>>, lost \subseteq lost',
         \A i \in Instances : i[1] \in Nodes /\ state'[i] # state[i] =>
           i[1] = call[c].owner /\ (i \in lost' \/ i # nodeInstances[call[c].owner])
  PROVE  /\ InstancesInv' /\ Others(c) /\ racedNodes \subseteq racedNodes'
         /\ call'[c] # Idle =>
              /\ call'[c].op = "restart" /\ call'[c].owner = call[c].owner /\ call'[c].svc = call[c].svc
              /\ call'[c].at \in {"create", "connect"}
<1>1. PICK n \in Nodes, s \in Services : n = call[c].owner /\ s = call[c].svc
  BY DEF NamesInv, NamesFit, Shape
<1>2. CASE call[c].op = "revoke"
  <2>1. Return(c) /\ UNCHANGED racedNodes
    BY <1>2
  <2>2. Others(c) /\ call'[c] = Idle
    BY <2>1, ReturnIs, MovesOthers DEF NamesInv, SandboxTypeOK
  <2>3. ~ForNode(c)' /\ ~Creating(c, n)' /\ ~Disposing(call'[c])
    BY <2>2 DEF ForNode, Creating, Reached, Disposing
  <2>4. n \notin racedNodes => \A d \in Slots \ {c} : Creating(d, n) => nodeInstances[n] = None
    BY DEF InstancesInv, CreatorsFit
  <2>5. \A d \in Slots \ {c} : Disposing(call[d]) /\ call[d].owner = n => nodeInstances[n] # call[d].id
    BY DEF InstancesInv, DisposedIsForgotten, Disposing
  <2>6. nodeInstances[n] # None =>
          state'[nodeInstances[n]] \in {"running", "paused"} \/ nodeInstances[n] \in lost'
            \/ n \in endedNodes
    BY <1>1 DEF InstancesInv, CachedIsUsable, Alive, NamesInv, NamesFit, MadeFor
  <2>7. \A i \in Instances : i[1] \in Nodes \ {n} => state'[i] = state[i]
    BY <1>1
  <2>8. InstancesInv'
    BY <2>1, <2>2, <2>3, <2>4, <2>5, <2>6, <2>7, InstanceStep
  <2> QED BY <2>1, <2>2, <2>8
<1>3. CASE call[c].op # "revoke"
  <2>1. Await(c, Ensuring("restart", n, s)) /\ NoteCreation(c, n)
    BY <1>1, <1>3
  <2> QED BY <1>1, <2>1, EnsureInstance
<1> QED BY <1>2, <1>3

\* The end of an instance that was disposed of keeps the rest of the invariant.
LEMMA DisposedRest ==
  ASSUME NamesInv, RestInv, NamesInv', NEW c \in Slots, Disposed(c), UNCHANGED sessionVars
  PROVE  RestInv'
<1> USE DEF RestInv
<1>1. /\ ForNode(c) /\ call[c].at = "kill" /\ HistoriesGrow /\ SandboxTypeOK /\ NamesFit /\ call[c] # Idle
      /\ call[c].op \in {"revoke", "restart"}
  BY DEF Disposed, Reached, ForNode, NamesInv, HistoriesGrow
<1>2. /\ call[c].owner \in Nodes /\ call[c].owner \notin Sessions /\ call[c].op \in NodeOps
      /\ Service(c) \in AllServices /\ Alone(c, Service(c))
      /\ call[c].id \in Instances /\ call[c].id[1] = call[c].owner
  BY <1>1, ForNodeIs, ProviderAssumption DEF HistoriesGrow
<1>3. PICK n \in Nodes, i \in Instances : n = call[c].owner /\ i = call[c].id /\ i[1] = n
  BY <1>2
<1>4. nodeInstances[n] # i
  BY <1>1, <1>3 DEF InstancesInv, DisposedIsForgotten
<1>5. /\ lost \subseteq lost' /\ \A j \in Instances : j # i => state'[j] = state[j]
      /\ state'[i] = "absent" \/ i \in lost'
  BY <1>1, <1>3 DEF Disposed, Kill, KillFails, SandboxTypeOK, ProviderTypeOK
<1>6. UNCHANGED <<provider, nodeInstances, endedNodes, serviceProcesses, servicePorts, process, exposed>>
  BY DEF Disposed, cacheVars, serviceVars
<1>7. /\ InstancesInv' /\ Others(c) /\ racedNodes \subseteq racedNodes'
      /\ call'[c] # Idle =>
           /\ call'[c].op = "restart" /\ call'[c].owner = call[c].owner /\ call'[c].svc = call[c].svc
           /\ call'[c].at \in {"create", "connect"}
  <2>1. \A j \in Instances : j[1] \in Nodes /\ state'[j] # state[j] =>
           j[1] = call[c].owner /\ (j \in lost' \/ j # nodeInstances[call[c].owner])
    BY <1>3, <1>4, <1>5
  <2>2. IF call[c].op = "revoke"
        THEN Return(c) /\ UNCHANGED racedNodes
        ELSE Await(c, Ensuring("restart", call[c].owner, call[c].svc)) /\ NoteCreation(c, call[c].owner)
    BY DEF Disposed
  <2> QED BY <1>1, <1>5, <1>6, <2>1, <2>2, AfterRevocationInstance
<1>8. SessionsInv'
  BY <1>1, <1>2, <1>3, <1>5, <1>7, QuietSessions DEF NodeOps
<1>9. ServicesInv'
  <2>1. PICK x \in AllServices : x = Service(c)
    BY <1>2
  <2>2. ForNode(c)' => call'[c] # Idle /\ Service(c)' = x
    BY <1>7, <2>1 DEF ForNode, Service
  <2> QED BY <1>1, <1>2, <1>6, <1>7, <2>1, <2>2, QuietService DEF Reached
<1>10. RunningIsKept'
  <2> SUFFICES ASSUME NEW j \in Instances, Alive(j)' PROVE Kept(j)'
    BY DEF RunningIsKept, Kept
  <2>1. CASE j \in lost'
    BY <2>1 DEF Kept
  <2>2. CASE j \notin lost'
    <3>1. Kept(j) /\ ~Answers(c, j)
      BY <1>3, <1>5, <2>2, KeptIs DEF Alive, Answers
    <3> QED BY <1>5, <1>6, <1>7, <3>1, KeptStays DEF sessionVars
  <2> QED BY <2>1, <2>2
<1> QED BY <1>7, <1>8, <1>9, <1>10

\* The end of a process keeps the rest of the invariant.
LEMMA ProcessKilledRest ==
  ASSUME NamesInv, RestInv, NamesInv', NEW c \in Slots, ProcessKilled(c), UNCHANGED sessionVars
  PROVE  RestInv'
<1> USE DEF RestInv
<1>1. /\ ForNode(c) /\ call[c].at = "killProcess" /\ HistoriesGrow /\ SandboxTypeOK /\ NamesFit
         /\ call[c] # Idle
      /\ call[c].op \in {"revoke", "restart"}
  BY DEF ProcessKilled, Reached, ForNode, NamesInv, HistoriesGrow, NoteError
<1>2. /\ call[c].op \in NodeOps /\ Service(c) \in AllServices /\ Alone(c, Service(c))
  BY <1>1, ForNodeIs DEF HistoriesGrow
<1>3. UNCHANGED <<provider, nodeInstances, endedNodes, state, lost, exposed>>
  BY DEF ProcessKilled
<1>4. /\ InstancesInv' /\ Others(c) /\ racedNodes \subseteq racedNodes'
      /\ call'[c] # Idle =>
           /\ call'[c].op = "restart" /\ call'[c].owner = call[c].owner /\ call'[c].svc = call[c].svc
           /\ call'[c].at \in {"create", "connect"}
  <2>1. IF call[c].op = "revoke"
        THEN Return(c) /\ UNCHANGED racedNodes
        ELSE Await(c, Ensuring("restart", call[c].owner, call[c].svc)) /\ NoteCreation(c, call[c].owner)
    BY DEF ProcessKilled
  <2> QED BY <1>1, <1>3, <2>1, AfterRevocationInstance
<1>5. SessionsInv'
  BY <1>2, <1>3, <1>4, QuietSessions DEF NodeOps
<1>6. ServicesInv'
  <2>1. PICK x \in AllServices : x = Service(c)
    BY <1>2
  <2>2. ForNode(c)' => call'[c] # Idle /\ Service(c)' = x
    BY <1>4, <2>1 DEF ForNode, Service
  <2>3. /\ servicePorts' = servicePorts \ {x} /\ serviceProcesses' = serviceProcesses \ {x}
        /\ \A y \in AllServices \ {x} : process'[y] = process[y]
    BY <1>1, <2>1 DEF ProcessKilled, SandboxTypeOK, NodeTypeOK
  <2>4. Settled(x)' => x \notin exposed
    BY <1>1, <1>2, <2>1, OwnService
  <2> QED BY <1>1, <1>2, <1>3, <1>4, <2>1, <2>2, <2>3, <2>4, ServiceStep
<1>7. RunningIsKept'
  <2> SUFFICES ASSUME NEW j \in Instances, Alive(j)' PROVE Kept(j)'
    BY DEF RunningIsKept, Kept
  <2>1. Kept(j) /\ ~Answers(c, j)
    BY <1>1, <1>3, KeptIs DEF Alive, Answers
  <2> QED BY <1>3, <1>4, <2>1, KeptStays DEF sessionVars
<1> QED BY <1>4, <1>5, <1>6, <1>7

\* An instance that ends by itself keeps the rest of the invariant.
LEMMA InstanceEndsRest ==
  ASSUME NamesInv, RestInv, NamesInv', NEW i \in Instances, InstanceEnds(i)
  PROVE  RestInv'
<1> USE DEF RestInv
<1>1. /\ UNCHANGED <<provider, call, lost, nodeInstances, serviceProcesses, servicePorts>>
      /\ UNCHANGED <<racedNodes, raced, erred, ref, told>>
      /\ \A j \in Instances \ {i} : state'[j] = state[j]
      /\ state'[i] \notin {"running", "paused"}
      /\ Alive(i) /\ endedNodes \subseteq endedNodes' /\ exposed' \subseteq exposed
      /\ i[1] \in Nodes => i[1] \in endedNodes'
      /\ \A x \in AllServices : x[1] \notin endedNodes' => process'[x] = process[x]
  BY DEF InstanceEnds, End, NodeEnds, cacheVars, nodeVars, sessionVars, NamesInv, SandboxTypeOK,
      ProviderTypeOK
<1>2. \A j \in Instances : Alive(j)' => Alive(j)
  BY <1>1 DEF Alive
<1>3. SessionsInv'
  <2>1. DestroyedIsGone'
    BY <1>1, <1>2 DEF SessionsInv, DestroyedIsGone, NamesInv, SandboxTypeOK, SessionTypeOK
  <2>2. \A c \in Slots : call[c] # Idle /\ call[c].at = "start" => state'[call[c].id] # "paused"
    <3> SUFFICES ASSUME NEW c \in Slots, call[c] # Idle, call[c].at = "start"
                 PROVE  state'[call[c].id] # "paused"
      OBVIOUS
    <3>1. call[c].id \in Instances
      BY DEF NamesInv, NamesFit, Shape, MadeFor
    <3> QED BY <1>1, <3>1 DEF SessionsInv, SessionsFit
  <2> QED BY <1>1, <2>1, <2>2 DEF SessionsInv, SessionsFit
<1>4. CreatorsFit' /\ DisposedIsForgotten'
  BY <1>1 DEF InstancesInv, CreatorsFit, DisposedIsForgotten, Creating, Reached
<1>5. CachedIsUsable'
  <2> SUFFICES ASSUME NEW n \in Nodes, nodeInstances[n] # None
               PROVE  state'[nodeInstances[n]] \in {"running", "paused"} \/ nodeInstances[n] \in lost
                      \/ n \in endedNodes'
    BY <1>1 DEF CachedIsUsable, Alive
  <2>1. nodeInstances[n] \in Instances /\ nodeInstances[n][1] = n
    BY DEF NamesInv, NamesFit, MadeFor
  <2> QED BY <1>1, <2>1 DEF InstancesInv, CachedIsUsable, Alive
<1>6. ServicesInv'
  <2>1. \A c \in Slots : /\ ForNode(c)' <=> ForNode(c)
                         /\ Reached(c, "wait")' <=> Reached(c, "wait")
                         /\ Service(c)' = Service(c)
    BY <1>1 DEF ForNode, Reached, Service
  <2>2. ExposedIsKnown'
    BY <1>1 DEF ServicesInv, ExposedIsKnown
  <2>3. \A c \in Slots : ForNode(c) /\ Settled(Service(c)) =>
       /\ call[c].at = "unexpose" /\ Service(c) \in servicePorts => "port" \in call[c].read
       /\ call[c].at = "killProcess" => Service(c) \notin exposed'
       /\ call[c].at = "expose" /\ call[c].owner \notin endedNodes' => process'[Service(c)] = "listening"
    <3> SUFFICES ASSUME NEW c \in Slots, ForNode(c), Settled(Service(c))
                 PROVE  /\ call[c].at = "unexpose" /\ Service(c) \in servicePorts => "port" \in call[c].read
                        /\ call[c].at = "killProcess" => Service(c) \notin exposed'
                        /\ call[c].at = "expose" /\ call[c].owner \notin endedNodes'
                           => process'[Service(c)] = "listening"
      OBVIOUS
    <3>1. Service(c)[1] = call[c].owner /\ Service(c) \in AllServices
      BY DEF Service, Settled
    <3> QED BY <1>1, <3>1 DEF ServicesInv, ServicesFit
  <2>4. ASSUME NEW x \in serviceProcesses, Settled(x), x[1] \notin endedNodes'
        PROVE  process'[x] = "listening" \/ \E c \in Slots : Reached(c, "wait") /\ Service(c) = x
    BY <1>1, <2>4 DEF ServicesInv, ServicesFit, Settled
  <2>5. \A c, d \in Slots : c # d /\ ForNode(c) /\ ForNode(d) /\ Service(c) = Service(d)
                            => Service(c) \in raced
    BY DEF ServicesInv, ServicesFit
  <2> QED BY <1>1, <2>1, <2>2, <2>3, <2>4, <2>5 DEF ServicesInv, ServicesFit, Settled
<1>7. RunningIsKept'
  BY <1>1, <1>2 DEF RunningIsKept, Answers
<1> QED BY <1>3, <1>4, <1>5, <1>6, <1>7 DEF InstancesInv

\* A restart of the server keeps the rest of the invariant.
LEMMA CrashRest ==
  ASSUME NamesInv, RestInv, NamesInv', Crash
  PROVE  RestInv'
<1> USE DEF RestInv
<1>1. /\ UNCHANGED <<provider, state, racedNodes, raced, endedNodes, exposed, ref, told>>
      /\ \A c \in Slots : call'[c] = Idle
      /\ \A n \in Nodes : nodeInstances'[n] = None
      /\ serviceProcesses' = {} /\ erred' = erred \cup AllServices /\ lost \subseteq lost'
      /\ \A i \in Instances : HeldByCall(i) \/ (\E n \in Nodes : nodeInstances[n] = i) => i \in lost'
  BY DEF Crash, Restart, NodeRestart, serviceVars, sessionVars
<1>2. SessionsInv'
  BY <1>1 DEF SessionsInv, SessionsFit, DestroyedIsGone, Alive
<1>3. InstancesInv'
  BY <1>1 DEF InstancesInv, CreatorsFit, DisposedIsForgotten, CachedIsUsable, Creating, Reached
<1>4. ServicesInv'
  BY <1>1 DEF ServicesInv, ServicesFit, ExposedIsKnown, ForNode, NamesInv, SandboxTypeOK, NodeTypeOK
<1>5. RunningIsKept'
  <2> SUFFICES ASSUME NEW i \in Instances, Alive(i)' PROVE Kept(i)'
    BY DEF RunningIsKept, Kept
  <2>1. Kept(i)
    BY <1>1, KeptIs DEF Alive
  <2>2. (\E c \in Slots : Answers(c, i)) => i \in lost'
    BY <1>1 DEF Answers, HeldByCall
  <2> QED BY <1>1, <2>1, <2>2 DEF Kept
<1> QED BY <1>2, <1>3, <1>4, <1>5

-----------------------------------------------------------------------------
(* Sandboxes: the theorems. *)

\* The invariant holds of the initial states.
LEMMA SandboxInitInv == SandboxInit => SandboxInv
<1> SUFFICES ASSUME SandboxInit PROVE SandboxInv
  OBVIOUS
<1> USE DEF SandboxInit, ProviderInit, NodeInit, SessionInit
<1>1. SandboxTypeOK
  BY ProviderAssumption DEF SandboxTypeOK, ProviderTypeOK, NodeTypeOK, SessionTypeOK, States, Statuses
<1>2. \A c \in Slots : call[c] = Idle
  OBVIOUS
<1>3. NamesFit
  BY <1>2 DEF NamesFit, Shape
<1>4. \A i \in Instances : ~Alive(i)
  BY DEF Alive
<1>5. SessionsFit /\ DestroyedIsGone
  BY <1>2 DEF SessionsFit, DestroyedIsGone
<1>6. CreatorsFit /\ DisposedIsForgotten /\ CachedIsUsable /\ RunningIsKept
  BY <1>2, <1>4 DEF CreatorsFit, DisposedIsForgotten, CachedIsUsable, RunningIsKept, Creating, Reached
<1>7. ServicesFit /\ ExposedIsKnown
  BY <1>2 DEF ServicesFit, ExposedIsKnown, ForNode
<1> QED BY <1>1, <1>3, <1>5, <1>6, <1>7 DEF SandboxInv

\* The steps of the node adapters keep the invariant.
LEMMA NodeAdapterStepInv ==
  ASSUME NamesInv, RestInv, NEW c \in Slots, NodeAdapterStep(c), UNCHANGED sessionVars
  PROVE  NamesInv' /\ RestInv'
<1>1. ASSUME NEW j \in Jobs, TaskBegins(c, j) PROVE NamesInv' /\ RestInv'
  BY <1>1, TaskBeginsNames, TaskBeginsRest
<1>2. CASE TaskStep(c)
  <2>1. CASE TaskCreated(c)
    BY <2>1, TaskCreatedNames, TaskCreatedRest
  <2>2. CASE TaskCreateFails(c)
    BY <2>2, TaskCreateFailsNames, TaskCreateFailsRest
  <2>3. CASE WorkEnds(c)
    BY <2>3, WorkEndsNames, WorkEndsRest
  <2>4. CASE TaskKilled(c)
    BY <2>4, TaskKilledNames, TaskKilledRest
  <2> QED BY <1>2, <2>1, <2>2, <2>3, <2>4 DEF TaskStep, CloudflareTask, OpenSandboxTask
<1>3. ASSUME NEW n \in Nodes, NEW s \in Services, LaunchBegins(c, n, s) PROVE NamesInv' /\ RestInv'
  BY <1>3, LaunchBeginsNames, LaunchBeginsRest
<1>4. ASSUME NEW n \in Nodes, NEW s \in Services, RevokeBegins(c, n, s) PROVE NamesInv' /\ RestInv'
  BY <1>4, RevokeBeginsNames, RevokeBeginsRest
<1>5. ASSUME NEW n \in Nodes, NEW s \in Services, RestartBegins(c, n, s) PROVE NamesInv' /\ RestInv'
  BY <1>5, RestartBeginsNames, RestartBeginsRest
<1>6. CASE EnsureStep(c)
  <2>1. CASE EnsureCreated(c)
    BY <2>1, EnsureCreatedNames, EnsureCreatedRest
  <2>2. CASE EnsureCreateFails(c)
    BY <2>2, EnsureCreateFailsNames, EnsureCreateFailsRest
  <2>3. CASE EnsureConnected(c)
    BY <2>3, EnsureConnectedNames, EnsureConnectedRest
  <2>4. CASE EnsureConnectFails(c)
    BY <2>4, EnsureConnectFailsNames, EnsureConnectFailsRest
  <2> QED BY <1>6, <2>1, <2>2, <2>3, <2>4 DEF EnsureStep
<1>7. CASE Endpoint(c)
  BY <1>7, EndpointNames, EndpointRest
<1>8. CASE Disposed(c)
  BY <1>8, DisposedNames, DisposedRest
<1>9. CASE CloudflareLaunch(c)
  <2>1. CASE ProcessStarts(c)
    BY <2>1, ProcessStartsNames, ProcessStartsRest
  <2>2. CASE PortOpens(c)
    BY <2>2, PortOpensNames, PortOpensRest
  <2>3. CASE PortExposed(c)
    BY <2>3, PortExposedNames, PortExposedRest
  <2>4. CASE LaunchRejects(c)
    BY <2>4, LaunchRejectsNames, LaunchRejectsRest
  <2> QED BY <1>9, <2>1, <2>2, <2>3, <2>4 DEF CloudflareLaunch
<1>10. CASE Unexpose(c)
  BY <1>10, UnexposeNames, UnexposeRest
<1>11. CASE ProcessKilled(c)
  BY <1>11, ProcessKilledNames, ProcessKilledRest
<1> QED BY <1>1, <1>2, <1>3, <1>4, <1>5, <1>6, <1>7, <1>8, <1>9, <1>10, <1>11 DEF NodeAdapterStep

\* The actions that a step of a runtime adapter may be.
LEMMA RuntimeStepIs ==
  ASSUME NEW c \in Slots, RuntimeStep(c)
  PROVE  \/ \E s \in Sessions : \/ CreateBegins(c, s)
                                \/ MethodBegins(c, "destroy", s, "kill")
                                \/ MethodBegins(c, "stop", s, "pause")
                                \/ MethodBegins(c, "use", s, "connect")
         \/ At(c, "create", "create") /\ (CreateFails(c) \/ DockerCreated(c) \/ SandboxCreated(c))
         \/ DockerStarts(c) \/ DestroyEnds(c) \/ StopEnds(c) \/ GetEnds(c) \/ UseConnects(c) \/ UseEnds(c)
BY DEF RuntimeStep, LocalContainer, OpenSandboxRuntime, CloudflareRuntime, MethodStep, CreateEnds

\* The steps of the runtime adapters keep the invariant.
LEMMA RuntimeStepInv ==
  ASSUME NamesInv, RestInv, NEW c \in Slots, RuntimeStep(c), UNCHANGED nodeVars
  PROVE  NamesInv' /\ RestInv'
<1>1. ASSUME NEW s \in Sessions, CreateBegins(c, s) PROVE NamesInv' /\ RestInv'
  BY <1>1, CreateBeginsNames, CreateBeginsRest
<1>2. ASSUME NEW s \in Sessions, NEW op \in {"destroy", "stop", "use"},
             NEW at \in {"kill", "pause", "connect"},
             op = "use" <=> at = "connect", MethodBegins(c, op, s, at)
      PROVE  NamesInv' /\ RestInv'
  BY <1>2, MethodBeginsNames, MethodBeginsRest
<1>3. CASE At(c, "create", "create") /\ CreateFails(c)
  BY <1>3, CreateFailsNames, CreateFailsRest
<1>4. CASE At(c, "create", "create") /\ DockerCreated(c)
  BY <1>4, DockerCreatedNames, DockerCreatedRest
<1>5. CASE At(c, "create", "create") /\ SandboxCreated(c)
  BY <1>5, SandboxCreatedNames, SandboxCreatedRest
<1>6. CASE DockerStarts(c)
  BY <1>6, DockerStartsNames, DockerStartsRest
<1>7. CASE DestroyEnds(c)
  BY <1>7, DestroyEndsNames, DestroyEndsRest
<1>8. CASE StopEnds(c)
  BY <1>8, StopEndsNames, StopEndsRest
<1>9. CASE GetEnds(c)
  BY <1>9, GetEndsNames, GetEndsRest
<1>10. CASE UseConnects(c)
  BY <1>10, UseConnectsNames, UseConnectsRest
<1>11. CASE UseEnds(c)
  BY <1>11, UseEndsNames, UseEndsRest
<1>12. ASSUME NEW s \in Sessions, MethodBegins(c, "destroy", s, "kill") PROVE NamesInv' /\ RestInv'
  BY <1>2, <1>12
<1>13. ASSUME NEW s \in Sessions, MethodBegins(c, "stop", s, "pause") PROVE NamesInv' /\ RestInv'
  BY <1>2, <1>13
<1>14. ASSUME NEW s \in Sessions, MethodBegins(c, "use", s, "connect") PROVE NamesInv' /\ RestInv'
  BY <1>2, <1>14
<1> QED BY RuntimeStepIs, <1>1, <1>12, <1>13, <1>14, <1>3, <1>4, <1>5, <1>6, <1>7, <1>8, <1>9, <1>10, <1>11

\* A step that changes nothing keeps the invariant.
LEMMA SandboxStutter == SandboxInv /\ UNCHANGED sandboxVars => SandboxInv'
BY DEF sandboxVars, providerVars, nodeVars, sessionVars, SandboxInv, SandboxTypeOK, ProviderTypeOK,
    NodeTypeOK, SessionTypeOK, NamesFit, MadeFor, SessionsFit, DestroyedIsGone, CreatorsFit, Creating,
      Reached, RunningIsKept, Answers, Alive, DisposedIsForgotten, CachedIsUsable, ServicesFit, ForNode,
        Settled, Service, ExposedIsKnown

\* Every step keeps the invariant.
LEMMA SandboxNextInv == SandboxInv /\ [SandboxNext]_sandboxVars => SandboxInv'
<1> SUFFICES ASSUME SandboxInv, [SandboxNext]_sandboxVars PROVE SandboxInv'
  OBVIOUS
<1>1. NamesInv /\ RestInv
  BY SandboxInvParts
<1>2. SandboxInv' <=> NamesInv' /\ RestInv'
  BY DEF SandboxInv, NamesInv, RestInv, SessionsInv, InstancesInv, ServicesInv
<1>3. ASSUME NEW c \in Slots, NodeAdapterStep(c), UNCHANGED sessionVars PROVE NamesInv' /\ RestInv'
  BY <1>1, <1>3, NodeAdapterStepInv
<1>4. ASSUME NEW c \in Slots, RuntimeStep(c), UNCHANGED nodeVars PROVE NamesInv' /\ RestInv'
  BY <1>1, <1>4, RuntimeStepInv
<1>5. ASSUME NEW i \in Instances, InstanceEnds(i) PROVE NamesInv' /\ RestInv'
  BY <1>1, <1>5, InstanceEndsNames, InstanceEndsRest
<1>6. CASE Crash
  BY <1>1, <1>2, <1>6, CrashNames, CrashRest
<1>7. CASE UNCHANGED sandboxVars
  BY <1>2, <1>7, SandboxStutter
<1> QED BY <1>2, <1>3, <1>4, <1>5, <1>6, <1>7 DEF SandboxNext

(***************************************************************************)
(* The invariant: whatever launches, revocations, restarts, tasks and      *)
(* methods of sessions overlap, whatever the provider fails or ends, and   *)
(* whenever the server restarts.                                           *)
(***************************************************************************)
THEOREM SandboxesInvariance == SandboxSpec => []SandboxInv
<1> QED BY SandboxInitInv, SandboxNextInv, PTL DEF SandboxSpec

(***************************************************************************)
(* Every instance that runs is held by somebody who will end it: a call,   *)
(* the cache of its node, or the reference of its session; instances that  *)
(* a failed request or a restart has hidden, and those of two creations    *)
(* for one node that overlapped, are excepted.                             *)
(***************************************************************************)
THEOREM SandboxesRunningIsHeld == SandboxSpec => []RunningIsHeld
<1>1. SandboxInv => RunningIsHeld
  BY DEF SandboxInv, RunningIsKept, RunningIsHeld, Held, Answers, HeldByCall
<1> QED BY <1>1, SandboxesInvariance, PTL

(***************************************************************************)
(* The types; no cache names an instance that its adapter has ended; and   *)
(* a port that is exposed is one its adapter knows (nodeInstances and      *)
(* servicePorts of the node adapters), with the exceptions stated there.   *)
(***************************************************************************)
THEOREM SandboxesCachesAreTrue == SandboxSpec => []CachesAreTrue
<1>1. SandboxInv => CachesAreTrue
  BY DEF SandboxInv, CachesAreTrue
<1> QED BY <1>1, SandboxesInvariance, PTL

\* The status of session s is told truly.
Truly(s) ==
  \/ told'[s] = "ready" /\ state'[ref'[s]] = "running"
  \/ told'[s] = "stopped" /\ state'[ref'[s]] = "paused"
  \/ told'[s] \in {"destroyed", "failed"} /\ ~(state'[ref'[s]] \in {"running", "paused"})
  \/ provider = "cloudflare" /\ state'[ref'[s]] = "terminated"

\* A step that tells a status tells a true one.
LEMMA ToldStep ==
  ASSUME SandboxInv, NEW c \in Slots, RuntimeStep(c), NEW s \in Sessions, told'[s] # told[s], ref'[s] # None
  PROVE  Truly(s)
<1>1. SandboxTypeOK /\ NamesFit /\ SessionsFit /\ NamesInv
  BY DEF SandboxInv, NamesInv
<1>2. told \in [Sessions -> Statuses] /\ state \in [Instances -> States]
      /\ ref \in [Sessions -> Instances \cup {None}]
  BY <1>1 DEF SandboxTypeOK, SessionTypeOK, ProviderTypeOK
<1>3. CASE At(c, "create", "create") /\ SandboxCreated(c)
  <2>1. PICK t \in Sessions : t = call[c].owner /\ t \in Owners
    BY <1>1, <1>3, NotOfNode DEF At, Reached, SessionOps, Owners
  <2>2. PICK i \in Instances : i = NewInstance(t) /\ state' = [state EXCEPT ![i] = "running"]
    BY <1>1, <1>3, <2>1, MakeIs DEF SandboxCreated
  <2>3. ref' = [ref EXCEPT ![t] = i] /\ told' = [told EXCEPT ![t] = "ready"]
    BY <1>3, <2>1, <2>2 DEF SandboxCreated, Created
  <2> QED BY <1>2, <2>2, <2>3 DEF Truly
<1>4. CASE DockerStarts(c)
  <2>1. PICK t \in Sessions, i \in Instances : t = call[c].owner /\ i = call[c].id /\ state[i] # "paused"
    BY <1>1, <1>4, NotOfNode DEF DockerStarts, At, Reached, SessionOps, SessionsFit, NamesFit, Shape
  <2>2. \/ Alive(i) /\ ref' = [ref EXCEPT ![t] = i] /\ told' = [told EXCEPT ![t] = "ready"]
           /\ state' = state
        \/ told' = told
    BY <1>4, <2>1 DEF DockerStarts, Created, sessionVars
  <2> QED BY <1>2, <2>1, <2>2 DEF Truly, Alive
<1>5. ASSUME DestroyEnds(c) \/ StopEnds(c) \/ GetEnds(c)
      PROVE  \E i \in Instances : ref' = ref /\ i = call[c].id /\ ref[call[c].owner] = i
                                  /\ call[c].owner \in Sessions
  BY <1>1, <1>5, NotOfNode DEF DestroyEnds, StopEnds, GetEnds, At, Reached, SessionOps, SessionsFit,
      NamesFit, Shape
<1>6. CASE DestroyEnds(c)
  <2>1. PICK i \in Instances : ref' = ref /\ i = call[c].id /\ ref[call[c].owner] = i
                               /\ call[c].owner \in Sessions
    BY <1>5, <1>6
  <2>2. PICK t \in Sessions : t = call[c].owner /\ ref[t] = i
    BY <2>1
  <2>3. \/ state' = [state EXCEPT ![i] = "absent"] /\ told' = [told EXCEPT ![t] = "destroyed"]
        \/ state' = state /\ state[i] = "absent" /\ told' = [told EXCEPT ![t] = "destroyed"]
        \/ told' = told
    BY <1>6, <2>1, <2>2 DEF DestroyEnds, Kill, IsMissing, Present
  <2> QED BY <1>2, <2>1, <2>2, <2>3 DEF Truly
<1>7. CASE StopEnds(c)
  <2>1. PICK i \in Instances : ref' = ref /\ i = call[c].id /\ ref[call[c].owner] = i
                               /\ call[c].owner \in Sessions
    BY <1>5, <1>7
  <2>2. PICK t \in Sessions : t = call[c].owner /\ ref[t] = i
    BY <2>1
  <2>3. \/ state' = [state EXCEPT ![i] = "paused"] /\ told' = [told EXCEPT ![t] = "stopped"]
        \/ told' = told
    BY <1>7, <2>1, <2>2 DEF StopEnds
  <2> QED BY <1>2, <2>1, <2>2, <2>3 DEF Truly
<1>8. CASE GetEnds(c)
  <2>1. PICK i \in Instances : ref' = ref /\ i = call[c].id /\ ref[call[c].owner] = i
                               /\ call[c].owner \in Sessions
    BY <1>5, <1>8
  <2>2. PICK t \in Sessions : t = call[c].owner /\ ref[t] = i
    BY <2>1
  <2>3. state' = state /\ (told' = told \/ told' = [told EXCEPT ![t] = StatusOf(i)])
    BY <1>8, <2>1, <2>2 DEF GetEnds
  <2>4. /\ state[i] = "absent" => StatusOf(i) = "destroyed"
        /\ state[i] = "running" => StatusOf(i) = "ready"
        /\ state[i] = "paused" => StatusOf(i) = "stopped"
        /\ state[i] = "failed" => StatusOf(i) \in {"failed", "destroyed"}
        /\ state[i] = "terminated" => provider = "cloudflare" \/ StatusOf(i) = "destroyed"
    BY DEF StatusOf, Present, CloudflareStatus, OpenSandboxStatus
  <2>5. state[i] \in {"absent", "running", "paused", "failed", "terminated"}
    BY <1>2 DEF States
  <2> QED BY <1>2, <2>1, <2>2, <2>3, <2>4, <2>5 DEF Truly
<1>9. CASE UNCHANGED sessionVars
  BY <1>9 DEF sessionVars
<1>10. \/ UNCHANGED sessionVars
       \/ At(c, "create", "create") /\ SandboxCreated(c)
       \/ DockerStarts(c) \/ DestroyEnds(c) \/ StopEnds(c) \/ GetEnds(c)
  BY RuntimeStepIs DEF CreateBegins, MethodBegins, CreateFails, DockerCreated, UseConnects, UseEnds,
      sessionVars
<1> QED BY <1>3, <1>4, <1>6, <1>7, <1>8, <1>9, <1>10

\* A launch that exposes its port has its process listening.
LEMMA ReadyStep ==
  ASSUME SandboxInv, NEW c \in Slots, PortExposed(c)
  PROVE  process[Service(c)] = "listening" \/ Service(c) \in raced \cup erred
         \/ call[c].owner \in endedNodes
<1>1. /\ call[c] # Idle /\ call[c].at = "expose" /\ Shape(call[c])
  BY DEF SandboxInv, NamesFit, PortExposed, Reached
<1>2. ForNode(c) /\ Service(c) \in AllServices
  BY <1>1 DEF Shape, ForNode, Service, AllServices
<1> QED BY <1>1, <1>2 DEF SandboxInv, ServicesFit, Settled

(***************************************************************************)
(* A session that was called destroyed runs nothing, a status that an      *)
(* adapter tells is the instance's, and a service that is called ready     *)
(* has its process listening, with the exceptions stated there.            *)
(***************************************************************************)
THEOREM SandboxesAnswersAreTrue == SandboxSpec => AnswersAreTrue
<1>1. SandboxInv => DestroyedIsGone
  BY DEF SandboxInv
<1>2. SandboxInv /\ [SandboxNext]_sandboxVars =>
        [\A s \in Sessions : told'[s] # told[s] /\ ref'[s] # None =>
           \/ told'[s] = "ready" /\ state'[ref'[s]] = "running"
           \/ told'[s] = "stopped" /\ state'[ref'[s]] = "paused"
           \/ told'[s] \in {"destroyed", "failed"} /\ ~(state'[ref'[s]] \in {"running", "paused"})
           \/ provider = "cloudflare" /\ state'[ref'[s]] = "terminated"]_<<sessionVars, state>>
  <2> SUFFICES ASSUME SandboxInv, [SandboxNext]_sandboxVars, NEW s \in Sessions, told'[s] # told[s],
                      ref'[s] # None
               PROVE  Truly(s)
    BY DEF Truly
  <2>1. \E c \in Slots : RuntimeStep(c)
    BY DEF SandboxNext, sandboxVars, sessionVars, InstanceEnds, Crash
  <2> QED BY <2>1, ToldStep
<1>3. SandboxInv /\ [SandboxNext]_sandboxVars =>
        [\A c \in Slots : PortExposed(c) =>
           \/ process[Service(c)] = "listening"
           \/ Service(c) \in raced \cup erred \/ call[c].owner \in endedNodes]_nodeVars
  BY ReadyStep
<1> QED BY <1>1, <1>2, <1>3, SandboxesInvariance, PTL DEF SandboxSpec, AnswersAreTrue, ToldTruly,
      ReadyIsListening
=============================================================================
