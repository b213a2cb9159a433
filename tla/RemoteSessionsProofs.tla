------------------------- MODULE RemoteSessionsProofs -------------------------
(***************************************************************************)
(* Proofs about RemoteSessions and LeaseScheduler under it, for any jobs,  *)
(* sessions, nodes, capacities and capabilities, and any number of         *)
(* terminals and mishaps.                                                  *)
(***************************************************************************)
EXTENDS RemoteSessions, FiniteSetTheorems, TLAPS

-----------------------------------------------------------------------------
(* The inductive invariant. *)

\* How far the creation of a session has come tells its row; a session that has not been
\* created has left no trace, and whatever has lapsed is orphaned.
CallsFit ==
  \A s \in Sessions :
    /\ call[s].at \in {"selecting", "chosen"} => row[s] = "none"
    /\ call[s].at \in {"sent", "held", "refused", "dropped"} =>
         row[s] = "creating" /\ (lease[s] = "active" \/ lapsed[s])
    /\ s \in recon => row[s] \in {"creating", "ready", "destroyed"} /\ call[s].at = "idle"
    /\ row[s] \in {"none", "elsewhere"} =>
         lease[s] = "none" /\ ~lapsed[s] /\ \A n \in Nodes : s \notin agent[n]
    /\ lapsed[s] => s \in orphaned

\* A creation is asked of the node of the lease, and a call waits for it; a destruction follows the
\* end of that call; any other request is of the operation in flight.
Asks(n, r) ==
  /\ r.op = "create" => call[r.session].at = "sent" /\ leaseNode[r.session] = n
  /\ r.op = "destroy" => row[r.session] \notin {"none", "elsewhere"} /\ call[r.session].at = "idle"
  /\ r.op = "use" => use # None /\ use.at = "sent" /\ leaseNode[use.session] = n

\* A creation is asked for once, and there is one operation in flight.
Repeats(r, q) == r.op = q.op /\ (r.op = "use" \/ (r.op = "create" /\ r.session = q.session))

WireFits ==
  \A n \in Nodes :
    /\ \A i \in 1..Len(wire[n]) : Asks(n, wire[n][i])
    /\ \A i, j \in 1..Len(wire[n]) : Repeats(wire[n][i], wire[n][j]) => i = j

\* The operation in flight is on a session that was created, and a terminal may be opened.
UseFits ==
  use # None =>
    /\ row[use.session] \notin {"none", "elsewhere"}
    /\ use.op = "pty_open" /\ use.at = "sent" => opens < MaxOpens

\* What the agent may hold when it has taken k of the requests on the wire.
After(n, k) ==
  {s \in Sessions :
     /\ s \in agent[n] \/ \E i \in 1..k : wire[n][i].op = "create" /\ wire[n][i].session = s
     /\ \A i \in 1..k : ~(wire[n][i].op = "destroy" /\ wire[n][i].session = s)}

\* In the end it holds what has an active lease, and on the way no more than it can take.
Accounted == \A n \in Nodes : After(n, Len(wire[n])) \ orphaned \subseteq ActiveLeases(n)

PrefixesFit ==
  \A n \in Nodes : \A k \in 0..Len(wire[n]) :
    Cardinality(After(n, k) \ orphaned) <= MaxConcurrentJobs[n]

\* A terminal has one mirror, the mirrors are of terminals that run, and no two of these
\* have the same name.
Mirrored ==
  /\ opened \subseteq mirrors /\ mirrors \subseteq shells
  /\ \A x, y \in shells : x.session = y.session /\ x.pty = y.pty => x = y

\* A session that was created is where it can run.
Placed ==
  \A s \in Sessions :
    row[s] \in {"creating", "ready", "destroyed"} => Needs[s] \subseteq NodeCaps[leaseNode[s]]

IInv ==
  /\ TypeOK /\ LeasesWithinCapacity
  /\ CallsFit /\ WireFits /\ UseFits /\ Accounted /\ PrefixesFit
  /\ Mirrored /\ Placed /\ ReadyIsLeased


-----------------------------------------------------------------------------
(* Types. *)

RowsTypeOK ==
  /\ row \in [Sessions -> Row]
  /\ rtjob \in [Sessions -> {"none", "pending", "failed"}]
  /\ call \in [Sessions -> {Idle} \cup Selecting \cup Chosen \cup Creating]
  /\ recon \in SUBSET Sessions /\ cutShort \in BOOLEAN
  /\ orphaned \in SUBSET Sessions

NodesTypeOK ==
  /\ use \in {None} \cup Use
  /\ wire \in [Nodes -> Seq(Request)]
  /\ agent \in [Nodes -> SUBSET Sessions]
  /\ shells \in SUBSET Shell /\ opened \in SUBSET Shell /\ mirrors \in SUBSET Shell

CountersTypeOK == opens \in 0..MaxOpens /\ mishaps \in 0..MaxMishaps

\* The types in groups.
LEMMA TypeParts == TypeOK <=> LeaseTypeOK /\ RowsTypeOK /\ NodesTypeOK /\ CountersTypeOK
BY DEF TypeOK, RowsTypeOK, NodesTypeOK, CountersTypeOK

\* A counter below its bound may be incremented.
LEMMA CountersType ==
  ASSUME CountersTypeOK, UNCHANGED counters \/ Mishap
  PROVE  CountersTypeOK'
<1>1. MaxMishaps \in Nat /\ MaxOpens \in Nat
  BY RemoteAssumption
<1>2. CASE UNCHANGED counters
  <2>1. UNCHANGED <<opens, mishaps>>
    BY <1>2 DEF counters
  <2> QED BY <2>1 DEF CountersTypeOK
<1>3. CASE Mishap
  <2>1. mishaps < MaxMishaps /\ mishaps' = mishaps + 1 /\ opens' = opens
    BY <1>3 DEF Mishap
  <2>2. mishaps' \in 0..MaxMishaps
    BY <1>1, <2>1 DEF CountersTypeOK
  <2> QED BY <2>1, <2>2 DEF CountersTypeOK
<1> QED BY <1>2, <1>3

\* A request that is sent keeps the types of the nodes.
LEMMA SendType ==
  ASSUME NodesTypeOK, NEW n \in Nodes, NEW op \in {"create", "destroy", "use"}, NEW s \in Sessions,
         Send(n, op, s)
  PROVE  wire' \in [Nodes -> Seq(Request)]
<1>1. [op |-> op, session |-> s] \in Request
  BY DEF Request
<1>2. wire[n] \in Seq(Request)
  BY DEF NodesTypeOK
<1>3. Append(wire[n], [op |-> op, session |-> s]) \in Seq(Request)
  BY <1>1, <1>2
<1> QED BY <1>3 DEF Send, NodesTypeOK

\* A request that is taken keeps the types of the nodes.
LEMMA TakeType ==
  ASSUME NodesTypeOK, NEW n \in Nodes, NEW op, Asked(n, op), Take(n)
  PROVE  /\ wire' \in [Nodes -> Seq(Request)]
         /\ Head(wire[n]) \in Request /\ Head(wire[n]).session \in Sessions
<1>1. wire[n] \in Seq(Request) /\ wire[n] # << >>
  BY DEF NodesTypeOK, Asked
<1>2. Tail(wire[n]) \in Seq(Request) /\ Head(wire[n]) \in Request
  BY <1>1
<1> QED BY <1>2 DEF Take, NodesTypeOK, Request

\* The node of a session is a node.
LEMMA NodeOfType == \A s \in Sessions : LeaseTypeOK /\ NodeOf(s) # None => NodeOf(s) \in Nodes
BY DEF NodeOf, LeaseTypeOK, Sessions

\* A selection that begins keeps the types.
LEMMA SelectBeginsType ==
  ASSUME TypeOK, NEW s \in Sessions, SelectBegins(s)
  PROVE  TypeOK'
<1> USE DEF SelectBegins, Sessions, ptyVars, reconVars, leaseVars
<1> LeaseTypeOK /\ RowsTypeOK /\ NodesTypeOK /\ CountersTypeOK
  BY TypeParts
<1>1. LeaseTypeOK'
  BY DEF LeaseTypeOK, LeaseState, NodeState
<1>2. RowsTypeOK'
  BY DEF RowsTypeOK, Selecting
<1>3. NodesTypeOK'
  BY TakeType DEF NodesTypeOK, Use, Shell
<1>4. CountersTypeOK'
  BY CountersType DEF CannotSend
<1> QED BY <1>1, <1>2, <1>3, <1>4 DEF TypeOK, RowsTypeOK, CountersTypeOK

\* A health that is told keeps the types.
LEMMA HealthToldType ==
  ASSUME TypeOK, NEW s \in Sessions, HealthTold(s)
  PROVE  TypeOK'
<1> USE DEF HealthTold, Sessions, ptyVars, reconVars, leaseVars
<1> LeaseTypeOK /\ RowsTypeOK /\ NodesTypeOK /\ CountersTypeOK
  BY TypeParts
<1>1. LeaseTypeOK'
  BY DEF LeaseTypeOK, LeaseState, NodeState
<1>2. RowsTypeOK'
  BY DEF RowsTypeOK, Chosen
<1>3. NodesTypeOK'
  BY TakeType DEF NodesTypeOK, Use, Shell
<1>4. CountersTypeOK'
  BY CountersType DEF CannotSend
<1> QED BY <1>1, <1>2, <1>3, <1>4 DEF TypeOK, RowsTypeOK, CountersTypeOK

\* A session that goes elsewhere keeps the types.
LEMMA SelectEndsElsewhereType ==
  ASSUME TypeOK, NEW s \in Sessions, SelectEndsElsewhere(s)
  PROVE  TypeOK'
<1> USE DEF SelectEndsElsewhere, Sessions, ptyVars, reconVars, leaseVars
<1> LeaseTypeOK /\ RowsTypeOK /\ NodesTypeOK /\ CountersTypeOK
  BY TypeParts
<1>1. LeaseTypeOK'
  BY DEF LeaseTypeOK, LeaseState, NodeState
<1>2. RowsTypeOK'
  BY DEF RowsTypeOK, Row, End
<1>3. NodesTypeOK'
  BY TakeType DEF NodesTypeOK, Use, Shell
<1>4. CountersTypeOK'
  BY CountersType DEF CannotSend
<1> QED BY <1>1, <1>2, <1>3, <1>4 DEF TypeOK, RowsTypeOK, CountersTypeOK

\* A creation that is sent keeps the types.
LEMMA CreateBeginsType ==
  ASSUME TypeOK, NEW s \in Sessions, CreateBegins(s)
  PROVE  TypeOK'
<1> USE DEF CreateBegins, Sessions, ptyVars, reconVars
<1> LeaseTypeOK /\ RowsTypeOK /\ NodesTypeOK /\ CountersTypeOK
  BY TypeParts
<1>1. LeaseTypeOK'
  BY DEF LeaseTypeOK, LeaseState, IssueLease, ExpireActiveLeases, CandidatesFor
<1>2. RowsTypeOK'
  BY DEF RowsTypeOK, Row, Creating, SaveRows, MoveTo
<1>3. NodesTypeOK'
  <2>1. PICK n \in CandidatesFor(s) : Send(n, "create", s)
    OBVIOUS
  <2>2. n \in Nodes
    BY <2>1 DEF CandidatesFor
  <2>3. wire' \in [Nodes -> Seq(Request)]
    BY <2>1, <2>2, SendType
  <2> QED BY <2>3 DEF NodesTypeOK
<1>4. CountersTypeOK'
  BY CountersType DEF CannotSend
<1> QED BY <1>1, <1>2, <1>3, <1>4 DEF TypeOK, RowsTypeOK, NodesTypeOK, CountersTypeOK

\* A creation that is refused a lease keeps the types.
LEMMA CreateRefusedType ==
  ASSUME TypeOK, NEW s \in Sessions, CreateRefused(s)
  PROVE  TypeOK'
<1> USE DEF CreateRefused, Sessions, ptyVars, reconVars
<1> LeaseTypeOK /\ RowsTypeOK /\ NodesTypeOK /\ CountersTypeOK
  BY TypeParts
<1>1. LeaseTypeOK'
  BY DEF LeaseTypeOK, LeaseState, NodeState, ExpireActiveLeases, CandidatesFor
<1>2. RowsTypeOK'
  BY DEF RowsTypeOK, Row, SaveRows, End
<1>3. NodesTypeOK'
  BY TakeType DEF NodesTypeOK, Use, Shell
<1>4. CountersTypeOK'
  BY CountersType DEF CannotSend
<1> QED BY <1>1, <1>2, <1>3, <1>4 DEF TypeOK, RowsTypeOK, CountersTypeOK

\* A creation that cannot be sent keeps the types.
LEMMA CreateNotSentType ==
  ASSUME TypeOK, NEW s \in Sessions, CreateNotSent(s)
  PROVE  TypeOK'
<1> USE DEF CreateNotSent, Sessions, ptyVars, reconVars
<1> LeaseTypeOK /\ RowsTypeOK /\ NodesTypeOK /\ CountersTypeOK
  BY TypeParts
<1>1. LeaseTypeOK'
  BY DEF LeaseTypeOK, LeaseState, IssueLease, ExpireActiveLeases, CandidatesFor
<1>2. RowsTypeOK'
  BY DEF RowsTypeOK, Row, SaveRows, End
<1>3. NodesTypeOK'
  BY TakeType DEF NodesTypeOK, Use, Shell
<1>4. CountersTypeOK'
  BY CountersType DEF CannotSend
<1> QED BY <1>1, <1>2, <1>3, <1>4 DEF TypeOK, RowsTypeOK, CountersTypeOK

\* A creation that returns keeps the types.
LEMMA CreateReturnsType ==
  ASSUME TypeOK, NEW s \in Sessions, CreateReturns(s)
  PROVE  TypeOK'
<1> USE DEF CreateReturns, Sessions, ptyVars, reconVars, leaseVars
<1> LeaseTypeOK /\ RowsTypeOK /\ NodesTypeOK /\ CountersTypeOK
  BY TypeParts
<1>1. LeaseTypeOK'
  BY DEF LeaseTypeOK, LeaseState, NodeState
<1>2. RowsTypeOK'
  BY DEF RowsTypeOK, Row, End
<1>3. NodesTypeOK'
  BY TakeType DEF NodesTypeOK, Use, Shell
<1>4. CountersTypeOK'
  BY CountersType DEF CannotSend
<1> QED BY <1>1, <1>2, <1>3, <1>4 DEF TypeOK, RowsTypeOK, CountersTypeOK

\* A creation that fails keeps the types.
LEMMA CreateFailsType ==
  ASSUME TypeOK, NEW s \in Sessions, CreateFails(s)
  PROVE  TypeOK'
<1> USE DEF CreateFails, Sessions, ptyVars, reconVars, leaseVars
<1> LeaseTypeOK /\ RowsTypeOK /\ NodesTypeOK /\ CountersTypeOK
  BY TypeParts
<1>1. LeaseTypeOK'
  BY DEF LeaseTypeOK, LeaseState, NodeState
<1>2. RowsTypeOK'
  BY DEF RowsTypeOK, Row, End
<1>3. NodesTypeOK'
  BY TakeType DEF NodesTypeOK, Use, Shell
<1>4. CountersTypeOK'
  BY CountersType DEF CannotSend
<1> QED BY <1>1, <1>2, <1>3, <1>4 DEF TypeOK, RowsTypeOK, CountersTypeOK

\* A destruction keeps the types.
LEMMA DestroyType ==
  ASSUME TypeOK, NEW s \in Sessions, Destroy(s)
  PROVE  TypeOK'
<1> USE DEF Destroy, Sessions, ptyVars, reconVars
<1> LeaseTypeOK /\ RowsTypeOK /\ NodesTypeOK /\ CountersTypeOK
  BY TypeParts
<1>1. LeaseTypeOK'
  BY DEF LeaseTypeOK, LeaseState, NodeState, ReleaseLease
<1>2. RowsTypeOK'
  BY DEF RowsTypeOK, Row
<1>3. NodesTypeOK'
  <2>1. wire' \in [Nodes -> Seq(Request)]
    BY SendType, NodeOfType DEF NodesTypeOK
  <2> QED BY <2>1 DEF NodesTypeOK
<1>4. CountersTypeOK'
  BY CountersType DEF CannotSend
<1> QED BY <1>1, <1>2, <1>3, <1>4 DEF TypeOK, RowsTypeOK, NodesTypeOK, CountersTypeOK

\* An operation that begins keeps the types.
LEMMA UseBeginsType ==
  ASSUME TypeOK, NEW s \in Sessions, UseBegins(s)
  PROVE  TypeOK'
<1> USE DEF UseBegins, Sessions, ptyVars, reconVars, leaseVars
<1> LeaseTypeOK /\ RowsTypeOK /\ NodesTypeOK /\ CountersTypeOK
  BY TypeParts
<1>1. LeaseTypeOK'
  BY DEF LeaseTypeOK, LeaseState, NodeState
<1>2. RowsTypeOK'
  BY DEF RowsTypeOK
<1>3. NodesTypeOK'
  <2>1. wire' \in [Nodes -> Seq(Request)]
    BY SendType, NodeOfType
  <2>2. use' \in Use
    <3>1. UseOps \subseteq UseOps /\ \A y \in opened : y.pty \in Ptys
      BY DEF NodesTypeOK, Shell
    <3> QED BY <3>1 DEF Use
  <2> QED BY <2>1, <2>2 DEF NodesTypeOK
<1>4. CountersTypeOK'
  BY CountersType DEF CannotSend
<1> QED BY <1>1, <1>2, <1>3, <1>4 DEF TypeOK, NodesTypeOK, CountersTypeOK

\* A lease that runs out keeps the types.
LEMMA LapseType ==
  ASSUME TypeOK, NEW s \in Sessions, Lapse(s)
  PROVE  TypeOK'
<1> USE DEF Lapse, Sessions, callVars, ptyVars, reconVars
<1> LeaseTypeOK /\ RowsTypeOK /\ NodesTypeOK /\ CountersTypeOK
  BY TypeParts
<1>1. LeaseTypeOK'
  BY DEF LeaseTypeOK, LeaseState, NodeState, LapseLease
<1>2. RowsTypeOK'
  BY DEF RowsTypeOK
<1>3. NodesTypeOK'
  BY TakeType DEF NodesTypeOK, Use, Shell
<1>4. CountersTypeOK'
  BY CountersType DEF CannotSend
<1> QED BY <1>1, <1>2, <1>3, <1>4 DEF TypeOK, CountersTypeOK

\* A reconciliation that cannot reach the node keeps the types.
LEMMA ReconcileFailsType ==
  ASSUME TypeOK, NEW s \in Sessions, ReconcileFails(s)
  PROVE  TypeOK'
<1> USE DEF ReconcileFails, Sessions, ptyVars, leaseVars
<1> LeaseTypeOK /\ RowsTypeOK /\ NodesTypeOK /\ CountersTypeOK
  BY TypeParts
<1>1. LeaseTypeOK'
  BY DEF LeaseTypeOK, LeaseState, NodeState
<1>2. RowsTypeOK'
  BY DEF RowsTypeOK, Row
<1>3. NodesTypeOK'
  BY TakeType DEF NodesTypeOK, Use, Shell
<1>4. CountersTypeOK'
  BY CountersType DEF CannotSend
<1> QED BY <1>1, <1>2, <1>3, <1>4 DEF TypeOK, RowsTypeOK, CountersTypeOK

\* A reconciliation that is told the status keeps the types.
LEMMA ReconcileToldType ==
  ASSUME TypeOK, NEW s \in Sessions, ReconcileTold(s)
  PROVE  TypeOK'
<1> USE DEF ReconcileTold, Sessions, ptyVars, leaseVars
<1> LeaseTypeOK /\ RowsTypeOK /\ NodesTypeOK /\ CountersTypeOK
  BY TypeParts
<1>1. LeaseTypeOK'
  BY DEF LeaseTypeOK, LeaseState, NodeState
<1>2. RowsTypeOK'
  BY DEF RowsTypeOK, Row, SessionState
<1>3. NodesTypeOK'
  BY TakeType DEF NodesTypeOK, Use, Shell
<1>4. CountersTypeOK'
  BY CountersType DEF CannotSend
<1> QED BY <1>1, <1>2, <1>3, <1>4 DEF TypeOK, RowsTypeOK, CountersTypeOK

\* A reconciliation that throws keeps the types.
LEMMA ReconcileThrowsType ==
  ASSUME TypeOK, NEW s \in Sessions, ReconcileThrows(s)
  PROVE  TypeOK'
<1> USE DEF ReconcileThrows, Sessions, callVars, ptyVars, leaseVars
<1> LeaseTypeOK /\ RowsTypeOK /\ NodesTypeOK /\ CountersTypeOK
  BY TypeParts
<1>1. LeaseTypeOK'
  BY DEF LeaseTypeOK, LeaseState, NodeState
<1>2. RowsTypeOK'
  BY DEF RowsTypeOK
<1>3. NodesTypeOK'
  BY TakeType DEF NodesTypeOK, Use, Shell
<1>4. CountersTypeOK'
  BY CountersType DEF CannotSend
<1> QED BY <1>1, <1>2, <1>3, <1>4 DEF TypeOK, CountersTypeOK

\* An agent that creates a session keeps the types.
LEMMA AgentCreatesType ==
  ASSUME TypeOK, NEW n \in Nodes, AgentCreates(n)
  PROVE  TypeOK'
<1> USE DEF AgentCreates, Sessions, ptyVars, reconVars, leaseVars
<1> LeaseTypeOK /\ RowsTypeOK /\ NodesTypeOK /\ CountersTypeOK
  BY TypeParts
<1>1. LeaseTypeOK'
  BY DEF LeaseTypeOK, LeaseState, NodeState
<1>2. RowsTypeOK'
  BY DEF RowsTypeOK, Creating, MoveTo
<1>3. NodesTypeOK'
  BY TakeType DEF NodesTypeOK, Use, Shell
<1>4. CountersTypeOK'
  BY CountersType DEF CannotSend
<1> QED BY <1>1, <1>2, <1>3, <1>4 DEF TypeOK, RowsTypeOK, NodesTypeOK, CountersTypeOK

\* An agent that ends a session keeps the types.
LEMMA AgentDestroysType ==
  ASSUME TypeOK, NEW n \in Nodes, AgentDestroys(n)
  PROVE  TypeOK'
<1> USE DEF AgentDestroys, Sessions, callVars, reconVars, leaseVars
<1> LeaseTypeOK /\ RowsTypeOK /\ NodesTypeOK /\ CountersTypeOK
  BY TypeParts
<1>1. LeaseTypeOK'
  BY DEF LeaseTypeOK, LeaseState, NodeState
<1>2. RowsTypeOK'
  BY DEF RowsTypeOK
<1>3. NodesTypeOK'
  BY TakeType DEF NodesTypeOK, Use, Shell
<1>4. CountersTypeOK'
  BY CountersType DEF CannotSend
<1> QED BY <1>1, <1>2, <1>3, <1>4 DEF TypeOK, NodesTypeOK, CountersTypeOK

\* An agent that serves an operation keeps the types.
LEMMA AgentServesType ==
  ASSUME TypeOK, NEW n \in Nodes, use # None, use.op = "pty_open" => opens < MaxOpens, AgentServes(n)
  PROVE  TypeOK'
<1> USE DEF AgentServes, Sessions, reconVars, leaseVars
<1> LeaseTypeOK /\ RowsTypeOK /\ NodesTypeOK /\ CountersTypeOK
  BY TypeParts
<1>1. LeaseTypeOK'
  BY DEF LeaseTypeOK, LeaseState, NodeState
<1>2. RowsTypeOK'
  BY DEF RowsTypeOK
<1>3. NodesTypeOK'
  <2>1. wire' \in [Nodes -> Seq(Request)] /\ Head(wire[n]).session \in Sessions
    BY TakeType
  <2>2. CASE use.op = "pty_open" /\ AgentOpens(Head(wire[n]).session)
    <3>1. PICK p \in Ptys :
            /\ use' = [use EXCEPT !.at = "opened", !.pty = p]
            /\ shells' = shells \cup {[session |-> Head(wire[n]).session, pty |-> p,
                                       opening |-> opens + 1]}
      BY <2>2 DEF AgentOpens
    <3>2. opens + 1 \in 1..MaxOpens
      BY <2>2, RemoteAssumption DEF CountersTypeOK
    <3>3. shells' \in SUBSET Shell
      BY <2>1, <3>1, <3>2 DEF NodesTypeOK, Shell
    <3>4. use' \in {None} \cup Use
      BY <3>1 DEF NodesTypeOK, Use
    <3> QED BY <2>1, <3>3, <3>4 DEF NodesTypeOK
  <2>3. CASE use' = [use EXCEPT !.at = "answered"] /\ UNCHANGED <<shells, counters>>
    <3>1. use' \in {None} \cup Use
      BY <2>3 DEF NodesTypeOK, Use
    <3> QED BY <2>1, <2>3, <3>1 DEF NodesTypeOK
  <2> QED BY <2>2, <2>3
<1>4. CountersTypeOK'
  <2>1. CASE UNCHANGED counters
    BY <2>1, CountersType
  <2>2. CASE use.op = "pty_open" /\ AgentOpens(Head(wire[n]).session)
    <3>1. opens < MaxOpens /\ opens' = opens + 1 /\ mishaps' = mishaps
      BY <2>2 DEF AgentOpens
    <3>2. opens' \in 0..MaxOpens
      BY <3>1, RemoteAssumption DEF CountersTypeOK
    <3> QED BY <3>1, <3>2 DEF CountersTypeOK
  <2> QED BY <2>1, <2>2
<1> QED BY <1>1, <1>2, <1>3, <1>4 DEF TypeOK, NodesTypeOK, CountersTypeOK

\* A connection that drops keeps the types.
LEMMA DropType ==
  ASSUME TypeOK, NEW n \in Nodes, Drop(n)
  PROVE  TypeOK'
<1> USE DEF Drop, Sessions, reconVars, leaseVars
<1> LeaseTypeOK /\ RowsTypeOK /\ NodesTypeOK /\ CountersTypeOK
  BY TypeParts
<1>1. LeaseTypeOK'
  BY DEF LeaseTypeOK, LeaseState, NodeState
<1>2. RowsTypeOK'
  <2>1. call' \in [Sessions -> {Idle} \cup Selecting \cup Chosen \cup Creating]
    BY DEF RowsTypeOK, Creating
  <2> QED BY <2>1 DEF RowsTypeOK
<1>3. NodesTypeOK'
  <2>1. wire' \in [Nodes -> Seq(Request)]
    <3>1. << >> \in Seq(Request)
      OBVIOUS
    <3> QED BY <3>1 DEF NodesTypeOK
  <2>2. use' \in {None} \cup Use
    BY DEF NodesTypeOK, Use
  <2>3. agent' \in [Nodes -> SUBSET Sessions] /\ shells' \in SUBSET Shell
    BY DEF NodesTypeOK
  <2> QED BY <2>1, <2>2, <2>3 DEF NodesTypeOK
<1>4. CountersTypeOK'
  BY CountersType DEF CannotSend
<1> QED BY <1>1, <1>2, <1>3, <1>4 DEF TypeOK, RowsTypeOK, NodesTypeOK, CountersTypeOK

\* A change of a node's record keeps the types.
LEMMA NodeRecordChangesType ==
  ASSUME TypeOK, NEW n \in Nodes, NodeRecordChanges(n)
  PROVE  TypeOK'
<1> USE DEF NodeRecordChanges, Sessions, callVars, ptyVars, reconVars
<1> LeaseTypeOK /\ RowsTypeOK /\ NodesTypeOK /\ CountersTypeOK
  BY TypeParts
<1>1. LeaseTypeOK'
  BY DEF LeaseTypeOK, LeaseState, NodeState, NodeChanges
<1>2. RowsTypeOK'
  BY DEF RowsTypeOK
<1>3. NodesTypeOK'
  BY TakeType DEF NodesTypeOK, Use, Shell
<1>4. CountersTypeOK'
  BY CountersType DEF CannotSend
<1> QED BY <1>1, <1>2, <1>3, <1>4 DEF TypeOK, CountersTypeOK

\* An operation that returns keeps the types.
LEMMA UseReturnsType ==
  ASSUME TypeOK, UseReturns
  PROVE  TypeOK'
<1> USE DEF UseReturns, Sessions, ptyVars, reconVars, leaseVars
<1> LeaseTypeOK /\ RowsTypeOK /\ NodesTypeOK /\ CountersTypeOK
  BY TypeParts
<1>1. LeaseTypeOK'
  BY DEF LeaseTypeOK, LeaseState, NodeState
<1>2. RowsTypeOK'
  BY DEF RowsTypeOK
<1>3. NodesTypeOK'
  BY TakeType DEF NodesTypeOK, Use, Shell
<1>4. CountersTypeOK'
  BY CountersType DEF CannotSend
<1> QED BY <1>1, <1>2, <1>3, <1>4 DEF TypeOK, CountersTypeOK

\* A terminal that opens keeps the types.
LEMMA PtyOpensType ==
  ASSUME TypeOK, PtyOpens
  PROVE  TypeOK'
<1> USE DEF PtyOpens, Sessions, reconVars, leaseVars
<1> LeaseTypeOK /\ RowsTypeOK /\ NodesTypeOK /\ CountersTypeOK
  BY TypeParts
<1>1. LeaseTypeOK'
  BY DEF LeaseTypeOK, LeaseState, NodeState
<1>2. RowsTypeOK'
  BY DEF RowsTypeOK
<1>3. NodesTypeOK'
  BY TakeType DEF NodesTypeOK, Use, Shell
<1>4. CountersTypeOK'
  BY CountersType DEF CannotSend
<1> QED BY <1>1, <1>2, <1>3, <1>4 DEF TypeOK, CountersTypeOK

\* A terminal that exits keeps the types.
LEMMA ShellExitsType ==
  ASSUME TypeOK, NEW x \in opened, ShellExits(x)
  PROVE  TypeOK'
<1> USE DEF ShellExits, Sessions, callVars, reconVars, leaseVars
<1> LeaseTypeOK /\ RowsTypeOK /\ NodesTypeOK /\ CountersTypeOK
  BY TypeParts
<1>1. LeaseTypeOK'
  BY DEF LeaseTypeOK, LeaseState, NodeState
<1>2. RowsTypeOK'
  BY DEF RowsTypeOK
<1>3. NodesTypeOK'
  BY TakeType DEF NodesTypeOK, Use, Shell
<1>4. CountersTypeOK'
  BY CountersType DEF CannotSend
<1> QED BY <1>1, <1>2, <1>3, <1>4 DEF TypeOK, CountersTypeOK

\* A restart keeps the types.
LEMMA CrashType ==
  ASSUME TypeOK, Crash
  PROVE  TypeOK'
<1> USE DEF Crash, Sessions
<1> LeaseTypeOK /\ RowsTypeOK /\ NodesTypeOK /\ CountersTypeOK
  BY TypeParts
<1>1. LeaseTypeOK'
  BY DEF LeaseTypeOK, LeaseState, NodeState, ExpireActiveLeases
<1>2. RowsTypeOK'
  <2>1. UNION Range(agent) \subseteq Sessions
    BY DEF NodesTypeOK, Range
  <2>2. /\ call' \in [Sessions -> {Idle} \cup Selecting \cup Chosen \cup Creating]
        /\ rtjob' \in [Sessions -> {"none", "pending", "failed"}]
    BY DEF RowsTypeOK
  <2> QED BY <2>1, <2>2 DEF RowsTypeOK
<1>3. NodesTypeOK'
  BY TakeType DEF NodesTypeOK, Use, Shell
<1>4. CountersTypeOK'
  BY CountersType DEF CannotSend
<1> QED BY <1>1, <1>2, <1>3, <1>4 DEF TypeOK, RowsTypeOK, CountersTypeOK

-----------------------------------------------------------------------------
(* requests on the wire, and what an agent holds after them. *)

\* A request that is sent goes behind the others, and it alone can change what the agent will hold.
LEMMA SendEffect ==
  ASSUME NodesTypeOK, NEW n \in Nodes, NEW op \in {"create", "destroy", "use"}, NEW s \in Sessions,
         Send(n, op, s), UNCHANGED agent
  PROVE  /\ \A m \in Nodes : m # n => wire'[m] = wire[m]
         /\ Len(wire[n]) \in Nat /\ Len(wire'[n]) = Len(wire[n]) + 1
         /\ \A i \in 1..Len(wire[n]) : wire'[n][i] = wire[n][i]
         /\ wire'[n][Len(wire[n]) + 1] = [op |-> op, session |-> s]
<1>1. wire[n] \in Seq(Request)
  BY DEF NodesTypeOK
<1>2. wire'[n] = Append(wire[n], [op |-> op, session |-> s])
      /\ \A m \in Nodes : m # n => wire'[m] = wire[m]
  BY DEF Send, NodesTypeOK
<1> QED BY <1>1, <1>2

\* What an agent will hold depends on its wire and on what it holds.
LEMMA SameAfter ==
  ASSUME NEW n \in Nodes, NEW k \in Nat, agent'[n] = agent[n], \A i \in 1..k : wire'[n][i] = wire[n][i]
  PROVE  After(n, k)' = After(n, k)
BY DEF After

\* A request that is sent changes nothing of what the requests before it lead to.
LEMMA SendAfter ==
  ASSUME NodesTypeOK, NEW n \in Nodes, NEW op \in {"create", "destroy", "use"}, NEW s \in Sessions,
         Send(n, op, s), UNCHANGED agent
  PROVE  /\ \A m \in Nodes : m # n => Len(wire'[m]) = Len(wire[m])
         /\ \A m \in Nodes : \A k \in 0..Len(wire[m]) : After(m, k)' = After(m, k)
         /\ Len(wire'[n]) = Len(wire[n]) + 1
         /\ After(n, Len(wire[n]))' \subseteq After(n, Len(wire[n])) \cup {s}
         /\ op = "use" => After(n, Len(wire[n]))' \subseteq After(n, Len(wire[n]))
         /\ op = "destroy" => s \notin After(n, Len(wire[n]))'
<1>1. /\ \A m \in Nodes : m # n => wire'[m] = wire[m]
      /\ Len(wire[n]) \in Nat /\ Len(wire'[n]) = Len(wire[n]) + 1
      /\ \A i \in 1..Len(wire[n]) : wire'[n][i] = wire[n][i]
      /\ wire'[n][Len(wire[n]) + 1] = [op |-> op, session |-> s]
  BY SendEffect
<1>2. ASSUME NEW m \in Nodes, NEW k \in 0..Len(wire[m])
      PROVE  After(m, k)' = After(m, k)
  <2>1. Len(wire[m]) \in Nat
    BY DEF NodesTypeOK
  <2>2. \A i \in 1..k : wire'[m][i] = wire[m][i]
    BY <1>1, <2>1
  <2> QED BY <2>2, SameAfter
<1>3. \A i \in 1..(Len(wire[n]) + 1) :
        \/ i \in 1..Len(wire[n]) /\ wire'[n][i] = wire[n][i]
        \/ i = Len(wire[n]) + 1 /\ wire'[n][i].op = op /\ wire'[n][i].session = s
  BY <1>1
<1>4. \A i \in 1..Len(wire[n]) : i \in 1..(Len(wire[n]) + 1)
  BY <1>1
<1>5. ASSUME NEW x \in After(n, Len(wire[n]))', ~(op = "create" /\ x = s)
      PROVE  x \in After(n, Len(wire[n]))
  <2>1. /\ x \in Sessions
        /\ \/ x \in agent[n]
           \/ \E i \in 1..(Len(wire[n]) + 1) : wire'[n][i].op = "create" /\ wire'[n][i].session = x
        /\ \A i \in 1..(Len(wire[n]) + 1) : ~(wire'[n][i].op = "destroy" /\ wire'[n][i].session = x)
    BY <1>1, <1>5 DEF After
  <2>2. x \in agent[n] \/ \E i \in 1..Len(wire[n]) : wire[n][i].op = "create" /\ wire[n][i].session = x
    BY <1>3, <1>5, <2>1
  <2>3. \A i \in 1..Len(wire[n]) : ~(wire[n][i].op = "destroy" /\ wire[n][i].session = x)
    BY <1>3, <1>4, <2>1
  <2> QED BY <2>1, <2>2, <2>3 DEF After
<1>6. op = "destroy" => s \notin After(n, Len(wire[n]))'
  BY <1>1 DEF After
<1> QED BY <1>1, <1>2, <1>5, <1>6

\* A request that the agent takes is the first on the wire.
LEMMA TakeEffect ==
  ASSUME NodesTypeOK, NEW n \in Nodes, NEW op, Asked(n, op), Take(n)
  PROVE  /\ \A m \in Nodes : m # n => wire'[m] = wire[m]
         /\ Len(wire[n]) \in Nat /\ Len(wire[n]) > 0 /\ Len(wire'[n]) = Len(wire[n]) - 1
         /\ \A i \in 1..Len(wire'[n]) : wire'[n][i] = wire[n][i + 1]
         /\ Head(wire[n]) = wire[n][1] /\ wire[n][1].op = op /\ wire[n][1].session \in Sessions
<1>1. wire[n] \in Seq(Request) /\ wire[n] # << >> /\ Head(wire[n]).op = op
  BY DEF NodesTypeOK, Asked
<1>2. wire'[n] = Tail(wire[n]) /\ \A m \in Nodes : m # n => wire'[m] = wire[m]
  BY DEF Take, NodesTypeOK
<1>3. /\ Len(wire[n]) \in Nat /\ Len(wire[n]) > 0 /\ Len(wire'[n]) = Len(wire[n]) - 1
      /\ \A i \in 1..Len(wire'[n]) : wire'[n][i] = wire[n][i + 1]
      /\ Head(wire[n]) = wire[n][1]
  BY <1>1, <1>2
<1>4. wire[n][1].session \in Sessions
  BY <1>3, TakeType
<1> QED BY <1>1, <1>2, <1>3, <1>4

\* After it has taken a request, an agent is on its way to what it was on its way to before.
LEMMA TakeAfter ==
  ASSUME NodesTypeOK, WireFits, NEW n \in Nodes, NEW op, Asked(n, op), Take(n),
         \A m \in Nodes : m # n => agent'[m] = agent[m],
         \A x \in agent'[n] : x \in agent[n] \/ (op = "create" /\ x = wire[n][1].session),
         op = "destroy" => wire[n][1].session \notin agent'[n]
  PROVE  /\ \A m \in Nodes : m # n => wire'[m] = wire[m] /\ \A k \in Nat : After(m, k)' = After(m, k)
         /\ Len(wire[n]) \in Nat /\ Len(wire[n]) > 0 /\ Len(wire'[n]) = Len(wire[n]) - 1
         /\ \A k \in 0..Len(wire'[n]) : After(n, k)' \subseteq After(n, k + 1)
<1>1. /\ \A m \in Nodes : m # n => wire'[m] = wire[m]
      /\ Len(wire[n]) \in Nat /\ Len(wire[n]) > 0 /\ Len(wire'[n]) = Len(wire[n]) - 1
      /\ \A i \in 1..Len(wire'[n]) : wire'[n][i] = wire[n][i + 1]
      /\ wire[n][1].op = op /\ wire[n][1].session \in Sessions
  BY TakeEffect
<1>2. ASSUME NEW m \in Nodes, m # n, NEW k \in Nat
      PROVE  After(m, k)' = After(m, k)
  BY <1>1, <1>2, SameAfter
<1>3. ASSUME NEW k \in 0..Len(wire'[n]), NEW x \in After(n, k)'
      PROVE  x \in After(n, k + 1)
  <2>1. /\ x \in Sessions
        /\ x \in agent'[n] \/ \E i \in 1..k : wire'[n][i].op = "create" /\ wire'[n][i].session = x
        /\ \A i \in 1..k : ~(wire'[n][i].op = "destroy" /\ wire'[n][i].session = x)
    BY <1>3 DEF After
  <2>2. \A i \in 1..k : i + 1 \in 1..(k + 1) /\ wire'[n][i] = wire[n][i + 1]
    BY <1>1, <1>3
  <2>3. x \in agent[n] \/ \E i \in 1..(k + 1) : wire[n][i].op = "create" /\ wire[n][i].session = x
    <3>1. CASE x \in agent'[n]
      BY <1>1, <1>3, <3>1
    <3>2. CASE \E i \in 1..k : wire'[n][i].op = "create" /\ wire'[n][i].session = x
      BY <2>2, <3>2
    <3> QED BY <2>1, <3>1, <3>2
  <2>4. ~(wire[n][1].op = "destroy" /\ wire[n][1].session = x)
    <3> SUFFICES ASSUME wire[n][1].op = "destroy", wire[n][1].session = x
                 PROVE  FALSE
      OBVIOUS
    <3>1. PICK i \in 1..k : wire'[n][i].op = "create" /\ wire'[n][i].session = x
      BY <1>1, <2>1
    <3>2. i + 1 \in 1..Len(wire[n]) /\ wire[n][i + 1].op = "create" /\ wire[n][i + 1].session = x
      BY <1>1, <1>3, <2>2, <3>1
    <3>3. call[x].at = "sent"
      BY <3>2 DEF WireFits, Asks
    <3>4. call[x].at = "idle"
      BY <1>1 DEF WireFits, Asks
    <3> QED BY <3>3, <3>4
  <2>5. \A i \in 1..(k + 1) : ~(wire[n][i].op = "destroy" /\ wire[n][i].session = x)
    <3> SUFFICES ASSUME NEW i \in 1..(k + 1)
                 PROVE  ~(wire[n][i].op = "destroy" /\ wire[n][i].session = x)
      OBVIOUS
    <3>1. CASE i = 1
      BY <2>4, <3>1
    <3>2. CASE i # 1
      <4>1. i - 1 \in 1..k /\ (i - 1) + 1 = i
        BY <1>3, <3>2
      <4> QED BY <2>1, <2>2, <4>1
    <3> QED BY <3>1, <3>2
  <2> QED BY <2>1, <2>3, <2>5 DEF After
<1> QED BY <1>1, <1>2, <1>3

-----------------------------------------------------------------------------
(* capacity. *)

LeasesShrink ==
  \A j \in Jobs : lease'[j] = "active" => lease[j] = "active" /\ leaseNode'[j] = leaseNode[j]

\* A step that issues no lease keeps every node within its capacity.
LEMMA LeasesShrinkCapacity ==
  ASSUME LeasesWithinCapacity, LeasesShrink
  PROVE  LeasesWithinCapacity'
<1> SUFFICES ASSUME NEW n \in Nodes
             PROVE  Cardinality(ActiveLeases(n)') <= MaxConcurrentJobs[n]
  BY DEF LeasesWithinCapacity, ActiveLeases
<1>1. ActiveLeases(n)' \subseteq ActiveLeases(n) /\ ActiveLeases(n) \subseteq Jobs
  BY DEF LeasesShrink, ActiveLeases
<1>2. IsFiniteSet(ActiveLeases(n)) /\ IsFiniteSet(ActiveLeases(n)')
  BY <1>1, LeaseAssumption, FS_Subset
<1>3. Cardinality(ActiveLeases(n)') <= Cardinality(ActiveLeases(n))
  BY <1>1, <1>2, FS_Subset
<1>4. /\ Cardinality(ActiveLeases(n)') \in Nat /\ Cardinality(ActiveLeases(n)) \in Nat
      /\ MaxConcurrentJobs[n] \in Nat
  BY <1>2, FS_CardinalityType, LeaseAssumption
<1>5. Cardinality(ActiveLeases(n)) <= MaxConcurrentJobs[n]
  BY DEF LeasesWithinCapacity
<1> QED BY <1>3, <1>4, <1>5

\* issueLease keeps every node within its capacity: after the expiry it counts every active lease.
LEMMA IssueLeaseCapacity ==
  ASSUME LeaseTypeOK, LeasesWithinCapacity, NEW j \in Jobs, NEW m \in Nodes, Eligible(m), IssueLease(j, m)
  PROVE  LeasesWithinCapacity'
<1> DEFINE Unlapsed(n) == {i \in ActiveLeases(n) : ~lapsed[i]}
<1> SUFFICES ASSUME NEW n \in Nodes
             PROVE  Cardinality(ActiveLeases(n)') <= MaxConcurrentJobs[n]
  BY DEF LeasesWithinCapacity, ActiveLeases
<1>1. ActiveLeases(n) \subseteq Jobs /\ Unlapsed(n) \subseteq ActiveLeases(n)
  BY DEF ActiveLeases
<1>2. IsFiniteSet(ActiveLeases(n)) /\ IsFiniteSet(Unlapsed(n))
  BY <1>1, LeaseAssumption, FS_Subset
<1>3. Cardinality(Unlapsed(n)) <= Cardinality(ActiveLeases(n))
  BY <1>2, FS_Subset
<1>4. /\ Cardinality(ActiveLeases(n)) \in Nat /\ Cardinality(Unlapsed(n)) \in Nat
      /\ MaxConcurrentJobs[n] \in Nat
  BY <1>2, FS_CardinalityType, LeaseAssumption
<1>5. Cardinality(ActiveLeases(n)) <= MaxConcurrentJobs[n]
  BY DEF LeasesWithinCapacity
<1>6. CASE n = m
  <2>1. Cardinality(Unlapsed(n)) < MaxConcurrentJobs[n]
    BY <1>6 DEF Eligible, ActiveLeaseCount
  <2>2. ActiveLeases(n)' \subseteq Unlapsed(n) \cup {j}
    BY DEF IssueLease, ExpireActiveLeases, ActiveLeases, LeaseTypeOK
  <2>3. /\ IsFiniteSet(Unlapsed(n) \cup {j})
        /\ Cardinality(Unlapsed(n) \cup {j}) <= Cardinality(Unlapsed(n)) + 1
    <3> HIDE DEF Unlapsed
    <3>1. /\ IsFiniteSet(Unlapsed(n) \cup {j})
          /\ Cardinality(Unlapsed(n) \cup {j}) =
               IF j \in Unlapsed(n) THEN Cardinality(Unlapsed(n)) ELSE Cardinality(Unlapsed(n)) + 1
      BY <1>2, FS_AddElement
    <3> QED BY <1>4, <3>1
  <2>4. /\ IsFiniteSet(ActiveLeases(n)')
        /\ Cardinality(ActiveLeases(n)') <= Cardinality(Unlapsed(n) \cup {j})
    BY <2>2, <2>3, FS_Subset
  <2>5. Cardinality(ActiveLeases(n)') \in Nat /\ Cardinality(Unlapsed(n) \cup {j}) \in Nat
    BY <2>3, <2>4, FS_CardinalityType
  <2> QED BY <1>4, <2>1, <2>3, <2>4, <2>5
<1>7. CASE n # m
  <2>1. ActiveLeases(n)' \subseteq Unlapsed(n)
    BY <1>7 DEF IssueLease, ExpireActiveLeases, ActiveLeases, LeaseTypeOK
  <2>2. IsFiniteSet(ActiveLeases(n)') /\ Cardinality(ActiveLeases(n)') <= Cardinality(Unlapsed(n))
    BY <1>2, <2>1, FS_Subset
  <2>3. Cardinality(ActiveLeases(n)') \in Nat
    BY <2>2, FS_CardinalityType
  <2> QED BY <1>3, <1>4, <1>5, <2>2, <2>3
<1> QED BY <1>6, <1>7

\* What an agent holds in the end has a lease each, so that it fits; what it holds on the
\* way fits if it did before.
LEMMA PrefixesStay ==
  ASSUME LeasesWithinCapacity', Accounted', PrefixesFit, wire' \in [Nodes -> Seq(Request)],
         \A n \in Nodes : \A k \in 0..Len(wire'[n]) :
           \/ k = Len(wire'[n])
           \/ \E i \in 0..Len(wire[n]) : After(n, k)' \ orphaned' \subseteq After(n, i) \ orphaned
  PROVE  PrefixesFit'
<1> SUFFICES ASSUME NEW n \in Nodes, NEW k \in 0..Len(wire'[n])
             PROVE  Cardinality(After(n, k)' \ orphaned') <= MaxConcurrentJobs[n]
  BY DEF PrefixesFit
<1>1. MaxConcurrentJobs[n] \in Nat /\ IsFiniteSet(Sessions)
  BY LeaseAssumption DEF Sessions
<1>2. ASSUME NEW S, NEW T, S \subseteq T, T \subseteq Sessions, Cardinality(T) <= MaxConcurrentJobs[n]
      PROVE  Cardinality(S) <= MaxConcurrentJobs[n]
  <2>1. IsFiniteSet(T)
    BY <1>1, <1>2, FS_Subset
  <2>2. IsFiniteSet(S) /\ Cardinality(S) <= Cardinality(T)
    BY <1>2, <2>1, FS_Subset
  <2>3. Cardinality(S) \in Nat /\ Cardinality(T) \in Nat
    BY <2>1, <2>2, FS_CardinalityType
  <2> QED BY <1>1, <1>2, <2>2, <2>3
<1>3. CASE k = Len(wire'[n])
  <2>1. After(n, k)' \ orphaned' \subseteq ActiveLeases(n)'
    BY <1>3 DEF Accounted
  <2>2. Cardinality(ActiveLeases(n)') <= MaxConcurrentJobs[n] /\ ActiveLeases(n)' \subseteq Sessions
    BY DEF LeasesWithinCapacity, ActiveLeases, Sessions
  <2> QED BY <1>2, <2>1, <2>2
<1>4. CASE \E i \in 0..Len(wire[n]) : After(n, k)' \ orphaned' \subseteq After(n, i) \ orphaned
  <2>1. PICK i \in 0..Len(wire[n]) : After(n, k)' \ orphaned' \subseteq After(n, i) \ orphaned
    BY <1>4
  <2>2. Cardinality(After(n, i) \ orphaned) <= MaxConcurrentJobs[n]
    BY DEF PrefixesFit
  <2>3. After(n, i) \ orphaned \subseteq Sessions
    BY DEF After
  <2> QED BY <1>2, <2>1, <2>2, <2>3
<1> QED BY <1>3, <1>4

AgentsInv == LeasesWithinCapacity /\ Accounted /\ PrefixesFit

\* A step that changes neither the agents nor what they are asked, and leaves the leases that matter.
LEMMA SameWireAgents ==
  ASSUME IInv, TypeOK', UNCHANGED <<wire, agent>>, orphaned \subseteq orphaned', LeasesWithinCapacity',
         \A n \in Nodes : After(n, Len(wire[n])) \ orphaned' \subseteq ActiveLeases(n)'
  PROVE  AgentsInv'
<1>1. \A n \in Nodes : \A k \in Nat : After(n, k)' = After(n, k)
  BY DEF After
<1>2. \A n \in Nodes : Len(wire[n]) \in Nat
  BY DEF IInv, TypeOK
<1>3. Accounted'
  BY <1>1, <1>2 DEF Accounted
<1>4. PrefixesFit'
  <2>1. \A n \in Nodes : \A k \in 0..Len(wire'[n]) :
          After(n, k)' \ orphaned' \subseteq After(n, k) \ orphaned
    BY <1>1, <1>2
  <2>2. wire' \in [Nodes -> Seq(Request)] /\ PrefixesFit
    BY DEF IInv, TypeOK
  <2> QED BY <1>3, <2>1, <2>2, PrefixesStay
<1> QED BY <1>3, <1>4 DEF AgentsInv

\* A step that changes no lease either.
LEMMA QuietAgents ==
  ASSUME IInv, TypeOK', UNCHANGED <<lease, leaseNode, wire, agent>>, orphaned \subseteq orphaned'
  PROVE  AgentsInv'
<1>1. LeasesWithinCapacity' /\ \A n \in Nodes : ActiveLeases(n)' = ActiveLeases(n)
  BY DEF IInv, LeasesWithinCapacity, ActiveLeases
<1> QED BY <1>1, SameWireAgents DEF IInv, Accounted

\* The expiry takes no lease of a session that is not orphaned.
LEMMA ExpiryIsOrphaned ==
  ASSUME IInv
  PROVE  \A s \in Sessions \ orphaned : ExpireActiveLeases[s] = lease[s]
BY DEF IInv, CallsFit, ExpireActiveLeases, Sessions

\* A session whose creation has not been asked for is held nowhere, and nobody is asked about it.
LEMMA NotYetHeld ==
  ASSUME IInv, NEW s \in Sessions, row[s] = "none"
  PROVE  /\ \A n \in Nodes : \A i \in 1..Len(wire[n]) :
              wire[n][i].session = s => wire[n][i].op \notin {"create", "destroy"}
         /\ \A n \in Nodes : \A k \in 0..Len(wire[n]) : s \notin After(n, k)
<1>1. \A n \in Nodes : s \notin agent[n]
  BY DEF IInv, CallsFit
<1>2. ASSUME NEW n \in Nodes, NEW i \in 1..Len(wire[n]), wire[n][i].session = s
      PROVE  wire[n][i].op \notin {"create", "destroy"}
  <2>1. call[s].at # "sent"
    BY DEF IInv, CallsFit
  <2> QED BY <1>2, <2>1 DEF IInv, WireFits, Asks
<1>3. ASSUME NEW n \in Nodes, NEW k \in 0..Len(wire[n])
      PROVE  s \notin After(n, k)
  <2>1. Len(wire[n]) \in Nat
    BY DEF IInv, TypeOK
  <2>2. \A i \in 1..k : i \in 1..Len(wire[n])
    BY <2>1
  <2> QED BY <1>1, <1>2, <2>2 DEF After
<1> QED BY <1>2, <1>3

\* A lease that is issued to a new session leaves the leases of all that count.
LEMMA IssueAccounts ==
  ASSUME IInv, NEW s \in Sessions, NEW n \in Nodes, IssueLease(s, n), row[s] = "none"
  PROVE  /\ s \in ActiveLeases(n)'
         /\ \A m \in Nodes : \A x \in ActiveLeases(m) \ orphaned : x # s => x \in ActiveLeases(m)'
<1>1. \A x \in Sessions \ orphaned : ExpireActiveLeases[x] = lease[x]
  BY ExpiryIsOrphaned
<1>2. lease \in [Sessions -> LeaseState] /\ leaseNode \in [Sessions -> Nodes \cup {NoNode}]
  BY DEF IInv, TypeOK, LeaseTypeOK, Sessions
<1>3. ExpireActiveLeases \in [Sessions -> LeaseState]
  BY <1>2 DEF ExpireActiveLeases, Sessions, LeaseState
<1> QED BY <1>1, <1>2, <1>3 DEF IssueLease, ActiveLeases, Sessions

\* A candidate for a session may take it.
LEMMA CandidatesEligible == \A s \in Sessions : \A n \in CandidatesFor(s) : n \in Nodes /\ Eligible(n)
BY DEF CandidatesFor

\* A session whose runtime was chosen has left no trace on the nodes.
LEMMA ChosenIsNew ==
  ASSUME IInv, NEW s \in Sessions, RemoteSelected(s)
  PROVE  row[s] = "none" /\ call[s].at = "chosen"
BY DEF IInv, CallsFit, RemoteSelected, Answered

\* A request that is sent changes nothing of what the agent holds on the way to it.
LEMMA SendPrefixes ==
  ASSUME IInv, TypeOK', NEW n \in Nodes, NEW op \in {"create", "destroy", "use"}, NEW s \in Sessions,
         Send(n, op, s), UNCHANGED agent, orphaned \subseteq orphaned', LeasesWithinCapacity', Accounted'
  PROVE  PrefixesFit'
<1>1. NodesTypeOK /\ PrefixesFit /\ wire' \in [Nodes -> Seq(Request)]
  BY TypeParts DEF IInv, TypeOK
<1>2. \A m \in Nodes : Len(wire[m]) \in Nat
  BY DEF IInv, TypeOK
<1>3. /\ \A m \in Nodes : m # n => Len(wire'[m]) = Len(wire[m])
      /\ \A m \in Nodes : \A k \in 0..Len(wire[m]) : After(m, k)' = After(m, k)
      /\ Len(wire'[n]) = Len(wire[n]) + 1
  BY <1>1, SendAfter
<1>4. ASSUME NEW m \in Nodes, NEW k \in 0..Len(wire'[m]), k # Len(wire'[m])
      PROVE  k \in 0..Len(wire[m]) /\ After(m, k)' \ orphaned' \subseteq After(m, k) \ orphaned
  <2>1. k \in 0..Len(wire[m])
    BY <1>3, <1>4
  <2> QED BY <1>3, <2>1
<1> QED BY <1>1, <1>4, PrefixesStay

\* A session that is created is asked of the node that has its lease.
LEMMA CreateBeginsAgents ==
  ASSUME IInv, TypeOK', NEW s \in Sessions, CreateBegins(s)
  PROVE  AgentsInv'
<1>1. PICK n \in CandidatesFor(s) : IssueLease(s, n) /\ Send(n, "create", s)
  BY DEF CreateBegins
<1>2. n \in Nodes /\ Eligible(n) /\ row[s] = "none" /\ UNCHANGED <<agent, orphaned>>
  BY CandidatesEligible, ChosenIsNew DEF CreateBegins, ptyVars
<1>3. NodesTypeOK /\ LeaseTypeOK /\ LeasesWithinCapacity /\ Accounted /\ PrefixesFit
  BY TypeParts DEF IInv
<1>4. LeasesWithinCapacity'
  BY <1>1, <1>2, <1>3, IssueLeaseCapacity DEF Sessions
<1>5. /\ \A m \in Nodes : m # n => Len(wire'[m]) = Len(wire[m])
      /\ \A m \in Nodes : \A k \in 0..Len(wire[m]) : After(m, k)' = After(m, k)
      /\ Len(wire'[n]) = Len(wire[n]) + 1
      /\ After(n, Len(wire[n]))' \subseteq After(n, Len(wire[n])) \cup {s}
  BY <1>1, <1>2, <1>3, SendAfter
<1>6. \A m \in Nodes : Len(wire[m]) \in Nat
  BY DEF IInv, TypeOK
<1>7. \A m \in Nodes : s \notin After(m, Len(wire[m]))
  BY <1>2, <1>6, NotYetHeld
<1>8. Accounted'
  <2> SUFFICES ASSUME NEW m \in Nodes, NEW x \in After(m, Len(wire[m]))', x \notin orphaned
               PROVE  x \in ActiveLeases(m)'
    BY <1>2 DEF Accounted
  <2>1. CASE x = s /\ m = n
    BY <1>1, <1>2, <2>1, IssueAccounts
  <2>2. CASE ~(x = s /\ m = n)
    <3>1. x \in After(m, Len(wire[m]))
      <4>1. CASE m = n
        BY <1>5, <2>2, <4>1
      <4>2. CASE m # n
        BY <1>5, <1>6, <4>2
      <4> QED BY <4>1, <4>2
    <3>2. x # s /\ x \in ActiveLeases(m) \ orphaned
      BY <1>3, <1>7, <3>1 DEF Accounted
    <3> QED BY <1>1, <1>2, <3>2, IssueAccounts
  <2> QED BY <2>1, <2>2
<1>9. PrefixesFit'
  BY <1>1, <1>2, <1>4, <1>8, SendPrefixes
<1> QED BY <1>4, <1>8, <1>9 DEF AgentsInv

\* A refused creation expires leases, and those only of orphaned sessions.
LEMMA CreateRefusedAgents ==
  ASSUME IInv, TypeOK', NEW s \in Sessions, CreateRefused(s)
  PROVE  AgentsInv'
<1>1. lease' = ExpireActiveLeases /\ UNCHANGED <<leaseNode, wire, agent, orphaned>>
  BY DEF CreateRefused
<1>2. LeasesWithinCapacity'
  <2>1. LeasesShrink
    BY <1>1 DEF LeasesShrink, ExpireActiveLeases
  <2> QED BY <2>1, LeasesShrinkCapacity DEF IInv
<1>3. \A n \in Nodes : ActiveLeases(n) \ orphaned \subseteq ActiveLeases(n)'
  <2> SUFFICES ASSUME NEW n \in Nodes, NEW x \in ActiveLeases(n), x \notin orphaned
               PROVE  x \in ActiveLeases(n)'
    OBVIOUS
  <2>1. x \in Sessions /\ lease[x] = "active" /\ leaseNode[x] = n
    BY DEF ActiveLeases, Sessions
  <2>2. lease'[x] = "active" /\ leaseNode'[x] = n
    BY <1>1, <2>1, ExpiryIsOrphaned
  <2> QED BY <2>1, <2>2 DEF ActiveLeases, Sessions
<1>4. \A n \in Nodes : After(n, Len(wire[n])) \ orphaned \subseteq ActiveLeases(n)'
  BY <1>3 DEF IInv, Accounted
<1> QED BY <1>1, <1>2, <1>4, SameWireAgents

\* A creation that is not sent leaves a lease that nobody holds.
LEMMA CreateNotSentAgents ==
  ASSUME IInv, TypeOK', NEW s \in Sessions, CreateNotSent(s)
  PROVE  AgentsInv'
<1>1. PICK n \in CandidatesFor(s) : IssueLease(s, n)
  BY DEF CreateNotSent
<1>2. n \in Nodes /\ Eligible(n) /\ row[s] = "none" /\ UNCHANGED <<wire, agent, orphaned>>
  BY CandidatesEligible, ChosenIsNew DEF CreateNotSent
<1>3. LeasesWithinCapacity'
  BY <1>1, <1>2, IssueLeaseCapacity, TypeParts DEF IInv, Sessions
<1>4. \A m \in Nodes : After(m, Len(wire[m])) \ orphaned \subseteq ActiveLeases(m)'
  <2>1. \A m \in Nodes : Len(wire[m]) \in Nat
    BY DEF IInv, TypeOK
  <2>2. \A m \in Nodes : s \notin After(m, Len(wire[m]))
    BY <1>2, <2>1, NotYetHeld
  <2>3. \A m \in Nodes : After(m, Len(wire[m])) \ orphaned \subseteq ActiveLeases(m)
    BY DEF IInv, Accounted
  <2> QED BY <1>1, <1>2, <2>2, <2>3, IssueAccounts
<1> QED BY <1>2, <1>3, <1>4, SameWireAgents

\* A destruction frees the lease of a session that the agent will not hold for long.
LEMMA DestroyAgents ==
  ASSUME IInv, TypeOK', NEW s \in Sessions, Destroy(s)
  PROVE  AgentsInv'
<1>1. /\ lease' = [lease EXCEPT ![s] = "released"] /\ UNCHANGED <<leaseNode, agent>>
      /\ orphaned \subseteq orphaned'
  BY DEF Destroy, ReleaseLease
<1>2. LeasesWithinCapacity'
  <2>1. LeasesShrink
    BY <1>1 DEF LeasesShrink
  <2> QED BY <2>1, LeasesShrinkCapacity DEF IInv
<1>3. \A m \in Nodes : \A x \in ActiveLeases(m) : x # s => x \in ActiveLeases(m)'
  BY <1>1 DEF ActiveLeases
<1>4. \A m \in Nodes : Len(wire[m]) \in Nat
  BY DEF IInv, TypeOK
<1>5. \A m \in Nodes : After(m, Len(wire[m])) \ orphaned \subseteq ActiveLeases(m)
  BY DEF IInv, Accounted
<1>6. CASE NodeOf(s) # None /\ Send(NodeOf(s), "destroy", s)
  <2>1. PICK n \in Nodes : n = leaseNode[s] /\ Send(n, "destroy", s)
    BY <1>6, NodeOfType, TypeParts DEF IInv, NodeOf
  <2>2. /\ \A m \in Nodes : m # n => Len(wire'[m]) = Len(wire[m])
        /\ \A m \in Nodes : \A k \in 0..Len(wire[m]) : After(m, k)' = After(m, k)
        /\ After(n, Len(wire[n]))' \subseteq After(n, Len(wire[n])) \cup {s}
        /\ s \notin After(n, Len(wire[n]))'
    BY <1>1, <1>6, <2>1, SendAfter, TypeParts DEF IInv
  <2>3. Accounted'
    <3> SUFFICES ASSUME NEW m \in Nodes, NEW x \in After(m, Len(wire[m]))', x \notin orphaned
                 PROVE  x \in ActiveLeases(m)'
      BY <1>1 DEF Accounted
    <3>1. CASE m = n
      BY <1>3, <1>5, <2>1, <2>2, <3>1
    <3>2. CASE m # n
      <4>1. x \in After(m, Len(wire[m]))
        BY <2>2, <3>2
      <4>2. x \in ActiveLeases(m) /\ x # s
        BY <1>5, <2>1, <3>2, <4>1 DEF ActiveLeases
      <4> QED BY <1>3, <4>2
    <3> QED BY <3>1, <3>2
  <2>4. PrefixesFit'
    BY <1>1, <1>2, <2>1, <2>3, SendPrefixes
  <2> QED BY <1>2, <2>3, <2>4 DEF AgentsInv
<1>7. CASE orphaned' = orphaned \cup {s} /\ UNCHANGED wire
  BY <1>1, <1>2, <1>3, <1>5, <1>7, SameWireAgents
<1> QED BY <1>6, <1>7 DEF Destroy

\* A use of a session changes nothing of what agents hold.
LEMMA UseBeginsAgents ==
  ASSUME IInv, TypeOK', NEW s \in Sessions, UseBegins(s)
  PROVE  AgentsInv'
<1>1. UNCHANGED <<lease, leaseNode, agent, orphaned>>
  BY DEF UseBegins, leaseVars
<1>2. PICK n \in Nodes : Send(n, "use", s)
  BY NodeOfType, TypeParts DEF IInv, UseBegins
<1>3. LeasesWithinCapacity' /\ \A m \in Nodes : ActiveLeases(m)' = ActiveLeases(m)
  BY <1>1 DEF IInv, LeasesWithinCapacity, ActiveLeases
<1>4. /\ \A m \in Nodes : m # n => Len(wire'[m]) = Len(wire[m])
      /\ \A m \in Nodes : \A k \in 0..Len(wire[m]) : After(m, k)' = After(m, k)
      /\ After(n, Len(wire[n]))' \subseteq After(n, Len(wire[n]))
  BY <1>1, <1>2, SendAfter, TypeParts DEF IInv
<1>5. \A m \in Nodes : Len(wire[m]) \in Nat
  BY DEF IInv, TypeOK
<1>6. \A m \in Nodes : After(m, Len(wire[m]))' \subseteq After(m, Len(wire[m]))
  BY <1>4, <1>5
<1>7. Accounted'
  BY <1>1, <1>3, <1>6 DEF IInv, Accounted
<1>8. PrefixesFit'
  BY <1>1, <1>2, <1>3, <1>7, SendPrefixes
<1> QED BY <1>3, <1>7, <1>8 DEF AgentsInv

\* A request that an agent takes makes it hold no more than it was to hold.
LEMMA TakeAgents ==
  ASSUME IInv, TypeOK', NEW n \in Nodes, NEW op, Asked(n, op), Take(n),
         UNCHANGED <<lease, leaseNode, orphaned>>,
         \A m \in Nodes : m # n => agent'[m] = agent[m],
         \A x \in agent'[n] : x \in agent[n] \/ (op = "create" /\ x = wire[n][1].session),
         op = "destroy" => wire[n][1].session \notin agent'[n]
  PROVE  AgentsInv'
<1>1. LeasesWithinCapacity' /\ \A m \in Nodes : ActiveLeases(m)' = ActiveLeases(m)
  BY DEF IInv, LeasesWithinCapacity, ActiveLeases
<1>2. /\ \A m \in Nodes : m # n => wire'[m] = wire[m] /\ \A k \in Nat : After(m, k)' = After(m, k)
      /\ Len(wire[n]) \in Nat /\ Len(wire[n]) > 0 /\ Len(wire'[n]) = Len(wire[n]) - 1
      /\ \A k \in 0..Len(wire'[n]) : After(n, k)' \subseteq After(n, k + 1)
  BY TakeAfter, TypeParts DEF IInv
<1>3. \A m \in Nodes : Len(wire[m]) \in Nat
  BY DEF IInv, TypeOK
<1>4. After(n, Len(wire[n]))' \subseteq After(n, Len(wire[n]))
  <2>1. PICK k \in 0..Len(wire'[n]) : k = Len(wire'[n]) /\ k + 1 = Len(wire[n])
    BY <1>2
  <2> QED BY <1>2, <2>1
<1>5. Accounted'
  BY <1>1, <1>2, <1>3, <1>4 DEF IInv, Accounted
<1>6. PrefixesFit'
  <2>1. ASSUME NEW m \in Nodes, NEW k \in 0..Len(wire'[m])
        PROVE  \E i \in 0..Len(wire[m]) : After(m, k)' \ orphaned' \subseteq After(m, i) \ orphaned
    <3>1. CASE m = n
      <4>1. k + 1 \in 0..Len(wire[n]) /\ After(n, k)' \subseteq After(n, k + 1)
        BY <1>2, <3>1
      <4> QED BY <3>1, <4>1
    <3>2. CASE m # n
      <4>1. k \in 0..Len(wire[m]) /\ After(m, k)' = After(m, k)
        BY <1>2, <1>3, <3>2
      <4> QED BY <4>1
    <3> QED BY <3>1, <3>2
  <2>2. wire' \in [Nodes -> Seq(Request)] /\ PrefixesFit
    BY DEF IInv, TypeOK
  <2> QED BY <1>1, <1>5, <2>1, <2>2, PrefixesStay
<1> QED BY <1>1, <1>5, <1>6 DEF AgentsInv

\* Each request that an agent takes does as much.
LEMMA AgentStepAgents ==
  ASSUME IInv, TypeOK', NEW n \in Nodes, AgentStep(n)
  PROVE  AgentsInv'
<1>1. agent \in [Nodes -> SUBSET Sessions] /\ NodesTypeOK
  BY TypeParts DEF IInv, TypeOK
<1>2. CASE AgentCreates(n)
  <2>1. Asked(n, "create") /\ Take(n) /\ UNCHANGED <<lease, leaseNode, orphaned>>
    BY <1>2 DEF AgentCreates, leaseVars
  <2>2. Head(wire[n]) = wire[n][1]
    BY <2>1, TakeEffect
  <2>3. /\ \A m \in Nodes : m # n => agent'[m] = agent[m]
        /\ \A x \in agent'[n] : x \in agent[n] \/ x = wire[n][1].session
    BY <1>1, <1>2, <2>2 DEF AgentCreates
  <2> QED BY <2>1, <2>3, TakeAgents
<1>3. CASE AgentDestroys(n)
  <2>1. Asked(n, "destroy") /\ Take(n) /\ UNCHANGED <<lease, leaseNode, orphaned>>
    BY <1>3 DEF AgentDestroys, leaseVars
  <2>2. Head(wire[n]) = wire[n][1]
    BY <2>1, TakeEffect
  <2>3. agent' = [agent EXCEPT ![n] = @ \ {wire[n][1].session}]
    BY <1>3, <2>2 DEF AgentDestroys
  <2>4. /\ \A m \in Nodes : m # n => agent'[m] = agent[m]
        /\ \A x \in agent'[n] : x \in agent[n] /\ wire[n][1].session \notin agent'[n]
    BY <1>1, <2>3
  <2>5. wire[n][1].session \notin agent'[n]
    BY <1>1, <2>3
  <2> QED BY <2>1, <2>4, <2>5, TakeAgents
<1>4. CASE AgentServes(n)
  <2>1. Asked(n, "use") /\ Take(n) /\ UNCHANGED <<lease, leaseNode, orphaned, agent>>
    BY <1>4 DEF AgentServes, leaseVars
  <2> QED BY <2>1, TakeAgents
<1> QED BY <1>2, <1>3, <1>4 DEF AgentStep

\* A connection that drops takes its requests with it; the sessions it was to end are orphaned.
LEMMA DropAgents ==
  ASSUME IInv, TypeOK', NEW n \in Nodes, Drop(n)
  PROVE  AgentsInv'
<1>1. /\ UNCHANGED <<lease, leaseNode>> /\ orphaned \subseteq orphaned'
      /\ wire' = [wire EXCEPT ![n] = << >>]
      /\ \A s \in Sessions \ orphaned' : [op |-> "destroy", session |-> s] \notin Range(wire[n])
  BY DEF Drop, leaseVars
<1>2. /\ wire \in [Nodes -> Seq(Request)] /\ agent \in [Nodes -> SUBSET Sessions]
      /\ wire' \in [Nodes -> Seq(Request)] /\ PrefixesFit /\ Accounted
  BY DEF IInv, TypeOK
<1>3. \A m \in Nodes : agent'[m] \subseteq agent[m] /\ (m # n => agent'[m] = agent[m])
  BY <1>2 DEF Drop
<1>4. LeasesWithinCapacity' /\ \A m \in Nodes : ActiveLeases(m)' = ActiveLeases(m)
  BY <1>1 DEF IInv, LeasesWithinCapacity, ActiveLeases
<1>5. wire'[n] = << >> /\ \A m \in Nodes : m # n => wire'[m] = wire[m]
  BY <1>1, <1>2
<1>6. \A m \in Nodes : m # n => \A k \in Nat : After(m, k)' = After(m, k)
  BY <1>3, <1>5, SameAfter
<1>7. After(n, 0)' \subseteq After(n, 0)
  BY <1>3 DEF After
<1>8. ASSUME NEW s \in After(n, 0)', s \notin orphaned'
      PROVE  s \in After(n, Len(wire[n]))
  <2>1. s \in Sessions /\ s \in agent[n] /\ Len(wire[n]) \in Nat
    BY <1>2, <1>3, <1>8 DEF After
  <2>2. ASSUME NEW i \in 1..Len(wire[n])
        PROVE  ~(wire[n][i].op = "destroy" /\ wire[n][i].session = s)
    <3>1. wire[n][i] \in Request /\ wire[n][i] \in Range(wire[n])
      BY <1>2 DEF Range
    <3> QED BY <1>1, <1>8, <2>1, <3>1 DEF Request
  <2> QED BY <2>1, <2>2 DEF After
<1>9. Accounted'
  <2>1. After(n, Len(wire[n]))' = After(n, 0)'
    BY <1>5
  <2>2. \A m \in Nodes : m # n => After(m, Len(wire[m]))' = After(m, Len(wire[m]))
    BY <1>5, <1>6
  <2> QED BY <1>1, <1>2, <1>4, <1>8, <2>1, <2>2 DEF Accounted
<1>10. PrefixesFit'
  <2>1. ASSUME NEW m \in Nodes, NEW k \in 0..Len(wire'[m])
        PROVE  k \in 0..Len(wire[m]) /\ After(m, k)' \ orphaned' \subseteq After(m, k) \ orphaned
    <3>1. CASE m = n
      <4>1. k = 0 /\ 0 \in 0..Len(wire[n])
        BY <1>5, <3>1
      <4> QED BY <1>1, <1>7, <3>1, <4>1
    <3>2. CASE m # n
      BY <1>1, <1>2, <1>5, <1>6, <3>2
    <3> QED BY <3>1, <3>2
  <2> QED BY <1>2, <1>4, <1>9, <2>1, PrefixesStay
<1> QED BY <1>4, <1>9, <1>10 DEF AgentsInv

\* A restart orphans what every agent holds.
LEMMA CrashAgents ==
  ASSUME IInv, TypeOK', Crash
  PROVE  AgentsInv'
<1>1. /\ UNCHANGED <<leaseNode, agent>> /\ wire' = [n \in Nodes |-> << >>]
      /\ lease' = [s \in Sessions |->
                     IF ExpireActiveLeases[s] = "active" THEN "released" ELSE ExpireActiveLeases[s]]
      /\ orphaned' = orphaned \cup UNION Range(agent)
  BY DEF Crash
<1>2. agent \in [Nodes -> SUBSET Sessions] /\ wire' \in [Nodes -> Seq(Request)] /\ PrefixesFit
  BY DEF IInv, TypeOK
<1>3. LeasesWithinCapacity'
  <2>1. LeasesShrink
    BY <1>1 DEF LeasesShrink, Sessions
  <2> QED BY <2>1, LeasesShrinkCapacity DEF IInv
<1>4. \A n \in Nodes : wire'[n] = << >>
  BY <1>1
<1>5. \A n \in Nodes : After(n, 0)' \subseteq orphaned'
  <2>1. \A n \in Nodes : agent[n] \subseteq UNION Range(agent)
    BY <1>2 DEF Range
  <2> QED BY <1>1, <2>1 DEF After
<1>6. \A n \in Nodes : After(n, Len(wire[n]))' \subseteq orphaned'
  BY <1>4, <1>5
<1>7. Accounted'
  BY <1>6 DEF Accounted
<1>8. PrefixesFit'
  <2>1. \A n \in Nodes : \A k \in 0..Len(wire'[n]) : k = Len(wire'[n])
    BY <1>4
  <2> QED BY <1>2, <1>3, <1>7, <2>1, PrefixesStay
<1> QED BY <1>3, <1>7, <1>8 DEF AgentsInv

-----------------------------------------------------------------------------
(* what is asked on the wire. *)

\* Requests that stay on the wire.
LEMMA QuietWire ==
  ASSUME IInv, UNCHANGED wire,
         \A n \in Nodes : \A r \in Request : Asks(n, r) => Asks(n, r)'
  PROVE  WireFits'
<1>1. \A n \in Nodes : \A i \in 1..Len(wire[n]) : wire[n][i] \in Request
  BY DEF IInv, TypeOK
<1> QED BY <1>1 DEF IInv, WireFits, Asks, Repeats

\* A new request fits if it is none of a kind already on the wire.
LEMMA SendWire ==
  ASSUME IInv, UNCHANGED agent, NEW n \in Nodes, NEW op \in {"create", "destroy", "use"},
         NEW s \in Sessions,
         Send(n, op, s),
         \A m \in Nodes : \A r \in Request : Asks(m, r) => Asks(m, r)',
         Asks(n, [op |-> op, session |-> s])',
         \A i \in 1..Len(wire[n]) : ~Repeats(wire[n][i], [op |-> op, session |-> s])
  PROVE  WireFits'
<1>1. \A m \in Nodes : \A i \in 1..Len(wire[m]) : wire[m][i] \in Request
  BY DEF IInv, TypeOK
<1>2. /\ \A m \in Nodes : m # n => wire'[m] = wire[m]
      /\ Len(wire[n]) \in Nat /\ Len(wire'[n]) = Len(wire[n]) + 1
      /\ \A i \in 1..Len(wire[n]) : wire'[n][i] = wire[n][i]
      /\ wire'[n][Len(wire[n]) + 1] = [op |-> op, session |-> s]
  BY SendEffect, TypeParts DEF IInv
<1>3. \A i \in 1..Len(wire'[n]) : i \in 1..Len(wire[n]) \/ i = Len(wire[n]) + 1
  BY <1>2
<1>4. ASSUME NEW m \in Nodes, NEW i \in 1..Len(wire'[m])
      PROVE  Asks(m, wire[m][i])'
  <2>1. CASE m # n
    BY <1>1, <1>2, <1>4, <2>1 DEF IInv, WireFits
  <2>2. CASE m = n /\ i \in 1..Len(wire[n])
    BY <1>1, <1>2, <2>2 DEF IInv, WireFits
  <2>3. CASE m = n /\ i = Len(wire[n]) + 1
    BY <1>2, <2>3
  <2> QED BY <1>3, <1>4, <2>1, <2>2, <2>3
<1>5. ASSUME NEW m \in Nodes, NEW i \in 1..Len(wire'[m]), NEW j \in 1..Len(wire'[m]),
             Repeats(wire'[m][i], wire'[m][j])
      PROVE  i = j
  <2>1. CASE m # n
    BY <1>2, <1>5, <2>1 DEF IInv, WireFits
  <2>2. CASE m = n /\ i \in 1..Len(wire[n]) /\ j \in 1..Len(wire[n])
    BY <1>2, <1>5, <2>2 DEF IInv, WireFits
  <2>3. CASE m = n /\ i \in 1..Len(wire[n]) /\ j = Len(wire[n]) + 1
    BY <1>2, <1>5, <2>3
  <2>4. CASE m = n /\ i = Len(wire[n]) + 1 /\ j \in 1..Len(wire[n])
    BY <1>2, <1>5, <2>4 DEF Repeats
  <2> QED BY <1>3, <1>5, <2>1, <2>2, <2>3, <2>4
<1> QED BY <1>4, <1>5 DEF WireFits, Asks, Repeats

\* The others still fit when one is taken.
LEMMA TakeWire ==
  ASSUME IInv, NEW n \in Nodes, NEW op, Asked(n, op), Take(n),
         \A m \in Nodes : \A r \in Request :
           Asks(m, r) /\ (m = n => ~Repeats(r, wire[n][1])) => Asks(m, r)'
  PROVE  WireFits'
<1>1. \A m \in Nodes : \A i \in 1..Len(wire[m]) : wire[m][i] \in Request
  BY DEF IInv, TypeOK
<1>2. /\ \A m \in Nodes : m # n => wire'[m] = wire[m]
      /\ Len(wire[n]) \in Nat /\ Len(wire[n]) > 0 /\ Len(wire'[n]) = Len(wire[n]) - 1
      /\ \A i \in 1..Len(wire'[n]) : wire'[n][i] = wire[n][i + 1]
  BY TakeEffect, TypeParts DEF IInv
<1>3. \A i \in 1..Len(wire'[n]) : i + 1 \in 1..Len(wire[n]) /\ i + 1 # 1 /\ 1 \in 1..Len(wire[n])
  BY <1>2
<1>4. ASSUME NEW m \in Nodes, NEW i \in 1..Len(wire'[m])
      PROVE  Asks(m, wire[m][i])'
  <2>1. CASE m # n
    BY <1>1, <1>2, <1>4, <2>1 DEF IInv, WireFits
  <2>2. CASE m = n
    <3>1. wire[n][i + 1] \in Request /\ Asks(n, wire[n][i + 1]) /\ ~Repeats(wire[n][i + 1], wire[n][1])
      BY <1>1, <1>3, <1>4, <2>2 DEF IInv, WireFits
    <3>2. wire'[n][i] = wire[n][i + 1]
      BY <1>2, <1>4, <2>2
    <3> QED BY <2>2, <3>1, <3>2
  <2> QED BY <2>1, <2>2
<1>5. ASSUME NEW m \in Nodes, NEW i \in 1..Len(wire'[m]), NEW j \in 1..Len(wire'[m]),
             Repeats(wire'[m][i], wire'[m][j])
      PROVE  i = j
  <2>1. CASE m # n
    BY <1>2, <1>5, <2>1 DEF IInv, WireFits
  <2>2. CASE m = n
    <3>1. i + 1 = j + 1
      BY <1>2, <1>3, <1>5, <2>2 DEF IInv, WireFits
    <3>2. i \in Nat /\ j \in Nat
      BY <1>2, <1>5
    <3> QED BY <3>1, <3>2
  <2> QED BY <2>1, <2>2
<1> QED BY <1>4, <1>5 DEF WireFits, Asks, Repeats

-----------------------------------------------------------------------------
(* calls, rows and leases. *)

OthersInv == CallsFit /\ WireFits /\ UseFits /\ Placed /\ ReadyIsLeased

\* The operation in flight, when no terminal is opened and its session stays.
LEMMA QuietUse ==
  ASSUME IInv, UNCHANGED counters \/ Mishap,
         use' \in {None, use} \/ (use # None /\ use'.session = use.session /\ use'.at # "sent"),
         \A s \in Sessions : row[s] \notin {"none", "elsewhere"} => row'[s] \notin {"none", "elsewhere"}
  PROVE  UseFits'
<1>1. opens' = opens
  BY DEF counters, Mishap
<1>2. use # None => use.session \in Sessions
  BY DEF IInv, TypeOK, Use
<1> QED BY <1>1, <1>2 DEF IInv, UseFits

\* Nothing is asked about a session that is not created yet, so that its steps change no question.
LEMMA NewAsks ==
  ASSUME IInv, UNCHANGED use, NEW s \in Sessions, row[s] = "none",
         \A x \in Sessions : x # s => row'[x] = row[x] /\ call'[x] = call[x] /\ leaseNode'[x] = leaseNode[x]
  PROVE  \A n \in Nodes : \A r \in Request : Asks(n, r) => Asks(n, r)'
<1>1. call[s].at # "sent"
  BY DEF IInv, CallsFit
<1>2. use # None => use.session \in Sessions /\ use.session # s
  BY DEF IInv, UseFits, TypeOK, Use
<1>3. \A r \in Request : r.session \in Sessions
  BY DEF Request
<1> QED BY <1>1, <1>2, <1>3 DEF Asks

\* A session with a reference is through with its creation.
LEMMA IdleWhenReferenced ==
  ASSUME IInv, NEW s \in Sessions, row[s] \in {"ready", "destroyed"}
  PROVE  call[s].at = "idle"
BY DEF IInv, CallsFit, TypeOK, Idle, Selecting, Chosen, Creating

\* A selection that begins keeps calls, requests and operations in line.
LEMMA SelectBeginsOthers ==
  ASSUME IInv, TypeOK', NEW s \in Sessions, SelectBegins(s)
  PROVE  OthersInv'
<1> USE DEF SelectBegins, ptyVars, reconVars, leaseVars, Sessions
<1> /\ LeaseTypeOK /\ RowsTypeOK /\ NodesTypeOK
    /\ CallsFit /\ WireFits /\ UseFits /\ Placed /\ ReadyIsLeased
  BY TypeParts DEF IInv
<1>1. CallsFit'
  BY DEF CallsFit, Idle, LeaseTypeOK, RowsTypeOK, NodesTypeOK
<1>2. WireFits'
  BY QuietWire DEF Asks, CallsFit
<1>3. UseFits'
  BY QuietUse DEF NodesTypeOK, CallsFit
<1>4. Placed'
  BY DEF Placed, Idle, LeaseTypeOK, RowsTypeOK, CallsFit
<1>5. ReadyIsLeased'
  BY DEF ReadyIsLeased, LeaseTypeOK, RowsTypeOK, CallsFit
<1> QED BY <1>1, <1>2, <1>3, <1>4, <1>5 DEF OthersInv

\* A health that is told keeps calls, requests and operations in line.
LEMMA HealthToldOthers ==
  ASSUME IInv, TypeOK', NEW s \in Sessions, HealthTold(s)
  PROVE  OthersInv'
<1> USE DEF HealthTold, ptyVars, reconVars, leaseVars, Sessions
<1> /\ LeaseTypeOK /\ RowsTypeOK /\ NodesTypeOK
    /\ CallsFit /\ WireFits /\ UseFits /\ Placed /\ ReadyIsLeased
  BY TypeParts DEF IInv
<1>1. CallsFit'
  BY DEF CallsFit, Answered
<1>2. WireFits'
  BY QuietWire DEF Asks, Answered
<1>3. UseFits'
  BY QuietUse DEF NodesTypeOK, Answered, CallsFit
<1>4. Placed'
  BY DEF Placed
<1>5. ReadyIsLeased'
  BY DEF ReadyIsLeased, LeaseTypeOK, RowsTypeOK, Answered, CallsFit
<1> QED BY <1>1, <1>2, <1>3, <1>4, <1>5 DEF OthersInv

\* A session that goes elsewhere keeps calls, requests and operations in line.
LEMMA SelectEndsElsewhereOthers ==
  ASSUME IInv, TypeOK', NEW s \in Sessions, SelectEndsElsewhere(s)
  PROVE  OthersInv'
<1> USE DEF SelectEndsElsewhere, ptyVars, reconVars, leaseVars, Sessions
<1> /\ LeaseTypeOK /\ RowsTypeOK /\ NodesTypeOK
    /\ CallsFit /\ WireFits /\ UseFits /\ Placed /\ ReadyIsLeased
  BY TypeParts DEF IInv
<1>1. CallsFit'
  BY DEF CallsFit, Idle, RowsTypeOK, End, Answered
<1>2. WireFits'
  <2>1. row[s] = "none" /\ UNCHANGED <<wire, use, leaseNode>>
    BY DEF CallsFit, Answered
  <2>2. \A x \in Sessions : x # s => row'[x] = row[x] /\ call'[x] = call[x]
    BY DEF RowsTypeOK, End
  <2> QED BY <2>1, <2>2, NewAsks, QuietWire
<1>3. UseFits'
  BY QuietUse DEF RowsTypeOK, Answered, CallsFit
<1>4. Placed'
  BY DEF Placed, RowsTypeOK
<1>5. ReadyIsLeased'
  BY DEF ReadyIsLeased, RowsTypeOK
<1> QED BY <1>1, <1>2, <1>3, <1>4, <1>5 DEF OthersInv

\* A creation that is sent keeps calls, requests and operations in line.
LEMMA CreateBeginsOthers ==
  ASSUME IInv, TypeOK', NEW s \in Sessions, CreateBegins(s)
  PROVE  OthersInv'
<1> USE DEF CreateBegins, ptyVars, reconVars, Sessions
<1> /\ LeaseTypeOK /\ RowsTypeOK /\ NodesTypeOK
    /\ CallsFit /\ WireFits /\ UseFits /\ Placed /\ ReadyIsLeased
  BY TypeParts DEF IInv
<1>1. CallsFit'
  <2>1. \A x \in Sessions : x # s =>
          /\ row'[x] = row[x] /\ call'[x] = call[x] /\ lapsed'[x] = lapsed[x]
          /\ lease'[x] = IF lease[x] = "active" /\ lapsed[x] THEN "expired" ELSE lease[x]
    BY DEF RowsTypeOK, MoveTo, SaveRows, IssueLease, ExpireActiveLeases
  <2>2. row'[s] = "creating" /\ call'[s].at = "sent" /\ lease'[s] = "active"
    BY DEF RowsTypeOK, MoveTo, SaveRows, IssueLease, ExpireActiveLeases
  <2>3. s \notin recon /\ ~lapsed[s] /\ lease[s] = "none"
    BY ChosenIsNew DEF CallsFit
  <2>4. UNCHANGED <<recon, agent, orphaned>>
    OBVIOUS
  <2>5. ~lapsed'[s]
    BY <2>3 DEF IssueLease, LeaseTypeOK
  <2> QED BY <2>1, <2>2, <2>3, <2>4, <2>5 DEF CallsFit
<1>2. WireFits'
  <2>1. PICK n \in CandidatesFor(s) : IssueLease(s, n) /\ Send(n, "create", s)
    OBVIOUS
  <2>2. n \in Nodes /\ row[s] = "none" /\ UNCHANGED <<agent, use>>
    BY CandidatesEligible, ChosenIsNew
  <2>3. \A x \in Sessions : x # s => row'[x] = row[x] /\ call'[x] = call[x] /\ leaseNode'[x] = leaseNode[x]
    BY <2>1 DEF RowsTypeOK, MoveTo, SaveRows, IssueLease
  <2>4. call'[s].at = "sent" /\ leaseNode'[s] = n
    BY <2>1 DEF LeaseTypeOK, RowsTypeOK, MoveTo, IssueLease
  <2>5. \A m \in Nodes : \A r \in Request : Asks(m, r) => Asks(m, r)'
    BY <2>2, <2>3, NewAsks
  <2>6. Asks(n, [op |-> "create", session |-> s])'
    BY <2>4 DEF Asks
  <2>7. \A i \in 1..Len(wire[n]) : ~Repeats(wire[n][i], [op |-> "create", session |-> s])
    BY <2>2, NotYetHeld DEF Repeats
  <2> QED BY <2>1, <2>2, <2>5, <2>6, <2>7, SendWire
<1>3. UseFits'
  BY QuietUse DEF SaveRows
<1>4. Placed'
  BY DEF Placed, LeaseTypeOK, SaveRows, IssueLease, CandidatesFor
<1>5. ReadyIsLeased'
  BY DEF ReadyIsLeased, SaveRows, IssueLease, ExpireActiveLeases
<1> QED BY <1>1, <1>2, <1>3, <1>4, <1>5 DEF OthersInv

\* A creation that is refused a lease keeps calls, requests and operations in line.
LEMMA CreateRefusedOthers ==
  ASSUME IInv, TypeOK', NEW s \in Sessions, CreateRefused(s)
  PROVE  OthersInv'
<1> USE DEF CreateRefused, ptyVars, reconVars, Sessions
<1> /\ LeaseTypeOK /\ RowsTypeOK /\ NodesTypeOK
    /\ CallsFit /\ WireFits /\ UseFits /\ Placed /\ ReadyIsLeased
  BY TypeParts DEF IInv
<1>1. CallsFit'
  <2>1. \A x \in Sessions : x # s =>
          /\ row'[x] = row[x] /\ call'[x] = call[x] /\ lapsed'[x] = lapsed[x]
          /\ lease'[x] = IF lease[x] = "active" /\ lapsed[x] THEN "expired" ELSE lease[x]
    BY DEF RowsTypeOK, End, SaveRows, ExpireActiveLeases
  <2>2. row'[s] = "failed" /\ call'[s].at = "idle"
    BY DEF RowsTypeOK, End, Idle, SaveRows, ExpireActiveLeases
  <2>3. s \notin recon /\ ~lapsed[s] /\ lease[s] = "none"
    BY ChosenIsNew DEF CallsFit
  <2>4. UNCHANGED <<recon, agent, orphaned>>
    OBVIOUS
  <2>5. ~lapsed'[s]
    BY <2>3
  <2> QED BY <2>1, <2>2, <2>3, <2>4, <2>5 DEF CallsFit
<1>2. WireFits'
  <2>1. row[s] = "none" /\ UNCHANGED <<wire, use>>
    BY ChosenIsNew
  <2>2. \A x \in Sessions : x # s => row'[x] = row[x] /\ call'[x] = call[x] /\ leaseNode'[x] = leaseNode[x]
    BY DEF RowsTypeOK, End, SaveRows
  <2> QED BY <2>1, <2>2, NewAsks, QuietWire
<1>3. UseFits'
  BY QuietUse DEF SaveRows
<1>4. Placed'
  BY DEF Placed, SaveRows
<1>5. ReadyIsLeased'
  BY DEF ReadyIsLeased, SaveRows, ExpireActiveLeases
<1> QED BY <1>1, <1>2, <1>3, <1>4, <1>5 DEF OthersInv

\* A creation that cannot be sent keeps calls, requests and operations in line.
LEMMA CreateNotSentOthers ==
  ASSUME IInv, TypeOK', NEW s \in Sessions, CreateNotSent(s)
  PROVE  OthersInv'
<1> USE DEF CreateNotSent, ptyVars, reconVars, Sessions
<1> /\ LeaseTypeOK /\ RowsTypeOK /\ NodesTypeOK
    /\ CallsFit /\ WireFits /\ UseFits /\ Placed /\ ReadyIsLeased
  BY TypeParts DEF IInv
<1>1. CallsFit'
  <2>1. \A x \in Sessions : x # s =>
          /\ row'[x] = row[x] /\ call'[x] = call[x] /\ lapsed'[x] = lapsed[x]
          /\ lease'[x] = IF lease[x] = "active" /\ lapsed[x] THEN "expired" ELSE lease[x]
    BY DEF RowsTypeOK, End, SaveRows, IssueLease, ExpireActiveLeases
  <2>2. row'[s] = "failed" /\ call'[s].at = "idle"
    BY DEF RowsTypeOK, End, Idle, SaveRows
  <2>3. s \notin recon /\ ~lapsed[s] /\ lease[s] = "none"
    BY ChosenIsNew DEF CallsFit
  <2>4. UNCHANGED <<recon, agent, orphaned>>
    OBVIOUS
  <2>5. ~lapsed'[s]
    BY <2>3 DEF IssueLease, LeaseTypeOK
  <2> QED BY <2>1, <2>2, <2>3, <2>4, <2>5 DEF CallsFit
<1>2. WireFits'
  <2>1. row[s] = "none" /\ UNCHANGED <<wire, use>>
    BY ChosenIsNew
  <2>2. \A x \in Sessions : x # s => row'[x] = row[x] /\ call'[x] = call[x] /\ leaseNode'[x] = leaseNode[x]
    BY DEF RowsTypeOK, End, SaveRows, IssueLease
  <2> QED BY <2>1, <2>2, NewAsks, QuietWire
<1>3. UseFits'
  BY QuietUse DEF SaveRows, CannotSend
<1>4. Placed'
  BY DEF Placed, SaveRows, IssueLease, CandidatesFor
<1>5. ReadyIsLeased'
  BY DEF ReadyIsLeased, SaveRows, IssueLease, ExpireActiveLeases
<1> QED BY <1>1, <1>2, <1>3, <1>4, <1>5 DEF OthersInv

\* A creation that returns keeps calls, requests and operations in line.
LEMMA CreateReturnsOthers ==
  ASSUME IInv, TypeOK', NEW s \in Sessions, CreateReturns(s)
  PROVE  OthersInv'
<1> USE DEF CreateReturns, ptyVars, reconVars, leaseVars, Sessions
<1> /\ LeaseTypeOK /\ RowsTypeOK /\ NodesTypeOK
    /\ CallsFit /\ WireFits /\ UseFits /\ Placed /\ ReadyIsLeased
  BY TypeParts DEF IInv
<1>1. CallsFit'
  BY DEF CallsFit, Idle, RowsTypeOK, End
<1>2. WireFits'
  BY QuietWire DEF Asks, End, Answered
<1>3. UseFits'
  BY QuietUse DEF NodesTypeOK, End, Answered, CallsFit
<1>4. Placed'
  BY DEF Placed, Answered, CallsFit
<1>5. ReadyIsLeased'
  BY DEF ReadyIsLeased, Answered, CallsFit
<1> QED BY <1>1, <1>2, <1>3, <1>4, <1>5 DEF OthersInv

\* A creation that fails keeps calls, requests and operations in line.
LEMMA CreateFailsOthers ==
  ASSUME IInv, TypeOK', NEW s \in Sessions, CreateFails(s)
  PROVE  OthersInv'
<1> USE DEF CreateFails, ptyVars, reconVars, leaseVars, Sessions
<1> /\ LeaseTypeOK /\ RowsTypeOK /\ NodesTypeOK
    /\ CallsFit /\ WireFits /\ UseFits /\ Placed /\ ReadyIsLeased
  BY TypeParts DEF IInv
<1>1. CallsFit'
  BY DEF CallsFit, Idle, RowsTypeOK, End
<1>2. WireFits'
  BY QuietWire DEF Asks, End
<1>3. UseFits'
  BY QuietUse DEF NodesTypeOK, End, CallsFit
<1>4. Placed'
  BY DEF Placed
<1>5. ReadyIsLeased'
  BY DEF ReadyIsLeased, LeaseTypeOK, RowsTypeOK, End, CallsFit
<1> QED BY <1>1, <1>2, <1>3, <1>4, <1>5 DEF OthersInv

\* A destruction keeps calls, requests and operations in line.
LEMMA DestroyOthers ==
  ASSUME IInv, TypeOK', NEW s \in Sessions, Destroy(s)
  PROVE  OthersInv'
<1> USE DEF Destroy, ptyVars, reconVars, Sessions
<1> /\ LeaseTypeOK /\ RowsTypeOK /\ NodesTypeOK
    /\ CallsFit /\ WireFits /\ UseFits /\ Placed /\ ReadyIsLeased
  BY TypeParts DEF IInv
<1>1. CallsFit'
  BY DEF CallsFit, ReleaseLease, HasReference
<1>2. WireFits'
  <2>1. /\ row' = [row EXCEPT ![s] = "destroyed"] /\ row[s] \in {"ready", "destroyed"}
        /\ UNCHANGED <<call, use, leaseNode, agent>>
    BY DEF HasReference
  <2>2. \A m \in Nodes : \A r \in Request : Asks(m, r) => Asks(m, r)'
    BY <2>1 DEF Asks, RowsTypeOK
  <2>3. CASE NodeOf(s) # None /\ Send(NodeOf(s), "destroy", s)
    <3>1. PICK n \in Nodes : Send(n, "destroy", s)
      BY <2>3, NodeOfType
    <3>2. call[s].at = "idle"
      BY <2>1, IdleWhenReferenced
    <3>3. Asks(n, [op |-> "destroy", session |-> s])'
      BY <2>1, <3>2 DEF Asks, RowsTypeOK
    <3>4. \A i \in 1..Len(wire[n]) : ~Repeats(wire[n][i], [op |-> "destroy", session |-> s])
      BY DEF Repeats
    <3> QED BY <2>2, <3>1, <3>3, <3>4, SendWire
  <2>4. CASE UNCHANGED wire
    BY <2>2, <2>4, QuietWire
  <2> QED BY <2>3, <2>4
<1>3. UseFits'
  BY QuietUse DEF NodesTypeOK, CallsFit, HasReference, CannotSend
<1>4. Placed'
  BY DEF Placed, HasReference
<1>5. ReadyIsLeased'
  BY DEF ReadyIsLeased, RowsTypeOK, ReleaseLease
<1> QED BY <1>1, <1>2, <1>3, <1>4, <1>5 DEF OthersInv

\* An operation that begins keeps calls, requests and operations in line.
LEMMA UseBeginsOthers ==
  ASSUME IInv, TypeOK', NEW s \in Sessions, UseBegins(s)
  PROVE  OthersInv'
<1> USE DEF UseBegins, ptyVars, reconVars, leaseVars, Sessions
<1> /\ LeaseTypeOK /\ RowsTypeOK /\ NodesTypeOK
    /\ CallsFit /\ WireFits /\ UseFits /\ Placed /\ ReadyIsLeased
  BY TypeParts DEF IInv
<1>1. CallsFit'
  BY DEF CallsFit
<1>2. WireFits'
  <2>1. UNCHANGED <<row, call, leaseNode, agent>> /\ use = None
    OBVIOUS
  <2>2. \A m \in Nodes : \A r \in Request : Asks(m, r) => Asks(m, r)' /\ r.op # "use"
    BY <2>1 DEF Asks
  <2>3. PICK n \in Nodes : n = leaseNode[s] /\ Send(n, "use", s)
    BY NodeOfType DEF NodeOf
  <2>4. use' # None /\ use'.at = "sent" /\ use'.session = s
    <3>1. \A y \in opened : y.pty \in Ptys
      BY DEF NodesTypeOK, Shell
    <3>2. PICK op \in UseOps, p \in Ptys \cup {None} :
            use' = [session |-> s, op |-> op, pty |-> p, at |-> "sent"]
      BY <3>1
    <3>3. use' \in Use
      BY <3>2 DEF Use
    <3> QED BY <3>3, NoneAssumption
  <2>5. Asks(n, [op |-> "use", session |-> s])'
    BY <2>1, <2>3, <2>4 DEF Asks
  <2>6. \A i \in 1..Len(wire[n]) : ~Repeats(wire[n][i], [op |-> "use", session |-> s])
    BY <2>1 DEF WireFits, Asks, Repeats
  <2> QED BY <2>2, <2>3, <2>5, <2>6, SendWire
<1>3. UseFits'
  <2>1. use'.session = s /\ (use'.op = "pty_open" => opens < MaxOpens) /\ UNCHANGED <<row, opens>>
    BY DEF counters
  <2>2. row[s] \notin {"none", "elsewhere"}
    BY DEF ServiceAllows, HasReference
  <2> QED BY <2>1, <2>2 DEF UseFits
<1>4. Placed'
  BY DEF Placed
<1>5. ReadyIsLeased'
  BY DEF ReadyIsLeased, LeaseTypeOK, RowsTypeOK, HasReference, CallsFit
<1> QED BY <1>1, <1>2, <1>3, <1>4, <1>5 DEF OthersInv

\* A lease that runs out keeps calls, requests and operations in line.
LEMMA LapseOthers ==
  ASSUME IInv, TypeOK', NEW s \in Sessions, Lapse(s)
  PROVE  OthersInv'
<1> USE DEF Lapse, callVars, ptyVars, reconVars, Sessions
<1> /\ LeaseTypeOK /\ RowsTypeOK /\ NodesTypeOK
    /\ CallsFit /\ WireFits /\ UseFits /\ Placed /\ ReadyIsLeased
  BY TypeParts DEF IInv
<1>1. CallsFit'
  BY DEF CallsFit, LapseLease
<1>2. WireFits'
  BY QuietWire DEF Asks, LapseLease
<1>3. UseFits'
  BY QuietUse DEF NodesTypeOK, CallsFit
<1>4. Placed'
  BY DEF Placed, LapseLease
<1>5. ReadyIsLeased'
  BY DEF ReadyIsLeased, LeaseTypeOK, RowsTypeOK, LapseLease, CallsFit
<1> QED BY <1>1, <1>2, <1>3, <1>4, <1>5 DEF OthersInv

\* A reconciliation that cannot reach the node keeps calls, requests and operations in line.
LEMMA ReconcileFailsOthers ==
  ASSUME IInv, TypeOK', NEW s \in Sessions, ReconcileFails(s)
  PROVE  OthersInv'
<1> USE DEF ReconcileFails, ptyVars, leaseVars, Sessions
<1> /\ LeaseTypeOK /\ RowsTypeOK /\ NodesTypeOK
    /\ CallsFit /\ WireFits /\ UseFits /\ Placed /\ ReadyIsLeased
  BY TypeParts DEF IInv
<1>1. CallsFit'
  BY DEF CallsFit, Idle, LeaseTypeOK, RowsTypeOK, NodesTypeOK
<1>2. WireFits'
  BY QuietWire DEF Asks
<1>3. UseFits'
  BY QuietUse DEF NodesTypeOK, CallsFit
<1>4. Placed'
  BY DEF Placed, Idle, LeaseTypeOK, RowsTypeOK, CallsFit
<1>5. ReadyIsLeased'
  BY DEF ReadyIsLeased, LeaseTypeOK, RowsTypeOK, CallsFit
<1> QED BY <1>1, <1>2, <1>3, <1>4, <1>5 DEF OthersInv

\* A reconciliation that is told the status keeps calls, requests and operations in line.
LEMMA ReconcileToldOthers ==
  ASSUME IInv, TypeOK', NEW s \in Sessions, ReconcileTold(s)
  PROVE  OthersInv'
<1> USE DEF ReconcileTold, ptyVars, leaseVars, Sessions
<1> /\ LeaseTypeOK /\ RowsTypeOK /\ NodesTypeOK
    /\ CallsFit /\ WireFits /\ UseFits /\ Placed /\ ReadyIsLeased
  BY TypeParts DEF IInv
<1>1. CallsFit'
  BY DEF CallsFit, SessionState
<1>2. WireFits'
  BY QuietWire DEF Asks, SessionState
<1>3. UseFits'
  BY QuietUse DEF NodesTypeOK, CallsFit, SessionState
<1>4. Placed'
  BY DEF Placed, CallsFit
<1>5. ReadyIsLeased'
  BY DEF ReadyIsLeased, LeaseTypeOK, RowsTypeOK, SessionState, CallsFit
<1> QED BY <1>1, <1>2, <1>3, <1>4, <1>5 DEF OthersInv

\* A reconciliation that throws keeps calls, requests and operations in line.
LEMMA ReconcileThrowsOthers ==
  ASSUME IInv, TypeOK', NEW s \in Sessions, ReconcileThrows(s)
  PROVE  OthersInv'
<1> USE DEF ReconcileThrows, callVars, ptyVars, leaseVars, Sessions
<1> /\ LeaseTypeOK /\ RowsTypeOK /\ NodesTypeOK
    /\ CallsFit /\ WireFits /\ UseFits /\ Placed /\ ReadyIsLeased
  BY TypeParts DEF IInv
<1>1. CallsFit'
  BY DEF CallsFit, Idle, LeaseTypeOK, RowsTypeOK, NodesTypeOK
<1>2. WireFits'
  BY QuietWire DEF Asks
<1>3. UseFits'
  BY QuietUse DEF NodesTypeOK, CallsFit
<1>4. Placed'
  BY DEF Placed, Idle, LeaseTypeOK, RowsTypeOK, CallsFit
<1>5. ReadyIsLeased'
  BY DEF ReadyIsLeased, LeaseTypeOK, RowsTypeOK, CallsFit
<1> QED BY <1>1, <1>2, <1>3, <1>4, <1>5 DEF OthersInv

\* An agent that creates a session keeps calls, requests and operations in line.
LEMMA AgentCreatesOthers ==
  ASSUME IInv, TypeOK', NEW n \in Nodes, AgentCreates(n)
  PROVE  OthersInv'
<1> USE DEF AgentCreates, ptyVars, reconVars, leaseVars, Sessions
<1> /\ LeaseTypeOK /\ RowsTypeOK /\ NodesTypeOK
    /\ CallsFit /\ WireFits /\ UseFits /\ Placed /\ ReadyIsLeased
  BY TypeParts DEF IInv
<1>1. CallsFit'
  <2>1. Asked(n, "create") /\ Take(n)
    OBVIOUS
  <2>2. /\ Head(wire[n]) = wire[n][1] /\ wire[n][1].op = "create"
        /\ wire[n][1].session \in Sessions /\ Asks(n, wire[n][1])
    BY <2>1, TakeEffect DEF WireFits
  <2>3. PICK s \in Sessions : s = Head(wire[n]).session /\ s = wire[n][1].session
    BY <2>2
  <2>4. call[s].at = "sent"
    BY <2>2, <2>3 DEF Asks
  <2>5. UNCHANGED <<row, lease, lapsed, recon, orphaned>>
    OBVIOUS
  <2>6. /\ \A x \in Sessions : x # s => call'[x] = call[x]
        /\ call'[s].at \in {"held", "refused"}
    BY <2>3 DEF MoveTo, RowsTypeOK
  <2>7. \A m \in Nodes, x \in Sessions : x # s /\ x \in agent'[m] => x \in agent[m]
    BY <2>3 DEF NodesTypeOK
  <2> QED BY <2>4, <2>5, <2>6, <2>7 DEF CallsFit
<1>2. WireFits'
  <2>1. Asked(n, "create") /\ Take(n)
    OBVIOUS
  <2>2. /\ Head(wire[n]) = wire[n][1] /\ wire[n][1].op = "create"
        /\ wire[n][1].session \in Sessions /\ Asks(n, wire[n][1])
    BY <2>1, TakeEffect DEF WireFits
  <2>3. PICK s \in Sessions : s = Head(wire[n]).session /\ s = wire[n][1].session
    BY <2>2
  <2>4. call[s].at = "sent" /\ leaseNode[s] = n
    BY <2>2, <2>3 DEF Asks
  <2>5. UNCHANGED <<row, leaseNode, use>> /\ \A x \in Sessions : x # s => call'[x] = call[x]
    BY <2>3 DEF MoveTo, RowsTypeOK
  <2>6. ASSUME NEW m \in Nodes, NEW r \in Request, Asks(m, r), m = n => ~Repeats(r, wire[n][1])
        PROVE  Asks(m, r)'
    <3>1. r.session \in Sessions
      BY DEF Request
    <3>2. r.op \in {"create", "destroy"} => r.session # s
      BY <2>2, <2>3, <2>4, <2>6 DEF Asks, Repeats
    <3> QED BY <2>5, <2>6, <3>1, <3>2 DEF Asks
  <2> QED BY <2>6, TakeWire
<1>3. UseFits'
  BY QuietUse DEF NodesTypeOK, MoveTo, CallsFit
<1>4. Placed'
  BY DEF Placed
<1>5. ReadyIsLeased'
  BY DEF ReadyIsLeased, LeaseTypeOK, RowsTypeOK, MoveTo, CallsFit
<1> QED BY <1>1, <1>2, <1>3, <1>4, <1>5 DEF OthersInv

\* An agent that ends a session keeps calls, requests and operations in line.
LEMMA AgentDestroysOthers ==
  ASSUME IInv, TypeOK', NEW n \in Nodes, AgentDestroys(n)
  PROVE  OthersInv'
<1> USE DEF AgentDestroys, callVars, reconVars, leaseVars, Sessions
<1> /\ LeaseTypeOK /\ RowsTypeOK /\ NodesTypeOK
    /\ CallsFit /\ WireFits /\ UseFits /\ Placed /\ ReadyIsLeased
  BY TypeParts DEF IInv
<1>1. CallsFit'
  BY DEF CallsFit, Idle, LeaseTypeOK, RowsTypeOK, NodesTypeOK
<1>2. WireFits'
  BY TakeWire DEF Asks
<1>3. UseFits'
  BY QuietUse DEF NodesTypeOK, CallsFit
<1>4. Placed'
  BY DEF Placed, Idle, LeaseTypeOK, RowsTypeOK, CallsFit
<1>5. ReadyIsLeased'
  BY DEF ReadyIsLeased, LeaseTypeOK, RowsTypeOK, CallsFit
<1> QED BY <1>1, <1>2, <1>3, <1>4, <1>5 DEF OthersInv

\* An agent that serves an operation keeps calls, requests and operations in line.
LEMMA AgentServesOthers ==
  ASSUME IInv, TypeOK', NEW n \in Nodes, AgentServes(n)
  PROVE  OthersInv'
<1> USE DEF AgentServes, reconVars, leaseVars, Sessions
<1> /\ LeaseTypeOK /\ RowsTypeOK /\ NodesTypeOK
    /\ CallsFit /\ WireFits /\ UseFits /\ Placed /\ ReadyIsLeased
  BY TypeParts DEF IInv
<1>1. CallsFit'
  BY DEF CallsFit, Idle, LeaseTypeOK, RowsTypeOK, NodesTypeOK
<1>2. WireFits'
  <2>1. Asked(n, "use") /\ Take(n)
    OBVIOUS
  <2>2. /\ Head(wire[n]) = wire[n][1] /\ wire[n][1].op = "use"
        /\ wire[n][1].session \in Sessions /\ Asks(n, wire[n][1])
    BY <2>1, TakeEffect DEF WireFits
  <2>3. UNCHANGED <<row, leaseNode, call>>
    OBVIOUS
  <2>4. leaseNode[use.session] = n
    BY <2>2 DEF Asks
  <2>5. ASSUME NEW m \in Nodes, NEW r \in Request, Asks(m, r), m = n => ~Repeats(r, wire[n][1])
        PROVE  Asks(m, r)'
    BY <2>2, <2>3, <2>4, <2>5 DEF Asks, Repeats
  <2> QED BY <2>5, TakeWire
<1>3. UseFits'
  <2>1. Asked(n, "use") /\ Take(n)
    OBVIOUS
  <2>2. /\ Head(wire[n]) = wire[n][1] /\ wire[n][1].op = "use"
        /\ wire[n][1].session \in Sessions /\ Asks(n, wire[n][1])
    BY <2>1, TakeEffect DEF WireFits
  <2>3. use # None
    BY <2>2 DEF Asks
  <2>4. use \in Use
    BY <2>3 DEF NodesTypeOK
  <2>5. use'.session = use.session /\ use'.at # "sent"
    BY <2>4 DEF AgentOpens, Use
  <2>6. UNCHANGED row
    OBVIOUS
  <2> QED BY <2>3, <2>5, <2>6 DEF UseFits
<1>4. Placed'
  BY DEF Placed, Idle, LeaseTypeOK, RowsTypeOK, CallsFit
<1>5. ReadyIsLeased'
  BY DEF ReadyIsLeased, LeaseTypeOK, RowsTypeOK, CallsFit
<1> QED BY <1>1, <1>2, <1>3, <1>4, <1>5 DEF OthersInv

\* A connection that drops keeps calls, requests and operations in line.
LEMMA DropOthers ==
  ASSUME IInv, TypeOK', NEW n \in Nodes, Drop(n)
  PROVE  OthersInv'
<1> USE DEF Drop, reconVars, leaseVars, Sessions
<1> /\ LeaseTypeOK /\ RowsTypeOK /\ NodesTypeOK
    /\ CallsFit /\ WireFits /\ UseFits /\ Placed /\ ReadyIsLeased
  BY TypeParts DEF IInv
<1>1. CallsFit'
  BY DEF CallsFit, Idle, LeaseTypeOK, RowsTypeOK, NodesTypeOK
<1>2. WireFits'
  <2>1. wire'[n] = << >> /\ (\A m \in Nodes : m # n => wire'[m] = wire[m]) /\ UNCHANGED <<row, leaseNode>>
    BY DEF NodesTypeOK
  <2>2. ASSUME NEW m \in Nodes, m # n, NEW r \in Request, Asks(m, r)
        PROVE  Asks(m, r)'
    <3>1. r.session \in Sessions
      BY DEF Request
    <3>2. call[r.session].at = "idle" => call'[r.session] = call[r.session]
      BY <3>1
    <3>3. leaseNode[r.session] = m => call'[r.session] = call[r.session]
      BY <2>2, <3>1 DEF OnNode
    <3>4. use # None /\ leaseNode[use.session] = m => use' = use
      BY <2>2 DEF OnNode
    <3> QED BY <2>1, <2>2, <3>2, <3>3, <3>4 DEF Asks
  <2>3. \A m \in Nodes : \A i \in 1..Len(wire[m]) : wire[m][i] \in Request
    BY DEF NodesTypeOK
  <2>4. ASSUME NEW m \in Nodes, NEW i \in 1..Len(wire'[m])
        PROVE  /\ Asks(m, wire[m][i])'
                /\ \A j \in 1..Len(wire'[m]) : Repeats(wire'[m][i], wire'[m][j]) => i = j
    <3>1. m # n /\ wire'[m] = wire[m]
      BY <2>1
    <3>2. Asks(m, wire[m][i]) /\ wire[m][i] \in Request
      BY <2>3, <3>1 DEF WireFits
    <3> QED BY <2>2, <3>1, <3>2 DEF WireFits, Asks
  <2> QED BY <2>4, SMTT(30) DEF WireFits, Asks, Repeats
<1>3. UseFits'
  BY QuietUse DEF NodesTypeOK, CallsFit
<1>4. Placed'
  BY DEF Placed, Idle, LeaseTypeOK, RowsTypeOK, CallsFit
<1>5. ReadyIsLeased'
  BY DEF ReadyIsLeased, LeaseTypeOK, RowsTypeOK, CallsFit
<1> QED BY <1>1, <1>2, <1>3, <1>4, <1>5 DEF OthersInv

\* A change of a node's record keeps calls, requests and operations in line.
LEMMA NodeRecordChangesOthers ==
  ASSUME IInv, TypeOK', NEW n \in Nodes, NodeRecordChanges(n)
  PROVE  OthersInv'
<1> USE DEF NodeRecordChanges, callVars, ptyVars, reconVars, Sessions
<1> /\ LeaseTypeOK /\ RowsTypeOK /\ NodesTypeOK
    /\ CallsFit /\ WireFits /\ UseFits /\ Placed /\ ReadyIsLeased
  BY TypeParts DEF IInv
<1>1. CallsFit'
  BY DEF CallsFit, NodeChanges
<1>2. WireFits'
  BY QuietWire DEF Asks, NodeChanges
<1>3. UseFits'
  BY QuietUse DEF NodesTypeOK, CallsFit
<1>4. Placed'
  BY DEF Placed, NodeChanges
<1>5. ReadyIsLeased'
  BY DEF ReadyIsLeased, LeaseTypeOK, RowsTypeOK, NodeChanges, CallsFit
<1> QED BY <1>1, <1>2, <1>3, <1>4, <1>5 DEF OthersInv

\* An operation that returns keeps calls, requests and operations in line.
LEMMA UseReturnsOthers ==
  ASSUME IInv, TypeOK', UseReturns
  PROVE  OthersInv'
<1> USE DEF UseReturns, ptyVars, reconVars, leaseVars, Sessions
<1> /\ LeaseTypeOK /\ RowsTypeOK /\ NodesTypeOK
    /\ CallsFit /\ WireFits /\ UseFits /\ Placed /\ ReadyIsLeased
  BY TypeParts DEF IInv
<1>1. CallsFit'
  BY DEF CallsFit, Idle, LeaseTypeOK, RowsTypeOK, NodesTypeOK
<1>2. WireFits'
  BY QuietWire DEF Asks
<1>3. UseFits'
  BY QuietUse DEF NodesTypeOK, CallsFit
<1>4. Placed'
  BY DEF Placed, Idle, LeaseTypeOK, RowsTypeOK, CallsFit
<1>5. ReadyIsLeased'
  BY DEF ReadyIsLeased, LeaseTypeOK, RowsTypeOK, CallsFit
<1> QED BY <1>1, <1>2, <1>3, <1>4, <1>5 DEF OthersInv

\* A terminal that opens keeps calls, requests and operations in line.
LEMMA PtyOpensOthers ==
  ASSUME IInv, TypeOK', PtyOpens
  PROVE  OthersInv'
<1> USE DEF PtyOpens, reconVars, leaseVars, Sessions
<1> /\ LeaseTypeOK /\ RowsTypeOK /\ NodesTypeOK
    /\ CallsFit /\ WireFits /\ UseFits /\ Placed /\ ReadyIsLeased
  BY TypeParts DEF IInv
<1>1. CallsFit'
  BY DEF CallsFit, Idle, LeaseTypeOK, RowsTypeOK, NodesTypeOK
<1>2. WireFits'
  BY QuietWire DEF Asks
<1>3. UseFits'
  BY QuietUse DEF NodesTypeOK, CallsFit
<1>4. Placed'
  BY DEF Placed, Idle, LeaseTypeOK, RowsTypeOK, CallsFit
<1>5. ReadyIsLeased'
  BY DEF ReadyIsLeased, LeaseTypeOK, RowsTypeOK, CallsFit
<1> QED BY <1>1, <1>2, <1>3, <1>4, <1>5 DEF OthersInv

\* A terminal that exits keeps calls, requests and operations in line.
LEMMA ShellExitsOthers ==
  ASSUME IInv, TypeOK', NEW x \in opened, ShellExits(x)
  PROVE  OthersInv'
<1> USE DEF ShellExits, callVars, reconVars, leaseVars, Sessions
<1> /\ LeaseTypeOK /\ RowsTypeOK /\ NodesTypeOK
    /\ CallsFit /\ WireFits /\ UseFits /\ Placed /\ ReadyIsLeased
  BY TypeParts DEF IInv
<1>1. CallsFit'
  BY DEF CallsFit, Idle, LeaseTypeOK, RowsTypeOK, NodesTypeOK
<1>2. WireFits'
  BY QuietWire DEF Asks
<1>3. UseFits'
  BY QuietUse DEF NodesTypeOK, CallsFit
<1>4. Placed'
  BY DEF Placed, Idle, LeaseTypeOK, RowsTypeOK, CallsFit
<1>5. ReadyIsLeased'
  BY DEF ReadyIsLeased, LeaseTypeOK, RowsTypeOK, CallsFit
<1> QED BY <1>1, <1>2, <1>3, <1>4, <1>5 DEF OthersInv

\* A restart keeps calls, requests and operations in line.
LEMMA CrashOthers ==
  ASSUME IInv, TypeOK', Crash
  PROVE  OthersInv'
<1> USE DEF Crash, Sessions
<1> /\ LeaseTypeOK /\ RowsTypeOK /\ NodesTypeOK
    /\ CallsFit /\ WireFits /\ UseFits /\ Placed /\ ReadyIsLeased
  BY TypeParts DEF IInv
<1>1. CallsFit'
  BY DEF CallsFit, Idle, ExpireActiveLeases
<1>2. WireFits'
  <2>1. \A n \in Nodes : wire'[n] = << >>
    OBVIOUS
  <2> QED BY <2>1 DEF WireFits
<1>3. UseFits'
  BY QuietUse DEF NodesTypeOK, CallsFit
<1>4. Placed'
  BY DEF Placed, Idle, LeaseTypeOK, RowsTypeOK, CallsFit
<1>5. ReadyIsLeased'
  BY DEF ReadyIsLeased, LeaseTypeOK, RowsTypeOK, ExpireActiveLeases, CallsFit
<1> QED BY <1>1, <1>2, <1>3, <1>4, <1>5 DEF OthersInv

-----------------------------------------------------------------------------
(* terminals and their mirrors. *)

\* A terminal is mirrored as it is opened, and its mirror ends no sooner than it does.
LEMMA NextMirrored ==
  ASSUME IInv, Next
  PROVE  Mirrored'
<1> Mirrored /\ shells \subseteq Shell
  BY DEF IInv, TypeOK
<1> USE DEF Mirrored
<1>1. CASE UNCHANGED ptyVars
  BY <1>1 DEF ptyVars
<1>2. ASSUME NEW n \in Nodes, AgentDestroys(n)
      PROVE  Mirrored'
  BY <1>2 DEF AgentDestroys
<1>3. ASSUME NEW n \in Nodes, AgentServes(n)
      PROVE  Mirrored'
  <2>1. CASE UNCHANGED <<shells, opened, mirrors>>
    BY <2>1
  <2>2. CASE ~UNCHANGED <<shells, opened, mirrors>>
    <3> DEFINE s == Head(wire[n]).session
    <3>1. UNCHANGED <<opened, mirrors>> /\ AgentOpens(s)
      BY <1>3, <2>2 DEF AgentServes
    <3>2. PICK p \in Ptys, k \in {opens + 1} :
            /\ \A x \in shells : x.session = s => x.pty # p
            /\ shells' = shells \cup {[session |-> s, pty |-> p, opening |-> k]}
      BY <3>1 DEF AgentOpens
    <3> QED BY <3>1, <3>2
  <2> QED BY <2>1, <2>2
<1>4. CASE PtyOpens
  <2> DEFINE shell == {x \in shells : x.session = use.session /\ x.pty = use.pty}
  <2>1. /\ opened' = opened \cup shell /\ UNCHANGED shells
        /\ mirrors' = IF MirrorOf(use.session, use.pty) = {} THEN mirrors \cup shell ELSE mirrors
    BY <1>4 DEF PtyOpens
  <2>2. MirrorOf(use.session, use.pty) # {} => shell \subseteq mirrors
    BY DEF MirrorOf
  <2> QED BY <2>1, <2>2
<1>5. ASSUME NEW x \in opened, ShellExits(x)
      PROVE  Mirrored'
  BY <1>5 DEF ShellExits
<1>6. ASSUME NEW n \in Nodes, Drop(n)
      PROVE  Mirrored'
  BY <1>6 DEF Drop
<1>7. CASE Crash
  BY <1>7 DEF Crash
<1>8. ASSUME NEW s \in Sessions, CreateStep(s) \/ Destroy(s) \/ UseBegins(s) \/ Lapse(s)
      PROVE  UNCHANGED ptyVars
  BY <1>8 DEF CreateStep, SelectBegins, HealthTold, SelectEndsElsewhere, CreateBegins,
     CreateRefused, CreateNotSent,
              CreateReturns, CreateFails, Destroy, UseBegins, Lapse
<1>9. ASSUME NEW s \in Sessions, ReconcileFails(s) \/ ReconcileTold(s) \/ ReconcileThrows(s)
      PROVE  UNCHANGED ptyVars
  BY <1>9 DEF ReconcileFails, ReconcileTold, ReconcileThrows
<1>10. ASSUME NEW n \in Nodes, AgentCreates(n) \/ NodeRecordChanges(n)
       PROVE  UNCHANGED ptyVars
  BY <1>10 DEF AgentCreates, NodeRecordChanges
<1>11. ASSUME UseReturns
       PROVE  UNCHANGED ptyVars
  BY <1>11 DEF UseReturns
<1> QED BY <1>1, <1>2, <1>3, <1>4, <1>5, <1>6, <1>7, <1>8, <1>9, <1>10, <1>11 DEF Next, AgentStep

-----------------------------------------------------------------------------
(* the invariant and its consequences. *)

\* The invariant in the parts that the lemmas are about.
LEMMA InvParts == IInv <=> TypeOK /\ AgentsInv /\ OthersInv /\ Mirrored
BY DEF IInv, AgentsInv, OthersInv

\* The invariant holds of the initial states.
LEMMA InitInv == Init => IInv
<1> SUFFICES ASSUME Init PROVE IInv
  OBVIOUS
<1>1. TypeOK
  <2>1. << >> \in Seq(Request) /\ 0 \in 0..MaxOpens /\ 0 \in 0..MaxMishaps
    BY RemoteAssumption
  <2>2. nodeState \in [Nodes -> NodeState]
    BY DEF Init, NodeState
  <2> QED BY <2>1, <2>2 DEF Init, LeaseInit, TypeOK, LeaseTypeOK, LeaseState, Row, Sessions
<1>2. \A n \in Nodes : wire[n] = << >> /\ agent[n] = {}
  BY DEF Init
<1>3. CallsFit /\ UseFits /\ Placed /\ ReadyIsLeased
  BY <1>2 DEF Init, LeaseInit, CallsFit, UseFits, Placed, ReadyIsLeased, Idle, Sessions
<1>4. WireFits
  BY <1>2 DEF WireFits
<1>5. Mirrored
  BY DEF Init, Mirrored
<1>6. \A n \in Nodes : ActiveLeases(n) = {} /\ Len(wire[n]) = 0 /\ After(n, 0) = {}
  BY <1>2 DEF Init, LeaseInit, ActiveLeases, After
<1>7. \A n \in Nodes : Cardinality({}) <= MaxConcurrentJobs[n]
  <2>1. Cardinality({}) = 0 /\ \A n \in Nodes : MaxConcurrentJobs[n] \in Nat
    BY LeaseAssumption, FS_EmptySet
  <2> QED BY <2>1
<1>8. LeasesWithinCapacity
  BY <1>6, <1>7 DEF LeasesWithinCapacity
<1>9. Accounted
  BY <1>6 DEF Accounted
<1>10. PrefixesFit
  <2> SUFFICES ASSUME NEW n \in Nodes, NEW k \in 0..Len(wire[n])
               PROVE  Cardinality(After(n, k) \ orphaned) <= MaxConcurrentJobs[n]
    BY DEF PrefixesFit
  <2>1. k = 0
    BY <1>6
  <2>2. After(n, k) \ orphaned = {}
    BY <1>6, <2>1
  <2> QED BY <1>7, <2>2
<1> QED BY <1>1, <1>3, <1>4, <1>5, <1>8, <1>9, <1>10 DEF IInv

\* Every step keeps the types.
LEMMA NextTypes ==
  ASSUME IInv, Next
  PROVE  TypeOK'
<1> TypeOK
  BY DEF IInv
<1>1. ASSUME NEW s \in Sessions, CreateStep(s) \/ Destroy(s) \/ UseBegins(s) \/ Lapse(s)
      PROVE  TypeOK'
  BY <1>1, SelectBeginsType, HealthToldType, SelectEndsElsewhereType, CreateBeginsType, CreateRefusedType,
     CreateNotSentType, CreateReturnsType, CreateFailsType, DestroyType, UseBeginsType,
     LapseType DEF CreateStep
<1>2. ASSUME NEW s \in Sessions, ReconcileFails(s) \/ ReconcileTold(s) \/ ReconcileThrows(s)
      PROVE  TypeOK'
  BY <1>2, ReconcileFailsType, ReconcileToldType, ReconcileThrowsType
<1>3. ASSUME NEW n \in Nodes, AgentServes(n)
      PROVE  TypeOK'
  <2>1. Asked(n, "use") /\ Take(n)
    BY <1>3 DEF AgentServes
  <2>2. 1 \in 1..Len(wire[n]) /\ wire[n][1].op = "use"
    BY <2>1, TakeEffect, TypeParts
  <2>3. use # None /\ use.at = "sent"
    BY <2>2 DEF IInv, WireFits, Asks
  <2>4. use.op = "pty_open" => opens < MaxOpens
    BY <2>3 DEF IInv, UseFits
  <2> QED BY <1>3, <2>3, <2>4, AgentServesType
<1>4. ASSUME NEW n \in Nodes, AgentCreates(n) \/ AgentDestroys(n) \/ Drop(n) \/ NodeRecordChanges(n)
      PROVE  TypeOK'
  BY <1>4, AgentCreatesType, AgentDestroysType, DropType, NodeRecordChangesType
<1>5. ASSUME NEW x \in opened, ShellExits(x)
      PROVE  TypeOK'
  BY <1>5, ShellExitsType
<1> QED BY <1>1, <1>2, <1>3, <1>4, <1>5, UseReturnsType, PtyOpensType, CrashType DEF Next, AgentStep

\* Every step keeps what agents hold in line with the leases.
LEMMA NextAgents ==
  ASSUME IInv, TypeOK', Next
  PROVE  AgentsInv'
<1>1. ASSUME NEW s \in Sessions,
             CreateBegins(s) \/ CreateRefused(s) \/ CreateNotSent(s) \/ Destroy(s) \/ UseBegins(s)
      PROVE  AgentsInv'
  BY <1>1, CreateBeginsAgents, CreateRefusedAgents, CreateNotSentAgents, DestroyAgents, UseBeginsAgents
<1>2. ASSUME NEW s \in Sessions,
             \/ SelectBegins(s) \/ HealthTold(s) \/ SelectEndsElsewhere(s)
             \/ CreateReturns(s) \/ CreateFails(s) \/ Lapse(s)
      PROVE  AgentsInv'
  <2>1. UNCHANGED <<lease, leaseNode, wire, agent>> /\ orphaned \subseteq orphaned'
    BY <1>2 DEF SelectBegins, HealthTold, SelectEndsElsewhere, CreateReturns, CreateFails, Lapse,
       LapseLease, leaseVars
  <2> QED BY <2>1, QuietAgents
<1>3. ASSUME NEW s \in Sessions, ReconcileFails(s) \/ ReconcileTold(s) \/ ReconcileThrows(s)
      PROVE  AgentsInv'
  <2>1. UNCHANGED <<lease, leaseNode, wire, agent>> /\ orphaned \subseteq orphaned'
    BY <1>3 DEF ReconcileFails, ReconcileTold, ReconcileThrows, leaseVars
  <2> QED BY <2>1, QuietAgents
<1>4. ASSUME NEW n \in Nodes, AgentStep(n) \/ Drop(n)
      PROVE  AgentsInv'
  BY <1>4, AgentStepAgents, DropAgents
<1>5. ASSUME NEW n \in Nodes, NodeRecordChanges(n)
      PROVE  AgentsInv'
  <2>1. UNCHANGED <<lease, leaseNode, wire, agent>> /\ orphaned \subseteq orphaned'
    BY <1>5 DEF NodeRecordChanges, NodeChanges
  <2> QED BY <2>1, QuietAgents
<1>6. ASSUME UseReturns \/ PtyOpens \/ \E x \in opened : ShellExits(x)
      PROVE  AgentsInv'
  <2>1. UNCHANGED <<lease, leaseNode, wire, agent>> /\ orphaned \subseteq orphaned'
    BY <1>6 DEF UseReturns, PtyOpens, ShellExits, leaseVars
  <2> QED BY <2>1, QuietAgents
<1> QED BY <1>1, <1>2, <1>3, <1>4, <1>5, <1>6, CrashAgents DEF Next, CreateStep

\* Every step keeps calls, requests and operations in line.
LEMMA NextOthers ==
  ASSUME IInv, TypeOK', Next
  PROVE  OthersInv'
<1>1. ASSUME NEW s \in Sessions, CreateStep(s) \/ Destroy(s) \/ UseBegins(s) \/ Lapse(s)
      PROVE  OthersInv'
  BY <1>1, SelectBeginsOthers, HealthToldOthers, SelectEndsElsewhereOthers, CreateBeginsOthers,
     CreateRefusedOthers,
     CreateNotSentOthers, CreateReturnsOthers, CreateFailsOthers, DestroyOthers, UseBeginsOthers,
     LapseOthers
     DEF CreateStep
<1>2. ASSUME NEW s \in Sessions, ReconcileFails(s) \/ ReconcileTold(s) \/ ReconcileThrows(s)
      PROVE  OthersInv'
  BY <1>2, ReconcileFailsOthers, ReconcileToldOthers, ReconcileThrowsOthers
<1>3. ASSUME NEW n \in Nodes, AgentStep(n) \/ Drop(n) \/ NodeRecordChanges(n)
      PROVE  OthersInv'
  BY <1>3, AgentCreatesOthers, AgentDestroysOthers, AgentServesOthers, DropOthers,
     NodeRecordChangesOthers DEF AgentStep
<1>4. ASSUME NEW x \in opened, ShellExits(x)
      PROVE  OthersInv'
  BY <1>4, ShellExitsOthers
<1> QED BY <1>1, <1>2, <1>3, <1>4, UseReturnsOthers, PtyOpensOthers, CrashOthers DEF Next

\* Every step keeps the invariant.
LEMMA NextInv == IInv /\ [Next]_vars => IInv'
<1> SUFFICES ASSUME IInv, [Next]_vars PROVE IInv'
  OBVIOUS
<1>1. CASE Next
  <2>1. TypeOK'
    BY <1>1, NextTypes
  <2>2. AgentsInv' /\ OthersInv' /\ Mirrored'
    BY <1>1, <2>1, NextAgents, NextOthers, NextMirrored
  <2> QED BY <2>1, <2>2, InvParts DEF IInv, AgentsInv, OthersInv
<1>2. CASE UNCHANGED vars
  <2> USE <1>2 DEF vars, leaseVars, callVars, ptyVars, reconVars, counters
  <2>1. TypeOK'
    BY DEF IInv, TypeOK, LeaseTypeOK
  <2>2. AgentsInv'
    BY <2>1, QuietAgents
  <2>3. CallsFit' /\ Placed' /\ ReadyIsLeased' /\ Mirrored'
    BY DEF IInv, CallsFit, Placed, ReadyIsLeased, Mirrored
  <2>4. WireFits' /\ UseFits'
    BY DEF IInv, WireFits, Asks, UseFits
  <2> QED BY <2>1, <2>2, <2>3, <2>4 DEF IInv, AgentsInv
<1> QED BY <1>1, <1>2

(***************************************************************************)
(* The invariant holds of every reachable state.                           *)
(***************************************************************************)
THEOREM Invariance == Spec => []IInv
BY InitInv, NextInv, PTL DEF Spec

(***************************************************************************)
(* The control plane accounts for every session that an agent holds, and   *)
(* no node carries more than its manifest allows, although capacity is     *)
(* free before the agent has ended anything. Sessions whose agent was left *)
(* without notice are excepted in both.                                    *)
(***************************************************************************)
THEOREM AgentsTheorem == Spec => []AgentsFollowLeases
<1>1. ASSUME IInv
      PROVE  HeldIsAccounted
  <2> SUFFICES ASSUME NEW n \in Nodes, NEW s \in agent[n] \ orphaned,
                      [op |-> "destroy", session |-> s] \notin Range(wire[n])
               PROVE  lease[s] = "active" /\ leaseNode[s] = n
    BY DEF HeldIsAccounted
  <2>1. s \in Sessions /\ wire[n] \in Seq(Request)
    BY <1>1 DEF IInv, TypeOK
  <2>2. \A i \in 1..Len(wire[n]) : ~(wire[n][i].op = "destroy" /\ wire[n][i].session = s)
    <3> SUFFICES ASSUME NEW i \in 1..Len(wire[n]), wire[n][i].op = "destroy", wire[n][i].session = s
                 PROVE  FALSE
      OBVIOUS
    <3>1. wire[n][i] \in Request /\ wire[n][i] \in Range(wire[n])
      BY <2>1 DEF Range
    <3> QED BY <3>1 DEF Request
  <2>3. s \in After(n, Len(wire[n])) \ orphaned
    BY <2>1, <2>2 DEF After
  <2> QED BY <1>1, <2>3 DEF IInv, Accounted, ActiveLeases
<1>2. ASSUME IInv
      PROVE  AgentWithinCapacity
  <2> SUFFICES ASSUME NEW n \in Nodes
               PROVE  Cardinality(agent[n] \ orphaned) <= MaxConcurrentJobs[n]
    BY DEF AgentWithinCapacity
  <2>1. 0 \in 0..Len(wire[n]) /\ agent[n] \subseteq Sessions
    BY <1>2 DEF IInv, TypeOK
  <2>2. After(n, 0) = agent[n]
    BY <2>1 DEF After
  <2> QED BY <1>2, <2>1, <2>2 DEF IInv, PrefixesFit
<1>3. IInv => AgentsFollowLeases
  BY <1>1, <1>2 DEF IInv, AgentsFollowLeases
<1> QED BY <1>3, Invariance, PTL

(***************************************************************************)
(* Every terminal that a caller was told is open is mirrored.              *)
(***************************************************************************)
THEOREM MirrorTheorem == Spec => []OpenPtyIsMirrored
<1>1. IInv => OpenPtyIsMirrored
  BY DEF IInv, Mirrored, OpenPtyIsMirrored
<1> QED BY <1>1, Invariance, PTL

\* Every request that is sent is sent to an approved node.
LEMMA NextAsksApproved ==
  ASSUME IInv, [Next]_vars, NEW n \in Nodes, Len(wire'[n]) > Len(wire[n])
  PROVE  Approved(n)
<1>1. wire \in [Nodes -> Seq(Request)] /\ NodesTypeOK /\ LeaseTypeOK
  BY TypeParts DEF IInv, TypeOK
<1>2. Len(wire[n]) \in Nat /\ wire'[n] # wire[n]
  BY <1>1
<1>3. ASSUME NEW s \in Sessions, NodeOf(s) # None, NEW op, Send(NodeOf(s), op, s)
      PROVE  Approved(n)
  BY <1>1, <1>2, <1>3 DEF NodeOf, Send
<1>4. ASSUME NEW s \in Sessions, CreateBegins(s)
      PROVE  Approved(n)
  BY <1>1, <1>2, <1>4 DEF CreateBegins, Send
<1>5. ASSUME NEW s \in Sessions, Destroy(s) \/ UseBegins(s)
      PROVE  Approved(n)
  BY <1>2, <1>3, <1>5 DEF Destroy, UseBegins
<1>6. ASSUME NEW m \in Nodes, AgentStep(m)
      PROVE  FALSE
  <2>1. PICK op : Asked(m, op) /\ Take(m)
    BY <1>6 DEF AgentStep, AgentCreates, AgentDestroys, AgentServes
  <2> QED BY <1>1, <1>2, <2>1, TakeEffect
<1>7. ASSUME NEW m \in Nodes, Drop(m)
      PROVE  FALSE
  <2>1. wire' = [wire EXCEPT ![m] = << >>]
    BY <1>7 DEF Drop
  <2>2. wire'[n] \in {wire[n], << >>}
    BY <1>1, <2>1
  <2> QED BY <1>2, <2>2
<1>8. ASSUME Crash
      PROVE  FALSE
  <2>1. wire'[n] = << >>
    BY <1>8 DEF Crash
  <2> QED BY <1>2, <2>1
<1>9. ASSUME NEW s \in Sessions,
             \/ SelectBegins(s) \/ HealthTold(s) \/ SelectEndsElsewhere(s) \/ CreateRefused(s) \/ CreateNotSent(s)
             \/ CreateReturns(s) \/ CreateFails(s) \/ Lapse(s)
             \/ ReconcileFails(s) \/ ReconcileTold(s) \/ ReconcileThrows(s)
      PROVE  UNCHANGED wire
  BY <1>9 DEF SelectBegins, HealthTold, SelectEndsElsewhere, CreateRefused, CreateNotSent,
     CreateReturns, CreateFails,
              Lapse, ReconcileFails, ReconcileTold, ReconcileThrows
<1>10. ASSUME UseReturns \/ PtyOpens \/ (\E x \in opened : ShellExits(x)) \/ (\E m \in Nodes : NodeRecordChanges(m))
       PROVE  UNCHANGED wire
  BY <1>10 DEF UseReturns, PtyOpens, ShellExits, NodeRecordChanges
<1>11. ASSUME UNCHANGED vars
       PROVE  UNCHANGED wire
  BY <1>11 DEF vars
<1> QED BY <1>2, <1>4, <1>5, <1>6, <1>7, <1>8, <1>9, <1>10, <1>11 DEF Next, CreateStep

(***************************************************************************)
(* A session is and stays where it may run, and nobody asks anything of a  *)
(* node whose approval was taken away.                                     *)
(***************************************************************************)
THEOREM PlacementTheorem == Spec => PlacementHolds
<1>1. IInv => ReadyIsLeased /\ PlacedWhereItCanRun
  BY DEF IInv, Placed, PlacedWhereItCanRun
<1>2. IInv /\ [Next]_vars => [\A n \in Nodes : Len(wire'[n]) > Len(wire[n]) => Approved(n)]_vars
  BY NextAsksApproved
<1> QED BY <1>1, <1>2, Invariance, PTL DEF Spec, PlacementHolds, OnlyApprovedAreAsked
=============================================================================
