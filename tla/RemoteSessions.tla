--------------------------- MODULE RemoteSessions ---------------------------
(***************************************************************************)
(* Runtime sessions on remote nodes: RemoteNodeRuntimeAdapter, the runtime *)
(* session service above it, the selection of an adapter, and the leases   *)
(* below it.  A session's reference is the identifier of its lease, and    *)
(* the lease's job is a row that exists only to carry the session.         *)
(*                                                                         *)
(* A request to a node goes through RemoteNodeExecutor and a transport     *)
(* that keeps the order of the requests to one node (wire).  The agent on  *)
(* the node is external: it holds sessions and terminals (PTYs), and tells *)
(* how a terminal ends.                                                    *)
(*                                                                         *)
(* What LeaseScheduler calls a job is here the session the job was made    *)
(* for.  "offline" says that the node is not approved; an approved remote  *)
(* node that lacks a capability, a certificate or a credential, or whose   *)
(* health is stale, is "ineligible".                                       *)
(***************************************************************************)
EXTENDS LeaseScheduler, RuntimeSelection, Sequences, Functions

CONSTANTS
  Ptys,          \* terminal identifiers an agent hands out
  Needs,         \* config.required_capabilities of every session
  AdapterAsked,  \* config.adapter_id, or Unspecified
  NodeCaps,      \* what the manifest of every node declares
  UseOps,        \* the operations of the adapter that are asked for
  None,
  MaxOpens,      \* bound: terminals opened in a behaviour
  MaxMishaps     \* bound: lapses of leases, changes of node records, requests that cannot be
                 \* sent, connections that drop and restarts, in a behaviour

Sessions == Jobs

ASSUME RemoteAssumption ==
  /\ DOMAIN Needs = Sessions /\ DOMAIN AdapterAsked = Sessions /\ DOMAIN NodeCaps = Nodes
  /\ UseOps \subseteq {"exec", "pty_open", "pty_input", "pty_resize", "pty_close",
                       "file_write", "file_read", "get_logs"}
  /\ {MaxOpens, MaxMishaps} \subseteq Nat

VARIABLES
  row,       \* status of the session's row in runtime_sessions ("none": no row)
  rtjob,     \* status of the row of the session's job
  call,      \* the createSession call of every session
  use,       \* an operation on a session that is in flight (bound: one at a time)
  wire,      \* per node, the requests that the agent has not seen yet
  agent,     \* per node, the sessions that its agent holds
  shells,    \* terminals that agents run, each with the number of its opening
  opened,    \* terminals that a caller was told are open, and that have not ended since
  mirrors,   \* activePtyMirrors: which opening each terminal's mirror reads
  recon,     \* sessions that the startup reconciliation has still to look at
  cutShort,  \* the startup reconciliation ended with an error
  orphaned,  \* history: sessions whose agent was left without notice
  opens, mishaps \* bound counters

counters == <<opens, mishaps>>
callVars == <<row, rtjob, call, use>>
ptyVars == <<shells, opened, mirrors>>
reconVars == <<recon, cutShort>>
vars == <<leaseVars, callVars, wire, agent, ptyVars, reconVars, orphaned, counters>>

Row == {"none", "creating", "ready", "failed", "destroyed", "elsewhere"}
Shell == [session : Sessions, pty : Ptys, opening : 1..MaxOpens]

Idle == [at |-> "idle"]
Selecting == [at : {"selecting"}, beat : Nodes \cup {None}]
Chosen == [at : {"chosen"}, health : {"healthy", "unknown", "unavailable"}, fits : BOOLEAN]
Creating == [at : {"sent", "held", "refused", "dropped"}]

Use == [session : Sessions, op : UseOps, pty : Ptys \cup {None},
        at : {"sent", "opened", "answered"}]

ASSUME NoneAssumption == None \notin Use \* no operation

\* A request on the wire; an operation other than these two is that of the use in flight.
Request == [op : {"create", "destroy", "use"}, session : Sessions]

TypeOK ==
  /\ LeaseTypeOK
  /\ row \in [Sessions -> Row]
  /\ rtjob \in [Sessions -> {"none", "pending", "failed"}]
  /\ call \in [Sessions -> {Idle} \cup Selecting \cup Chosen \cup Creating]
  /\ use \in {None} \cup Use
  /\ wire \in [Nodes -> Seq(Request)]
  /\ agent \in [Nodes -> SUBSET Sessions]
  /\ shells \in SUBSET Shell /\ opened \in SUBSET Shell /\ mirrors \in SUBSET Shell
  /\ recon \in SUBSET Sessions /\ cutShort \in BOOLEAN
  /\ orphaned \in SUBSET Sessions
  /\ opens \in 0..MaxOpens /\ mishaps \in 0..MaxMishaps

Init ==
  /\ LeaseInit
  /\ nodeState \in [Nodes -> {"ready", "offline"}]
  /\ row = [s \in Sessions |-> "none"]
  /\ rtjob = [s \in Sessions |-> "none"]
  /\ call = [s \in Sessions |-> Idle]
  /\ use = None
  /\ wire = [n \in Nodes |-> <<>>]
  /\ agent = [n \in Nodes |-> {}]
  /\ shells = {} /\ opened = {} /\ mirrors = {}
  /\ recon = {} /\ cutShort = FALSE
  /\ orphaned = {}
  /\ opens = 0 /\ mishaps = 0

-----------------------------------------------------------------------------
(* Nodes and requests. *)

\* listApprovedRemoteNodes
Approved(n) == NodeKind[n] = "remote" /\ nodeState[n] # "offline"

\* Defect: the node of the lease is asked, whatever became of its approval.
NodeOfLease(s) == leaseNode[s]

\* findNodeForSession: the node of the session's lease, if it is an approved remote node.
NodeOf(s) ==
  IF leaseNode[s] # NoNode /\ Approved(leaseNode[s]) THEN leaseNode[s] ELSE None

\* The number of the opening that reads what the agent says of the terminal.
MirrorOf(s, p) == {m \in mirrors : m.session = s /\ m.pty = p}

Send(n, op, s) == wire' = [wire EXCEPT ![n] = Append(@, [op |-> op, session |-> s])]

Mishap ==
  /\ mishaps < MaxMishaps
  /\ mishaps' = mishaps + 1
  /\ UNCHANGED opens

\* sendRequest throws: no transport, no credential, or no connection.
CannotSend == Mishap

Answered(s, at) == call[s].at = at
MoveTo(s, at) == call' = [call EXCEPT ![s] = [at |-> at]]
End(s) == call' = [call EXCEPT ![s] = Idle]

-----------------------------------------------------------------------------
(* Selecting an adapter. *)

RemoteId == 2 \* "local-container" comes before "remote-node-agent"

RemoteCandidate(health) ==
  [id |-> RemoteId, health |-> health, caps |-> {"exec", "runtime-pty"}, presets |-> {},
   trust |-> "production", locality |-> "remote", isolation |-> "remote-node"]

LocalCandidate(health) ==
  [id |-> 1, health |-> health,
   caps |-> {"exec", "stop", "copy-in", "copy-out", "file-rw", "workspace-write"}, presets |-> {},
   trust |-> "development", locality |-> "local", isolation |-> "container"]

\* createSession passes on three of the criteria that select() knows.
Criteria(s) ==
  [id |-> AdapterAsked[s], caps |-> Needs[s], preset |-> Unspecified, trust |-> Unspecified,
   locality |-> Unspecified, isolation |-> Unspecified]

\* select() calls health() of every adapter; the remote one asks an executable node, if it finds one.
SelectBegins(s) ==
  /\ row[s] = "none" /\ call[s] = Idle
  /\ \E beat \in {n \in Nodes : Approved(n)} \cup {None} :
       /\ beat = None => \A n \in Nodes : Approved(n) => nodeState[n] # "ready"
       /\ call' = [call EXCEPT ![s] = [at |-> "selecting", beat |-> beat]]
  /\ UNCHANGED <<leaseVars, row, rtjob, use, wire, agent, ptyVars, reconVars, orphaned, counters>>

\* The heartbeat is answered or not, and the nodes are listed: none at all, or one that fits.
HealthTold(s) ==
  /\ Answered(s, "selecting")
  /\ \E health \in IF call[s].beat = None THEN {"unknown"} ELSE {"healthy", "unavailable"} :
     \E stale \in SUBSET {n \in Nodes : nodeState[n] = "ineligible"} :
       LET listed == {n \in Nodes : Approved(n)}
           NodeOffer(n) == [health |-> IF n \in stale THEN "unavailable" ELSE "healthy",
                            caps |-> NodeCaps[n], locality |-> "remote"]
       IN  call' = [call EXCEPT ![s] =
             [at |-> "chosen", health |-> health,
              fits |-> health # "unavailable" /\
                       (listed = {} \/ \E n \in listed : NodeQualifies(NodeOffer(n), Criteria(s)))]]
  /\ UNCHANGED <<leaseVars, row, rtjob, use, wire, agent, ptyVars, reconVars, orphaned, counters>>

Offers(s, localHealth) ==
  {c \in {LocalCandidate(localHealth), RemoteCandidate(call[s].health)} :
     /\ Qualifies(c, Criteria(s))
     /\ c.id = RemoteId => call[s].fits}

\* Nothing qualifies, or another adapter does: the session is none of the remote adapter's.
SelectEndsElsewhere(s) ==
  /\ Answered(s, "chosen")
  /\ \E localHealth \in {"healthy", "unavailable"} :
       LET offers == Offers(s, localHealth)
       IN  \/ offers = {} /\ UNCHANGED row
           \/ /\ offers # {} /\ Selected(offers, Criteria(s)).id # RemoteId
              /\ row' = [row EXCEPT ![s] = "elsewhere"]
  /\ End(s)
  /\ UNCHANGED <<leaseVars, rtjob, use, wire, agent, ptyVars, reconVars, orphaned, counters>>

RemoteSelected(s) ==
  /\ Answered(s, "chosen")
  /\ \E localHealth \in {"healthy", "unavailable"} :
       LET offers == Offers(s, localHealth)
       IN  offers # {} /\ Selected(offers, Criteria(s)).id = RemoteId

-----------------------------------------------------------------------------
(* createSession.  The rows, the lease and the request are one synchronous step. *)

\* The nodes issueLease chooses from; they need not be remote ones.
CandidatesFor(s) ==
  LET Fits(n) == Eligible(n) /\ Needs[s] \subseteq NodeCaps[n]
  IN  {n \in Nodes : /\ Fits(n)
                     /\ \A m \in Nodes : Fits(m) => ActiveLeaseCount(n) <= ActiveLeaseCount(m)}

SaveRows(s, status) ==
  /\ row' = [row EXCEPT ![s] = status]
  /\ rtjob' = [rtjob EXCEPT ![s] = "pending"]

CreateBegins(s) ==
  /\ RemoteSelected(s)
  /\ SaveRows(s, "creating")
  /\ \E n \in CandidatesFor(s) : IssueLease(s, n) /\ Approved(n) /\ Send(n, "create", s)
  /\ MoveTo(s, "sent")
  /\ UNCHANGED <<nodeState, use, agent, ptyVars, reconVars, orphaned, counters>>

\* No node is eligible.
CreateRefused(s) ==
  /\ RemoteSelected(s)
  /\ CandidatesFor(s) = {}
  /\ SaveRows(s, "failed")
  /\ lease' = ExpireActiveLeases
  /\ End(s)
  /\ UNCHANGED <<leaseNode, lapsed, nodeState, use, wire, agent, ptyVars, reconVars, orphaned, counters>>

\* The request cannot be sent, or the lease went to a sandbox node: the lease stays.
CreateNotSent(s) ==
  /\ RemoteSelected(s)
  /\ SaveRows(s, "failed")
  /\ \E n \in CandidatesFor(s) :
       /\ IssueLease(s, n)
       /\ IF Approved(n) THEN CannotSend ELSE UNCHANGED counters
  /\ End(s)
  /\ UNCHANGED <<nodeState, use, wire, agent, ptyVars, reconVars, orphaned>>

CreateReturns(s) ==
  /\ Answered(s, "held")
  /\ row' = [row EXCEPT ![s] = "ready"]
  /\ End(s)
  /\ UNCHANGED <<leaseVars, rtjob, use, wire, agent, ptyVars, reconVars, orphaned, counters>>

CreateFails(s) ==
  /\ call[s].at \in {"refused", "dropped"}
  /\ row' = [row EXCEPT ![s] = "failed"]
  /\ End(s)
  /\ UNCHANGED <<leaseVars, rtjob, use, wire, agent, ptyVars, reconVars, orphaned, counters>>

-----------------------------------------------------------------------------
(* destroySession: the lease is released and the agent told without waiting for it. *)

HasReference(s) == row[s] \in {"ready", "destroyed"}

\* Defect: the lease is released, and the agent is not told.
DestroyReleasesOnly(s) ==
  /\ HasReference(s)
  /\ ReleaseLease(s, "released")
  /\ row' = [row EXCEPT ![s] = "destroyed"]
  /\ UNCHANGED <<leaseNode, lapsed, nodeState, rtjob, call, use, wire, agent, ptyVars, reconVars,
                 orphaned, counters>>

Destroy(s) ==
  /\ HasReference(s)
  /\ ReleaseLease(s, "released")
  /\ row' = [row EXCEPT ![s] = "destroyed"]
  /\ \/ /\ NodeOf(s) # None
        /\ Len(wire[NodeOf(s)]) < 3 \* bound: requests on their way to a node
        /\ Send(NodeOf(s), "destroy", s)
        /\ UNCHANGED <<orphaned, counters>>
     \/ /\ IF NodeOf(s) # None THEN CannotSend ELSE UNCHANGED counters
        /\ orphaned' = orphaned \cup {s}
        /\ UNCHANGED wire
  /\ UNCHANGED <<leaseNode, lapsed, nodeState, rtjob, call, use, agent, ptyVars, reconVars>>

-----------------------------------------------------------------------------
(* exec, the terminal operations, file transfers and logs: the lease is not looked at. *)

PtyOps == {"pty_input", "pty_resize", "pty_close"}
PtyCapable(n) == NodeCaps[n] \cap {"runtime-pty", "pty"} # {}

\* What the method asks of the node; getLogs and exec ask for nothing.
NodeAllows(n, op) ==
  /\ op \in PtyOps \cup {"pty_open"} => PtyCapable(n)
  /\ op = "file_write" => "file-write" \in NodeCaps[n]
  /\ op = "file_read" => "file-read" \in NodeCaps[n]

\* The service lets an operation pass on a ready session; transfers and logs on any with a reference.
ServiceAllows(s, op) ==
  IF op \in {"file_write", "file_read", "get_logs"} THEN HasReference(s) ELSE row[s] = "ready"

UseBegins(s) ==
  /\ use = None
  /\ \E op \in UseOps :
       /\ ServiceAllows(s, op)
       /\ NodeOf(s) # None /\ NodeAllows(NodeOf(s), op)
       /\ op = "pty_open" => opens < MaxOpens
       /\ \E p \in IF op \in PtyOps THEN {o.pty : o \in {x \in opened : x.session = s}} ELSE {None} :
            use' = [session |-> s, op |-> op, pty |-> p, at |-> "sent"]
  /\ Send(NodeOf(s), "use", s)
  /\ UNCHANGED <<leaseVars, row, rtjob, call, agent, ptyVars, reconVars, orphaned, counters>>

-----------------------------------------------------------------------------
(* The agent takes the requests of its node in order. *)

Take(n) == wire' = [wire EXCEPT ![n] = Tail(@)]
Asked(n, op) == wire[n] # <<>> /\ Head(wire[n]).op = op

AgentCreates(n) ==
  /\ Asked(n, "create")
  /\ LET s == Head(wire[n]).session
     IN  \/ /\ agent' = [agent EXCEPT ![n] = @ \cup {s}]
            /\ MoveTo(s, "held")
         \/ MoveTo(s, "refused") /\ UNCHANGED agent
  /\ Take(n)
  /\ UNCHANGED <<leaseVars, row, rtjob, use, ptyVars, reconVars, orphaned, counters>>

AgentDestroys(n) ==
  /\ Asked(n, "destroy")
  /\ LET s == Head(wire[n]).session
         Ends(x) == x.session = s
     IN  /\ agent' = [agent EXCEPT ![n] = @ \ {s}]
         /\ shells' = {x \in shells : ~Ends(x)}
         /\ opened' = {x \in opened : ~Ends(x)}
         /\ mirrors' = {x \in mirrors : ~Ends(x)}
  /\ Take(n)
  /\ UNCHANGED <<leaseVars, callVars, reconVars, orphaned, counters>>

\* A new terminal has an identifier that no running terminal of the session has.
AgentOpens(s) ==
  \E p \in Ptys :
    /\ \A x \in shells : x.session = s => x.pty # p
    /\ use' = [use EXCEPT !.at = "opened", !.pty = p]
    /\ shells' = shells \cup {[session |-> s, pty |-> p, opening |-> opens + 1]}
    /\ opens' = opens + 1
    /\ UNCHANGED mishaps

AgentServes(n) ==
  /\ Asked(n, "use")
  /\ LET s == Head(wire[n]).session
     IN  \/ use.op = "pty_open" /\ s \in agent[n] /\ AgentOpens(s)
         \/ /\ use' = [use EXCEPT !.at = "answered"]
            /\ UNCHANGED <<shells, counters>>
  /\ Take(n)
  /\ UNCHANGED <<leaseVars, row, rtjob, call, agent, opened, mirrors, reconVars, orphaned>>

\* An answer or an error comes in.  Only getLogs has no error to tell: it answers without a line.
UseReturns ==
  /\ use # None /\ use.at = "answered"
  /\ use' = None
  /\ UNCHANGED <<leaseVars, row, rtjob, call, wire, agent, ptyVars, reconVars, orphaned, counters>>

\* openPty stores the stream of the answer; startPtyMirror takes it unless a mirror has the name.
PtyOpens ==
  /\ use # None /\ use.at = "opened"
  /\ LET shell == {x \in shells : x.session = use.session /\ x.pty = use.pty}
     IN  /\ opened' = opened \cup shell
         /\ mirrors' = IF MirrorOf(use.session, use.pty) = {} THEN mirrors \cup shell ELSE mirrors
  /\ use' = None
  /\ UNCHANGED <<leaseVars, row, rtjob, call, wire, agent, shells, reconVars, orphaned, counters>>

\* Defect: the mirror's name is kept when its stream ends.
ShellExitsMirrored(x) ==
  /\ x \in opened
  /\ shells' = shells \ {x}
  /\ opened' = opened \ {x}
  /\ UNCHANGED <<leaseVars, callVars, wire, agent, mirrors, reconVars, orphaned, counters>>

\* The terminal ends by itself or after pty_close; its exit ends the stream, and that the mirror.
ShellExits(x) ==
  /\ x \in opened
  /\ shells' = shells \ {x}
  /\ opened' = opened \ {x}
  /\ mirrors' = mirrors \ {x}
  /\ UNCHANGED <<leaseVars, callVars, wire, agent, reconVars, orphaned, counters>>

-----------------------------------------------------------------------------
(* The connection of a node drops: what is pending fails, streams fail, and mirrors end. *)

OnNode(s, n) == leaseNode[s] = n

Drop(n) ==
  /\ NodeKind[n] = "remote"
  /\ Mishap
  /\ wire' = [wire EXCEPT ![n] = <<>>]
  /\ call' = [s \in Sessions |->
       IF OnNode(s, n) /\ call[s].at \in {"sent", "held", "refused"} THEN [at |-> "dropped"] ELSE call[s]]
  /\ use' = IF use # None /\ OnNode(use.session, n) THEN [use EXCEPT !.at = "answered"] ELSE use
  /\ opened' = {x \in opened : ~OnNode(x.session, n)}
  /\ mirrors' = {x \in mirrors : ~OnNode(x.session, n)}
  /\ orphaned' = orphaned \cup {s \in Sessions : [op |-> "destroy", session |-> s] \in Range(wire[n])}
  /\ \/ UNCHANGED <<agent, shells>>
     \/ \* the agent itself has restarted
        /\ agent' = [agent EXCEPT ![n] = {}]
        /\ shells' = {x \in shells : ~OnNode(x.session, n)}
  /\ UNCHANGED <<leaseVars, row, rtjob, reconVars>>

Lapse(s) ==
  /\ LapseLease(s)
  /\ Mishap
  /\ orphaned' = orphaned \cup {s}
  /\ UNCHANGED <<callVars, wire, agent, ptyVars, reconVars>>

NodeRecordChanges(n) ==
  /\ \E state \in {"ready", "ineligible", "offline"} : NodeChanges(n, state)
  /\ Mishap
  /\ UNCHANGED <<callVars, wire, agent, ptyVars, reconVars, orphaned>>

-----------------------------------------------------------------------------
(* The control plane restarts.  Its repair of the tables (reconcileStartupState) fails every      *)
(* pending job, those of live sessions too, and releases the leases of failed jobs.               *)

Crash ==
  /\ Mishap
  /\ rtjob' = [s \in Sessions |-> IF rtjob[s] = "pending" THEN "failed" ELSE rtjob[s]]
  /\ lease' = [s \in Sessions |-> IF ExpireActiveLeases[s] = "active" THEN "released" ELSE ExpireActiveLeases[s]]
  /\ call' = [s \in Sessions |-> Idle]
  /\ use' = None
  /\ wire' = [n \in Nodes |-> <<>>]
  /\ opened' = {} /\ mirrors' = {}
  /\ recon' = {s \in Sessions : row[s] \in {"creating", "ready"}}
  /\ cutShort' = FALSE
  /\ orphaned' = orphaned \cup UNION Range(agent)
  /\ UNCHANGED <<leaseNode, lapsed, nodeState, row, agent, shells>>

\* The session has no reference, or the heartbeat of the adapter's health check fails.
ReconcileFails(s) ==
  /\ s \in recon
  /\ row[s] = "creating" \/ \E n \in Nodes : Approved(n)
  /\ row' = [row EXCEPT ![s] = "failed"]
  /\ recon' = recon \ {s}
  /\ UNCHANGED <<leaseVars, rtjob, call, use, wire, agent, ptyVars, cutShort, orphaned, counters>>

\* getSession, as far as it finds the node.
SessionState(s) == IF lease[s] = "active" THEN "ready" ELSE "destroyed"

ReconcileTold(s) ==
  /\ s \in recon /\ row[s] # "creating"
  /\ NodeOf(s) # None
  /\ row' = [row EXCEPT ![s] = SessionState(s)]
  /\ recon' = recon \ {s}
  /\ UNCHANGED <<leaseVars, rtjob, call, use, wire, agent, ptyVars, cutShort, orphaned, counters>>

\* getSession throws when the node is not approved, and the reconciliation ends there.
ReconcileThrows(s) ==
  /\ s \in recon /\ row[s] # "creating"
  /\ NodeOf(s) = None
  /\ recon' = {} /\ cutShort' = TRUE
  /\ UNCHANGED <<leaseVars, callVars, wire, agent, ptyVars, orphaned, counters>>

-----------------------------------------------------------------------------
CreateStep(s) ==
  \/ SelectBegins(s) \/ HealthTold(s) \/ SelectEndsElsewhere(s)
  \/ CreateBegins(s) \/ CreateRefused(s) \/ CreateNotSent(s)
  \/ CreateReturns(s) \/ CreateFails(s)

AgentStep(n) == AgentCreates(n) \/ AgentDestroys(n) \/ AgentServes(n)

Next ==
  \/ \E s \in Sessions : CreateStep(s) \/ Destroy(s) \/ UseBegins(s) \/ Lapse(s)
  \/ \E s \in Sessions : ReconcileFails(s) \/ ReconcileTold(s) \/ ReconcileThrows(s)
  \/ \E n \in Nodes : AgentStep(n) \/ Drop(n) \/ NodeRecordChanges(n)
  \/ UseReturns \/ PtyOpens
  \/ \E x \in opened : ShellExits(x)
  \/ Crash

Spec == Init /\ [][Next]_vars

-----------------------------------------------------------------------------
(***************************************************************************)
(* The program knows of every session an agent holds: its lease is active, *)
(* or the agent is about to be told to end it.  The excepted sessions are  *)
(* those whose lease ran out (a lease of 300 s is never renewed), that a   *)
(* restart has released, or whose destruction could not be sent.           *)
(***************************************************************************)
HeldIsAccounted ==
  \A n \in Nodes : \A s \in agent[n] \ orphaned :
    \/ lease[s] = "active" /\ leaseNode[s] = n
    \/ [op |-> "destroy", session |-> s] \in Range(wire[n])

(***************************************************************************)
(* A node carries no more sessions than its manifest allows, although the  *)
(* capacity is free as soon as a destruction is asked for: the request to  *)
(* end the old session reaches the agent before the one for the new.       *)
(***************************************************************************)
AgentWithinCapacity ==
  \A n \in Nodes : Cardinality(agent[n] \ orphaned) <= MaxConcurrentJobs[n]

(***************************************************************************)
(* A session that is offered as ready has its lease, unless time has run   *)
(* out on it or the reconciliation after a restart has not come to it (it  *)
(* may never, when getSession has thrown).                                 *)
(***************************************************************************)
ReadyIsLeased ==
  \A s \in Sessions : row[s] = "ready" =>
    lease[s] = "active" \/ lapsed[s] \/ s \in recon \/ cutShort

(***************************************************************************)
(* A session runs on a node that has what the session requires, although   *)
(* the node that issueLease takes is not the one that select() looked at.  *)
(***************************************************************************)
PlacedWhereItCanRun ==
  \A s \in Sessions : row[s] \in {"creating", "ready"} => Needs[s] \subseteq NodeCaps[leaseNode[s]]

(***************************************************************************)
(* The output of every terminal that a caller was told is open is being    *)
(* recorded, also when an agent uses the identifier of a terminal again.   *)
(***************************************************************************)
OpenPtyIsMirrored == opened \subseteq mirrors

(***************************************************************************)
(* No request is sent to a node after its approval was taken away, however *)
(* long ago the session was placed on it.                                  *)
(***************************************************************************)
OnlyApprovedAreAsked ==
  [][\A n \in Nodes : Len(wire'[n]) > Len(wire[n]) => Approved(n)]_vars

(***************************************************************************)
(* What the agents hold is what the leases say, within the capacity of the *)
(* nodes.                                                                  *)
(***************************************************************************)
AgentsFollowLeases == TypeOK /\ HeldIsAccounted /\ AgentWithinCapacity

(***************************************************************************)
(* A session is and stays where it may run: a ready one is leased, on a    *)
(* node that has what it requires, and nothing is asked of a node whose    *)
(* approval was taken away.                                                *)
(***************************************************************************)
PlacementHolds == []ReadyIsLeased /\ []PlacedWhereItCanRun /\ OnlyApprovedAreAsked
=============================================================================
