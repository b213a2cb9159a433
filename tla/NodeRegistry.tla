---------------------------- MODULE NodeRegistry ----------------------------
(***************************************************************************)
(* NodeRegistryService: enrolment, approval, bootstrap tokens and runtime  *)
(* credentials of the nodes of one workspace, with the rows they write.    *)
(*                                                                         *)
(* Every method hashes something between its reads and its writes, and the *)
(* hash is awaited: a caller's record holds what the method read before    *)
(* the await it is in.  A manifest stands for all it declares; NodeOf and  *)
(* KeyOf give its node id and its public key.  Credentials never expire    *)
(* here: expiry only shrinks the set of those that are usable.  The health *)
(* and last_seen columns are the subject of NodeTransport and left out, as *)
(* are manifests whose signature is wrong: enrollNode refuses those before *)
(* it reads anything.                                                      *)
(***************************************************************************)
EXTENDS Naturals, Sequences

CONSTANTS
  Nodes,          \* node ids
  Manifests,      \* signed manifests a node may present
  NodeOf,         \* the node id in each manifest
  KeyOf,          \* the public key in each manifest
  Tokens,         \* bootstrap tokens
  Callers,        \* registry calls that may be in flight at once
  None,           \* no node, no manifest
  MaxCredentials, \* bound: credentials issued in a behaviour
  MaxCrashes      \* bound: restarts in a behaviour

ASSUME RegistryAssumption ==
  /\ None \notin Nodes /\ None \notin Manifests
  /\ NodeOf \in [Manifests -> Nodes]
  /\ DOMAIN KeyOf = Manifests
  /\ \A m \in Manifests : KeyOf[m] # None
  /\ MaxCredentials \in Nat /\ MaxCrashes \in Nat

VARIABLES
  row,         \* nodes: the manifest and the status, NoRow without one
  creds,       \* node_credentials, in the order they were stored
  token,       \* node_bootstrap_tokens: issued, expired, and the bound node
  call,        \* the registry calls in flight
  reviewed,    \* history: the manifest that was last approved
  interrupted, \* history: nodes whose issue of a credential a crash cut short
  crashes      \* bound counter

vars == <<row, creds, token, call, reviewed, interrupted, crashes>>

Row == [manifest : Manifests, status : {"pending", "approved"}]
NoRow == [manifest |-> None, status |-> "none"]

\* since counts the credentials that were stored when this one was requested.
Credential == [node : Nodes, rotated : BOOLEAN, since : Nat]
Token == [state : {"none", "active", "expired"}, node : Nodes \cup {None}]

Idle == [at |-> "idle"]
\* Where a call awaits: the fingerprint of a redemption, that of an enrolment, a credential's hash.
\* bound is the node the token was bound to when a redemption read it, seen the row an enrolment read.
Redeeming == [at : {"redeeming"}, m : Manifests, t : Tokens, bound : Nodes \cup {None}]
Enrolling == [at : {"enrolling"}, m : Manifests, t : Tokens \cup {None}, bound : Nodes \cup {None},
              seen : Manifests \cup {None}]
Issuing == [at : {"issuing"}, n : Nodes, since : Nat]

TypeOK ==
  /\ row \in [Nodes -> Row \cup {NoRow}]
  /\ creds \in Seq(Credential)
  /\ token \in [Tokens -> Token]
  /\ call \in [Callers -> {Idle} \cup Redeeming \cup Enrolling \cup Issuing]
  /\ reviewed \in [Nodes -> Manifests \cup {None}]
  /\ interrupted \in SUBSET Nodes
  /\ crashes \in 0..MaxCrashes

Init ==
  /\ row = [n \in Nodes |-> NoRow]
  /\ creds = <<>>
  /\ token = [t \in Tokens |-> [state |-> "none", node |-> None]]
  /\ call = [c \in Callers |-> Idle]
  /\ reviewed = [n \in Nodes |-> None]
  /\ interrupted = {}
  /\ crashes = 0

Key(m) == IF m = None THEN None ELSE KeyOf[m]

Free(c) == call[c] = Idle
Await(c, record) == call' = [call EXCEPT ![c] = record]
Return(c) == Await(c, Idle)

-----------------------------------------------------------------------------
(* Credentials. *)

\* Every credential of the node that is not rotated yet is.
RotateAll(n) ==
  creds' = [i \in DOMAIN creds |-> IF creds[i].node = n THEN [creds[i] EXCEPT !.rotated = TRUE] ELSE creds[i]]

\* Issues a call may still be going to store.
PendingIssues == {c \in Callers : call[c].at = "issuing"}

\* issueRuntimeCredential up to its await: the old ones are rotated before the new one is stored.
BeginIssue(c, n) ==
  /\ Len(creds) < MaxCredentials
  /\ RotateAll(n)
  /\ Await(c, [at |-> "issuing", n |-> n, since |-> Len(creds)])

\* Defect: the rotation follows the storing of the new credential and takes it too.
StoreThenRotate(c) ==
  creds' = Append([i \in DOMAIN creds |-> IF creds[i].node = call[c].n THEN [creds[i] EXCEPT !.rotated = TRUE] ELSE creds[i]],
                  [node |-> call[c].n, rotated |-> TRUE, since |-> call[c].since])

StoreCredential(c) ==
  creds' = Append(creds, [node |-> call[c].n, rotated |-> FALSE, since |-> call[c].since])

\* The hash is known: the new credential is stored and the call returns it.
FinishIssue(c) ==
  /\ call[c].at = "issuing"
  /\ StoreCredential(c)
  /\ interrupted' = interrupted \ {call[c].n}
  /\ Return(c)
  /\ UNCHANGED <<row, token, reviewed, crashes>>

-----------------------------------------------------------------------------
(* Enrolment and approval. *)

\* enrollNode up to its await: the row is looked for before the fingerprint is known.
LookForRow(c, m, t, bound) ==
  Await(c, [at |-> "enrolling", m |-> m, t |-> t, bound |-> bound, seen |-> row[NodeOf[m]].manifest])

BeginEnroll(c, m) ==
  /\ Free(c)
  /\ LookForRow(c, m, None, None)
  /\ UNCHANGED <<row, creds, token, reviewed, interrupted, crashes>>

\* The row that was seen belongs to another key: the enrolment is refused.
KeyMismatch(c) == call[c].seen # None /\ Key(call[c].seen) # Key(call[c].m)

\* Defect: a node that enrols again keeps its status.
SaveKeepingStatus(m) ==
  row' = [row EXCEPT ![NodeOf[m]] = [manifest |-> m, status |-> IF @ = NoRow THEN "pending" ELSE @.status]]

\* saveNode as enrollNode calls it: whatever the row has become, it is pending.
SavePending(m) == row' = [row EXCEPT ![NodeOf[m]] = [manifest |-> m, status |-> "pending"]]

\* saveNodeBootstrapToken at the end of a redemption.
Bind(t, n) == IF t = None THEN UNCHANGED token ELSE token' = [token EXCEPT ![t].node = n]

\* The rest of enrollNode; a redemption that called it binds its token and returns no credential.
FinishEnroll(c) ==
  /\ call[c].at = "enrolling"
  /\ ~KeyMismatch(c)
  /\ SavePending(call[c].m)
  /\ Bind(call[c].t, NodeOf[call[c].m])
  /\ Return(c)
  /\ UNCHANGED <<creds, reviewed, interrupted, crashes>>

RefuseEnroll(c) ==
  /\ call[c].at = "enrolling"
  /\ KeyMismatch(c)
  /\ Return(c)
  /\ UNCHANGED <<row, creds, token, reviewed, interrupted, crashes>>

\* approveNode: the row it reads is approved at once, then a credential is issued.
Approve(c, n) ==
  /\ Free(c)
  /\ row[n] # NoRow
  /\ row' = [row EXCEPT ![n].status = "approved"]
  /\ reviewed' = [reviewed EXCEPT ![n] = row[n].manifest]
  /\ BeginIssue(c, n)
  /\ UNCHANGED <<token, interrupted, crashes>>

-----------------------------------------------------------------------------
(* Bootstrap tokens. *)

\* issueBootstrapToken: nothing is stored before the hash is known.
IssueToken(t) ==
  /\ token[t].state = "none"
  /\ token' = [token EXCEPT ![t].state = "active"]
  /\ UNCHANGED <<row, creds, call, reviewed, interrupted, crashes>>

ExpireToken(t) ==
  /\ token[t].state = "active"
  /\ token' = [token EXCEPT ![t].state = "expired"]
  /\ UNCHANGED <<row, creds, call, reviewed, interrupted, crashes>>

\* Defect: a token bound to another node is accepted.
AcceptsAny(t, n) == token[t].state = "active"

\* findActiveNodeBootstrapTokenByHash and the check of the binding.
Accepts(t, n) == token[t].state = "active" /\ token[t].node \in {None, n}

\* redeemBootstrapToken up to the await of the fingerprint.
BeginRedeem(c, t, m) ==
  /\ Free(c)
  /\ Accepts(t, NodeOf[m])
  /\ Await(c, [at |-> "redeeming", m |-> m, t |-> t, bound |-> token[t].node])
  /\ UNCHANGED <<row, creds, token, reviewed, interrupted, crashes>>

\* An approved node keeps its row and its manifest, and gets a new credential.
RedeemApproved(c) ==
  /\ call[c].at = "redeeming"
  /\ LET n == NodeOf[call[c].m] IN
       /\ row[n].status = "approved" /\ Key(row[n].manifest) = Key(call[c].m)
       /\ Bind(call[c].t, n)
       /\ BeginIssue(c, n)
  /\ UNCHANGED <<row, reviewed, interrupted, crashes>>

\* Any other node of the same key, or a new one, is enrolled.
RedeemPending(c) ==
  /\ call[c].at = "redeeming"
  /\ LET n == NodeOf[call[c].m] IN
       /\ \/ row[n] = NoRow
          \/ row[n].status = "pending" /\ Key(row[n].manifest) = Key(call[c].m)
       /\ LookForRow(c, call[c].m, call[c].t, call[c].bound)
  /\ UNCHANGED <<row, creds, token, reviewed, interrupted, crashes>>

RefuseRedeem(c) ==
  /\ call[c].at = "redeeming"
  /\ row[NodeOf[call[c].m]] # NoRow /\ Key(row[NodeOf[call[c].m]].manifest) # Key(call[c].m)
  /\ Return(c)
  /\ UNCHANGED <<row, creds, token, reviewed, interrupted, crashes>>

-----------------------------------------------------------------------------
\* A restart loses the calls in flight and nothing else.
Crash ==
  /\ crashes < MaxCrashes
  /\ crashes' = crashes + 1
  /\ interrupted' = interrupted \cup {call[c].n : c \in PendingIssues}
  /\ call' = [c \in Callers |-> Idle]
  /\ UNCHANGED <<row, creds, token, reviewed>>

Next ==
  \/ \E c \in Callers, m \in Manifests : BeginEnroll(c, m)
  \/ \E c \in Callers, n \in Nodes : Approve(c, n)
  \/ \E c \in Callers, t \in Tokens, m \in Manifests : BeginRedeem(c, t, m)
  \/ \E c \in Callers : FinishEnroll(c)
  \/ \E c \in Callers : RefuseEnroll(c)
  \/ \E c \in Callers : RedeemApproved(c)
  \/ \E c \in Callers : RedeemPending(c)
  \/ \E c \in Callers : RefuseRedeem(c)
  \/ \E c \in Callers : FinishIssue(c)
  \/ \E t \in Tokens : IssueToken(t)
  \/ \E t \in Tokens : ExpireToken(t)
  \/ Crash

Spec == Init /\ [][Next]_vars

-----------------------------------------------------------------------------
(* Who may connect: authenticateConnectionToken, with the credential row it resolves. *)
Admits(i) == ~creds[i].rotated /\ row[creds[i].node].status = "approved"

(***************************************************************************)
(* A node that can connect does so under the manifest an operator last     *)
(* approved: whatever enrols, redeems or approves at the same time, a      *)
(* changed manifest waits for a new review ("Manifest changes invalidate   *)
(* prior approval", planning/main/03-security-model.md:27).                *)
(***************************************************************************)
AdmittedAsReviewed ==
  \A i \in DOMAIN creds : Admits(i) => row[creds[i].node].manifest = reviewed[creds[i].node]

(***************************************************************************)
(* Once a credential has been requested, no credential stored before the   *)
(* request is usable: approvals and redemptions of one node may overlap,   *)
(* and each rotates all it can see (issueRuntimeCredential).               *)
(***************************************************************************)
OlderAreRotated ==
  /\ \A i, j \in DOMAIN creds : creds[i].node = creds[j].node /\ i <= creds[j].since => creds[i].rotated
  /\ \A c \in PendingIssues : \A i \in DOMAIN creds :
       creds[i].node = call[c].n /\ i <= call[c].since => creds[i].rotated

(***************************************************************************)
(* An approved node is never left without a credential that is not         *)
(* rotated, except while one is being issued or after a crash in the       *)
(* middle of that (the old ones are rotated before the new one exists).    *)
(***************************************************************************)
ApprovedHasCredential ==
  \A n \in Nodes :
    \/ row[n].status # "approved"
    \/ n \in interrupted
    \/ \E c \in PendingIssues : call[c].n = n
    \/ \E i \in DOMAIN creds : creds[i].node = n /\ ~creds[i].rotated

(***************************************************************************)
(* The key of a node changes in one case only: an enrolment saves over a   *)
(* row that has another key than the row it read before its await.  Every  *)
(* other way to write the row keeps the key it has ("node id already       *)
(* exists with a different public key").                                   *)
(***************************************************************************)
KeyChangesOnlyInRace ==
  [][\A n \in Nodes : row[n] # NoRow /\ Key(row'[n].manifest) # Key(row[n].manifest) =>
       \E c \in Callers : /\ call[c].at = "enrolling" /\ NodeOf[call[c].m] = n /\ call'[c] = Idle
                          /\ Key(call[c].seen) # Key(row[n].manifest)]_vars

(***************************************************************************)
(* A token that is bound to a node is bound to another one only by a       *)
(* redemption that read it when it was not bound to that node: a           *)
(* redemption is held to the binding it reads, across every await that     *)
(* follows ("bootstrap token is already bound to a different node id").    *)
(***************************************************************************)
TokenRebindsOnlyInRace ==
  [][\A t \in Tokens : token[t].node # None /\ token'[t].node # token[t].node =>
       \E c \in Callers : /\ call[c].at \in {"redeeming", "enrolling"} /\ call[c].t = t
                          /\ call[c].bound # token[t].node /\ call'[c] # call[c]]_vars

(***************************************************************************)
(* However issues of credentials overlap, the newest credential of a node  *)
(* stands alone: every older one is rotated, and an approved node has one  *)
(* unless it is being issued or a crash prevented it.                      *)
(***************************************************************************)
NewestCredentialStands == OlderAreRotated /\ ApprovedHasCredential

(***************************************************************************)
(* Who a node is and whose token it is change in races only: see           *)
(* KeyChangesOnlyInRace and TokenRebindsOnlyInRace.                        *)
(***************************************************************************)
IdentityChangesOnlyInRace == KeyChangesOnlyInRace /\ TokenRebindsOnlyInRace
=============================================================================
