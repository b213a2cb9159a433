--------------------------- MODULE LeaseScheduler ---------------------------
(***************************************************************************)
(* Leases on remote nodes: the leases table of the control-plane database  *)
(* and the LeaseScheduler that issues, expires and releases them.          *)
(*                                                                         *)
(* runRemoteTask asks for one lease per job, so a lease is identified with *)
(* its job.  Time is abstracted to one bit per lease: "lapsed" says that   *)
(* the clock has passed expires_at; nothing happens to the row until       *)
(* expireActiveLeases or the startup reconciliation looks at it.           *)
(*                                                                         *)
(* The operators below are state functions and conditions, not actions:    *)
(* issuing, expiring and releasing are synchronous calls inside a larger   *)
(* handler, and module JobLifecycle builds its atomic steps from them.     *)
(***************************************************************************)
EXTENDS Integers, FiniteSets

CONSTANTS
  Jobs,               \* the jobs that may be submitted
  Nodes,              \* the nodes of the workspace
  NoNode,             \* "no node assigned"
  MaxConcurrentJobs,  \* manifest.resource_limits.max_concurrent_jobs, per node
  NodeKind            \* manifest.adapter_kind, per node

ASSUME LeaseAssumption ==
  /\ IsFiniteSet(Jobs)
  /\ NoNode \notin Nodes
  /\ MaxConcurrentJobs \in [Nodes -> Nat \ {0}]
  /\ NodeKind \in [Nodes -> {"sandbox", "remote"}]

VARIABLES
  lease,      \* state column of the job's lease row ("none": no row)
  leaseNode,  \* node_id column of that row
  lapsed,     \* the clock has passed that row's expires_at
  nodeState   \* what the registry's record of a node allows

leaseVars == <<lease, leaseNode, lapsed, nodeState>>

LeaseState == {"none", "active", "released", "failed", "expired"}

(***************************************************************************)
(* A node record is reduced to the two questions the code asks of it: does *)
(* shouldUseRemoteExecution count it as executable, and does               *)
(* evaluateNodeEligibility find no reason against it.                      *)
(*   ready         both                                                    *)
(*   ineligible    executable, but e.g. a capability or certificate is     *)
(*                 missing                                                 *)
(*   unexecutable  eligible, but no adapter or transport can run a task    *)
(*   offline       neither: pending, revoked or stale                      *)
(***************************************************************************)
NodeState == {"ready", "ineligible", "unexecutable", "offline"}

Executable(n) == nodeState[n] \in {"ready", "ineligible"}
PassesPolicy(n) == nodeState[n] \in {"ready", "unexecutable"}

ActiveLeases(n) == {j \in Jobs : lease[j] = "active" /\ leaseNode[j] = n}

\* The rows after UPDATE leases SET state = 'expired' WHERE expires_at <= now.
ExpireActiveLeases ==
  [j \in Jobs |-> IF lease[j] = "active" /\ lapsed[j] THEN "expired" ELSE lease[j]]

\* activeLeaseCounts: the active leases whose time has not run out.
ActiveLeaseCount(n) == Cardinality({j \in ActiveLeases(n) : ~lapsed[j]})

\* Defect: the capacity test is off by one.
EligibleAtCapacity(n) ==
  /\ PassesPolicy(n)
  /\ ActiveLeaseCount(n) <= MaxConcurrentJobs[n]

Eligible(n) ==
  /\ PassesPolicy(n)
  /\ ActiveLeaseCount(n) < MaxConcurrentJobs[n]

\* The least busy eligible nodes; the sort keeps the table's order among equals.
Candidates ==
  {n \in Nodes : /\ Eligible(n)
                 /\ \A m \in Nodes : Eligible(m) => ActiveLeaseCount(n) <= ActiveLeaseCount(m)}

\* The lease table after issueLease gave job j a lease on node n.
IssueLease(j, n) ==
  /\ lease' = [ExpireActiveLeases EXCEPT ![j] = "active"]
  /\ leaseNode' = [leaseNode EXCEPT ![j] = n]
  /\ lapsed' = [lapsed EXCEPT ![j] = FALSE]

\* releaseLease writes the state whatever the row's state was.
ReleaseLease(j, state) == lease' = [lease EXCEPT ![j] = state]

\* A lease's TTL (300 s, never renewed) runs out.
LapseLease(j) ==
  /\ lease[j] = "active"
  /\ ~lapsed[j]
  /\ lapsed' = [lapsed EXCEPT ![j] = TRUE]
  /\ UNCHANGED <<lease, leaseNode, nodeState>>

\* Enrolment, approval, revocation, health reports and credential expiry.
NodeChanges(n, s) ==
  /\ nodeState[n] # s
  /\ nodeState' = [nodeState EXCEPT ![n] = s]
  /\ UNCHANGED <<lease, leaseNode, lapsed>>

LeaseInit ==
  /\ lease = [j \in Jobs |-> "none"]
  /\ leaseNode = [j \in Jobs |-> NoNode]
  /\ lapsed = [j \in Jobs |-> FALSE]
  /\ nodeState \in [Nodes -> NodeState]

LeaseTypeOK ==
  /\ lease \in [Jobs -> LeaseState]
  /\ leaseNode \in [Jobs -> Nodes \cup {NoNode}]
  /\ lapsed \in [Jobs -> BOOLEAN]
  /\ nodeState \in [Nodes -> NodeState]

(***************************************************************************)
(* No node ever has more active leases than its manifest's                 *)
(* max_concurrent_jobs, although issueLease counts only the unexpired ones *)
(* and releases, expirations and restarts interleave with it.              *)
(***************************************************************************)
LeasesWithinCapacity ==
  \A n \in Nodes : Cardinality(ActiveLeases(n)) <= MaxConcurrentJobs[n]
=============================================================================
