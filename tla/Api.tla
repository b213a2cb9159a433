---------------------------------- MODULE Api ----------------------------------
(***************************************************************************)
(* The host's API as its clients see it: requests that make tokens, keys,  *)
(* jobs and sessions (ApiRequests), and launch links (LaunchCapabilities), *)
(* under one clock.  A restart of the host (src/src/server.ts) hits both   *)
(* at once: the requests in flight and every launch link are gone, the     *)
(* tables stay, and the jobs that had not ended are failed.                *)
(***************************************************************************)
EXTENDS ApiRequests, LaunchCapabilities

CONSTANTS
  Groups,            \* bound: which of the two groups of routes a behaviour's clients call;
                     \* they share the clock and the restarts, and no table
  RequestsHorizon    \* bound: the clock stops here when they call the first

VARIABLE group

vars == <<now, group, requestVars, linkVars>>

Init == now = 0 /\ group \in Groups /\ RequestsInit /\ LinksInit

Requests == group = "requests" /\ RequestsNext /\ UNCHANGED <<group, linkVars>>

Links == group = "links" /\ LinksNext /\ UNCHANGED <<group, requestVars>>

TimePasses ==
  /\ group = "requests" => now < RequestsHorizon
  /\ Tick
  /\ UNCHANGED <<group, requestVars, linkVars>>

Restart == RequestsLost /\ LinksLost /\ UNCHANGED <<now, group>>

\* The host goes down inside the synchronous part of a submission.
RestartInSubmission ==
  \E r \in Slots : CreateJobCut(r) /\ LinksLost /\ UNCHANGED <<now, group>>

Next == Requests \/ Links \/ TimePasses \/ Restart \/ RestartInSubmission

Spec == Init /\ [][Next]_vars

--------------------------------------------------------------------------------
\* The state of both groups.
TypeOK == now \in 0..MaxNow /\ group \in Groups /\ RequestsTypeOK /\ LinksTypeOK

\* The maps of the preview service are in step: links, indexes, tombstones and timers.
LinkMapsAgree == TypeOK /\ IndexesFollowLinks /\ RecordsHaveTimers /\ LatestRevocationsAreTold
================================================================================
