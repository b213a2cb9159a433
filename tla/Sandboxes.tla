------------------------------ MODULE Sandboxes ------------------------------
(***************************************************************************)
(* The node adapters and the runtime adapters over one provider, with the  *)
(* instances that end by themselves and the restarts of the server.        *)
(***************************************************************************)
EXTENDS NodeSandboxes, RuntimeSandboxes

sandboxVars == <<providerVars, nodeVars, sessionVars>>

SandboxTypeOK == ProviderTypeOK /\ NodeTypeOK /\ SessionTypeOK

SandboxInit == ProviderInit /\ NodeInit /\ SessionInit

InstanceEnds(i) ==
  /\ End(i)
  /\ IF i[1] \in Nodes THEN NodeEnds(i[1]) ELSE UNCHANGED nodeVars
  /\ UNCHANGED sessionVars

\* OpenSandbox's instances of nodes, and whatever a call holds, are known to nobody after a restart.
Crash ==
  /\ Restart
  /\ lost' = lost \cup {i \in Instances : HeldByCall(i) \/ \E n \in Nodes : nodeInstances[n] = i}
  /\ NodeRestart
  /\ UNCHANGED sessionVars

SandboxNext ==
  \/ \E c \in Slots : NodeAdapterStep(c) /\ UNCHANGED sessionVars
  \/ \E c \in Slots : RuntimeStep(c) /\ UNCHANGED nodeVars
  \/ \E i \in Instances : InstanceEnds(i)
  \/ Crash

SandboxSpec == SandboxInit /\ [][SandboxNext]_sandboxVars

-----------------------------------------------------------------------------
\* Who would end an instance: a call that goes on, the cache of its node, or the session's reference.
Held(i) ==
  \/ HeldByCall(i)
  \/ i[1] \in Nodes /\ nodeInstances[i[1]] = i
  \/ i[1] \in Sessions /\ ref[i[1]] = i

(***************************************************************************)
(* Every instance that runs is held by somebody who will end it,           *)
(* unless a failed request or a restart has hidden it, or two launches     *)
(* created one each for a node (ensureNodeConnection looks in the cache    *)
(* before it awaits).  Cloudflare's instances of nodes can always be found *)
(* again by their name.                                                    *)
(***************************************************************************)
RunningIsHeld ==
  \A i \in Instances : Alive(i) =>
    \/ Held(i) \/ i \in lost
    \/ i[1] \in Nodes /\ (provider = "cloudflare" \/ i[1] \in racedNodes)

(***************************************************************************)
(* The caches of the node adapters name what the provider has: no instance *)
(* that an adapter has ended, and every port that is exposed.              *)
(***************************************************************************)
CachesAreTrue == SandboxTypeOK /\ CachedIsUsable /\ ExposedIsKnown

(***************************************************************************)
(* What callers are told is so: a destroyed session runs nothing, a status *)
(* is the instance's, and a service that is called ready listens.          *)
(***************************************************************************)
AnswersAreTrue == []DestroyedIsGone /\ ToldTruly /\ ReadyIsListening
=============================================================================
