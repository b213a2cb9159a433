--------------------------- MODULE SandboxProvider ---------------------------
(***************************************************************************)
(* The sandboxes that one provider runs for the control plane, and the     *)
(* calls of the adapters that are in flight: what the modules of the       *)
(* adapters have in common.  The provider is docker, OpenSandbox or        *)
(* Cloudflare; it is chosen when the server starts and stays.              *)
(*                                                                         *)
(* An instance is <<owner, n>>: the job, node or session it was created    *)
(* for, and a number.  OpenSandbox and docker give every instance a new    *)
(* name.  The Cloudflare adapters name an instance after its owner, so     *)
(* that creating it again finds the one that is there.                     *)
(*                                                                         *)
(* A request to a provider is carried out in the step that its answer      *)
(* arrives in.  An answer may be an error, and an error may hide that the  *)
(* request was carried out (the timeout of a request, a lost connection).  *)
(***************************************************************************)
EXTENDS Naturals, FiniteSets

CONSTANTS
  Jobs, Nodes, Services, Sessions, \* owners of instances, and the services of every node
  Providers,                       \* the providers the server may be configured with
  Slots,                           \* adapter calls that may be in flight at once
  None,                            \* no instance
  MaxMade,                         \* bound: instances created for one owner
  MaxFaults,                       \* bound: errors of the provider in a behaviour
  MaxCrashes                       \* bound: restarts in a behaviour

ASSUME ProviderAssumption ==
  /\ Providers \subseteq {"docker", "opensandbox", "cloudflare"}
  /\ Jobs \cap Nodes = {} /\ Jobs \cap Sessions = {} /\ Nodes \cap Sessions = {}
  /\ MaxMade \in Nat \ {0} /\ MaxFaults \in Nat /\ MaxCrashes \in Nat

VARIABLES
  provider, \* the provider in use
  state,    \* the state of every instance, as its provider has it
  made,     \* the number of the instance created last for an owner
  call,     \* the adapter calls in flight
  lost,     \* history: instances that an error or a crash has hidden from the program
  faults, crashes \* bound counters

providerVars == <<provider, state, made, call, lost, faults, crashes>>

Owners == Jobs \cup Nodes \cup Sessions
Instances == Owners \X (1..MaxMade)
ASSUME InstanceAssumption == None \notin Instances
States == {"absent", "running", "paused", "failed", "terminated"}
Alive(i) == state[i] \in {"running", "paused"}

Idle == [op |-> "idle"]
Ops == {"task", "launch", "revoke", "restart", "create", "destroy", "stop", "use"}
Awaits == {"create", "start", "work", "kill", "connect", "endpoint", "process", "wait", "expose",
           "unexpose", "killProcess", "pause"}

\* A method call: for whom, at which await, with which instance, what it has read of the service's caches.
Call == [op : Ops, owner : Owners, svc : Services \cup {None}, at : Awaits,
         id : Instances \cup {None}, read : SUBSET {"port", "process"}]

ProviderTypeOK ==
  /\ provider \in Providers
  /\ state \in [Instances -> States]
  /\ made \in [Owners -> 0..MaxMade]
  /\ call \in [Slots -> {Idle} \cup Call]
  /\ lost \in SUBSET Instances
  /\ faults \in 0..MaxFaults
  /\ crashes \in 0..MaxCrashes

ProviderInit ==
  /\ provider \in Providers
  /\ state = [i \in Instances |-> "absent"]
  /\ made = [o \in Owners |-> 0]
  /\ call = [c \in Slots |-> Idle]
  /\ lost = {}
  /\ faults = 0
  /\ crashes = 0

-----------------------------------------------------------------------------
(* Calls. *)

Free(c) == call[c] = Idle
Reached(c, at) == call[c] # Idle /\ call[c].at = at
At(c, op, at) == Reached(c, at) /\ call[c].op = op
\* A call of owner o is in flight.
Served(o) == \E d \in Slots : call[d] # Idle /\ call[d].owner = o
Await(c, record) == call' = [call EXCEPT ![c] = record]
Begin(op, owner, svc, at) == [op |-> op, owner |-> owner, svc |-> svc, at |-> at, id |-> None, read |-> {}]
GoTo(c, at) == call' = [call EXCEPT ![c].at = at]
GoWith(c, at, i) == call' = [call EXCEPT ![c].at = at, ![c].id = i]
Return(c) == Await(c, Idle)

Fault == faults < MaxFaults /\ faults' = faults + 1
NoFault == UNCHANGED faults

-----------------------------------------------------------------------------
(* Requests. *)

\* The instance that a creation for o yields.
NewInstance(o) == <<o, IF provider = "cloudflare" THEN 1 ELSE made[o] + 1>>
CanMake(o) == provider = "cloudflare" \/ made[o] < MaxMade

Make(o) ==
  /\ CanMake(o)
  /\ state' = [state EXCEPT ![NewInstance(o)] = "running"]
  /\ made' = [made EXCEPT ![o] = NewInstance(o)[2]]

\* create is answered with an error, whether or not the instance has come into being.
MakeFails(o) ==
  /\ Fault
  /\ \/ Make(o) /\ lost' = lost \cup {NewInstance(o)}
     \/ UNCHANGED <<state, made, lost>>

\* connect and get resolve for an instance that the provider has.
Present(i) == state[i] # "absent"

\* kill is carried out, or fails; the provider then still has the instance, or has never had it.
Kill(i) == state' = [state EXCEPT ![i] = "absent"] /\ UNCHANGED <<lost, faults>>
KillFails(i) ==
  /\ Fault
  /\ lost' = lost \cup {i}
  /\ UNCHANGED state

\* The provider ends an instance by itself: its time is over, or it breaks.
End(i) ==
  /\ Alive(i)
  /\ Fault
  /\ \E s \in {"absent", "failed", "terminated"} : state' = [state EXCEPT ![i] = s]
  /\ UNCHANGED <<provider, made, call, lost, crashes>>

\* A restart loses the calls in flight, with the instances they hold.
HeldByCall(i) == \E c \in Slots : call[c] # Idle /\ call[c].id = i
Restart ==
  /\ crashes < MaxCrashes
  /\ crashes' = crashes + 1
  /\ call' = [c \in Slots |-> Idle]
  /\ UNCHANGED <<provider, state, made, faults>>
=============================================================================
