---------------------------- MODULE NodeSandboxes ----------------------------
(***************************************************************************)
(* OpenSandboxNodeAdapter and CloudflareSandboxNodeAdapter: a sandbox for  *)
(* every task of a job, and one for every node, in which its services are  *)
(* launched.  nodeInstances, serviceProcesses and servicePorts are maps of *)
(* the adapter object, read before the awaits of a method and written      *)
(* after them.  What a task runs and prints is left out, as are closing a  *)
(* connection, which changes nothing here, and methods that return before  *)
(* they await.                                                             *)
(***************************************************************************)
EXTENDS SandboxProvider

VARIABLES
  nodeInstances,    \* the instance cached for a node
  serviceProcesses, \* Cloudflare: services with a cached process id
  servicePorts,     \* Cloudflare: services with a cached port
  process,          \* the process of each service, as the provider has it
  exposed,          \* services whose port the provider has exposed
  racedNodes,       \* history: nodes for which two instances were created at once
  raced,            \* history: services with two calls in flight at once
  erred,            \* history: services with a request that the provider failed
  endedNodes        \* history: nodes whose instance the provider has ended

cacheVars == <<nodeInstances, serviceProcesses, servicePorts>>
serviceVars == <<process, exposed>>
historyVars == <<racedNodes, raced, erred, endedNodes>>
nodeVars == <<nodeInstances, serviceProcesses, servicePorts, process, exposed, racedNodes, raced, erred, endedNodes>>

AllServices == Nodes \X Services
Service(c) == <<call[c].owner, call[c].svc>>

NodeTypeOK ==
  /\ nodeInstances \in [Nodes -> Instances \cup {None}]
  /\ serviceProcesses \in SUBSET AllServices
  /\ servicePorts \in SUBSET AllServices
  /\ process \in [AllServices -> {"none", "starting", "listening"}]
  /\ exposed \in SUBSET AllServices
  /\ racedNodes \in SUBSET Nodes
  /\ raced \in SUBSET AllServices
  /\ erred \in SUBSET AllServices
  /\ endedNodes \in SUBSET Nodes

NodeInit ==
  /\ nodeInstances = [n \in Nodes |-> None]
  /\ serviceProcesses = {}
  /\ servicePorts = {}
  /\ process = [x \in AllServices |-> "none"]
  /\ exposed = {}
  /\ racedNodes = {}
  /\ raced = {}
  /\ erred = {}
  /\ endedNodes = {}

-----------------------------------------------------------------------------
(* Tasks: executeTaskWithProgress creates, stages and runs, and kills in its finally. *)

TaskBegins(c, j) ==
  /\ Free(c) /\ provider # "docker"
  /\ ~Served(j)
  /\ made[j] = 0
  /\ Await(c, Begin("task", j, None, "create"))
  /\ UNCHANGED <<provider, state, made, lost, faults, crashes, nodeVars>>

TaskCreated(c) ==
  /\ At(c, "task", "create")
  /\ Make(call[c].owner)
  /\ GoWith(c, "work", NewInstance(call[c].owner))
  /\ UNCHANGED <<provider, lost, faults, crashes, nodeVars>>

TaskCreateFails(c) ==
  /\ At(c, "task", "create")
  /\ MakeFails(call[c].owner)
  /\ Return(c)
  /\ UNCHANGED <<provider, crashes, nodeVars>>

\* Defect: a task that throws is not followed by the kill.
WorkThrows(c) ==
  /\ At(c, "task", "work")
  /\ Return(c)
  /\ UNCHANGED <<provider, state, made, lost, faults, crashes, nodeVars>>

\* Staging and running resolve or reject: the finally block is next.
WorkEnds(c) ==
  /\ At(c, "task", "work")
  /\ GoTo(c, "kill")
  /\ UNCHANGED <<provider, state, made, lost, faults, crashes, nodeVars>>

\* The error of a kill is swallowed.
TaskKilled(c) ==
  /\ At(c, "task", "kill")
  /\ Kill(call[c].id) \/ KillFails(call[c].id)
  /\ Return(c)
  /\ UNCHANGED <<provider, made, crashes, nodeVars>>

OpenSandboxTask(c) == TaskCreated(c) \/ TaskCreateFails(c) \/ WorkEnds(c) \/ TaskKilled(c)
\* The job's name is that of the sandbox.
CloudflareTask(c) == TaskCreated(c) \/ TaskCreateFails(c) \/ WorkEnds(c) \/ TaskKilled(c)
TaskStep(c) == IF provider = "cloudflare" THEN CloudflareTask(c) ELSE OpenSandboxTask(c)

-----------------------------------------------------------------------------
(* The instance of a node: ensureNodeConnection. *)

\* The record of a call that goes on with ensureNodeConnection, as it reads the cache.
Ensuring(op, n, s) ==
  IF nodeInstances[n] = None THEN Begin(op, n, s, "create")
  ELSE [Begin(op, n, s, "connect") EXCEPT !.id = nodeInstances[n]]

Creating(c, n) == Reached(c, "create") /\ call[c].owner = n
NoteCreation(c, n) ==
  racedNodes' = IF nodeInstances[n] = None /\ \E d \in Slots \ {c} : Creating(d, n)
                THEN racedNodes \cup {n} ELSE racedNodes
NoteCall(c, n, s) ==
  raced' = IF \E d \in Slots \ {c} : call[d] # Idle /\ call[d].owner = n /\ call[d].svc = s
           THEN raced \cup {<<n, s>>} ELSE raced
NoteError(c) == erred' = erred \cup {Service(c)}

\* Where a launch goes on when it has a connection to its node's instance.
OpenSandboxNext(c, i) ==
  IF call[c].op = "launch" THEN GoWith(c, "endpoint", i) ELSE Return(c)
CloudflareNext(c, i) == GoWith(c, IF Service(c) \in serviceProcesses THEN "expose" ELSE "process", i)
GoOn(c, i) == IF provider = "cloudflare" THEN CloudflareNext(c, i) ELSE OpenSandboxNext(c, i)

LaunchBegins(c, n, s) ==
  /\ Free(c) /\ provider # "docker"
  /\ Await(c, Ensuring("launch", n, s))
  /\ NoteCreation(c, n)
  /\ NoteCall(c, n, s)
  /\ UNCHANGED <<provider, state, made, lost, faults, crashes, cacheVars, serviceVars, erred, endedNodes>>

EnsureCreated(c) ==
  /\ call[c].op \in {"launch", "restart"} /\ Reached(c, "create")
  /\ LET n == call[c].owner
         i == NewInstance(n)
     IN /\ Make(n)
        /\ nodeInstances' = [nodeInstances EXCEPT ![n] = i]
        /\ GoOn(c, i)
  /\ UNCHANGED <<provider, lost, faults, crashes, serviceProcesses, servicePorts, serviceVars, historyVars>>

EnsureCreateFails(c) ==
  /\ call[c].op \in {"launch", "restart"} /\ Reached(c, "create")
  /\ MakeFails(call[c].owner)
  /\ Return(c)
  /\ NoteError(c)
  /\ UNCHANGED <<provider, crashes, cacheVars, serviceVars, racedNodes, raced, endedNodes>>

EnsureConnected(c) ==
  /\ call[c].op \in {"launch", "restart"} /\ Reached(c, "connect")
  /\ Present(call[c].id)
  /\ GoOn(c, call[c].id)
  /\ UNCHANGED <<provider, state, made, lost, faults, crashes, nodeVars>>

\* connect rejects, and with it the method; the cache keeps the instance.
EnsureConnectFails(c) ==
  /\ call[c].op \in {"launch", "restart"} /\ Reached(c, "connect")
  /\ (~Present(call[c].id) /\ NoFault) \/ Fault
  /\ Return(c)
  /\ NoteError(c)
  /\ UNCHANGED <<provider, state, made, lost, crashes, cacheVars, serviceVars, racedNodes, raced, endedNodes>>

EnsureStep(c) == EnsureCreated(c) \/ EnsureCreateFails(c) \/ EnsureConnected(c) \/ EnsureConnectFails(c)

-----------------------------------------------------------------------------
(* OpenSandbox: a launch asks for the endpoint; a revocation disposes of the node's instance. *)

Endpoint(c) ==
  /\ At(c, "launch", "endpoint")
  /\ NoFault \/ Fault
  /\ Return(c)
  /\ UNCHANGED <<provider, state, made, lost, crashes, nodeVars>>

\* Defect: the cache entry is deleted after the instance has been killed.
DisposeBeginsLate(c, op, n, s) ==
  Await(c, [Begin(op, n, s, "kill") EXCEPT !.id = nodeInstances[n]]) /\ UNCHANGED nodeInstances

\* disposeNodeConnection up to its first await: the entry is deleted first.
DisposeBegins(c, op, n, s) ==
  /\ nodeInstances' = [nodeInstances EXCEPT ![n] = None]
  /\ Await(c, [Begin(op, n, s, "kill") EXCEPT !.id = nodeInstances[n]])

OpenSandboxRevoke(c, n, s) ==
  /\ nodeInstances[n] # None
  /\ DisposeBegins(c, "revoke", n, s)
  /\ UNCHANGED <<serviceProcesses, servicePorts, racedNodes>>

OpenSandboxRestart(c, n, s) ==
  \/ /\ nodeInstances[n] # None
     /\ DisposeBegins(c, "restart", n, s)
     /\ UNCHANGED <<serviceProcesses, servicePorts, racedNodes>>
  \/ /\ nodeInstances[n] = None
     /\ Await(c, Ensuring("restart", n, s))
     /\ NoteCreation(c, n)
     /\ UNCHANGED cacheVars

\* The kill, by a connection or without one, and what follows the disposal.
Disposed(c) ==
  /\ call[c].op \in {"revoke", "restart"} /\ Reached(c, "kill")
  /\ Kill(call[c].id) \/ KillFails(call[c].id)
  /\ IF call[c].op = "revoke"
     THEN Return(c) /\ UNCHANGED racedNodes
     ELSE Await(c, Ensuring("restart", call[c].owner, call[c].svc)) /\ NoteCreation(c, call[c].owner)
  /\ UNCHANGED <<provider, made, crashes, cacheVars, serviceVars, raced, erred, endedNodes>>
-----------------------------------------------------------------------------
(* Cloudflare: a launch starts the process of the service and exposes its port. *)

\* startProcess; the id is cached before anybody knows whether the port opens.
ProcessStarts(c) ==
  /\ Reached(c, "process")
  /\ Alive(call[c].id)
  /\ process' = [process EXCEPT ![Service(c)] = IF @ = "none" THEN "starting" ELSE @]
  /\ serviceProcesses' = serviceProcesses \cup {Service(c)}
  /\ GoTo(c, "wait")
  /\ UNCHANGED <<provider, state, made, lost, faults, crashes, nodeInstances, servicePorts, exposed, historyVars>>

PortOpens(c) ==
  /\ Reached(c, "wait")
  /\ process[Service(c)] # "none"
  /\ process' = [process EXCEPT ![Service(c)] = "listening"]
  /\ GoTo(c, "expose")
  /\ UNCHANGED <<provider, state, made, lost, faults, crashes, cacheVars, exposed, historyVars>>

PortExposed(c) ==
  /\ Reached(c, "expose")
  /\ Alive(call[c].id)
  /\ exposed' = exposed \cup {Service(c)}
  /\ servicePorts' = servicePorts \cup {Service(c)}
  /\ Return(c)
  /\ UNCHANGED <<provider, state, made, lost, faults, crashes, nodeInstances, serviceProcesses, process, historyVars>>

\* Any of the three requests may reject, carried out or not, and the method with it.
LaunchRejects(c) ==
  /\ \E at \in {"process", "wait", "expose"} : Reached(c, at)
  /\ IF Alive(call[c].id) /\ (call[c].at = "wait" => process[Service(c)] # "none") THEN Fault ELSE NoFault
  /\ \/ UNCHANGED serviceVars
     \/ /\ call[c].at = "process" /\ Alive(call[c].id)
        /\ process' = [process EXCEPT ![Service(c)] = IF @ = "none" THEN "starting" ELSE @]
        /\ UNCHANGED exposed
     \/ /\ call[c].at = "expose" /\ Alive(call[c].id)
        /\ exposed' = exposed \cup {Service(c)}
        /\ UNCHANGED process
  /\ NoteError(c)
  /\ Return(c)
  /\ UNCHANGED <<provider, state, made, lost, crashes, cacheVars, racedNodes, raced, endedNodes>>

CloudflareLaunch(c) == ProcessStarts(c) \/ PortOpens(c) \/ PortExposed(c) \/ LaunchRejects(c)

\* revokeServiceLaunch up to its first await: the caches are read here and deleted at the end.
CloudflareRevoke(c, op, n, s) ==
  /\ nodeInstances[n] # None
  /\ Await(c, [Begin(op, n, s, "unexpose") EXCEPT
                  !.id = nodeInstances[n],
                  !.read = {r \in {"port", "process"} :
                              <<n, s>> \in IF r = "port" THEN servicePorts ELSE serviceProcesses}])

CloudflareRestart(c, n, s) ==
  \/ CloudflareRevoke(c, "restart", n, s) /\ UNCHANGED racedNodes
  \/ /\ nodeInstances[n] = None
     /\ Await(c, Ensuring("restart", n, s))
     /\ NoteCreation(c, n)

\* The connection and the removal of the port, if one was read; what fails is swallowed.
Unexposes(c) == "port" \in call[c].read
Unexpose(c) ==
  /\ call[c].op \in {"revoke", "restart"} /\ Reached(c, "unexpose")
  /\ \/ /\ NoFault
        /\ exposed' = IF Unexposes(c) THEN exposed \ {Service(c)} ELSE exposed
        /\ UNCHANGED erred
     \/ Fault /\ NoteError(c) /\ UNCHANGED exposed
  /\ GoTo(c, "killProcess")
  /\ UNCHANGED <<provider, state, made, lost, crashes, cacheVars, process, racedNodes, raced, endedNodes>>

\* The end of the process, if one was read; then the caches are deleted whatever they hold by now.
ProcessKilled(c) ==
  /\ call[c].op \in {"revoke", "restart"} /\ Reached(c, "killProcess")
  /\ \/ /\ NoFault
        /\ process' = IF "process" \in call[c].read THEN [process EXCEPT ![Service(c)] = "none"] ELSE process
        /\ UNCHANGED erred
     \/ Fault /\ NoteError(c) /\ UNCHANGED process
  /\ servicePorts' = servicePorts \ {Service(c)}
  /\ serviceProcesses' = serviceProcesses \ {Service(c)}
  /\ IF call[c].op = "revoke"
     THEN Return(c) /\ UNCHANGED racedNodes
     ELSE Await(c, Ensuring("restart", call[c].owner, call[c].svc)) /\ NoteCreation(c, call[c].owner)
  /\ UNCHANGED <<provider, state, made, lost, crashes, nodeInstances, exposed, raced, endedNodes>>

-----------------------------------------------------------------------------
RevokeBegins(c, n, s) ==
  /\ Free(c) /\ provider # "docker"
  /\ IF provider = "cloudflare"
     THEN CloudflareRevoke(c, "revoke", n, s) /\ UNCHANGED <<cacheVars, racedNodes>>
     ELSE OpenSandboxRevoke(c, n, s)
  /\ NoteCall(c, n, s)
  /\ UNCHANGED <<provider, state, made, lost, faults, crashes, serviceVars, erred, endedNodes>>

RestartBegins(c, n, s) ==
  /\ Free(c) /\ provider # "docker"
  /\ IF provider = "cloudflare"
     THEN CloudflareRestart(c, n, s) /\ UNCHANGED cacheVars
     ELSE OpenSandboxRestart(c, n, s)
  /\ NoteCall(c, n, s)
  /\ UNCHANGED <<provider, state, made, lost, faults, crashes, serviceVars, erred, endedNodes>>

\* An instance that ends takes its processes and ports with it.
NodeEnds(n) ==
  /\ process' = [x \in AllServices |-> IF x[1] = n THEN "none" ELSE process[x]]
  /\ exposed' = {x \in exposed : x[1] # n}
  /\ endedNodes' = endedNodes \cup {n}
  /\ UNCHANGED <<cacheVars, racedNodes, raced, erred>>

\* A restart loses the caches.
NodeRestart ==
  /\ nodeInstances' = [n \in Nodes |-> None]
  /\ serviceProcesses' = {}
  /\ servicePorts' = {}
  /\ erred' = erred \cup AllServices
  /\ UNCHANGED <<serviceVars, racedNodes, raced, endedNodes>>

NodeAdapterStep(c) ==
  \/ \E j \in Jobs : TaskBegins(c, j)
  \/ TaskStep(c)
  \/ \E n \in Nodes, s \in Services :
       LaunchBegins(c, n, s) \/ RevokeBegins(c, n, s) \/ RestartBegins(c, n, s)
  \/ EnsureStep(c)
  \/ Endpoint(c)
  \/ Disposed(c)
  \/ CloudflareLaunch(c)
  \/ Unexpose(c)
  \/ ProcessKilled(c)

-----------------------------------------------------------------------------
(***************************************************************************)
(* The cache of an adapter never names an instance that the adapter has    *)
(* ended itself, whatever launches, revocations and restarts of the node   *)
(* overlap: only the provider can make a cached instance unusable.         *)
(***************************************************************************)
CachedIsUsable ==
  \A n \in Nodes : nodeInstances[n] # None =>
    Alive(nodeInstances[n]) \/ nodeInstances[n] \in lost \/ n \in endedNodes

(***************************************************************************)
(* A port that the provider exposes is one the adapter knows, so that a    *)
(* revocation will close it again, except when calls for one service       *)
(* overlapped, a request of the service failed, or the server restarted    *)
(* (the caches that revokeServiceLaunch relies on are in memory only).     *)
(***************************************************************************)
ExposedIsKnown == \A x \in exposed : x \in servicePorts \/ x \in raced \/ x \in erred

(***************************************************************************)
(* A launch that is answered with "ready" has its process listening,       *)
(* although later launches do not wait for the port again, with the same   *)
(* exceptions (after a wait that failed the next launch does not wait).    *)
(***************************************************************************)
ReadyIsListening ==
  [][\A c \in Slots : PortExposed(c) =>
       \/ process[Service(c)] = "listening"
       \/ Service(c) \in raced \cup erred \/ call[c].owner \in endedNodes]_nodeVars
=============================================================================
