--------------------------- MODULE RuntimeSandboxes ---------------------------
(***************************************************************************)
(* The runtime adapters of the sandbox providers: LocalContainer (docker), *)
(* OpenSandbox and CloudflareSandbox.  An adapter keeps nothing; what it   *)
(* has told the session service is kept here, the reference of the         *)
(* session's instance and the last status.  exec, copyIn and copyOut       *)
(* connect, do their work and close; contents and logs are left out.       *)
(***************************************************************************)
EXTENDS SandboxProvider

VARIABLES
  ref,  \* the reference that createSession returned
  told  \* the status an adapter's method has told last

sessionVars == <<ref, told>>

Statuses == {"none", "creating", "ready", "stopped", "failed", "destroyed"}

SessionTypeOK ==
  /\ ref \in [Sessions -> Instances \cup {None}]
  /\ told \in [Sessions -> Statuses]

SessionInit ==
  /\ ref = [s \in Sessions |-> None]
  /\ told = [s \in Sessions |-> "none"]

Rest == UNCHANGED <<provider, crashes>>

-----------------------------------------------------------------------------
(* createSession. *)

Created(s, i) ==
  /\ ref' = [ref EXCEPT ![s] = i]
  /\ told' = [told EXCEPT ![s] = "ready"]

CreateBegins(c, s) ==
  /\ Free(c)
  /\ told[s] = "none" /\ ~Served(s)
  /\ Await(c, Begin("create", s, None, "create"))
  /\ UNCHANGED <<state, made, lost, faults, sessionVars>> /\ Rest

\* docker create has returned: the container exists and is not started.
DockerCreated(c) ==
  /\ Make(call[c].owner)
  /\ GoWith(c, "start", NewInstance(call[c].owner))
  /\ UNCHANGED <<lost, faults, sessionVars>> /\ Rest

\* docker start; when it fails, nobody removes the container.
DockerStarts(c) ==
  /\ At(c, "create", "start")
  /\ \/ /\ Alive(call[c].id)
        /\ Created(call[c].owner, call[c].id)
        /\ UNCHANGED <<lost, faults>>
     \/ /\ IF Alive(call[c].id) THEN Fault ELSE NoFault
        /\ lost' = lost \cup {call[c].id}
        /\ UNCHANGED sessionVars
  /\ Return(c)
  /\ UNCHANGED <<state, made>> /\ Rest

\* The two providers whose create returns a running instance.
SandboxCreated(c) ==
  /\ Make(call[c].owner)
  /\ Created(call[c].owner, NewInstance(call[c].owner))
  /\ Return(c)
  /\ UNCHANGED <<lost, faults>> /\ Rest

CreateFails(c) ==
  /\ MakeFails(call[c].owner)
  /\ Return(c)
  /\ UNCHANGED sessionVars /\ Rest

CreateEnds(c) ==
  /\ At(c, "create", "create")
  /\ CreateFails(c) \/ IF provider = "docker" THEN DockerCreated(c) ELSE SandboxCreated(c)

-----------------------------------------------------------------------------
(* The other methods. *)

MethodBegins(c, op, s, at) ==
  /\ Free(c)
  /\ ref[s] # None
  /\ Await(c, [Begin(op, s, None, at) EXCEPT !.id = ref[s]])
  /\ UNCHANGED <<state, made, lost, faults, sessionVars>> /\ Rest

\* isMissingProviderError; docker rm -f knows no such case.
IsMissing(i) == provider # "docker" /\ ~Present(i)

\* destroySession: the instance ends, or was not there, or the method throws.
DestroyEnds(c) ==
  /\ At(c, "destroy", "kill")
  /\ \/ /\ Kill(call[c].id)
        /\ told' = [told EXCEPT ![call[c].owner] = "destroyed"]
     \/ /\ Fault /\ UNCHANGED <<state, lost>>
        /\ told' = IF IsMissing(call[c].id) THEN [told EXCEPT ![call[c].owner] = "destroyed"] ELSE told
  /\ Return(c)
  /\ UNCHANGED <<made, ref>> /\ Rest

\* Defect: the answer does not depend on the provider having paused the instance.
StopAnswersAnyway(c) ==
  /\ At(c, "stop", "pause")
  /\ NoFault /\ UNCHANGED state
  /\ told' = [told EXCEPT ![call[c].owner] = "stopped"]
  /\ Return(c)
  /\ UNCHANGED <<made, lost, ref>> /\ Rest

\* stop: the provider pauses an instance that is running; otherwise the method throws.
StopEnds(c) ==
  /\ At(c, "stop", "pause")
  /\ \/ /\ Alive(call[c].id) /\ NoFault
        /\ state' = [state EXCEPT ![call[c].id] = "paused"]
        /\ told' = [told EXCEPT ![call[c].owner] = "stopped"]
     \/ /\ IF Alive(call[c].id) THEN Fault ELSE NoFault
        /\ UNCHANGED <<state, told>>
  /\ Return(c)
  /\ UNCHANGED <<made, lost, ref>> /\ Rest

\* mapRuntimeSessionState of the OpenSandbox adapter, for the states an instance may have here.
OpenSandboxStatus(s) ==
  CASE s = "running" -> "ready"
    [] s = "paused" -> "stopped"
    [] OTHER -> "destroyed"

\* That of the Cloudflare adapter: a word that it does not list means ready.
CloudflareStatus(s) ==
  CASE s = "paused" -> "stopped"
    [] s = "failed" -> "failed"
    [] OTHER -> "ready"

\* getSession; null makes the service mark the session destroyed.
StatusOf(i) ==
  IF ~Present(i) THEN "destroyed"
  ELSE IF provider = "cloudflare" THEN CloudflareStatus(state[i]) ELSE OpenSandboxStatus(state[i])

GetEnds(c) ==
  /\ At(c, "use", "connect") /\ provider # "docker"
  /\ \/ NoFault /\ told' = [told EXCEPT ![call[c].owner] = StatusOf(call[c].id)]
     \/ Fault /\ UNCHANGED told
  /\ Return(c)
  /\ UNCHANGED <<state, made, lost, ref>> /\ Rest

\* exec, copyIn, copyOut: the connection, the work, and the close in finally; docker connects to nothing.
UseConnects(c) ==
  /\ At(c, "use", "connect")
  /\ IF provider = "docker" \/ Present(call[c].id) THEN GoTo(c, "work") ELSE Return(c)
  /\ UNCHANGED <<state, made, lost, faults, sessionVars>> /\ Rest
UseEnds(c) ==
  /\ At(c, "use", "work")
  /\ Return(c)
  /\ UNCHANGED <<state, made, lost, faults, sessionVars>> /\ Rest

MethodStep(c) ==
  \/ \E s \in Sessions : \/ CreateBegins(c, s)
                         \/ MethodBegins(c, "destroy", s, "kill")
                         \/ MethodBegins(c, "stop", s, "pause")
                         \/ MethodBegins(c, "use", s, "connect")
  \/ CreateEnds(c) \/ DestroyEnds(c) \/ StopEnds(c) \/ UseConnects(c) \/ UseEnds(c)

LocalContainer(c) == MethodStep(c) \/ DockerStarts(c)
OpenSandboxRuntime(c) == MethodStep(c) \/ GetEnds(c)
CloudflareRuntime(c) == MethodStep(c) \/ GetEnds(c)
RuntimeStep(c) ==
  CASE provider = "docker" -> LocalContainer(c)
    [] provider = "opensandbox" -> OpenSandboxRuntime(c)
    [] OTHER -> CloudflareRuntime(c)

-----------------------------------------------------------------------------
(***************************************************************************)
(* A session that an adapter has called destroyed has no running instance: *)
(* an error of the provider is never taken for success, and no call that   *)
(* was in flight brings the instance back.                                 *)
(***************************************************************************)
DestroyedIsGone == \A s \in Sessions : told[s] = "destroyed" /\ ref[s] # None => ~Alive(ref[s])

(***************************************************************************)
(* The status an adapter tells is one the instance has at that moment,     *)
(* except that the Cloudflare adapter calls an instance ready whose state  *)
(* it has no word for (default of mapRuntimeSessionState).                 *)
(***************************************************************************)
ToldTruly ==
  [][\A s \in Sessions : told'[s] # told[s] /\ ref'[s] # None =>
       \/ told'[s] = "ready" /\ state'[ref'[s]] = "running"
       \/ told'[s] = "stopped" /\ state'[ref'[s]] = "paused"
       \/ told'[s] \in {"destroyed", "failed"} /\ ~(state'[ref'[s]] \in {"running", "paused"})
       \/ provider = "cloudflare" /\ state'[ref'[s]] = "terminated"]_<<sessionVars, state>>
=============================================================================
