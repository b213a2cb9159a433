# or3-net in TLA+

A verification development for the or3-net control plane: TLA+ modules translated from `src/src`,
TLC configurations that model-check them on small instances, and TLAPS proofs of their main
properties for every value of their constants.

The control plane is a TypeScript (Bun) program. It accepts jobs and runs them on the Intern backend
or on leased nodes, streams their events, enrols nodes and talks to them over HTTPS or an outbound
WebSocket, and manages long-lived runtime sessions with staged workspaces, PTYs and previews.

Two facts about the program shape every module. It is single-threaded, and its SQLite calls are
synchronous: **the code between two awaits is one atomic step**, and the interesting interleavings are
those of coroutines suspended at their awaits. And the tables survive a crash while the maps, timers
and promises of the services do not.

## 1. Inventory

Paths are relative to `src/src`. "Hard" names the behaviour that a unit test hardly reaches.

| Component | Code | State | Operations | Hard | Correct when |
|---|---|---|---|---|---|
| Job service | `execution/local-jobs.ts` | job row and its events; maps `liveJobs`, `backendJobIds`, `pendingAbortJobs`, `activeRemoteRuns` | submit, backend and remote events, abort, finalizers | result, failure and abort race at every await; crash between row and event | one outcome per job, never lost, history and cache agree with it |
| Lease scheduler | `scheduler/scheduler.ts`, leases in `db/workspace-store.ts` | lease rows | issue, expire, release, eligibility | release after expiry or by two parties | capacity is respected and always given back |
| Startup reconciliation | `db/control-plane-database.ts` | rows of jobs, leases, nodes | repair of open rows | partly written state of the crashed process | open jobs fail, finished ones are untouched |
| Job stream broker | `execution/job-streams.ts` | per job: history buffer, subscribers, cleanup timer | publish, stream, cancel, cleanup | replay and live events must meet without gap; lazily compacted buffer | a stream is contiguous and ends with the outcome |
| Runtime session service | `runtime/sessions.ts` | session rows; base manifest on disk; the adapter's session | create, stop, destroy, commit, discard, reconcile | every method awaits an adapter while others run | one writer per workspace root, destroyed is final |
| Node registry | `nodes/registry.ts` | node rows, bootstrap tokens, runtime credentials | enrol, approve, redeem, rotate | hashing is awaited between read and write | an approval sticks, one credential is active |
| Outbound WebSocket transport | `nodes/transport-wss.ts` | live connection per node, pending requests | attach, detach, request, response, abort, staleness | reconnect before the old socket closes | every request settles |
| Workspace staging | `runtime/workspace-stage.ts` | base manifest, host tree, sandbox tree, export | prepare, export, diff, apply, roll back | host edits during a commit; failure in mid-application | a commit is all or nothing and keeps contested host edits |
| Event retention, PTY tail | `db/event-retention.ts`, `runtime/sessions.ts` | sequence-numbered event rows | append and trim, poll by cursor | trimming under a reader | readers see every retained event once |
| Previews | `previews/service.ts` | preview rows; launch links with indexes, tombstones and timers | register, launch, open, revoke, expire | revocation while a launch is awaited; limits and far expiries | a revoked link never opens, a file link stays inside its root |
| Remote node runtime adapter | `runtime/adapters/remote-node.ts` | lease per session, RPC state | create, stop, destroy, get | failed RPC between lease and session | what agents hold is leased and within capacity |
| Session bindings | `session/service.ts` | `network_sessions` rows | resolve, touch | one client under several names | a client has one session |
| API and idempotency | `api/app.ts` | idempotency records, API keys, tokens | exchange, submit, keys | crash or second request between execution and record | a retry makes no second job that stands, and gets an answer that fits |
| Runtime selection | `runtime/selection.ts` | none | ranking of adapters and nodes | fallbacks and requirements interact | choice satisfies the request |
| Node transports and executor, shared | `nodes/executor.ts`, `nodes/transport*.ts` | lookup tables | start, abort, describe | silent node | calls settle or fail |
| Sandbox node adapters | `nodes/adapter-opensandbox.ts`, `nodes/adapter-cloudflare-sandbox.ts` | caches of instances, processes and ports | execute a task; launch, revoke, restart a service | caches read before an await and written after it; errors that hide a success | caches name what exists, nothing runs unknown |
| Sandbox runtime adapters, SDKs | `runtime/adapters`, `../sdk` | none | create, stop, destroy, get, use | lost answers, instances that end by themselves | destroyed is gone, statuses are true |
| Auth (signatures), agents, registry, contracts, libraries | `auth`, `agents`, `runtime/registry.ts`, `contracts`, `lib` | little or none | verify, list, validate | none of order or failure | functional correctness |
| Console, CLI, Intern SDK, server | `console`, `server.ts`, `../cli`, `../sdk/intern` | none of their own | plumbing | none | functional correctness |

How they interact: the API calls the job service; the job service calls the scheduler (synchronously),
the executor and the Intern client (awaits), the store (synchronously) and publishes every event to
the broker and to `job_events`. The executor goes through a transport to a node. The runtime session
service calls an adapter, one of which takes a lease from the same scheduler and talks to a node
through the same transports; it calls the staging functions on the file system. At startup the
database reconciles jobs, leases and nodes before the services exist, and the session service
reconciles sessions in the background while requests are already served.

`PROJECT.json` lists every component with its status, and every hazard at its line.

## 2. Modules

| Module | Role |
|---|---|
| `LeaseScheduler` | leases and node eligibility; conditions and state functions used by `JobLifecycle` |
| `JobLifecycle` | the job service, composed with the scheduler and with startup reconciliation |
| `JobRecord` | abstract specification: what a job promises |
| `JobLifecycleProofs` | proofs about `JobLifecycle`, and that it implements `JobRecord` |
| `JobStream` | the broker's stream of one job |
| `StreamProofs` | proofs about `JobStream` and `PtyTail`, the two streams that clients follow |
| `RuntimeSessions`, `RuntimeSessionsProofs` | the runtime sessions of one workspace, with staging, crash and reconciliation, and proofs |
| `MCJobLifecycle`, `MCJobStream`, `MCRuntimeSessions` | constants of the small instances |
| `NodeTransport`, `AdapterProofs`, `MCNodeTransport` | requests over the sockets of one node, and proofs |
| `WorkspaceStage`, `WorkspaceStageProofs`, `MCWorkspaceStage` | staging and commits of one session's workspace |
| `EventTable` | append, number and trim the retained events of one key |
| `PtyTail`, `MCPtyTail` | PTY mirrors and polling readers over the session's events |
| `NodeRegistry`, `MCNodeRegistry`, `NodeRegistryProofs` | enrolment, approval, tokens and credentials of the nodes of a workspace, and proofs |
| `RuntimeSelection` | the order in which runtime adapters are chosen, as operators |
| `RemoteSessions`, `MCRemoteSessions`, `RemoteSessionsProofs` | sessions on remote nodes: selection, leases, adapter, agent, terminals; uses `LeaseScheduler` and `RuntimeSelection`; and proofs |
| `WallClock` | the host's clock |
| `ApiRequests` | exchanges, API keys, idempotent submissions and session bindings |
| `PreviewPaths` | the path arithmetic of file previews, as operators |
| `LaunchCapabilities` | previews, launch links, revocations and timers |
| `Api`, `MCApi`, `ApiProofs` | both groups of routes under one clock and one restart, and proofs |
| `SandboxProvider` | the instances of one provider and the adapter calls in flight |
| `NodeSandboxes` | the node adapters of OpenSandbox and Cloudflare: tasks and services |
| `RuntimeSandboxes` | the runtime adapters of docker, OpenSandbox and Cloudflare |
| `Sandboxes`, `MCSandboxes` | all of them over one provider, with its failures and restarts; proofs in `AdapterProofs` |

In the modules, an operator introduced by a comment "Defect: ..." is used by no action: it is the
definition below it with a plausible mistake in it. Putting it in the place of that definition
violates the property it is paired with in `PROJECT.json`, which shows that the property depends on
that piece of the code.

### JobLifecycle

`status`, `log` and `target` are the `jobs` row and the terminal events in `job_events`; `liveJobs`,
`backendJobIds`, `pendingAbortJobs` and `activeRemoteRuns` are the maps of `LocalJobService`; `lease`,
`leaseNode`, `lapsed` and `nodeState` belong to the scheduler. `pc[j]` names the await at which the
coroutine of job `j` is suspended, and `aborting[j]` counts the `abortJob` calls suspended at theirs.

| Code | Actions |
|---|---|
| `submitJob` up to the first await of the coroutine it starts | `SubmitLocal`, `SubmitRemote`, `SubmitRejected`, `SubmitUnexecutable` |
| `runLocalTurn` | `StreamEvent`, `StreamAbort`, `StreamAbortReturns`, `StreamEndsQuietly`, `StreamEnds`, `StreamThrows` |
| `runRemoteTask` | `StartResolves`, `RunResolves`, `RunProgress...`, `LateAbortReturns`, `SandboxEvent`, `SandboxReturns`, `RemoteThrows` |
| `abortJob` | `AbortUnreachable`, `AbortSend`, `AbortOver`, `RemoteAbort...`, `LocalAbort...` |
| process death and `reconcileStartupState` | `Crash`, `CrashInSubmit`, `CrashInPersist`, `ReconcileStartupState` |
| clock, node registry | `TimePasses`, `RegistryChanges` |

`CrashInPersist` is the death between the write of a terminal status and the append of its event,
two statements without a transaction. Text and tool events change no status and are the event
"other". The eligibility reasons other than capacity are one condition of a node, `PassesPolicy`.
Intern and the nodes are external: a call resolves, rejects, or does neither.

### JobStream

One job's entry in the broker, with its `JobHistoryBuffer` as an array `entries` and an index
`start`, its subscribers and its timer, and the clients of the stream. Every method is synchronous, so
a step is a call. Events are numbered in order of publication and the terminal event is the last, as
the job service guarantees (`LogMatchesOutcome`, `TerminalIsFinal`).

### RuntimeSessions

`status`, `ref`, `staging` and `lastCommit` are the row; `baseline` says that the base manifest is in
the stage directory; `env` is the session as its adapter has it, which changes by itself
(`EnvChanges`). `call[c]` is a method call of client `c` and the await it is at: "sent" until the
adapter or the file system has acted, "acted" until the method goes on. `rec` is the background
reconciliation with the rows as it read them. `exec`, file, log and PTY calls change no session row
and are left out. The content of a commit (what is compared, copied and rolled back) is abstracted to
its three outcomes: applied, conflict, exception.

### NodeTransport

`current` is the node's entry in `liveConnections`; a connection is named by the socket it was attached
with, and `pending[s]` is its map of pending requests, which survives the connection's removal from
`liveConnections` just as the object does. `response` and `stream` are the promise and the event queue
of a request. Every method and socket callback is synchronous, so a step is a call: `Attach`,
`SocketCloses` and `Deliver` are the callbacks `open`, `close` and `message` of `server.ts`, `Send`,
`SendFails` and `Abort` the methods. The node and the network are external: `wire[s]` is a FIFO of frames, a lost socket
may still deliver some of them, and its close is noticed at any later time. The node answers the opening of
a PTY before the PTY exits.

A node may be back before the close of its old socket is noticed: the lost socket is then "replaced",
and "late" once its close has come. The code lets that late close detach the new connection
(`transport-wss.ts:132`, `:171`), and what was sent on the old one is never settled. `Overlapped` names
the case. Order, completeness, the end of event streams and the health of the node hold in it as well;
`InFlightReachable` and `EveryRequestSettles` except it, and they are false there.

### WorkspaceStage

`host` and `sandbox` are the two trees, `base`, `scan` and `export` the manifests that a commit compares.
Paths are flat: a path is missing, a directory or a file with some content, which is what
`entrySignature` distinguishes. `at` is the loop that the code is in and `todo` the paths it has left; the
order of the paths is arbitrary. One action is one path's turn in a loop, split in two where the code
backs a path up and then changes it, so that others may come between: `HostEdited` and `SandboxEdited`
are the other processes of the host and the program in the session, and `Crash` may come anywhere.
`ApplyFails` is any file operation that throws, before or after it took effect, `RollbackFails` the same
during the rollback, where the other members of `Promise.all` may or may not be done.

`before` and `since` are not in the code: they record how others left each path, and how late in the
commit their last edit came. Nothing locks the host, so the properties except the paths that others
edited after the scan (for completeness and conflicts) or after the backup (for the rollback).

The properties say what the code achieves, and four things that one might expect are not among them. A
path that only others have changed since staging is overwritten with what was staged, without a conflict
(`workspace-stage.ts:246` looks at host and export only). The base manifest is written once, so a second
commit may meet a conflict with what the first one wrote. The file API exports only files of the base
manifest, so files that the session creates are not committed there. And the export takes a
`copy_failed` for a missing file (`sessions.ts:924`), so a file that cannot be read at that moment is
deleted on the host by a commit that is reported as successful. `CommitIsComplete` speaks of what was
exported.

### EventTable and PtyTail

`rows` is the table of one key, a function from sequence numbers to events; an append computes the next
number from the rows, so that numbering and trimming may go wrong together, and `ever` (not in the code)
is the list they are compared with. The append is one SQLite transaction and therefore one step.

`PtyTail` extends the table with the PTYs of a session: `mirror[p]` is the coroutine of `startPtyMirror`,
`MirrorOutput`, `MirrorExit` and `MirrorFails` its iterations, `OtherEvent` whatever else is appended to
the session's events. A reader is one iterator of `createRuntimePtyEventStream`; its `next()` is one of
`NextBuffered`, `NextDone`, `Poll` and `PollFails`, and a poll that finds nothing leaves everything as it
is. A scan moves the cursor while it goes through the page, in the order of the times: `Taken` states its
outcome without the loop, a row is taken unless one with a larger number comes before it. A crash ends
mirrors and readers and leaves the rows. A text that `sanitizeValue` does not keep whole is an event of
its own kind. Adapters' streams are taken to end after an exit or to throw.

What the properties except is what the code loses. `EveryReaderEnds` lets a reader poll on once other events
of the session have pushed the exit or failure of its PTY out of the window, and `SkipsNothingRetained`
speaks neither of outputs that a scan has collected when it comes to a failure (it throws, and drops
them) nor of outputs of more than 2048 characters (they are stored as objects, which a reader takes for no
text).

### NodeRegistry

`row` is the `nodes` table, `creds` and `token` the tables of credentials and bootstrap tokens, and
`call[c]` a method call at the hash it awaits, with what it read before: the fingerprint of the manifest
it redeems or enrols ("redeeming", "enrolling") or the hash of a new credential ("issuing"). A method is
cut at its awaits: `enrollNode` is `BeginEnroll` and then `FinishEnroll` or `RefuseEnroll`;
`redeemBootstrapToken` is `BeginRedeem` and then, by the row it finds, `RedeemApproved`, `RedeemPending`
(which goes on as an enrolment) or `RefuseRedeem`; `approveNode` is `Approve` and `FinishIssue`.

A manifest is a value with a node id and a key, so that two manifests may differ in what they declare,
in the key, or in the node. `reviewed` and `interrupted` are not in the code: what was approved last,
and whose issue of a credential a crash cut short. `Admits` is the check of a connection
(`transport-wss.ts:101`).

Two properties describe what the code does when calls overlap rather than exclude it. The check of a
key is made on the row read before the hash is awaited, and so is the check of a token's binding; a
second call in between is decided by a row that is gone. `KeyChangesOnlyInRace` and
`TokenRebindsOnlyInRace` say that this is the only way.

### RemoteSessions and RuntimeSelection

`RemoteSessions` composes the session service, the selection, the remote node adapter and the lease
scheduler, with the agents of the nodes as the external part. `LeaseScheduler` is the module that
`JobLifecycle` uses; what it calls a job is here the job row that carries a session. `row` and `rtjob`
are the rows of the session and of that job, `call[s]` is the `createSession` of `s`: "selecting" while
`health()` is awaited (`SelectBegins`, `HealthTold`), "chosen", and then on its way to the agent ("sent",
"held", "refused", "dropped"). `use` is one operation on a session that is in flight. `wire[n]` keeps
the order of the requests to a node, and the steps of the agent (`AgentCreates`, `AgentDestroys`,
`AgentOpens`, `AgentServes`) take them from it. `shells` are the terminals agents run, `mirrors` the
entries of `activePtyMirrors`, each with the opening it belongs to, since an agent may use an identifier
again. `Drop`, `Lapse`, `NodeRecordChanges`, `CannotSend` and `Crash` are the mishaps that `MaxMishaps` bounds
together; `recon` is what the reconciliation after a restart has still to look at.

`orphaned` is not in the code. It holds the sessions whose agent was left without notice: the lease ran
out, a restart released it (`control-plane-database.ts:319` releases the leases of live sessions as well),
or the destruction could not be sent. `HeldIsAccounted` and `AgentWithinCapacity` except them, since
they do run on.

`RuntimeSelection` is a list of operators. That the comparison is a strict order, whatever the
candidates and criteria, and that its head is the best one, are `StrictOrder` and `SelectedIsFirst`; the
assumption `SelectionOrder` of `MCRemoteSessions` evaluates them over all pairs of 48 candidates and 6 criteria.

### Api: ApiRequests, LaunchCapabilities, PreviewPaths

`Api` composes two groups of routes that share the clock and the restarts and no table; a behaviour has
clients of one group, which is what `Groups` bounds.

`ApiRequests`: a handler looks its principal up, awaits the body and runs on. `requests[r]` is one that
awaits; `CreateJob`, `CreateApiKey`, `RevokeApiKey` are the rest of a handler in one step,
`ExchangeBegins`, `ExchangeReturns` and `ExchangeFails` the exchange, which awaits the identity provider
between its look at the record and its answer. `records` is `idempotency_records`; reading them with a key
prunes the expired ones (`Pruned`), as the code does. `Candidates` and `Binds` are `resolveBinding`, which
has three names to find a session by and an order of preference among them. `CreateJobCut` is a restart
between the row of a job and its record. A request that is refused changes nothing and is no step.

`LaunchCapabilities`: `live`, `byPreview`, `byScope`, `tombstones` and `timers` are the maps of the preview service,
`rows` the `previews` table, `grants` what every token was minted for (tokens are numbered). `launching[s]`
counts the launches of a service that await the adapter. A timer fires when it is due or later, and is
armed again when the expiry was further off than `setTimeout` can wait. `withdrawn` and `lost` are not in the code: what
each revocation was for, and which tokens a restart has forgotten.

`PreviewPaths` is the path arithmetic, on sequences of segments. Its conversions are the code's: ".." is
dropped at the root, the URL escapes segments, and the router hands the escaped path back as it stands.
`FileLinksStayInside` therefore promises that a link opens its own entry only when no segment had to be escaped.

### Sandboxes: SandboxProvider, NodeSandboxes, RuntimeSandboxes

`state` is what the provider has, `call[c]` an adapter call at the request it awaits, with the instance it
works on and what it has read of the caches. A request is carried out in the step its answer arrives in;
an error may hide that it was carried out (`MakeFails`, `KillFails`), and `lost` (not in the code)
records the instances that were hidden so, or by a restart. The provider may end an instance by itself
(`InstanceEnds`). The adapters of one kind differ where the code does: OpenSandbox and docker give every instance a new
name, the Cloudflare adapter names it after its owner, caches process and port of a service and exposes
ports; docker creates and starts in two requests.

The service calls of the node adapters read `nodeInstances`, `serviceProcesses` and `servicePorts` before their awaits
and write them after, and two of them may overlap. `racedNodes`, `raced`, `erred` and `endedNodes` (not in the code) record
where calls overlapped, where a request failed, and whose instance the provider has ended: what the adapters
promise beside those cases are the properties, and each exception is one that TLC finds to be needed.

## 3. Runs

Every run checks deadlock off: the systems may legitimately come to rest (all jobs finished and the
bounds used up).

| Run | Instance | Shows |
|---|---|---|
| `jobs` | 2 jobs, one sandbox and one remote node with one slot each, up to 2 aborts per job in flight, 1 lapse of a lease, 1 crash; symmetric jobs | all safety properties of the job service, and that it implements `JobRecord` |
| `jobs_live` | the same for 1 job, under fairness | every accepted job settles |
| `stream` | 2 clients, history of 2, compaction floor 3, 7 events | buffer, delivery and cleanup of the broker |
| `sessions` | either 2 read-write sessions of one root and 2 concurrent callers, without crash; or 1 caller, a staged and an unstaged session, the second without `getSession`, and 1 crash | exclusion of writers, manifest under a ready stage, finality of destruction; a blocking writer always has somebody who can remove it |
| `sessions_writer` | the first of these | finding: a second commit makes two active writers |
| `transport` | an execution, its abort, a PTY; 2 sockets, which may overlap; 1 event of the execution, an output and the exit of the PTY; fairness | order, completeness and end of event streams; everything in flight is reachable and settles unless sockets overlapped; health follows the connection |
| `workspace_stage` | archive or file API; 2 paths, 2 contents, 2 host edits, 2 sandbox edits, 2 commits, 1 crash; symmetric paths and contents | rollback restores, success is complete, contested edits survive a crash and a second commit |
| `pty_tail` | 2 PTYs, 1 reader, 4 events in a window of 2, 2 times, 1 crash; fairness of the reader | numbering and trimming; order, completeness and end of streams |
| `registry` | 4 manifests of 2 nodes and 2 keys, 1 token, 2 calls in flight, 2 credentials, 1 crash; symmetric calls | only reviewed manifests are admitted, older credentials are rotated, an approved node has one; keys and bindings change in races only |
| `remote` | 2 sessions with different needs, 2 remote nodes and a sandbox node of one slot each, 1 terminal identifier, 2 openings, 2 mishaps | agents hold what leases say and within capacity; ready sessions are leased and fit their node; open terminals are recorded; only approved nodes are asked |
| `api` | requests: 2 at once, 1 idempotency key, 4 bodies, 2 jobs, 2 exchanges, 1 API key, clock to 2; links: 2 workspaces with one preview id, 1 service, 3 descriptors, 3 asked paths, 2 tokens, 1 tombstone, clock to 4; restarts at any step; symmetric requests and workspaces | replays and retries make one job and fit what was asked; one binding per client; revoked links stay shut, indexes and timers follow the links, files stay inside |
| `sandboxes` | each of three providers; 1 job, 1 node with 1 service, 1 session, 2 calls at once, 2 instances per owner, 1 failure, 1 restart; symmetric calls | caches name no ended instance, exposed ports are known, destroyed is gone, running is held, ready is listening, statuses are true |

A run's invariants are few, and some are conjunctions of parts that the modules name and comment one by
one:

| Property | Parts |
|---|---|
| `MemoryFitsRecord` | `TypeOK`, `CacheCoherent`, `AbortMarkJustified` |
| `HistoryIsWindow`, `ClientsAreServed` | `TypeOK`, `HistoryIsRecent`, `BufferBounded`; `OpenStreamIsCurrent`, `ClosedStreamTellsOutcome` |
| `StreamsAreFaithful`, `ConnectionsAgree` | `HeardInOrder`, `DoneIsComplete`, `SettledStreamEnds`; `TypeOK`, `InFlightReachable`, `HealthTellsConnection` |
| `ReadersKeepOrder` | `DeliversInOrder`, `EndsWithExit` |
| `NewestCredentialStands`, `IdentityChangesOnlyInRace` | `OlderAreRotated`, `ApprovedHasCredential`; `KeyChangesOnlyInRace`, `TokenRebindsOnlyInRace` |
| `AgentsFollowLeases`, `PlacementHolds` | `TypeOK`, `HeldIsAccounted`, `AgentWithinCapacity`; `ReadyIsLeased`, `PlacedWhereItCanRun`, `OnlyApprovedAreAsked` |
| `AnswersHold`, `LinkMapsAgree` | `AnswersFitTheRequest`, `ReplayedTokenLives`; `TypeOK`, `IndexesFollowLinks`, `RecordsHaveTimers`, `LatestRevocationsAreTold` |
| `CachesAreTrue`, `AnswersAreTrue` | `TypeOK`, `CachedIsUsable`, `ExposedIsKnown`; `DestroyedIsGone`, `ToldTruly`, `ReadyIsListening` |

The type invariant of every module is either part of a checked property or proved (`RuntimeSessions`,
`PtyTail`, `NodeRegistry`). `TerminalIsFinal` of `JobLifecycle` is proved; the run checks the stronger `ImplementsRecord`.

Why the bounds are enough. *Jobs*: two jobs compete for one slot of a node, so capacity, release and
expiry involve a rival; a second abort in flight is what the abort mark is shared by; one lapse lets a
lease expire under a running job and be issued again; one crash at any step leaves every combination
of tables that a crash can leave, and a second starts from the repaired tables, which are again tables
of a behaviour without crash. The safety part needs no trust in this argument, since it is proved.
*Stream*: with a history of 2 and a floor of 3, seven events pass through two compactions, and a client
can attach before, between and after them; this part is proved as well. *Sessions*: exclusion is about
pairs of sessions, and a race needs two callers; a reconciliation works on its list one entry at a time,
so two entries show both orders of entry and call.

*Transport*: what sockets do to each other takes a pair, and an event can be lost, repeated or overtaken
by an answer with one event of the execution, and with an output and an exit of the PTY. *Staging*: a conflict
is of one path, a rollback relates two; the second commit meets what the first left. *Tail*: a window of 2 of
4 events is trimmed under a reader at any point of its scan; proved for all sizes. *Registry*: a race is of
two calls on one node, the second node shows a token that is bound elsewhere; proved for all sizes.
*Remote*: two sessions compete for the slot of the only node that fits both, and a terminal
identifier used twice needs two openings; two mishaps can hit the two sides of one session. *API*: a replay
is a pair of requests, and so is a race of two links for one tombstone. *Sandboxes*: a race on a cache takes two calls,
and an error that hides a success one failure.

How the sessions are used is a record `setting` of `RuntimeSessions`, chosen at the start (the constant
`Settings`): the callers, the stage modes, the adapters that can be asked, the number of crashes, and
whether callers discard a session whose creation has not returned (`earlyDiscard`). The code does not
forbid such a discard: the session stops counting as a writer, a successor may be created, and then the
first creation returns and makes its stage ready. A reconciliation after a restart does the same to a session
that has been created since its list was read. `FreshWriterExclusive` and `ReadyStageHasBaseline` are therefore promised
for `Undisturbed` settings; that exclusion fails otherwise is near to the finding `sessions_writer`.

## 4. Fairness

`jobs_live`, `transport` and `pty_tail` need fairness. In `jobs_live`, an external call that the code awaits settles,
one way or the other (`LocalSettles`, `RemoteSettles`, `AbortSettles`: weak fairness of the
continuation of every suspended call), and a crashed process is started again. Nothing is assumed of
the order of the calls, of events (a stream may end without one), of clients or of the clock. That
calls settle is an assumption on HTTP and the nodes: the code sets no timeout on them (hazard at
`local-jobs.ts:427`); a node that never answers holds its job and its lease for ever. In `transport`, the node answers what it was
asked, an open socket delivers, and the loss of a socket is noticed in the end (the Bun server closes
idle and broken sockets). In `pty_tail`, a client that has not hung up asks for the next event, and the reader's
50 ms timer fires; mirrors and other events are under no obligation.

## 5. Proofs

All theorems hold for every value of the constants that the assumptions admit: `LeaseAssumption` and
`JobAssumption` (finitely many jobs, any nodes, capacities, aborts, lapses and crashes), `StreamAssumption`
(any history size, compaction floor, events and clients), `SettingsAssumption`, `RegistryAssumption`, `NoneAssumption`,
`RetentionAssumption`, `TailAssumption`, `TransportAssumption`, `StageAssumption`, `RemoteAssumption`, `MaxNowAssumption`, `LifeAssumption`,
`RecordAssumption`, `IndexAssumption`, `ProviderAssumption` and `InstanceAssumption`. TLC evaluates them in the runs.

**Job service** (`JobLifecycleProofs`). The inductive invariant `IInv` consists of the properties the run
`jobs` checks and two strengthenings. `StoppedHasNoMemory` is needed because after a crash nothing but
the tables may be left for the reconciliation. `CoroutineConsistent` ties each coroutine to its job:
a lease is given back by the coroutine that got it only if a run handle is held no longer than the
await it belongs to, and an ended coroutine has settled its job only if a terminal event it saw has
made the job terminal. The proof goes in layers. `TypeOK` is preserved by every group of actions.
`RecordInv` and `ControlInv` (the other conjuncts, by the variables they read) are
preserved together: the lemmas on `Persist`, `Hydrate` and `Apply` say once what a change of the
record does, and one lemma per group of actions uses them. Capacity is separate, as it counts:
`LeasesShrinkCapacity` for every step that only ends leases, `IssueLeaseCapacity` for the step that
adds one. `NextChange` says how one step may change the record; from it follow `FinalTheorem`
(a terminal status never changes) and `Refinement` (every step is a step of `JobRecord` or stutters).

**Runtime sessions** (`RuntimeSessionsProofs`). For every set of sessions and callers, and every way the service is used. The proof
has two invariants. `Core` holds always: what adapters answer (`AnswersFit`), which calls and statuses
imply a reference (`ReferenceKept`), that a creation is alone in creating its session (`CreationIsFirst`),
that the list of the reconciliation speaks of sessions with references (`ListIsTrue`), and that a
session in creation has somebody to end it (`CreatingHasOwner`). From it follow types, `BlockingWriterHasOwner`
and `DestroyedNeverReady`. `Quiet` holds for `Undisturbed` settings: no other call touches a session while it is
created (`CreationIsAlone`), and a stage that is being cleared is not made ready by anybody (`ClearedIsNotReady`); it yields
the exclusion of fresh writers and the manifest under a ready stage.

**Stream broker** (`StreamProofs`). `IInv` adds `EntryConsistent`, the relation between the broker's
entry and the phase of the job. The central lemma is `PushWindow`: appending, skipping and
compacting leave a window of consecutive events that ends with the new one. Delivery follows, because a replay hands
over that window and a subscription continues at its end.

**Outbound transport** (`AdapterProofs`). For every set of requests and of sockets, and every number of events. `Connected`
says how the parts hang together. The connection in the map is of the youngest socket, and nobody knows of a
loss of it (`Youngest`): any close empties the map. A request is pending on the connection it was sent
on (`Placed`), and no frame about it is on an older socket (`Spoken`). Hence only the current socket can bring
a frame of a request that can still be settled (`DeliverEffect`). Of such a request (`Live`), `LiveFits`
says that its stream and the frames on their way are, together, what the node has sent, that nothing follows its
last frame, and that a PTY's answer is ahead of its exit. That a frame taken from the wire or put onto it keeps this is
shown once, of sequences (`HeadFollows`, `AppendFollows` and their like). The streams of the others no longer change.

**Workspace staging** (`WorkspaceStageProofs`). For every set of paths and of contents, any transport, and every number of edits,
commits and crashes. `IInv` has one part for each stretch of the code. Before the first file operation the
commit has saved and changed nothing (`NothingYet`). What the host scan has read is what others had left,
unless they came later (`ScanFits`). While the difference is applied (`ApplyFits`), a path without a backup is
untouched, a backup is what others had left (`BackedUp`), and a path the loops are through with holds the
outcome (`Applied`); a written path always has a backup, which is why an edit that comes after the write
counts as later than the backup. While it is undone (`RollbackFits`), the paths of each loop are those with a
backup of that kind, and the ones already done are as others had left them. `OutcomeFits` keeps what each
ending has left behind, across the edits that follow it. `TypeOK` alone is not inductive: that a restored
path gets a file, and not the mark for "no backup", needs `RollbackFits`. The three properties then
follow from `OutcomeFits` by the case of the path in `diffWorkspaceStage`.

**PTY tail** (`StreamProofs`). For every retention, number of PTYs, readers and events. The invariant `TailInv` says that the table is the
window of the latest events (`HoldsLatest`), that nothing but other events follows the exit of a PTY
(`ExitIsLast`: its mirror is over), and of each reader (`ReaderConsistent`) that what it has read lies
between its first and its present cursor, belongs to its PTY, and is buffered after what it has
delivered. `HoldsLatest` is inductive by itself, given a positive retention (`RetentionAssumption`), since
the number of the next row can be computed from a window that always holds the last one. `ExitIsLast` is
needed for `EndsWithExit`: the exit is the largest number that a reader receives.

`NoSkipTheorem` has the hypothesis that the clock is not set back. Then times and numbers are in the same
order (`TimesInOrder`), a scan takes every fresh row (`TakenIsFresh`), and a page is the whole table
(`PageIsTable`, from the assumption that the retention is at most the page limit, 200 and 1000 in the
code). Without the hypothesis it is false: with `ClockStepsBack = TRUE`, TLC finds the skipped output.

**Node registry** (`NodeRegistryProofs`). For every set of nodes, manifests, tokens and calls. Three strengthenings
make the invariant inductive. `SinceLooksBack`: a credential, or a request for one, was preceded by as
many credentials as it says; without it a rotation could not be known to reach all older ones.
`ApprovedIsReviewed`: every write of a row other than the approval makes it pending. `RedemptionFitsBinding`:
the binding a redemption holds fits its manifest, across the two awaits that follow. The two action
properties follow from the invariant and one look at each action.

**Sessions on remote nodes** (`RemoteSessionsProofs`). For any sessions, nodes, capacities, capabilities and terminals, and any
number of mishaps. That an agent stays within its capacity is not obvious, because `destroySession` releases the lease while
the request is still on the wire, and the slot may be leased again at once. What saves it is that requests to a node stay in
order. `After(n, k)` is what the agent of `n` may hold when it has taken `k` of the requests on its wire: in the end no more than
what has an active lease (`Accounted`), and on the way never more than its manifest allows (`PrefixesFit`), since a
new creation stands behind the destruction that made room for it. `WireFits` says which requests can be
on the wire: a creation once, at the node of the lease, while its call waits; a destruction after that call; any other
for the operation in flight. `CallsFit` ties the row of a session to the stage of its creation, and
the lapse of a lease to `orphaned`. `Mirrored` is about the terminals: one mirror each, and no two that run have the same name, although
an identifier is used again. `Placed` is the rest of `PlacementHolds`, whose last part, `OnlyApprovedAreAsked`, is
an action property and follows step by step from what each action sends. The proof treats the types, the agents (`NextAgents`),
the calls with their requests (`NextOthers`) and the mirrors (`NextMirrored`) one after the other.

**Launch links** (`ApiProofs`). For every set of workspaces, previews, services and descriptors, every
limit of tombstones, every number of tokens and restarts. `IndexInv` says that the indexes hold exactly
the live links, and that these have been minted; each of the four ways to change the maps (a mint, a
removal, a restart, none) has a lemma. `WithdrawnInv`, that nothing a revocation was for is in the map,
rests on it: a revocation reaches links through the index alone, and finds all of them only because the
index is exact. No property of the tombstones is needed for that; they only decide between 403 and 410.

`MapsTheorem` is about them. `OrderInv` orders the tokens by the time of their revocation, and those of one revocation
by their minting (`Before`): no token is withdrawn twice, the tombstones are listed in that order, and a token minted since the last restart that has
not expired is in the map, or a tombstone, or has `MaxRevoked` tokens after it (`TokensFit`). That is inductive: `Trimmed` drops the first
of the list only when the limit is exceeded by later ones (`KeptOrder`), and the later ones are never fewer afterwards
(`AfterGrows`). Lists are sets in order (`InOrder`), whose existence is proved by the least size of a set without one (`OrderExists`).

`FilesTheorem` follows a path segment by segment: a normalized path has no ".." left (`NormalizeClean`), and normalizing
one without ".." changes nothing (`NormalizeSame`), so the root followed by the relative path of the entry is the entry
(`LinkOpensDefault`). It assumes of the constants that `IndexFile` is not "..", and that the descriptors' paths are sequences of strings.

**Requests** (`ApiProofs`). For every number of requests at once, keys, bodies, lives of records and tokens. `RequestInv`
adds to `OneStandingJobPerKey` that a job that stands is on record, under its workspace and key, for the life of a record
from its submission (`StandingIsRecorded`): a second submission then finds the record, and cannot add a job. A
restart between the row and the record (`CutInv`) leaves a job that no record knows, but its repair fails it in the
same step. `RecordsFit` says that records answer with what was made for them, which gives `AnswersHold`. That a client
has one binding (`BindingInv`) needs that `ORDER BY ... LIMIT 1` finds a row whenever there is one (`FindsOne`), the
least-number principle (`Least`) applied to the rows' ages.

**Sandboxes** (`AdapterProofs`). For every set of jobs, nodes, services and sessions, any number of calls in flight,
instances, errors and restarts, and each provider. `SandboxInv` has four layers. Names: a call, a cache or a reference names
an instance that was made for its own owner (`NamesFit`), and where a call waits tells what it does (`Shape`). Sessions:
a session in creation has no reference and no other call, and later calls go to its reference (`SessionsFit`), which is why a
destroyed session has nothing left. Instances: whoever creates one for a node is alone in that or the node is raced
(`CreatorsFit`), what is being disposed of has left the cache (`DisposedIsForgotten`), and what runs is named by
a cache, a reference or a call that will end or return it (`RunningIsKept`; `RunningIsHeld` alone is not inductive, since a call
that names an instance may end without ending it). Services: a service without a race or an error has one call at a time, so that what
the call has read is still so after its awaits (`ServicesFit`). Each action has one lemma for the names and one for the
rest; what a step leaves alone is said once (`QuietSessions`, `QuietNodes`, `InstanceStep`, `ServiceStep`).
`AnswersAreTrue` holds of the steps: `ToldStep` and `ReadyStep` derive what is told from the invariant before the step.

Checked by TLC only: `EveryJobSettles`, `EveryReaderEnds` and `EveryRequestSettles` (liveness under fairness is out of
the prover's reach). Every other property of the passing runs is proved. No module declares a recursive operator; the one recursive function, the walk over a path,
is reasoned about through the set of the indices up to which a claim holds (`UpTo`), which needs no induction theorem.

## 6. Findings

Places where a document, a comment or the title of a test says one thing and the code does another;
each is shown by a run that violates the statement.

* `sessions_writer`: the session service's comment says it enforces a single active writer per
  host workspace root. The check is made at creation only, and a session that has committed may commit again
  beside its successor.

Disagreements met while modelling that no run states; the properties say what holds in spite of them:

* An expired lease frees its node while its job runs on (`workspace-store.ts:947`); the requirements
  (`planning/main/or3-net-requirements.md:213`) have such a job failed or retried.
* The broker forgets a finished job after a while and at a restart; the next client gets an empty stream
  that nobody closes (`job-streams.ts:107`), where `docs/concepts/jobs-and-sessions.md:39` keeps the
  history available.
* A rejected `getSession` ends the reconciliation of runtime sessions, and what comes after it stays unmarked
  (`sessions.ts:746`).
* The late close of a socket detaches the connection that has replaced it (`transport-wss.ts:132`, `:171`), and the requests of
  the old connection wait for ever.
* A failed read during an export is taken for a deletion (`sessions.ts:924`) and committed to the host.
* Previews are registered under a workspace and an id, but their links are kept and revoked by the id alone
  (`service.ts:269`); `planning/main/08-files-tunnels-previews.md:359` has previews workspace-scoped.
* A launch of a service that awaits its adapter while the service is revoked mints a link that nobody has
  revoked (`app.ts:760`). Registering a revoked preview again makes it launchable (`service.ts:83`).
* Launches of links are not deduplicated, which `planning/platform-standardization/requirements.md:76` asks for; two
  exchanges at once under one key each issue a token, where `wire-contracts.md:73` (in the same directory) returns the
  stored one.
* Percent-encoded segments of a launch URL are never decoded (`app.ts:854`, `service.ts:513`), so a link to a file
  whose name had to be escaped does not open it.
* A `createSession` that fails after its lease was taken keeps it until it runs out; the lease of a live session is never
  renewed (300 s); a restart releases the leases of live sessions (`control-plane-database.ts:319`).
* The adapter's `copyIn` and `copyOut` send a path and no session (`remote-node.ts:415`).
* A status of Cloudflare that the adapter does not know is told as ready (`cloudflare-sandbox.ts:326`).

## 7. Not modelled, and the plan

Done: the job core with its proofs, the stream broker with its proofs, the runtime sessions with their proofs, the outbound transport with its proofs, workspace staging with its proofs, event retention with the PTY tail, the node registry with its proofs, sessions on remote nodes with their selection, the API's requests and launch links and the sandbox adapters with their proofs. Next,
most important first:

1. `WorkspaceStage` with two commits of one session that overlap: they share the export and the rollback
   directories, and `sessions.ts:403` lets the second one in.
2. The in-process handlers of the transport (`attachConnection`), and the composition of `NodeTransport`
   with `RemoteSessions`, whose `wire` is so far an assumption on it.

An abstract specification worth stating after `JobRecord`: an atomic workspace commit (all paths or
none), for `WorkspaceStage`.

Left out for good: routes that only read or pass a call on, the console, CLI and the Intern SDK (no state of their
own); signatures and hashes (stateless verification, a condition of the model's inputs); what runs and is
copied inside a sandbox or a session; SQL, codecs and listings of the store; contracts (schemas; their value
sets are the types in the type invariants); agents and the runtime registry (independent rows, a table
filled once).
