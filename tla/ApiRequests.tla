------------------------------ MODULE ApiRequests ------------------------------
(***************************************************************************)
(* The requests of the API that make things (src/src/api/app.ts) with the  *)
(* services under them: exchange of a session proof for a token, API keys  *)
(* (src/src/auth/service.ts), job submission under an idempotency key, and *)
(* the binding of the client's session (src/src/session/service.ts).       *)
(*                                                                         *)
(* A handler is two steps: the principal is looked up, then the body is    *)
(* awaited, and what follows runs to its end (an exchange: the record is   *)
(* read, the provider is awaited, the answer is kept).  A request that is  *)
(* refused changes nothing and is not a step.  Everything here is a row of *)
(* the database and survives a restart; the requests in flight do not.     *)
(***************************************************************************)
EXTENDS WallClock, Sequences, FiniteSets, SequencesExt

CONSTANTS
  None,
  Slots,                        \* requests the host handles at a time
  ApiWorkspaces,
  SubmitKeys, ExchangeKeys,     \* Idempotency-Key headers of the two routes, or None
  Bodies,                       \* job bodies: who the session is, by one of three names
  Proofs,                       \* bodies of an exchange
  TokenScopes, KeyScopes,       \* scopes the provider gives a user, and users give API keys
  TokenLife, JobRecordLife,     \* 15 min, 24 h
  MaxExchanges, MaxKeys, MaxJobs   \* bounds: rows of each kind

VARIABLES
  requests,     \* by slot, the request whose body (or provider) is awaited, or None
  tokens,       \* workspace tokens issued: they are signed, not stored
  apiKeys,      \* api_keys
  records,      \* idempotency_records, by scope, owner and key
  jobs,         \* jobs, in the order they were submitted
  bindings,     \* network_sessions, in the order they were made
  told          \* history: the answers given to submissions, as <<body, job>>

requestVars == <<requests, tokens, apiKeys, records, jobs, bindings, told>>

ASSUME RecordAssumption ==
  /\ TokenLife \in Nat \ {0} /\ JobRecordLife \in Nat \ {0}
  /\ MaxExchanges \in Nat /\ MaxKeys \in Nat /\ MaxJobs \in Nat

Free(r) == requests[r] = None

--------------------------------------------------------------------------------
\* Who asks: authenticateBearerToken and requirePrincipal.

\* validateWorkspaceToken, findActiveApiKeyByHash: what makes a principal now.
Principals ==
  {p \in ToSet(tokens) : p.expires > now}
  \union {p \in ToSet(apiKeys) : ~p.revoked /\ (p.expires = None \/ p.expires > now)}

\* Each route asks for a scope.
RouteScope(op) == CASE op = "submit" -> "jobs:write"
                    [] op \in {"key.create", "key.revoke"} -> "api-keys:write"

HasScope(principal, scope) == "*" \in principal.scopes \/ scope \in principal.scopes

MayAsk(op, w) == \E p \in Principals : p.workspace = w /\ HasScope(p, RouteScope(op))

\* A request with a principal for its workspace and its scope waits for its body.
Admit(r, request) ==
  /\ Free(r)
  /\ MayAsk(request.op, request.workspace)
  /\ requests' = [requests EXCEPT ![r] = request]
  /\ UNCHANGED <<tokens, apiKeys, records, jobs, bindings, told>>

Asked(r, op) == ~Free(r) /\ requests[r].op = op

Done(r) == requests' = [requests EXCEPT ![r] = None]

--------------------------------------------------------------------------------
\* Idempotency records.

Scope(request) == IF request.op = "submit" THEN "jobs.create" ELSE "auth.exchange"

\* auth.exchange is scoped by the provider, and owned by the workspace the client
\* asks for or, without one, by the provider again.
Id(request) == <<Scope(request), request.workspace, request.key>>

Pruned == [id \in {i \in DOMAIN records : records[i].expires > now} |-> records[id]]

\* readIdempotencyRecord: nothing to look for without a key; expired ones are deleted.
Known(request) == request.key # None /\ Id(request) \in DOMAIN Pruned
Conflicts(request) == Known(request) /\ Pruned[Id(request)].body # request.body

\* A record for the very body answers the request.
Replays(request) == Known(request) /\ ~Conflicts(request)

AfterRead(request) == IF request.key = None THEN records ELSE Pruned

\* saveIdempotencyRecord: an upsert, unless there is no key.
Keep(request, answer, expires) ==
  records' = IF request.key = None THEN records
             ELSE [id \in DOMAIN AfterRead(request) \union {Id(request)} |->
                     IF id = Id(request)
                     THEN [body |-> request.body, answer |-> answer, expires |-> expires]
                     ELSE AfterRead(request)[id]]

\* Defect: every record stands for a day.
RecordExpiryDay(request) == now + JobRecordLife

\* The record of a submission stands for a day, that of an exchange as long as its token.
RecordExpiry(request) ==
  IF request.op = "submit" THEN now + JobRecordLife ELSE now + TokenLife

--------------------------------------------------------------------------------
\* Exchange of a session proof.

\* handleExchange up to the provider's await.
ExchangeBegins(r, w, key, body) ==
  LET request == [op |-> "exchange", workspace |-> w, key |-> key, body |-> body]
  IN  /\ Free(r)
      /\ ~Known(request)
      /\ records' = AfterRead(request)
      /\ requests' = [requests EXCEPT ![r] = request]
      /\ UNCHANGED <<tokens, apiKeys, jobs, bindings, told>>

\* exchangeSessionProof issues a token, for the workspace and the scopes the provider
\* says, and the answer is kept: nobody looks again whether one has been kept meanwhile.
ExchangeReturns(r) ==
  /\ Asked(r, "exchange")
  /\ Len(tokens) < MaxExchanges
  /\ \E w \in ApiWorkspaces, scopes \in TokenScopes :
       /\ requests[r].workspace # None => w = requests[r].workspace
       /\ tokens' = Append(tokens, [workspace |-> w, scopes |-> scopes, expires |-> now + TokenLife])
  /\ Keep(requests[r], Len(tokens) + 1, RecordExpiry(requests[r]))
  /\ Done(r)
  /\ UNCHANGED <<apiKeys, jobs, bindings, told>>

\* The provider refuses the proof.
ExchangeFails(r) ==
  /\ Asked(r, "exchange")
  /\ Done(r)
  /\ UNCHANGED <<tokens, apiKeys, records, jobs, bindings, told>>

--------------------------------------------------------------------------------
\* API keys.

\* handleCreateApiKey after its body: hashing awaits nothing but itself.
CreateApiKey(r) ==
  /\ Asked(r, "key.create")
  /\ Len(apiKeys) < MaxKeys
  /\ \E scopes \in KeyScopes, expires \in {None, now + 1} :
       apiKeys' = Append(apiKeys, [workspace |-> requests[r].workspace, scopes |-> scopes,
                                   expires |-> expires, revoked |-> FALSE])
  /\ Done(r)
  /\ UNCHANGED <<tokens, records, jobs, bindings, told>>

\* handleRevokeApiKey: any key of the workspace, the asker's own too.
RevokeApiKey(r) ==
  /\ Asked(r, "key.revoke")
  /\ \E k \in DOMAIN apiKeys :
       /\ apiKeys[k].workspace = requests[r].workspace
       /\ apiKeys' = [apiKeys EXCEPT ![k].revoked = TRUE]
  /\ Done(r)
  /\ UNCHANGED <<tokens, records, jobs, bindings, told>>

--------------------------------------------------------------------------------
\* Session bindings.

\* Defect: the session key a client gives is looked up before the client.
CandidatesKeyFirst(w, body) ==
  {b \in DOMAIN bindings :
     /\ bindings[b].workspace = w
     /\ IF body.network_session_id # None THEN b = body.network_session_id
        ELSE IF body.session_key # None THEN bindings[b].session_key = body.session_key
        ELSE bindings[b].client = body.client}

\* getNetworkSession, findNetworkSessionByClient, findNetworkSessionByInternSessionKey:
\* the bindings a body may mean, by the first of the names it gives.
Candidates(w, body) ==
  {b \in DOMAIN bindings :
     /\ bindings[b].workspace = w
     /\ IF body.network_session_id # None THEN b = body.network_session_id
        ELSE IF body.client # None THEN bindings[b].client = body.client
        ELSE bindings[b].session_key = body.session_key}

\* ORDER BY updated_at DESC LIMIT 1: one of those touched last.
Found(w, body) ==
  {b \in Candidates(w, body) :
     \A c \in Candidates(w, body) : bindings[c].touched <= bindings[b].touched}

\* resolveBinding and touchBinding: the binding found, else a new one, whose session
\* key is the client's, or one of its own (None); an unknown id is an error.
Binds(w, body, b) ==
  \/ /\ b \in Found(w, body)
     /\ bindings' = [bindings EXCEPT ![b].touched = now]
  \/ /\ Found(w, body) = {} /\ body.network_session_id = None
     /\ b = Len(bindings) + 1
     /\ bindings' = Append(bindings, [workspace |-> w, client |-> body.client,
                                      session_key |-> body.session_key, touched |-> now])

--------------------------------------------------------------------------------
\* Submission of a job.

\* handleCreateJob after its body, with an answer on record: the same one is given.
Replay(r) ==
  /\ Asked(r, "submit")
  /\ Replays(requests[r])
  /\ told' = told \union {<<requests[r].body, Pruned[Id(requests[r])].answer>>}
  /\ records' = AfterRead(requests[r])
  /\ Done(r)
  /\ UNCHANGED <<tokens, apiKeys, jobs, bindings>>

\* The key was used for another body: 409.
Conflict(r) ==
  /\ Asked(r, "submit")
  /\ Conflicts(requests[r])
  /\ records' = AfterRead(requests[r])
  /\ Done(r)
  /\ UNCHANGED <<tokens, apiKeys, jobs, bindings, told>>

\* submitJob: the session is bound, the job's row is saved and names it.
Submits(request) ==
  \E b \in 1..MaxJobs :
    /\ Binds(request.workspace, request.body, b)
    /\ jobs' = Append(jobs, [workspace |-> request.workspace, key |-> request.key,
                             body |-> request.body, binding |-> b,
                             at |-> now, status |-> "pending"])

\* No record: the job is submitted and its answer kept, with no await in between.
CreateJob(r) ==
  /\ Asked(r, "submit")
  /\ ~Known(requests[r])
  /\ Len(jobs) < MaxJobs
  /\ Submits(requests[r])
  /\ Keep(requests[r], Len(jobs) + 1, RecordExpiry(requests[r]))
  /\ told' = told \union {<<requests[r].body, Len(jobs) + 1>>}
  /\ Done(r)
  /\ UNCHANGED <<tokens, apiKeys>>

\* The run of a job ends (JobLifecycle says how).
JobEnds(j) ==
  /\ jobs[j].status = "pending"
  /\ jobs' = [jobs EXCEPT ![j].status = "ended"]
  /\ UNCHANGED <<requests, tokens, apiKeys, records, bindings, told>>

\* Defect: jobs that never started are left as they are.
ReconciledNot(rows) == rows

\* reconcileStartupState fails every job that had not ended.
Reconciled(rows) ==
  [j \in DOMAIN rows |->
     IF rows[j].status = "pending" THEN [rows[j] EXCEPT !.status = "failed"] ELSE rows[j]]

\* A restart of the host: the requests in flight are gone.
RequestsLost ==
  /\ requests' = [r \in Slots |-> None]
  /\ jobs' = Reconciled(jobs)
  /\ UNCHANGED <<tokens, apiKeys, records, bindings, told>>

\* A restart inside a submission: the job's row is in the database, its record is not.
CreateJobCut(r) ==
  /\ Asked(r, "submit")
  /\ ~Known(requests[r])
  /\ Len(jobs) < MaxJobs
  /\ \E b \in 1..MaxJobs :
       /\ Binds(requests[r].workspace, requests[r].body, b)
       /\ jobs' = Reconciled(Append(jobs,
            [workspace |-> requests[r].workspace, key |-> requests[r].key,
             body |-> requests[r].body, binding |-> b, at |-> now, status |-> "pending"]))
  /\ records' = AfterRead(requests[r])
  /\ requests' = [s \in Slots |-> None]
  /\ UNCHANGED <<tokens, apiKeys, told>>

--------------------------------------------------------------------------------
RequestsInit ==
  /\ requests = [r \in Slots |-> None]
  /\ tokens = <<>> /\ apiKeys = <<>> /\ jobs = <<>> /\ bindings = <<>>
  /\ records = <<>>
  /\ told = {}

Step(r) ==
  \/ \E w \in ApiWorkspaces \union {None}, key \in ExchangeKeys, body \in Proofs : ExchangeBegins(r, w, key, body)
  \/ ExchangeReturns(r)
  \/ ExchangeFails(r)
  \/ \E w \in ApiWorkspaces, key \in SubmitKeys, body \in Bodies :
       Admit(r, [op |-> "submit", workspace |-> w, key |-> key, body |-> body])
  \/ \E w \in ApiWorkspaces, op \in {"key.create", "key.revoke"} :
       Admit(r, [op |-> op, workspace |-> w])
  \/ CreateApiKey(r)
  \/ RevokeApiKey(r)
  \/ Replay(r)
  \/ Conflict(r)
  \/ CreateJob(r)

RequestsNext ==
  /\ UNCHANGED now
  /\ (\E r \in Slots : Step(r)) \/ (\E j \in DOMAIN jobs : JobEnds(j))

--------------------------------------------------------------------------------
\* The state: every request in flight is one of the modelled ones, a record's answer
\* and a job's binding are rows that exist.
RequestsTypeOK ==
  /\ \A r \in Slots : Free(r) \/ requests[r].op \in {"submit", "exchange", "key.create", "key.revoke"}
  /\ Len(tokens) <= MaxExchanges /\ Len(apiKeys) <= MaxKeys /\ Len(jobs) <= MaxJobs
  /\ \A id \in DOMAIN records :
       /\ records[id].body \in Bodies \union Proofs /\ records[id].expires \in Nat
       /\ records[id].answer \in IF id[1] = "jobs.create" THEN DOMAIN jobs ELSE DOMAIN tokens
  /\ \A j \in DOMAIN jobs :
       /\ jobs[j].status \in {"pending", "ended", "failed"}
       /\ jobs[j].binding \in DOMAIN bindings
       /\ bindings[jobs[j].binding].workspace = jobs[j].workspace
  /\ told \subseteq Bodies \X DOMAIN jobs

\* However often a submission is sent again under its key, together or after a restart
\* that came between the job's row and the record's, at most one job of it stands: any
\* other was failed by the restart (handleCreateJob; wire-contracts.md: the same key
\* gives the original job instead of a second one, for as long as the record stands).
OneStandingJobPerKey ==
  \A i, j \in DOMAIN jobs :
    /\ i < j
    /\ jobs[i].key # None /\ jobs[i].key = jobs[j].key /\ jobs[i].workspace = jobs[j].workspace
    /\ jobs[j].at < jobs[i].at + JobRecordLife
    => jobs[i].status = "failed"

\* Whatever a submission is answered, at once or as a replay, is a job made from the
\* very body that was sent (readIdempotencyRecord's comparison of the bodies).
AnswersFitTheRequest == \A a \in told : jobs[a[2]].body = a[1]

\* A token that a repeated exchange would be answered with has not expired: a client
\* never gets a dead token for a fresh proof (handleExchange keeps the answer until the
\* token's own expiry).
ReplayedTokenLives ==
  \A id \in DOMAIN records :
    id[1] = "auth.exchange" /\ records[id].expires > now => tokens[records[id].answer].expires > now

\* A client's session is one binding: jobs it submits by its client id, with or without
\* a session key, land in the same network session (resolveBinding).
OneBindingPerClient ==
  \A b, c \in DOMAIN bindings :
    /\ bindings[b].client # None
    /\ bindings[b].client = bindings[c].client /\ bindings[b].workspace = bindings[c].workspace
    => b = c

\* What a request is answered, at once or as a replay, holds: the job is of its body,
\* the token has not expired.
AnswersHold == AnswersFitTheRequest /\ ReplayedTokenLives
================================================================================
