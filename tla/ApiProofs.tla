------------------------------- MODULE ApiProofs -------------------------------
(***************************************************************************)
(* Proofs about Api: of the launch links, for every set of workspaces,     *)
(* previews, services and descriptors, every number of links and restarts, *)
(* and every limit; of the requests, for every set of slots, keys, bodies  *)
(* and proofs, every life of a record or token, and every bound; of the    *)
(* files of links, for paths of any length.                                *)
(***************************************************************************)
EXTENDS Api, TLAPS, WellFoundedInduction, FiniteSetTheorems, SequenceTheorems

\* Tokens are numbered from 1, the map holds minted ones, and the indexes follow it.
IndexInv ==
  /\ \E S : grants \in Seq(S)
  /\ live \subseteq 1..Len(grants)
  /\ IndexesFollowLinks

LEMMA InitIndex == Init => IndexInv
<1> SUFFICES ASSUME Init PROVE IndexInv
  OBVIOUS
<1>1. grants = << >> /\ grants \in Seq({}) /\ live = {}
  BY DEF Init, LinksInit
<1>2. (\A p \in Previews : byPreview[p] = {}) /\ (\A s \in Services : byScope[s] = {})
  BY DEF Init, LinksInit
<1> QED BY <1>1, <1>2 DEF IndexInv, IndexesFollowLinks

\* deleteLaunchCapability takes a link out of the map and of both indexes.
LEMMA UnlistIndex ==
  ASSUME IndexInv, NEW gone, Unlist(gone), UNCHANGED grants
  PROVE  IndexInv'
<1>1. live' = live \ gone
  BY DEF Unlist
<1>2. (\A p \in Previews : byPreview'[p] = byPreview[p] \ gone) /\ (\A s \in Services : byScope'[s] = byScope[s] \ gone)
  BY DEF Unlist
<1>3. IndexesFollowLinks'
  BY <1>1, <1>2 DEF IndexInv, IndexesFollowLinks
<1>4. (\E S : grants' \in Seq(S)) /\ live' \subseteq 1..Len(grants')
  BY <1>1 DEF IndexInv
<1> QED BY <1>3, <1>4 DEF IndexInv

\* A minted link is entered in the map and in the index of its preview or service.
LEMMA MintIndex ==
  ASSUME IndexInv, NEW grant, Mint(grant)
  PROVE  IndexInv'
<1> DEFINE t == Len(grants) + 1
<1>1. PICK S : grants \in Seq(S)
  BY DEF IndexInv
<1>2. /\ grants' = Append(grants, grant) /\ live' = live \cup {t}
      /\ \A p \in Previews : byPreview'[p] = byPreview[p] \cup (IF p = grant.preview THEN {t} ELSE {})
      /\ \A s \in Services : byScope'[s] = byScope[s] \cup (IF s = grant.service THEN {t} ELSE {})
  BY DEF Mint
<1>3. /\ grants' \in Seq(S \cup {grant}) /\ Len(grants') = Len(grants) + 1 /\ Len(grants) \in Nat
      /\ grants'[t] = grant /\ \A u \in 1..Len(grants) : grants'[u] = grants[u]
  <2>1. grants \in Seq(S \cup {grant})
    BY <1>1
  <2> QED BY <1>2, <2>1
<1>4. t \notin live /\ live' \subseteq 1..Len(grants') /\ \A u \in live : grants'[u] = grants[u]
  <2>1. live \subseteq 1..Len(grants) /\ live' = live \cup {t}
    BY <1>2 DEF IndexInv
  <2> DEFINE n == Len(grants)
  <2>2. n \in Nat /\ Len(grants') = n + 1 /\ t = n + 1 /\ live \subseteq 1..n /\ live' = live \cup {t}
    BY <1>3, <2>1
  <2>3. \A u \in live : grants'[u] = grants[u]
    BY <1>3, <2>1
  <2> HIDE DEF n, t
  <2> QED BY <2>2, <2>3
<1> HIDE DEF t
<1>5. \A p \in Previews : byPreview'[p] = {u \in live' : grants'[u].preview = p}
  <2> SUFFICES ASSUME NEW p \in Previews
               PROVE  byPreview'[p] = {u \in live' : grants'[u].preview = p}
    OBVIOUS
  <2>1. byPreview[p] = {u \in live : grants[u].preview = p}
    BY DEF IndexInv, IndexesFollowLinks
  <2> QED BY <1>2, <1>3, <1>4, <2>1
<1>6. \A s \in Services : byScope'[s] = {u \in live' : grants'[u].service = s}
  <2> SUFFICES ASSUME NEW s \in Services
               PROVE  byScope'[s] = {u \in live' : grants'[u].service = s}
    OBVIOUS
  <2>1. byScope[s] = {u \in live : grants[u].service = s}
    BY DEF IndexInv, IndexesFollowLinks
  <2> QED BY <1>2, <1>3, <1>4, <2>1
<1> QED BY <1>3, <1>4, <1>5, <1>6 DEF IndexInv, IndexesFollowLinks

\* A restart of the host empties the map and both indexes.
LEMMA LostIndex ==
  ASSUME IndexInv, LinksLost
  PROVE  IndexInv'
<1>1. /\ live' = {} /\ grants' = grants
      /\ (\A p \in Previews : byPreview'[p] = {}) /\ (\A s \in Services : byScope'[s] = {})
  BY DEF LinksLost
<1> QED BY <1>1 DEF IndexInv, IndexesFollowLinks

LEMMA SameIndex ==
  ASSUME IndexInv, UNCHANGED <<grants, live, byPreview, byScope>>
  PROVE  IndexInv'
BY DEF IndexInv, IndexesFollowLinks

LEMMA LinksNextIndex ==
  ASSUME IndexInv, LinksNext
  PROVE  IndexInv'
<1>1. ASSUME NEW w \in Workspaces, NEW p \in Previews, RegisterPreview(w, p) \/ LaunchPreview(w, p) \/ RevokePreview(w, p)
      PROVE  IndexInv'
  <2>1. CASE RegisterPreview(w, p)
    BY <2>1, SameIndex DEF RegisterPreview
  <2>2. CASE LaunchPreview(w, p)
    BY <2>2, MintIndex DEF LaunchPreview
  <2>3. CASE RevokePreview(w, p)
    BY <2>3, UnlistIndex DEF RevokePreview, Bury
  <2> QED BY <1>1, <2>1, <2>2, <2>3
<1>2. ASSUME NEW s \in Services,
             ServiceLaunchBegins(s) \/ ServiceLaunchReturns(s) \/ ServiceLaunchFails(s) \/ RevokeService(s)
      PROVE  IndexInv'
  <2>1. CASE ServiceLaunchBegins(s) \/ ServiceLaunchFails(s)
    BY <2>1, SameIndex DEF ServiceLaunchBegins, ServiceLaunchFails
  <2>2. CASE ServiceLaunchReturns(s)
    BY <2>2, MintIndex DEF ServiceLaunchReturns
  <2>3. CASE RevokeService(s)
    BY <2>3, UnlistIndex DEF RevokeService, Bury
  <2> QED BY <1>2, <2>1, <2>2, <2>3
<1>3. CASE NodeChanges
  BY <1>3, SameIndex DEF NodeChanges
<1>4. ASSUME NEW t \in Tokens, OpenExpired(t) \/ TimerFires(t)
      PROVE  IndexInv'
  <2>1. CASE OpenExpired(t)
    BY <2>1, UnlistIndex DEF OpenExpired, Expire
  <2>2. CASE TimerFires(t) /\ Expired(t)
    BY <2>2, UnlistIndex DEF TimerFires, Expire
  <2>3. CASE TimerFires(t) /\ ~Expired(t)
    BY <2>3, SameIndex DEF TimerFires
  <2> QED BY <1>4, <2>1, <2>2, <2>3
<1> QED BY <1>1, <1>2, <1>3, <1>4 DEF LinksNext

LEMMA IndexInvariance == Spec => []IndexInv
<1>1. ASSUME IndexInv, [Next]_vars
      PROVE  IndexInv'
  <2>1. CASE Requests
    BY <1>1, <2>1, SameIndex DEF Requests, linkVars
  <2>2. CASE Links
    BY <1>1, <2>2, LinksNextIndex DEF Links
  <2>3. CASE TimePasses
    BY <1>1, <2>3, SameIndex DEF TimePasses, linkVars
  <2>4. CASE Restart \/ RestartInSubmission
    BY <1>1, <2>4, LostIndex DEF Restart, RestartInSubmission
  <2>5. CASE UNCHANGED vars
    BY <1>1, <2>5, SameIndex DEF vars, linkVars
  <2> QED BY <1>1, <2>1, <2>2, <2>3, <2>4, <2>5 DEF Next
<1> QED BY <1>1, InitIndex, PTL DEF Spec

(***************************************************************************)
(* The indexes hold the live links of each preview and service and nothing *)
(* else (mintLaunchCapability, removeCapabilityFromIndexes).               *)
(***************************************************************************)
THEOREM IndexTheorem == Spec => []IndexesFollowLinks
<1>1. IndexInv => IndexesFollowLinks
  BY DEF IndexInv
<1> QED BY <1>1, IndexInvariance, PTL

-------------------------------------------------------------------------------
(* Revocations. *)

\* What a revocation was for has been minted, and is not in the map any more.
WithdrawnInv ==
  /\ withdrawn \in Seq(SUBSET Nat)
  /\ Withdrawn \subseteq 1..Len(grants)
  /\ Withdrawn \cap live = {}

LEMMA WithdrawEffect ==
  ASSUME withdrawn \in Seq(SUBSET Nat), NEW S \in SUBSET Nat, Withdraw(S)
  PROVE  withdrawn' \in Seq(SUBSET Nat) /\ Withdrawn' = Withdrawn \cup S
<1>1. CASE S \subseteq Withdrawn
  BY <1>1 DEF Withdraw, Withdrawn
<1>2. CASE ~(S \subseteq Withdrawn)
  <2> DEFINE new == S \ Withdrawn
  <2>1. withdrawn' = Append(withdrawn, new) /\ new \in SUBSET Nat
    BY <1>2 DEF Withdraw
  <2> HIDE DEF new
  <2>2. withdrawn' \in Seq(SUBSET Nat)
    BY <2>1
  <2>3. ToSet(withdrawn') = ToSet(withdrawn) \cup {new}
    <3>1. /\ DOMAIN withdrawn' = DOMAIN withdrawn \cup {Len(withdrawn) + 1}
          /\ \A i \in DOMAIN withdrawn : withdrawn'[i] = withdrawn[i]
          /\ withdrawn'[Len(withdrawn) + 1] = new
      BY <2>1
    <3> QED BY <3>1 DEF ToSet
  <2>4. Withdrawn' = Withdrawn \cup new
    BY <2>3 DEF Withdrawn
  <2> QED BY <2>2, <2>4 DEF new
<1> QED BY <1>1, <1>2

\* Links only leave the map, and the revocation is for links that have.
LEMMA RevokedWithdrawn ==
  ASSUME IndexInv, WithdrawnInv, NEW gone, NEW S, S \subseteq DOMAIN grants,
         Unlist(gone), Withdraw(S), UNCHANGED grants, S \cap live \subseteq gone
  PROVE  WithdrawnInv'
<1>1. DOMAIN grants = 1..Len(grants) /\ Len(grants) \in Nat
  BY DEF IndexInv
<1>2. S \in SUBSET Nat
  BY <1>1
<1>3. withdrawn' \in Seq(SUBSET Nat) /\ Withdrawn' = Withdrawn \cup S
  BY <1>2, WithdrawEffect DEF WithdrawnInv
<1>4. live' = live \ gone
  BY DEF Unlist
<1> QED BY <1>1, <1>3, <1>4 DEF WithdrawnInv

LEMMA MintWithdrawn ==
  ASSUME IndexInv, WithdrawnInv, NEW grant, Mint(grant), UNCHANGED withdrawn
  PROVE  WithdrawnInv'
<1> DEFINE n == Len(grants)
<1>1. PICK S : grants \in Seq(S)
  BY DEF IndexInv
<1>2. grants' = Append(grants, grant) /\ live' = live \cup {n + 1}
  BY DEF Mint
<1>3. grants \in Seq(S \cup {grant})
  BY <1>1
<1>4. n \in Nat /\ Len(grants') = n + 1
  BY <1>2, <1>3
<1>5. /\ withdrawn' \in Seq(SUBSET Nat) /\ Withdrawn' = Withdrawn
      /\ Withdrawn \subseteq 1..n /\ Withdrawn \cap live = {}
  BY DEF WithdrawnInv, Withdrawn
<1> HIDE DEF n
<1>6. Withdrawn \subseteq 1..(n + 1) /\ Withdrawn \cap (live \cup {n + 1}) = {}
  BY <1>4, <1>5
<1> QED BY <1>2, <1>4, <1>5, <1>6 DEF WithdrawnInv

LEMMA SameWithdrawn ==
  ASSUME WithdrawnInv, UNCHANGED <<grants, withdrawn>>, live' \subseteq live
  PROVE  WithdrawnInv'
BY DEF WithdrawnInv, Withdrawn

LEMMA LinksNextWithdrawn ==
  ASSUME IndexInv, WithdrawnInv, LinksNext
  PROVE  WithdrawnInv'
<1>1. ASSUME NEW w \in Workspaces, NEW p \in Previews, RegisterPreview(w, p) \/ LaunchPreview(w, p) \/ RevokePreview(w, p)
      PROVE  WithdrawnInv'
  <2>1. CASE RegisterPreview(w, p)
    BY <2>1, SameWithdrawn DEF RegisterPreview
  <2>2. CASE LaunchPreview(w, p)
    BY <2>2, MintWithdrawn DEF LaunchPreview
  <2>3. CASE RevokePreview(w, p)
    <3> DEFINE S == OfPreview(w, p) \cup (byPreview[p] \cap live)
    <3>1. Unlist(byPreview[p]) /\ Withdraw(S) /\ UNCHANGED grants
      BY <2>3 DEF RevokePreview, Bury
    <3>2. S \subseteq DOMAIN grants
      <4>1. DOMAIN grants = 1..Len(grants) /\ live \subseteq 1..Len(grants)
        BY DEF IndexInv
      <4> QED BY <4>1 DEF OfPreview, Tokens
    <3>3. S \cap live \subseteq byPreview[p]
      BY DEF IndexInv, IndexesFollowLinks, OfPreview
    <3> HIDE DEF S
    <3> QED BY <3>1, <3>2, <3>3, RevokedWithdrawn
  <2> QED BY <1>1, <2>1, <2>2, <2>3
<1>2. ASSUME NEW s \in Services,
             ServiceLaunchBegins(s) \/ ServiceLaunchReturns(s) \/ ServiceLaunchFails(s) \/ RevokeService(s)
      PROVE  WithdrawnInv'
  <2>1. CASE ServiceLaunchBegins(s) \/ ServiceLaunchFails(s)
    BY <2>1, SameWithdrawn DEF ServiceLaunchBegins, ServiceLaunchFails
  <2>2. CASE ServiceLaunchReturns(s)
    BY <2>2, MintWithdrawn DEF ServiceLaunchReturns
  <2>3. CASE RevokeService(s)
    <3>1. Unlist(byScope[s]) /\ Withdraw(OfService(s)) /\ UNCHANGED grants
      BY <2>3 DEF RevokeService, Bury
    <3>2. OfService(s) \subseteq DOMAIN grants
      BY DEF OfService, Tokens
    <3>3. OfService(s) \cap live \subseteq byScope[s]
      BY DEF IndexInv, IndexesFollowLinks, OfService
    <3> QED BY <3>1, <3>2, <3>3, RevokedWithdrawn
  <2> QED BY <1>2, <2>1, <2>2, <2>3
<1>3. CASE NodeChanges
  BY <1>3, SameWithdrawn DEF NodeChanges
<1>4. ASSUME NEW t \in Tokens, OpenExpired(t) \/ TimerFires(t)
      PROVE  WithdrawnInv'
  <2>1. live' \subseteq live /\ UNCHANGED <<grants, withdrawn>>
    BY <1>4 DEF OpenExpired, TimerFires, Expire, Unlist
  <2> QED BY <2>1, SameWithdrawn
<1> QED BY <1>1, <1>2, <1>3, <1>4 DEF LinksNext

LEMMA WithdrawnStep == IndexInv /\ WithdrawnInv /\ [Next]_vars => WithdrawnInv'
<1> SUFFICES ASSUME IndexInv, WithdrawnInv, [Next]_vars PROVE WithdrawnInv'
  OBVIOUS
<1>1. CASE Requests
  BY <1>1, SameWithdrawn DEF Requests, linkVars
<1>2. CASE Links
  BY <1>2, LinksNextWithdrawn DEF Links
<1>3. CASE TimePasses
  BY <1>3, SameWithdrawn DEF TimePasses, linkVars
<1>4. CASE Restart \/ RestartInSubmission
  BY <1>4, SameWithdrawn DEF Restart, RestartInSubmission, LinksLost
<1>5. CASE UNCHANGED vars
  BY <1>5, SameWithdrawn DEF vars, linkVars
<1> QED BY <1>1, <1>2, <1>3, <1>4, <1>5 DEF Next

LEMMA WithdrawnInvariance == Spec => []WithdrawnInv
<1>1. Init => WithdrawnInv
  <2> SUFFICES ASSUME Init PROVE WithdrawnInv
    OBVIOUS
  <2>1. withdrawn = << >> /\ live = {}
    BY DEF Init, LinksInit
  <2>2. Withdrawn = {}
    BY <2>1 DEF Withdrawn, ToSet
  <2> QED BY <2>1, <2>2 DEF WithdrawnInv
<1> QED BY <1>1, WithdrawnStep, IndexInvariance, PTL DEF Spec

(***************************************************************************)
(* A link never opens again once its preview or its service was revoked,   *)
(* for any previews, services, limits of tombstones and restarts.          *)
(***************************************************************************)
THEOREM RevocationTheorem == Spec => []RevokedNeverOpens
<1>1. WithdrawnInv => RevokedNeverOpens
  BY DEF WithdrawnInv, RevokedNeverOpens, Answer
<1> QED BY <1>1, WithdrawnInvariance, PTL

-------------------------------------------------------------------------------
(* Requests: what is on record. *)

Submission == [op : {"submit"}, workspace : ApiWorkspaces, key : SubmitKeys, body : Bodies]
Exchange == [op : {"exchange"}, workspace : ApiWorkspaces \cup {None}, key : ExchangeKeys, body : Proofs]
KeyCall == [op : {"key.create", "key.revoke"}, workspace : ApiWorkspaces]
JobRow == [workspace : ApiWorkspaces, key : SubmitKeys, body : Bodies, binding : 1..MaxJobs,
           at : Nat, status : {"pending", "ended", "failed"}]
TokenRow == [workspace : ApiWorkspaces, scopes : TokenScopes, expires : Nat]

InFlight == {None} \cup Submission \cup Exchange \cup KeyCall

RowTypes ==
  /\ now \in Nat
  /\ requests \in [Slots -> InFlight]
  /\ jobs \in Seq(JobRow) /\ tokens \in Seq(TokenRow)
  /\ \A id \in DOMAIN records : records[id].expires \in Nat

\* A record answers with a row that was made for it, and so do the answers given.
RecordFits(id) ==
  /\ id[1] = "jobs.create" =>
       records[id].answer \in DOMAIN jobs /\ jobs[records[id].answer].body = records[id].body
  /\ id[1] = "auth.exchange" =>
       records[id].answer \in DOMAIN tokens /\ tokens[records[id].answer].expires = records[id].expires
AnswerFits(a) == a[2] \in DOMAIN jobs /\ jobs[a[2]].body = a[1]
RecordsFit == (\A id \in DOMAIN records : RecordFits(id)) /\ (\A a \in told : AnswerFits(a))

Stands(i) == jobs[i].key # None /\ jobs[i].status # "failed"
JobId(i) == <<"jobs.create", jobs[i].workspace, jobs[i].key>>

\* A job that stands is on record for the life of a record.
StandingIsRecorded ==
  \A i \in DOMAIN jobs : Stands(i) /\ now < jobs[i].at + JobRecordLife =>
    JobId(i) \in DOMAIN records /\ records[JobId(i)].expires >= jobs[i].at + JobRecordLife

RequestInv == RowTypes /\ RecordsFit /\ StandingIsRecorded /\ OneStandingJobPerKey

\* Reading forgets expired records only.
Forgets ==
  /\ \A id \in DOMAIN records' : id \in DOMAIN records /\ records'[id] = records[id]
  /\ \A id \in DOMAIN records : records[id].expires > now => id \in DOMAIN records'

LEMMA ReadEffect ==
  ASSUME NEW request, records' = AfterRead(request)
  PROVE  Forgets
BY DEF AfterRead, Pruned, Forgets

\* Saving forgets expired records too, and sets the one of the request.
Saves(request, answer, expires) ==
  /\ \A id \in DOMAIN records' :
       \/ id \in DOMAIN records /\ records'[id] = records[id]
       \/ /\ id = Id(request) /\ records'[id].answer = answer
          /\ records'[id].expires = expires /\ records'[id].body = request.body
  /\ \A id \in DOMAIN records : records[id].expires > now /\ id # Id(request) =>
       id \in DOMAIN records' /\ records'[id] = records[id]
  /\ request.key # None => Id(request) \in DOMAIN records' /\ records'[Id(request)].expires = expires

LEMMA SaveEffect ==
  ASSUME NEW request, NEW answer, NEW expires, Keep(request, answer, expires)
  PROVE  Saves(request, answer, expires)
<1> DEFINE id0 == Id(request)
           new == [body |-> request.body, answer |-> answer, expires |-> expires]
<1>1. CASE request.key = None
  <2>1. records' = records
    BY <1>1 DEF Keep
  <2> QED BY <1>1, <2>1 DEF Saves
<1>2. CASE request.key # None
  <2>1. records' = [id \in DOMAIN Pruned \cup {id0} |-> IF id = id0 THEN new ELSE Pruned[id]]
    BY <1>2 DEF Keep, AfterRead
  <2>2. new.answer = answer /\ new.expires = expires /\ new.body = request.body
    OBVIOUS
  <2> HIDE DEF id0, new
  <2>3. /\ DOMAIN records' = DOMAIN Pruned \cup {id0}
        /\ records'[id0] = new
        /\ \A id \in DOMAIN Pruned : id # id0 => records'[id] = Pruned[id]
    BY <2>1
  <2>4. /\ \A id \in DOMAIN Pruned : id \in DOMAIN records /\ Pruned[id] = records[id]
        /\ \A id \in DOMAIN records : records[id].expires > now => id \in DOMAIN Pruned
    BY DEF Pruned
  <2> QED BY <2>2, <2>3, <2>4 DEF Saves, id0
<1> QED BY <1>1, <1>2

\* Ends and restarts change nothing of a job but its status, and no failed job's.
JobsGo ==
  /\ jobs' \in Seq(JobRow) /\ DOMAIN jobs' = DOMAIN jobs
  /\ \A i \in DOMAIN jobs :
       /\ jobs'[i].workspace = jobs[i].workspace /\ jobs'[i].key = jobs[i].key
       /\ jobs'[i].body = jobs[i].body /\ jobs'[i].at = jobs[i].at
       /\ jobs'[i].binding = jobs[i].binding
       /\ jobs[i].status = "failed" => jobs'[i].status = "failed"

LEMMA SameJobsGo == ASSUME jobs \in Seq(JobRow), jobs' = jobs PROVE JobsGo
BY DEF JobsGo

LEMMA JobEndsGo ==
  ASSUME jobs \in Seq(JobRow), NEW j \in DOMAIN jobs, JobEnds(j)
  PROVE  JobsGo
<1>1. Len(jobs) \in Nat /\ DOMAIN jobs = 1..Len(jobs) /\ \A i \in DOMAIN jobs : jobs[i] \in JobRow
  OBVIOUS
<1>2. jobs' = [jobs EXCEPT ![j].status = "ended"] /\ jobs[j].status = "pending"
  BY DEF JobEnds
<1>3. DOMAIN jobs' = DOMAIN jobs /\ \A i \in DOMAIN jobs : i # j => jobs'[i] = jobs[i]
  BY <1>2
<1>4. /\ jobs'[j] = [jobs[j] EXCEPT !.status = "ended"]
      /\ jobs[j] \in JobRow
  BY <1>1, <1>2
<1>5. /\ jobs'[j] \in JobRow
      /\ jobs'[j].workspace = jobs[j].workspace /\ jobs'[j].key = jobs[j].key
      /\ jobs'[j].body = jobs[j].body /\ jobs'[j].at = jobs[j].at
      /\ jobs'[j].binding = jobs[j].binding
  BY <1>4 DEF JobRow
<1>6. jobs' = [i \in 1..Len(jobs) |-> jobs'[i]]
  BY <1>1, <1>2
<1>7. jobs' \in [1..Len(jobs) -> JobRow]
  BY <1>1, <1>3, <1>5, <1>6
<1>8. jobs' \in Seq(JobRow)
  BY <1>1, <1>7
<1> QED BY <1>2, <1>3, <1>5, <1>8 DEF JobsGo

\* Reconciliation, of any rows.
LEMMA ReconciledRows ==
  ASSUME NEW rs \in Seq(JobRow)
  PROVE  /\ Reconciled(rs) \in Seq(JobRow) /\ DOMAIN Reconciled(rs) = DOMAIN rs
         /\ \A i \in DOMAIN rs :
              /\ Reconciled(rs)[i].workspace = rs[i].workspace /\ Reconciled(rs)[i].key = rs[i].key
              /\ Reconciled(rs)[i].body = rs[i].body /\ Reconciled(rs)[i].at = rs[i].at
              /\ Reconciled(rs)[i].binding = rs[i].binding
              /\ rs[i].status \in {"pending", "failed"} => Reconciled(rs)[i].status = "failed"
<1> DEFINE new == Reconciled(rs)
<1>1. Len(rs) \in Nat /\ DOMAIN rs = 1..Len(rs) /\ \A i \in DOMAIN rs : rs[i] \in JobRow
  OBVIOUS
<1>2. /\ new = [i \in DOMAIN rs |-> new[i]]
      /\ \A i \in DOMAIN rs :
           new[i] = IF rs[i].status = "pending" THEN [rs[i] EXCEPT !.status = "failed"] ELSE rs[i]
  BY DEF Reconciled
<1>3. ASSUME NEW i \in DOMAIN rs
      PROVE  /\ new[i] \in JobRow
             /\ new[i].workspace = rs[i].workspace /\ new[i].key = rs[i].key
             /\ new[i].body = rs[i].body /\ new[i].at = rs[i].at /\ new[i].binding = rs[i].binding
             /\ rs[i].status \in {"pending", "failed"} => new[i].status = "failed"
  <2>1. rs[i] \in [workspace : ApiWorkspaces, key : SubmitKeys, body : Bodies, binding : 1..MaxJobs,
                   at : Nat, status : {"pending", "ended", "failed"}]
    BY <1>1 DEF JobRow
  <2>2. CASE rs[i].status = "pending"
    <3>1. new[i] = [rs[i] EXCEPT !.status = "failed"]
      BY <1>2, <2>2
    <3> HIDE DEF new
    <3> QED BY <2>1, <3>1 DEF JobRow
  <2>3. CASE rs[i].status # "pending"
    <3>1. new[i] = rs[i]
      BY <1>2, <2>3
    <3> HIDE DEF new
    <3> QED BY <1>1, <2>3, <3>1
  <2> QED BY <2>2, <2>3
<1> HIDE DEF new
<1>4. DOMAIN new = DOMAIN rs
  BY <1>2
<1>5. new \in [1..Len(rs) -> JobRow]
  BY <1>1, <1>2, <1>3
<1>6. new \in Seq(JobRow)
  BY <1>1, <1>5
<1> QED BY <1>3, <1>4, <1>6 DEF new

\* A submission adds one job, at the end, and may end others as a restart does.
JobsGrow(request) ==
  LET n == Len(jobs)
  IN  /\ jobs' \in Seq(JobRow) /\ Len(jobs') = n + 1
      /\ \A i \in 1..n :
           /\ jobs'[i].workspace = jobs[i].workspace /\ jobs'[i].key = jobs[i].key
           /\ jobs'[i].body = jobs[i].body /\ jobs'[i].at = jobs[i].at
           /\ jobs'[i].binding = jobs[i].binding
           /\ jobs[i].status = "failed" => jobs'[i].status = "failed"
      /\ jobs'[n + 1].workspace = request.workspace /\ jobs'[n + 1].key = request.key
      /\ jobs'[n + 1].body = request.body /\ jobs'[n + 1].at = now
      /\ Binds(request.workspace, request.body, jobs'[n + 1].binding)

LEMMA AppendRows ==
  ASSUME jobs \in Seq(JobRow), NEW new \in JobRow
  PROVE  /\ Append(jobs, new) \in Seq(JobRow)
         /\ Len(jobs) \in Nat /\ Len(Append(jobs, new)) = Len(jobs) + 1
         /\ DOMAIN Append(jobs, new) = 1..(Len(jobs) + 1)
         /\ \A i \in 1..Len(jobs) : Append(jobs, new)[i] = jobs[i]
         /\ Append(jobs, new)[Len(jobs) + 1] = new
OBVIOUS

LEMMA NewRow ==
  ASSUME now \in Nat, NEW request \in Submission, NEW b \in 1..MaxJobs
  PROVE  LET new == [workspace |-> request.workspace, key |-> request.key, body |-> request.body,
                     binding |-> b, at |-> now, status |-> "pending"]
         IN  new \in JobRow
BY DEF Submission, JobRow

LEMMA SubmitsGrow ==
  ASSUME RowTypes, NEW request \in Submission, Submits(request)
  PROVE  JobsGrow(request)
<1>1. PICK b \in 1..MaxJobs :
        /\ Binds(request.workspace, request.body, b)
        /\ jobs' = Append(jobs, [workspace |-> request.workspace, key |-> request.key, body |-> request.body,
                                 binding |-> b, at |-> now, status |-> "pending"])
  BY DEF Submits
<1> DEFINE new == [workspace |-> request.workspace, key |-> request.key, body |-> request.body,
                   binding |-> b, at |-> now, status |-> "pending"]
<1>2. new \in JobRow
  BY NewRow DEF RowTypes
<1>3. /\ new.workspace = request.workspace /\ new.key = request.key /\ new.body = request.body
      /\ new.at = now /\ new.binding = b
  OBVIOUS
<1>4. jobs' = Append(jobs, new)
  BY <1>1
<1> HIDE DEF new
<1>5. jobs \in Seq(JobRow)
  BY DEF RowTypes
<1> QED BY <1>1, <1>2, <1>3, <1>4, <1>5, AppendRows DEF JobsGrow

LEMMA CutGrow ==
  ASSUME RowTypes, NEW r \in Slots, requests[r] \in Submission, CreateJobCut(r)
  PROVE  JobsGrow(requests[r]) /\ jobs'[Len(jobs) + 1].status = "failed"
<1> DEFINE request == requests[r]
<1>1. PICK b \in 1..MaxJobs :
        /\ Binds(request.workspace, request.body, b)
        /\ jobs' = Reconciled(Append(jobs, [workspace |-> request.workspace, key |-> request.key, body |-> request.body,
                                            binding |-> b, at |-> now, status |-> "pending"]))
  BY DEF CreateJobCut
<1> DEFINE new == [workspace |-> request.workspace, key |-> request.key, body |-> request.body,
                   binding |-> b, at |-> now, status |-> "pending"]
           rs == Append(jobs, new)
<1>2. new \in JobRow
  BY NewRow DEF RowTypes
<1>3. /\ new.workspace = request.workspace /\ new.key = request.key /\ new.body = request.body
      /\ new.at = now /\ new.binding = b /\ new.status = "pending"
  OBVIOUS
<1>4. jobs' = Reconciled(rs)
  BY <1>1
<1> HIDE DEF new
<1>5. /\ rs \in Seq(JobRow) /\ Len(jobs) \in Nat /\ DOMAIN rs = 1..(Len(jobs) + 1)
      /\ \A i \in 1..Len(jobs) : rs[i] = jobs[i]
      /\ rs[Len(jobs) + 1] = new
  BY <1>2, AppendRows DEF RowTypes
<1> HIDE DEF rs
<1>6. /\ jobs' \in Seq(JobRow) /\ DOMAIN jobs' = DOMAIN rs
      /\ \A i \in DOMAIN rs :
           /\ jobs'[i].workspace = rs[i].workspace /\ jobs'[i].key = rs[i].key
           /\ jobs'[i].body = rs[i].body /\ jobs'[i].at = rs[i].at
           /\ jobs'[i].binding = rs[i].binding
           /\ rs[i].status \in {"pending", "failed"} => jobs'[i].status = "failed"
  BY <1>4, <1>5, ReconciledRows
<1>7. Len(jobs') = Len(jobs) + 1
  BY <1>5, <1>6
<1>8. \A i \in 1..Len(jobs) :
        /\ jobs'[i].workspace = jobs[i].workspace /\ jobs'[i].key = jobs[i].key
        /\ jobs'[i].body = jobs[i].body /\ jobs'[i].at = jobs[i].at
        /\ jobs'[i].binding = jobs[i].binding
        /\ jobs[i].status = "failed" => jobs'[i].status = "failed"
  <2> SUFFICES ASSUME NEW i \in 1..Len(jobs)
               PROVE  /\ jobs'[i].workspace = jobs[i].workspace /\ jobs'[i].key = jobs[i].key
                      /\ jobs'[i].body = jobs[i].body /\ jobs'[i].at = jobs[i].at
                      /\ jobs'[i].binding = jobs[i].binding
                      /\ jobs[i].status = "failed" => jobs'[i].status = "failed"
    OBVIOUS
  <2>1. i \in DOMAIN rs /\ rs[i] = jobs[i]
    BY <1>5
  <2> QED BY <1>6, <2>1
<1>9. LET i == Len(jobs) + 1
      IN  /\ jobs'[i].workspace = request.workspace /\ jobs'[i].key = request.key
          /\ jobs'[i].body = request.body /\ jobs'[i].at = now
          /\ jobs'[i].binding = b /\ jobs'[i].status = "failed"
  <2>1. Len(jobs) + 1 \in DOMAIN rs
    BY <1>5
  <2> QED BY <1>3, <1>5, <1>6, <2>1
<1> QED BY <1>1, <1>6, <1>7, <1>8, <1>9 DEF JobsGrow

-------------------------------------------------------------------------------
(* Requests: the parts of the invariant, step by step. *)

\* A request in flight is of the kind that its handler asks for.
LEMMA AskedTypes ==
  ASSUME RowTypes, NEW r \in Slots
  PROVE  /\ Asked(r, "submit") => requests[r] \in Submission
         /\ Asked(r, "exchange") => requests[r] \in Exchange
BY DEF RowTypes, InFlight, Asked, Free, Submission, Exchange, KeyCall

LEMMA ScopeOf ==
  /\ \A request \in Submission : Id(request)[1] = "jobs.create"
  /\ \A request \in Exchange : Id(request)[1] = "auth.exchange"
BY DEF Submission, Exchange, Id, Scope

LEMMA RowsOf ==
  ASSUME NEW rs \in Seq(JobRow)
  PROVE  /\ Len(rs) \in Nat /\ DOMAIN rs = 1..Len(rs)
         /\ \A i \in DOMAIN rs : rs[i].at \in Nat
<1>1. Len(rs) \in Nat /\ DOMAIN rs = 1..Len(rs) /\ \A i \in DOMAIN rs : rs[i] \in JobRow
  OBVIOUS
<1>2. \A row \in JobRow : row.at \in Nat
  BY DEF JobRow
<1> QED BY <1>1, <1>2

\* Records of submissions that have not expired are kept as they are.
RecordsStay ==
  \A id \in DOMAIN records : id[1] = "jobs.create" /\ records[id].expires > now =>
    id \in DOMAIN records' /\ records'[id] = records[id]

LEMMA GoStands ==
  ASSUME RowTypes, StandingIsRecorded, OneStandingJobPerKey,
         JobsGo, RecordsStay, now' \in Nat, now' >= now
  PROVE  StandingIsRecorded' /\ OneStandingJobPerKey'
<1>1. \A i \in DOMAIN jobs : jobs[i].at \in Nat
  BY RowsOf DEF RowTypes
<1>2. ASSUME NEW i \in DOMAIN jobs', Stands(i)', now' < jobs'[i].at + JobRecordLife
      PROVE  JobId(i)' \in DOMAIN records' /\ records'[JobId(i)'].expires >= jobs'[i].at + JobRecordLife
  <2>1. i \in DOMAIN jobs /\ Stands(i) /\ JobId(i)' = JobId(i) /\ jobs'[i].at = jobs[i].at
    BY <1>2 DEF JobsGo, Stands, JobId
  <2>2. now < jobs[i].at + JobRecordLife /\ jobs[i].at + JobRecordLife \in Nat
    BY <1>1, <1>2, <2>1, RecordAssumption DEF RowTypes
  <2>3. JobId(i) \in DOMAIN records /\ records[JobId(i)].expires >= jobs[i].at + JobRecordLife
    BY <2>1, <2>2 DEF StandingIsRecorded
  <2>4. records[JobId(i)].expires > now
    BY <2>2, <2>3 DEF RowTypes
  <2>5. JobId(i)[1] = "jobs.create"
    BY DEF JobId
  <2> QED BY <2>1, <2>3, <2>4, <2>5 DEF RecordsStay
<1>3. OneStandingJobPerKey'
  BY DEF OneStandingJobPerKey, JobsGo
<1> QED BY <1>2, <1>3 DEF StandingIsRecorded

\* A job that is added finds no standing one of its key, for that would be on record.
LEMMA GrowStands ==
  ASSUME RowTypes, StandingIsRecorded, OneStandingJobPerKey,
         NEW request \in Submission, ~Known(request), JobsGrow(request), UNCHANGED now,
         \A id \in DOMAIN records : id # Id(request) /\ records[id].expires > now =>
           id \in DOMAIN records' /\ records'[id] = records[id],
         \/ jobs'[Len(jobs) + 1].status = "failed"
         \/ request.key # None => /\ Id(request) \in DOMAIN records'
                                  /\ records'[Id(request)].expires = now + JobRecordLife
  PROVE  StandingIsRecorded' /\ OneStandingJobPerKey'
<1> DEFINE n == Len(jobs)
<1>1. /\ n \in Nat /\ DOMAIN jobs = 1..n /\ DOMAIN jobs' = 1..(n + 1)
      /\ \A i \in 1..n : jobs[i].at \in Nat
  <2>1. jobs \in Seq(JobRow) /\ jobs' \in Seq(JobRow) /\ Len(jobs') = Len(jobs) + 1
    BY DEF RowTypes, JobsGrow
  <2> QED BY <2>1, RowsOf
<1>2. now \in Nat /\ JobRecordLife \in Nat
  BY RecordAssumption DEF RowTypes
<1>3. /\ \A i \in 1..n :
           /\ jobs'[i].workspace = jobs[i].workspace /\ jobs'[i].key = jobs[i].key
           /\ jobs'[i].at = jobs[i].at
           /\ jobs[i].status = "failed" => jobs'[i].status = "failed"
      /\ jobs'[n + 1].workspace = request.workspace /\ jobs'[n + 1].key = request.key
      /\ jobs'[n + 1].at = now
  BY DEF JobsGrow
<1>4. Id(request) = <<"jobs.create", request.workspace, request.key>>
  BY DEF Id, Scope, Submission
<1> HIDE DEF n
<1>5. ASSUME NEW i \in 1..n, Stands(i), now < jobs[i].at + JobRecordLife
      PROVE  /\ JobId(i) # Id(request)
             /\ JobId(i) \in DOMAIN records' /\ records'[JobId(i)].expires >= jobs[i].at + JobRecordLife
  <2>1. JobId(i) \in DOMAIN records /\ records[JobId(i)].expires >= jobs[i].at + JobRecordLife
    BY <1>1, <1>5 DEF StandingIsRecorded
  <2>2. records[JobId(i)].expires > now
    BY <1>1, <1>2, <1>5, <2>1 DEF RowTypes
  <2>3. JobId(i) # Id(request)
    <3> SUFFICES ASSUME JobId(i) = Id(request) PROVE FALSE
      OBVIOUS
    <3>1. request.key # None
      BY <1>4, <1>5 DEF JobId, Stands
    <3>2. Id(request) \in DOMAIN Pruned
      BY <2>1, <2>2 DEF Pruned
    <3> QED BY <3>1, <3>2 DEF Known
  <2> QED BY <2>1, <2>2, <2>3
<1>6. ASSUME NEW i \in 1..(n + 1), Stands(i)', now < jobs'[i].at + JobRecordLife
      PROVE  JobId(i)' \in DOMAIN records' /\ records'[JobId(i)'].expires >= jobs'[i].at + JobRecordLife
  <2>1. CASE i \in 1..n
    <3>1. Stands(i) /\ JobId(i)' = JobId(i) /\ jobs'[i].at = jobs[i].at
      BY <1>3, <1>6, <2>1 DEF Stands, JobId
    <3> QED BY <1>5, <1>6, <2>1, <3>1
  <2>2. CASE i = n + 1
    <3>1. jobs'[n + 1].status # "failed" /\ request.key # None /\ JobId(i)' = Id(request)
      BY <1>3, <1>4, <1>6, <2>2 DEF Stands, JobId
    <3>2. jobs'[Len(jobs) + 1].status # "failed"
      BY <3>1 DEF n
    <3>3. Id(request) \in DOMAIN records' /\ records'[Id(request)].expires = now + JobRecordLife
      BY <3>1, <3>2
    <3> QED BY <1>2, <1>3, <2>2, <3>1, <3>3
  <2> QED BY <1>1, <1>6, <2>1, <2>2
<1>7. StandingIsRecorded'
  BY <1>1, <1>6 DEF StandingIsRecorded
<1>8. ASSUME NEW i \in 1..(n + 1), NEW j \in 1..(n + 1), i < j,
             jobs'[i].key # None, jobs'[i].key = jobs'[j].key, jobs'[i].workspace = jobs'[j].workspace,
             jobs'[j].at < jobs'[i].at + JobRecordLife
      PROVE  jobs'[i].status = "failed"
  <2>1. i \in 1..n
    BY <1>1, <1>8
  <2>2. CASE j \in 1..n
    <3>1. jobs[i].status = "failed"
      BY <1>1, <1>3, <1>8, <2>1, <2>2 DEF OneStandingJobPerKey
    <3> QED BY <1>3, <2>1, <3>1
  <2>3. CASE j = n + 1
    <3>1. JobId(i) = Id(request) /\ jobs[i].key # None /\ now < jobs[i].at + JobRecordLife
      BY <1>3, <1>4, <1>8, <2>1, <2>3 DEF JobId
    <3>2. jobs[i].status = "failed"
      BY <1>5, <2>1, <3>1 DEF Stands
    <3> QED BY <1>3, <2>1, <3>2
  <2> QED BY <1>1, <1>8, <2>2, <2>3
<1>9. OneStandingJobPerKey'
  BY <1>1, <1>8 DEF OneStandingJobPerKey
<1> QED BY <1>7, <1>9

\* What is added to the rows leaves what refers to them true.
LEMMA FitStep ==
  ASSUME RecordsFit,
         \A i \in DOMAIN jobs : i \in DOMAIN jobs' /\ jobs'[i].body = jobs[i].body,
         \A t \in DOMAIN tokens : t \in DOMAIN tokens' /\ tokens'[t].expires = tokens[t].expires,
         \A id \in DOMAIN records' : (id \in DOMAIN records /\ records'[id] = records[id]) \/ RecordFits(id)',
         \A a \in told' : a \in told \/ AnswerFits(a)'
  PROVE  RecordsFit'
<1>1. ASSUME NEW id \in DOMAIN records', id \in DOMAIN records, records'[id] = records[id]
      PROVE  RecordFits(id)'
  <2>1. RecordFits(id)
    BY <1>1 DEF RecordsFit
  <2> QED BY <1>1, <2>1 DEF RecordFits
<1>2. ASSUME NEW a \in told', a \in told
      PROVE  AnswerFits(a)'
  <2>1. AnswerFits(a)
    BY <1>2 DEF RecordsFit
  <2> QED BY <2>1 DEF AnswerFits
<1> QED BY <1>1, <1>2 DEF RecordsFit

\* Steps that add no row: records may be forgotten, and an answer on record given.
LEMMA ForgetInv ==
  ASSUME RequestInv, Forgets, UNCHANGED <<now, jobs, tokens>>,
         requests' \in [Slots -> InFlight],
         \A a \in told' : a \in told \/ AnswerFits(a)
  PROVE  RequestInv'
<1>1. RowTypes /\ RecordsFit /\ StandingIsRecorded /\ OneStandingJobPerKey
  BY DEF RequestInv
<1>2. RowTypes'
  BY <1>1 DEF RowTypes, Forgets
<1>3. \A a \in told' : a \in told \/ AnswerFits(a)'
  BY DEF AnswerFits
<1>4. RecordsFit'
  BY <1>1, <1>3, FitStep DEF Forgets
<1>5. JobsGo /\ RecordsStay /\ now' \in Nat /\ now' >= now
  BY <1>1, SameJobsGo DEF RowTypes, Forgets, RecordsStay
<1> QED BY <1>1, <1>2, <1>4, <1>5, GoStands DEF RequestInv

\* The clock, the ends of jobs and restarts.
LEMMA GoInv ==
  ASSUME RequestInv, JobsGo, UNCHANGED <<tokens, records, told>>,
         now' \in Nat, now' >= now, requests' \in [Slots -> InFlight]
  PROVE  RequestInv'
<1>1. RowTypes /\ RecordsFit /\ StandingIsRecorded /\ OneStandingJobPerKey
  BY DEF RequestInv
<1>2. RowTypes'
  BY <1>1 DEF RowTypes, JobsGo
<1>3. RecordsFit'
  BY <1>1, FitStep DEF JobsGo
<1>4. RecordsStay
  BY DEF RecordsStay
<1> QED BY <1>1, <1>2, <1>3, <1>4, GoStands DEF RequestInv

\* A token that is issued is kept as the answer for its own life.
LEMMA ExchangeInv ==
  ASSUME RequestInv, NEW r \in Slots, ExchangeReturns(r), UNCHANGED now
  PROVE  RequestInv'
<1> DEFINE request == requests[r]
           n == Len(tokens)
<1>1. RowTypes /\ RecordsFit /\ StandingIsRecorded /\ OneStandingJobPerKey
  BY DEF RequestInv
<1>2. request \in Exchange /\ Id(request)[1] = "auth.exchange" /\ RecordExpiry(request) = now + TokenLife
  <2>1. request \in Exchange
    BY <1>1, AskedTypes DEF ExchangeReturns
  <2> QED BY <2>1, ScopeOf DEF RecordExpiry, Exchange
<1>3. PICK w \in ApiWorkspaces, scopes \in TokenScopes :
        tokens' = Append(tokens, [workspace |-> w, scopes |-> scopes, expires |-> now + TokenLife])
  BY DEF ExchangeReturns
<1> DEFINE new == [workspace |-> w, scopes |-> scopes, expires |-> now + TokenLife]
<1>4. new \in TokenRow /\ new.expires = now + TokenLife /\ now + TokenLife \in Nat
  BY <1>1, RecordAssumption DEF RowTypes, TokenRow
<1>5. tokens \in Seq(TokenRow) /\ tokens' = Append(tokens, new)
  BY <1>1, <1>3 DEF RowTypes
<1>6. UNCHANGED <<jobs, told>> /\ Keep(request, n + 1, now + TokenLife)
  BY <1>2 DEF ExchangeReturns
<1>7. requests' \in [Slots -> InFlight]
  BY <1>1 DEF ExchangeReturns, Done, RowTypes, InFlight
<1> HIDE DEF new
<1>8. /\ tokens' \in Seq(TokenRow) /\ n \in Nat /\ DOMAIN tokens = 1..n /\ DOMAIN tokens' = 1..(n + 1)
      /\ \A t \in 1..n : tokens'[t] = tokens[t]
      /\ tokens'[n + 1] = new
  BY <1>4, <1>5
<1> HIDE DEF n
<1>9. Saves(request, n + 1, now + TokenLife)
  BY <1>6, SaveEffect
<1> HIDE DEF request
<1>10. RowTypes'
  BY <1>1, <1>4, <1>6, <1>7, <1>8, <1>9 DEF RowTypes, Saves
<1>11. \A id \in DOMAIN records' : (id \in DOMAIN records /\ records'[id] = records[id]) \/ RecordFits(id)'
  BY <1>2, <1>4, <1>8, <1>9 DEF Saves, RecordFits
<1>12. RecordsFit'
  BY <1>1, <1>6, <1>8, <1>11, FitStep
<1>13. JobsGo /\ RecordsStay /\ now' \in Nat /\ now' >= now
  <2>1. RecordsStay
    BY <1>2, <1>9 DEF Saves, RecordsStay
  <2> QED BY <1>1, <1>6, <2>1, SameJobsGo DEF RowTypes
<1> QED BY <1>1, <1>10, <1>12, <1>13, GoStands DEF RequestInv

\* The job that a submission adds is the answer that is kept and given.
LEMMA CreateInv ==
  ASSUME RequestInv, NEW r \in Slots, CreateJob(r), UNCHANGED now
  PROVE  RequestInv'
<1> DEFINE request == requests[r]
           n == Len(jobs)
<1>1. RowTypes /\ RecordsFit /\ StandingIsRecorded /\ OneStandingJobPerKey
  BY DEF RequestInv
<1>2. /\ request \in Submission /\ Id(request)[1] = "jobs.create" /\ ~Known(request)
      /\ RecordExpiry(request) = now + JobRecordLife
  <2>1. request \in Submission /\ ~Known(request)
    BY <1>1, AskedTypes DEF CreateJob
  <2> QED BY <2>1, ScopeOf DEF RecordExpiry, Submission
<1>3. JobsGrow(request)
  BY <1>1, <1>2, SubmitsGrow DEF CreateJob
<1>4. /\ UNCHANGED tokens /\ Keep(request, n + 1, now + JobRecordLife)
      /\ told' = told \cup {<<request.body, n + 1>>}
  BY <1>2 DEF CreateJob
<1>5. requests' \in [Slots -> InFlight]
  BY <1>1 DEF CreateJob, Done, RowTypes, InFlight
<1>6. /\ jobs' \in Seq(JobRow) /\ n \in Nat /\ DOMAIN jobs = 1..n /\ DOMAIN jobs' = 1..(n + 1)
      /\ \A i \in 1..n : jobs'[i].body = jobs[i].body
      /\ jobs'[n + 1].body = request.body
  BY <1>1, <1>3, RowsOf DEF JobsGrow, RowTypes
<1>7. Saves(request, n + 1, now + JobRecordLife) /\ now \in Nat /\ now + JobRecordLife \in Nat
  BY <1>1, <1>4, SaveEffect, RecordAssumption DEF RowTypes
<1> HIDE DEF n
<1>8. StandingIsRecorded' /\ OneStandingJobPerKey'
  BY <1>1, <1>2, <1>3, <1>7, GrowStands DEF Saves
<1> HIDE DEF request
<1>9. RowTypes'
  BY <1>1, <1>4, <1>5, <1>6, <1>7 DEF RowTypes, Saves
<1>10. \A id \in DOMAIN records' : (id \in DOMAIN records /\ records'[id] = records[id]) \/ RecordFits(id)'
  BY <1>2, <1>6, <1>7 DEF Saves, RecordFits
<1>11. \A a \in told' : a \in told \/ AnswerFits(a)'
  BY <1>4, <1>6 DEF AnswerFits
<1>12. RecordsFit'
  BY <1>1, <1>4, <1>6, <1>10, <1>11, FitStep
<1> QED BY <1>8, <1>9, <1>12 DEF RequestInv

\* A submission that a restart cuts off leaves a failed job.
LEMMA CutInv ==
  ASSUME RequestInv, NEW r \in Slots, CreateJobCut(r), UNCHANGED now
  PROVE  RequestInv'
<1> DEFINE request == requests[r]
           n == Len(jobs)
<1>1. RowTypes /\ RecordsFit /\ StandingIsRecorded /\ OneStandingJobPerKey
  BY DEF RequestInv
<1>2. request \in Submission /\ ~Known(request)
  BY <1>1, AskedTypes DEF CreateJobCut
<1>3. JobsGrow(request) /\ jobs'[n + 1].status = "failed"
  BY <1>1, <1>2, CutGrow
<1>4. UNCHANGED <<tokens, told>> /\ Forgets
  BY ReadEffect DEF CreateJobCut
<1>5. requests' \in [Slots -> InFlight]
  BY DEF CreateJobCut, InFlight
<1>6. /\ jobs' \in Seq(JobRow) /\ n \in Nat /\ DOMAIN jobs = 1..n /\ DOMAIN jobs' = 1..(n + 1)
      /\ \A i \in 1..n : jobs'[i].body = jobs[i].body
  BY <1>1, <1>3, RowsOf DEF JobsGrow, RowTypes
<1>7. StandingIsRecorded' /\ OneStandingJobPerKey'
  BY <1>1, <1>2, <1>3, <1>4, GrowStands DEF Forgets
<1>8. RowTypes'
  BY <1>1, <1>4, <1>5, <1>6 DEF RowTypes, Forgets
<1>9. RecordsFit'
  BY <1>1, <1>4, <1>6, FitStep DEF Forgets
<1> QED BY <1>7, <1>8, <1>9 DEF RequestInv

LEMMA InitRequests == Init => RequestInv
<1> SUFFICES ASSUME Init PROVE RequestInv
  OBVIOUS
<1>1. /\ now = 0 /\ requests = [r \in Slots |-> None] /\ told = {}
      /\ tokens = << >> /\ jobs = << >> /\ records = << >>
  BY DEF Init, RequestsInit
<1>2. jobs \in Seq(JobRow) /\ tokens \in Seq(TokenRow) /\ DOMAIN records = {} /\ DOMAIN jobs = {}
  BY <1>1
<1>3. RowTypes
  BY <1>1, <1>2 DEF RowTypes, InFlight
<1>4. RecordsFit /\ StandingIsRecorded /\ OneStandingJobPerKey
  BY <1>1, <1>2 DEF RecordsFit, StandingIsRecorded, OneStandingJobPerKey
<1> QED BY <1>3, <1>4 DEF RequestInv

\* The handlers of a request.
LEMMA HandlerInv ==
  ASSUME RequestInv, NEW r \in Slots, Step(r), UNCHANGED now
  PROVE  RequestInv'
<1>1. RowTypes /\ RecordsFit
  BY DEF RequestInv
<1>2. (UNCHANGED records) => Forgets
  BY DEF Forgets
<1>3. ASSUME NEW w \in ApiWorkspaces \cup {None}, NEW key \in ExchangeKeys, NEW body \in Proofs,
             ExchangeBegins(r, w, key, body)
      PROVE  RequestInv'
  <2>1. [op |-> "exchange", workspace |-> w, key |-> key, body |-> body] \in InFlight
    BY DEF InFlight, Exchange
  <2>2. Forgets /\ UNCHANGED <<jobs, tokens, told>> /\ requests' \in [Slots -> InFlight]
    BY <1>1, <1>3, <2>1, ReadEffect DEF ExchangeBegins, RowTypes
  <2> QED BY <2>2, ForgetInv
<1>4. ASSUME NEW request \in InFlight, Admit(r, request)
      PROVE  RequestInv'
  <2>1. requests' \in [Slots -> InFlight]
    BY <1>1, <1>4 DEF Admit, RowTypes
  <2> QED BY <1>2, <1>4, <2>1, ForgetInv DEF Admit
<1>5. CASE \E w \in ApiWorkspaces, key \in SubmitKeys, body \in Bodies :
             Admit(r, [op |-> "submit", workspace |-> w, key |-> key, body |-> body])
  BY <1>4, <1>5 DEF InFlight, Submission
<1>6. CASE \E w \in ApiWorkspaces, op \in {"key.create", "key.revoke"} : Admit(r, [op |-> op, workspace |-> w])
  BY <1>4, <1>6 DEF InFlight, KeyCall
<1>7. Done(r) => requests' \in [Slots -> InFlight]
  BY <1>1 DEF Done, RowTypes, InFlight
<1>8. CASE ExchangeFails(r) \/ CreateApiKey(r) \/ RevokeApiKey(r)
  BY <1>2, <1>7, <1>8, ForgetInv DEF ExchangeFails, CreateApiKey, RevokeApiKey
<1>9. CASE Replay(r)
  <2> DEFINE request == requests[r]
  <2>1. request \in Submission /\ Id(request)[1] = "jobs.create" /\ Replays(request)
    BY <1>1, <1>9, AskedTypes, ScopeOf DEF Replay
  <2>2. /\ Id(request) \in DOMAIN records /\ records[Id(request)].body = request.body
        /\ Pruned[Id(request)] = records[Id(request)]
    BY <2>1 DEF Replays, Conflicts, Known, Pruned
  <2>3. AnswerFits(<<request.body, Pruned[Id(request)].answer>>)
    BY <1>1, <2>1, <2>2 DEF RecordsFit, RecordFits, AnswerFits
  <2>4. /\ Forgets /\ UNCHANGED <<jobs, tokens>>
        /\ told' = told \cup {<<request.body, Pruned[Id(request)].answer>>}
    BY <1>9, ReadEffect DEF Replay
  <2>5. requests' \in [Slots -> InFlight]
    BY <1>7, <1>9 DEF Replay
  <2> HIDE DEF request
  <2> QED BY <2>3, <2>4, <2>5, ForgetInv
<1>10. CASE Conflict(r)
  BY <1>7, <1>10, ReadEffect, ForgetInv DEF Conflict
<1> QED BY <1>3, <1>5, <1>6, <1>8, <1>9, <1>10, ExchangeInv, CreateInv DEF Step

LEMMA RequestStep == RequestInv /\ [Next]_vars => RequestInv'
<1> SUFFICES ASSUME RequestInv, [Next]_vars PROVE RequestInv'
  OBVIOUS
<1>1. RowTypes
  BY DEF RequestInv
<1>2. JobsGo \/ jobs' # jobs
  BY <1>1, SameJobsGo DEF RowTypes
<1>3. CASE \E r \in Slots : Step(r) /\ UNCHANGED now
  BY <1>3, HandlerInv
<1>4. ASSUME NEW j \in DOMAIN jobs, JobEnds(j), UNCHANGED now
      PROVE  RequestInv'
  <2>1. JobsGo
    BY <1>1, <1>4, JobEndsGo DEF RowTypes
  <2>2. UNCHANGED <<now, requests, tokens, records, told>>
    BY <1>4 DEF JobEnds
  <2> QED BY <1>1, <2>1, <2>2, GoInv DEF RowTypes
<1>5. CASE Requests
  BY <1>3, <1>4, <1>5 DEF Requests, RequestsNext
<1>6. CASE TimePasses
  <2>1. now' = now + 1 /\ UNCHANGED <<requests, tokens, records, jobs, told>>
    BY <1>6 DEF TimePasses, Tick, requestVars
  <2> QED BY <1>1, <1>2, <2>1, GoInv DEF RowTypes
<1>7. CASE Restart
  <2>1. /\ jobs' = Reconciled(jobs) /\ requests' = [r \in Slots |-> None]
        /\ UNCHANGED <<now, tokens, records, told>>
    BY <1>7 DEF Restart, RequestsLost
  <2>2. JobsGo
    BY <1>1, <2>1, ReconciledRows DEF RowTypes, JobsGo
  <2>3. requests' \in [Slots -> InFlight]
    BY <2>1 DEF InFlight
  <2> QED BY <1>1, <2>1, <2>2, <2>3, GoInv DEF RowTypes
<1>8. CASE RestartInSubmission
  BY <1>8, CutInv DEF RestartInSubmission
<1>9. CASE Links \/ UNCHANGED vars
  <2>1. UNCHANGED <<now, requestVars>>
    BY <1>9 DEF Links, LinksNext, vars
  <2> QED BY <1>1, <1>2, <2>1, GoInv DEF requestVars, RowTypes
<1> QED BY <1>5, <1>6, <1>7, <1>8, <1>9 DEF Next

THEOREM RequestInvariance == Spec => []RequestInv
BY InitRequests, RequestStep, PTL DEF Spec

(***************************************************************************)
(* However requests with one key, restarts between and inside them and the *)
(* clock interleave, one job of them stands for the life of its record     *)
(* (handleCreateJob).                                                      *)
(***************************************************************************)
THEOREM IdempotencyTheorem == Spec => []OneStandingJobPerKey
<1>1. RequestInv => OneStandingJobPerKey
  BY DEF RequestInv
<1> QED BY <1>1, RequestInvariance, PTL

(***************************************************************************)
(* A submission is answered with a job of its own body, and an exchange    *)
(* with a token that has not expired (readIdempotencyRecord,               *)
(* handleCreateJob, handleExchange).                                       *)
(***************************************************************************)
THEOREM AnswerTheorem == Spec => []AnswersHold
<1>1. RequestInv => AnswersHold
  <2> SUFFICES ASSUME RequestInv PROVE AnswersHold
    OBVIOUS
  <2>1. AnswersFitTheRequest
    BY DEF RequestInv, RecordsFit, AnswerFits, AnswersFitTheRequest
  <2>2. ReplayedTokenLives
    BY DEF RequestInv, RecordsFit, RecordFits, ReplayedTokenLives
  <2> QED BY <2>1, <2>2 DEF AnswersHold
<1> QED BY <1>1, RequestInvariance, PTL

-------------------------------------------------------------------------------
(* Requests: the bindings of clients. *)

\* A set of naturals has a least member.
LEMMA Least ==
  ASSUME NEW T, T \subseteq Nat, T # {}
  PROVE  \E x \in T : \A y \in T : x <= y
<1> DEFINE R == {ss \in Nat \X Nat : ss[1] < ss[2]}
<1>1. IsWellFoundedOn(R, Nat)
  BY NatLessThanWellFounded DEF OpToRel
<1>2. \A x, y \in Nat : y < x => <<y, x>> \in R
  OBVIOUS
<1> HIDE DEF R
<1>3. PICK x \in T : \A y \in T : ~ (<<y, x>> \in R)
  BY <1>1, WFMin
<1>4. \A y \in T : ~ (y < x) /\ x \in Nat /\ y \in Nat
  BY <1>2, <1>3
<1> QED BY <1>4

BindingRow == [workspace : ApiWorkspaces, client : {body.client : body \in Bodies},
               session_key : {body.session_key : body \in Bodies}, touched : Nat]

BindingTypes ==
  /\ bindings \in Seq(BindingRow)
  /\ \A b \in DOMAIN bindings : bindings[b].touched \in Nat /\ bindings[b].touched <= now

\* ORDER BY ... LIMIT 1 finds a row if there is one.
LEMMA FindsOne ==
  ASSUME BindingTypes, now \in Nat, NEW w, NEW body, Candidates(w, body) # {}
  PROVE  Found(w, body) # {}
<1> DEFINE C == Candidates(w, body)
           age(b) == now - bindings[b].touched
           T == {age(b) : b \in C}
<1>1. C \subseteq DOMAIN bindings
  BY DEF Candidates
<1>2. \A b \in C : bindings[b].touched \in Nat /\ age(b) \in Nat
  BY <1>1 DEF BindingTypes
<1> HIDE DEF C
<1>3. T \subseteq Nat /\ T # {}
  BY <1>2 DEF C
<1>4. PICK x \in T : \A y \in T : x <= y
  BY <1>3, Least
<1>5. PICK b \in C : x = age(b)
  BY <1>4
<1>6. ASSUME NEW c \in C PROVE bindings[c].touched <= bindings[b].touched
  <2>1. age(b) <= age(c)
    BY <1>4, <1>5
  <2> QED BY <1>2, <1>5, <2>1
<1> QED BY <1>5, <1>6 DEF Found, C

BindingInv == BindingTypes /\ OneBindingPerClient

\* A binding is made for a client only if there is none.
LEMMA BindsOne ==
  ASSUME BindingInv, now \in Nat, UNCHANGED now,
         NEW w \in ApiWorkspaces, NEW body \in Bodies, NEW b, Binds(w, body, b)
  PROVE  BindingInv'
<1> DEFINE n == Len(bindings)
<1>1. /\ bindings \in Seq(BindingRow) /\ n \in Nat /\ DOMAIN bindings = 1..n
      /\ \A c \in 1..n : bindings[c] \in BindingRow /\ bindings[c].touched <= now
  BY DEF BindingInv, BindingTypes
<1>2. CASE b \in Found(w, body) /\ bindings' = [bindings EXCEPT ![b].touched = now]
  <2>1. b \in 1..n
    BY <1>1, <1>2 DEF Found, Candidates
  <2>2. /\ bindings'[b] = [bindings[b] EXCEPT !.touched = now]
        /\ \A c \in 1..n : c # b => bindings'[c] = bindings[c]
        /\ DOMAIN bindings' = 1..n /\ bindings' = [c \in 1..n |-> bindings'[c]]
    BY <1>1, <1>2, <2>1
  <2>3. /\ bindings'[b] \in BindingRow /\ bindings'[b].touched = now
        /\ bindings'[b].client = bindings[b].client /\ bindings'[b].workspace = bindings[b].workspace
    BY <1>1, <2>1, <2>2 DEF BindingRow
  <2> HIDE DEF n
  <2>4. ASSUME NEW c \in 1..n
        PROVE  /\ bindings'[c] \in BindingRow /\ bindings'[c].touched <= now
               /\ bindings'[c].client = bindings[c].client
               /\ bindings'[c].workspace = bindings[c].workspace
    <3>1. CASE c = b
      BY <2>3, <3>1
    <3>2. CASE c # b
      BY <1>1, <2>2, <3>2
    <3> QED BY <3>1, <3>2
  <2>5. bindings' \in Seq(BindingRow)
    <3>1. bindings' \in [1..n -> BindingRow]
      BY <2>2, <2>4
    <3> QED BY <1>1, <3>1
  <2>6. \A c \in 1..n : bindings'[c].touched \in Nat
    BY <2>4 DEF BindingRow
  <2>7. OneBindingPerClient'
    BY <1>1, <2>2, <2>4 DEF BindingInv, OneBindingPerClient
  <2> QED BY <2>2, <2>4, <2>5, <2>6, <2>7 DEF BindingInv, BindingTypes
<1>3. CASE /\ Found(w, body) = {} /\ body.network_session_id = None
           /\ bindings' = Append(bindings, [workspace |-> w, client |-> body.client,
                                            session_key |-> body.session_key, touched |-> now])
  <2> DEFINE new == [workspace |-> w, client |-> body.client,
                     session_key |-> body.session_key, touched |-> now]
  <2>1. new \in BindingRow /\ new.client = body.client /\ new.workspace = w /\ new.touched = now
    BY DEF BindingRow
  <2>2. bindings' = Append(bindings, new)
    BY <1>3
  <2> HIDE DEF new
  <2>3. /\ bindings' \in Seq(BindingRow) /\ DOMAIN bindings' = 1..(n + 1)
        /\ \A c \in 1..n : bindings'[c] = bindings[c]
        /\ bindings'[n + 1] = new
    BY <1>1, <2>1, <2>2
  <2>4. Candidates(w, body) = {}
    BY <1>3, FindsOne DEF BindingInv
  <2>5. body.client # None => \A c \in 1..n : bindings[c].workspace = w => bindings[c].client # body.client
    BY <1>1, <1>3, <2>4 DEF Candidates
  <2> HIDE DEF n
  <2>6. OneBindingPerClient'
    <3> SUFFICES ASSUME NEW c \in 1..(n + 1), NEW d \in 1..(n + 1), bindings'[c].client # None,
                        bindings'[c].client = bindings'[d].client,
                        bindings'[c].workspace = bindings'[d].workspace
                 PROVE  c = d
      BY <2>3 DEF OneBindingPerClient
    <3>1. (c \in 1..n \/ c = n + 1) /\ (d \in 1..n \/ d = n + 1)
      BY <1>1
    <3>2. CASE c \in 1..n /\ d \in 1..n
      BY <1>1, <2>3, <3>2 DEF BindingInv, OneBindingPerClient
    <3>3. CASE c \in 1..n /\ d = n + 1
      BY <2>1, <2>3, <2>5, <3>3
    <3>4. CASE c = n + 1 /\ d \in 1..n
      BY <2>1, <2>3, <2>5, <3>4
    <3> QED BY <3>1, <3>2, <3>3, <3>4
  <2>7. \A c \in 1..(n + 1) : bindings'[c].touched \in Nat /\ bindings'[c].touched <= now
    <3>1. \A row \in BindingRow : row.touched \in Nat
      BY DEF BindingRow
    <3> QED BY <1>1, <2>1, <2>3, <3>1
  <2> QED BY <2>3, <2>6, <2>7 DEF BindingInv, BindingTypes
<1> QED BY <1>2, <1>3 DEF Binds

LEMMA BindingStep == RequestInv /\ BindingInv /\ [Next]_vars => BindingInv'
<1> SUFFICES ASSUME RequestInv, BindingInv, [Next]_vars PROVE BindingInv'
  OBVIOUS
<1>1. RowTypes /\ now \in Nat
  BY DEF RequestInv, RowTypes
<1>2. ASSUME UNCHANGED bindings, now' \in Nat, now' >= now
      PROVE  BindingInv'
  BY <1>1, <1>2 DEF BindingInv, BindingTypes, OneBindingPerClient
<1>3. ASSUME NEW r \in Slots, requests[r] \in Submission, UNCHANGED now,
             NEW b \in 1..MaxJobs, Binds(requests[r].workspace, requests[r].body, b)
      PROVE  BindingInv'
  <2>1. requests[r].workspace \in ApiWorkspaces /\ requests[r].body \in Bodies
    BY <1>3 DEF Submission
  <2> QED BY <1>1, <1>3, <2>1, BindsOne
<1>4. ASSUME NEW r \in Slots, CreateJob(r) \/ CreateJobCut(r), UNCHANGED now
      PROVE  BindingInv'
  <2>1. requests[r] \in Submission
    BY <1>1, <1>4, AskedTypes DEF CreateJob, CreateJobCut
  <2> QED BY <1>3, <1>4, <2>1 DEF CreateJob, CreateJobCut, Submits
<1>5. ASSUME NEW r \in Slots, Step(r), ~CreateJob(r), UNCHANGED now
      PROVE  BindingInv'
  <2>1. UNCHANGED bindings
    BY <1>5 DEF Step, ExchangeBegins, ExchangeReturns, ExchangeFails, Admit, CreateApiKey, RevokeApiKey, Replay, Conflict
  <2> QED BY <1>1, <1>2, <1>5, <2>1
<1>6. CASE Requests
  BY <1>1, <1>2, <1>4, <1>5, <1>6 DEF Requests, RequestsNext, JobEnds
<1>7. CASE Links \/ Restart \/ UNCHANGED vars
  BY <1>1, <1>2, <1>7 DEF Links, LinksNext, Restart, RequestsLost, vars, requestVars
<1>8. CASE TimePasses
  BY <1>1, <1>2, <1>8 DEF TimePasses, Tick, requestVars
<1>9. CASE RestartInSubmission
  BY <1>4, <1>9 DEF RestartInSubmission
<1> QED BY <1>6, <1>7, <1>8, <1>9 DEF Next

LEMMA BindingInvariance == Spec => []BindingInv
<1>1. Init => BindingInv
  <2> SUFFICES ASSUME Init PROVE BindingInv
    OBVIOUS
  <2>1. bindings = << >> /\ DOMAIN bindings = {}
    BY DEF Init, RequestsInit
  <2> QED BY <2>1 DEF BindingInv, BindingTypes, OneBindingPerClient
<1> QED BY <1>1, BindingStep, RequestInvariance, PTL DEF Spec

(***************************************************************************)
(* A client is bound to one network session of a workspace, however it     *)
(* names itself and in whatever order its submissions and restarts come    *)
(* (resolveBinding, findNetworkSessionByClient).                           *)
(***************************************************************************)
THEOREM BindingTheorem == Spec => []OneBindingPerClient
<1>1. BindingInv => OneBindingPerClient
  BY DEF BindingInv
<1> QED BY <1>1, BindingInvariance, PTL

-------------------------------------------------------------------------------
(* Links: sequences of tokens. *)

\* A finite set of naturals can be listed in order.
LEMMA OrderExists ==
  ASSUME NEW S, S \subseteq Nat, IsFiniteSet(S)
  PROVE  \E q \in [1..Cardinality(S) -> S] : \A i, j \in DOMAIN q : i < j => q[i] < q[j]
<1> DEFINE Listed(U) == \E q \in [1..Cardinality(U) -> U] : \A i, j \in DOMAIN q : i < j => q[i] < q[j]
           T == {n \in Nat : \E U \in SUBSET Nat : IsFiniteSet(U) /\ Cardinality(U) = n /\ ~Listed(U)}
<1>1. ASSUME T # {} PROVE FALSE
  <2>1. PICK n \in T : \A k \in T : n <= k
    <3>1. T \subseteq Nat
      OBVIOUS
    <3> HIDE DEF T
    <3> QED BY <1>1, <3>1, Least
  <2>2. PICK U \in SUBSET Nat : IsFiniteSet(U) /\ Cardinality(U) = n /\ ~Listed(U)
    BY <2>1
  <2>3. n \in Nat
    BY <2>1
  <2>4. U # {}
    <3> SUFFICES ASSUME U = {} PROVE FALSE
      OBVIOUS
    <3>1. Cardinality(U) = 0
      BY FS_EmptySet
    <3>2. << >> \in [1..Cardinality(U) -> U] /\ DOMAIN << >> = {}
      BY <3>1
    <3> QED BY <2>2, <3>2
  <2>5. PICK m \in U : \A x \in U : m <= x
    BY <2>2, <2>4, Least
  <2> DEFINE V == U \ {m}
  <2>6. IsFiniteSet(V) /\ Cardinality(V) = n - 1 /\ n > 0 /\ V \in SUBSET Nat
    <3>1. IsFiniteSet(V) /\ Cardinality(V) = n - 1
      BY <2>2, <2>5, FS_RemoveElement
    <3>2. Cardinality(U) # 0
      BY <2>2, <2>4, FS_EmptySet
    <3> QED BY <2>2, <2>3, <3>1, <3>2
  <2>7. n - 1 \in Nat /\ ~(n - 1 \in T)
    BY <2>1, <2>3, <2>6
  <2>8. Listed(V)
    BY <2>6, <2>7
  <2>9. PICK q \in [1..(n - 1) -> V] : \A i, j \in DOMAIN q : i < j => q[i] < q[j]
    BY <2>6, <2>8
  <2> DEFINE r == [i \in 1..n |-> IF i = 1 THEN m ELSE q[i - 1]]
  <2>10. \A i \in 1..n : i # 1 => i - 1 \in 1..(n - 1) /\ q[i - 1] \in V
    BY <2>3, <2>9
  <2>11. r \in [1..n -> U] /\ DOMAIN r = 1..n
    BY <2>10
  <2>12. ASSUME NEW i \in 1..n, NEW j \in 1..n, i < j PROVE r[i] < r[j]
    <3>1. j # 1 /\ r[j] = q[j - 1] /\ q[j - 1] \in V
      BY <2>3, <2>10, <2>12
    <3>2. CASE i = 1
      <4>1. r[i] = m /\ q[j - 1] \in U /\ q[j - 1] # m /\ m <= q[j - 1]
        BY <2>5, <3>1, <3>2
      <4>2. m \in Nat /\ q[j - 1] \in Nat
        BY <2>2, <4>1
      <4> QED BY <3>1, <4>1, <4>2
    <3>3. CASE i # 1
      <4>1. r[i] = q[i - 1] /\ i - 1 \in DOMAIN q /\ j - 1 \in DOMAIN q /\ i - 1 < j - 1
        BY <2>3, <2>9, <2>10, <2>12, <3>1, <3>3
      <4> QED BY <2>9, <3>1, <4>1
    <3> QED BY <3>2, <3>3
  <2> HIDE DEF r
  <2>13. Listed(U)
    BY <2>2, <2>11, <2>12
  <2> QED BY <2>2, <2>13
<1>2. Cardinality(S) \in Nat
  BY FS_CardinalityType
<1>3. ~(Cardinality(S) \in T)
  BY <1>1
<1> HIDE DEF Listed
<1>4. Listed(S)
  BY <1>2, <1>3
<1> QED BY <1>4 DEF Listed

\* A list in order has every member once.
LEMMA InOrderIs ==
  ASSUME NEW S, S \subseteq Nat, IsFiniteSet(S)
  PROVE  /\ InOrder(S) \in Seq(S) /\ ToSet(InOrder(S)) = S
         /\ \A i, j \in DOMAIN InOrder(S) : i < j => InOrder(S)[i] < InOrder(S)[j]
<1> DEFINE n == Cardinality(S)
<1>1. n \in Nat
  BY FS_CardinalityType
<1>2. PICK q : q = InOrder(S)
  OBVIOUS
<1>3. q \in [1..n -> S] /\ \A i, j \in DOMAIN q : i < j => q[i] < q[j]
  BY <1>2, OrderExists DEF InOrder
<1>4. q \in Seq(S)
  BY <1>1, <1>3
<1>5. q \in Injection(1..n, S)
  <2>1. ASSUME NEW i \in 1..n, NEW j \in 1..n, q[i] = q[j] PROVE i = j
    <3>1. q[i] \in Nat /\ q[j] \in Nat /\ DOMAIN q = 1..n
      BY <1>3
    <3>2. ~(i < j) /\ ~(j < i)
      BY <1>3, <2>1, <3>1
    <3> QED BY <1>1, <3>2
  <2> QED BY <1>3, <2>1 DEF Injection, IsInjective
<1>6. Cardinality(1..n) = n
  BY <1>1, FS_Interval
<1>7. q \in Surjection(1..n, S)
  BY <1>5, <1>6, FS_Injection
<1>8. ToSet(q) = S
  BY <1>3, <1>7 DEF ToSet, Surjection
<1> QED BY <1>2, <1>3, <1>4, <1>8

\* Taking a member out leaves the others, in their order.
LEMMA WithoutIs ==
  ASSUME NEW q \in Seq(Nat), IsInjective(q), NEW t
  PROVE  LET r == Without(q, t)
         IN  /\ r \in Seq(Nat) /\ IsInjective(r) /\ Len(r) <= Len(q)
             /\ ToSet(r) = ToSet(q) \ {t}
             /\ \A i, j \in DOMAIN r : i < j => \E k, l \in DOMAIN q : k < l /\ r[i] = q[k] /\ r[j] = q[l]
<1> DEFINE n == Len(q)
           r == Without(q, t)
<1>1. n \in Nat /\ DOMAIN q = 1..n /\ (\A i \in 1..n : q[i] \in Nat) /\ n = Len(q)
  OBVIOUS
<1> HIDE DEF n
<1>2. CASE t \notin ToSet(q)
  <2>1. r = q
    BY <1>2 DEF Without
  <2> HIDE DEF r
  <2>2. ToSet(q) \ {t} = ToSet(q)
    BY <1>2
  <2> QED BY <1>1, <2>1, <2>2 DEF r
<1>3. CASE t \in ToSet(q)
  <2> DEFINE m == CHOOSE i \in DOMAIN q : q[i] = t
             a == SubSeq(q, 1, m - 1)
             b == SubSeq(q, m + 1, n)
  <2>1. m \in 1..n /\ q[m] = t
    BY <1>1, <1>3 DEF ToSet
  <2>2. r = a \o b
    BY <1>1, <1>3 DEF Without, RemoveAt
  <2> HIDE DEF m, r
  <2>3. a \in Seq(Nat) /\ Len(a) = m - 1 /\ \A i \in 1..(m - 1) : a[i] = q[i]
    <3>1. m - 1 \in Int /\ \A i \in 1..(m - 1) : q[i] \in Nat
      BY <1>1, <2>1
    <3>2. /\ a \in Seq(Nat) /\ Len(a) = IF 1 <= m - 1 THEN m - 1 - 1 + 1 ELSE 0
          /\ \A i \in 1..(m - 1 - 1 + 1) : a[i] = q[1 + i - 1]
      BY <3>1, SubSeqProperties
    <3> HIDE DEF a
    <3>3. m - 1 - 1 + 1 = m - 1 /\ \A i \in 1..(m - 1) : 1 + i - 1 = i
      BY <1>1, <2>1
    <3> QED BY <1>1, <2>1, <3>2, <3>3
  <2>4. b \in Seq(Nat) /\ Len(b) = n - m /\ \A i \in 1..(n - m) : b[i] = q[m + i]
    <3>1. m + 1 \in Int /\ n \in Int /\ \A i \in (m + 1)..n : q[i] \in Nat
      BY <1>1, <2>1
    <3>2. /\ b \in Seq(Nat) /\ Len(b) = IF m + 1 <= n THEN n - (m + 1) + 1 ELSE 0
          /\ \A i \in 1..(n - (m + 1) + 1) : b[i] = q[m + 1 + i - 1]
      BY <3>1, SubSeqProperties
    <3> HIDE DEF b
    <3>3. n - (m + 1) + 1 = n - m /\ \A i \in 1..(n - m) : m + 1 + i - 1 = m + i
      BY <1>1, <2>1
    <3>4. Len(b) = n - m
      <4>1. CASE m + 1 <= n
        BY <3>2, <3>3, <4>1
      <4>2. CASE ~(m + 1 <= n)
        <5>1. n \in Nat /\ m \in 1..n
          BY <1>1, <2>1
        <5>2. Len(b) = 0
          BY <3>2, <4>2
        <5> QED BY <4>2, <5>1, <5>2
      <4> QED BY <4>1, <4>2
    <3>5. ASSUME NEW i \in 1..(n - m) PROVE b[i] = q[m + i]
      <4>1. i \in 1..(n - (m + 1) + 1) /\ m + 1 + i - 1 = m + i
        BY <3>3
      <4> QED BY <3>2, <4>1
    <3> QED BY <3>2, <3>4, <3>5
  <2> HIDE DEF a, b
  <2>5. /\ r \in Seq(Nat) /\ Len(r) = Len(a) + Len(b)
        /\ \A i \in 1..Len(a) + Len(b) : r[i] = IF i <= Len(a) THEN a[i] ELSE b[i - Len(a)]
    BY <2>2, <2>3, <2>4, ConcatProperties
  <2>6. /\ r \in Seq(Nat) /\ Len(r) = n - 1 /\ DOMAIN r = 1..(n - 1)
        /\ \A i \in 1..(n - 1) : r[i] = IF i < m THEN q[i] ELSE q[i + 1]
    <3>1. Len(r) = n - 1 /\ DOMAIN r = 1..(n - 1)
      BY <1>1, <2>1, <2>3, <2>4, <2>5
    <3> SUFFICES ASSUME NEW i \in 1..(n - 1) PROVE r[i] = IF i < m THEN q[i] ELSE q[i + 1]
      BY <2>5, <3>1
    <3>2. i \in 1..Len(a) + Len(b) /\ (i <= Len(a) <=> i < m)
      BY <1>1, <2>1, <2>3, <2>4
    <3>3. CASE i < m
      BY <1>1, <2>1, <2>3, <2>5, <3>2, <3>3
    <3>4. CASE ~(i < m)
      <4>1. i - (m - 1) \in 1..(n - m) /\ m + (i - (m - 1)) = i + 1
        BY <1>1, <2>1, <3>4
      <4>2. b[i - (m - 1)] = q[i + 1]
        BY <2>4, <4>1
      <4> QED BY <2>3, <2>5, <3>2, <3>4, <4>2
    <3> QED BY <3>3, <3>4
  <2> DEFINE place(i) == IF i < m THEN i ELSE i + 1
  <2>7. \A i \in 1..(n - 1) : place(i) \in 1..n /\ place(i) # m /\ r[i] = q[place(i)]
    <3> SUFFICES ASSUME NEW i \in 1..(n - 1) PROVE place(i) \in 1..n /\ place(i) # m /\ r[i] = q[place(i)]
      OBVIOUS
    <3>1. place(i) \in 1..n /\ place(i) # m
      BY <1>1, <2>1
    <3>2. r[i] = q[place(i)]
      BY <2>6
    <3> QED BY <3>1, <3>2
  <2>8. \A i, j \in 1..(n - 1) : i < j => place(i) < place(j)
    BY <1>1, <2>1
  <2> HIDE DEF place
  <2>9. IsInjective(r)
    <3> SUFFICES ASSUME NEW i \in 1..(n - 1), NEW j \in 1..(n - 1), r[i] = r[j] PROVE i = j
      BY <2>6 DEF IsInjective
    <3>1. place(i) = place(j)
      BY <1>1, <2>7 DEF IsInjective
    <3>2. ~(place(i) < place(j)) /\ ~(place(j) < place(i))
      BY <1>1, <2>7, <3>1
    <3>3. ~(i < j) /\ ~(j < i)
      BY <2>8, <3>2
    <3> QED BY <1>1, <3>3
  <2>10. ToSet(r) = ToSet(q) \ {t}
    <3>1. ASSUME NEW i \in 1..(n - 1) PROVE r[i] \in ToSet(q) \ {t}
      BY <1>1, <2>1, <2>7 DEF ToSet, IsInjective
    <3>2. ASSUME NEW k \in 1..n, q[k] # t PROVE q[k] \in ToSet(r)
      <4>1. CASE k < m
        <5>1. k \in 1..(n - 1)
          BY <1>1, <2>1, <4>1
        <5>2. r[k] = q[k]
          BY <2>6, <4>1, <5>1
        <5> QED BY <2>6, <5>1, <5>2 DEF ToSet
      <4>2. CASE k > m
        <5>1. k - 1 \in 1..(n - 1) /\ k - 1 + 1 = k /\ ~(k - 1 < m)
          BY <1>1, <2>1, <4>2
        <5>2. r[k - 1] = q[k]
          BY <2>6, <5>1
        <5> QED BY <2>6, <5>1, <5>2 DEF ToSet
      <4> QED BY <1>1, <2>1, <3>2, <4>1, <4>2
    <3>3. ToSet(r) \subseteq ToSet(q) \ {t}
      BY <2>6, <3>1 DEF ToSet
    <3>4. ToSet(q) \ {t} \subseteq ToSet(r)
      <4> SUFFICES ASSUME NEW k \in DOMAIN q, q[k] # t PROVE q[k] \in ToSet(r)
        BY DEF ToSet
      <4>1. k \in 1..n
        BY <1>1
      <4> QED BY <3>2, <4>1
    <3> QED BY <3>3, <3>4
  <2>11. \A i, j \in DOMAIN r : i < j => \E k, l \in DOMAIN q : k < l /\ r[i] = q[k] /\ r[j] = q[l]
    BY <1>1, <2>6, <2>7, <2>8
  <2>12. Len(r) <= Len(q)
    BY <1>1, <2>6
  <2> QED BY <2>6, <2>9, <2>10, <2>11, <2>12 DEF r
<1> QED BY <1>2, <1>3

\* Trimming drops the first members over the limit.
LEMMA TrimmedIs ==
  ASSUME NEW q \in Seq(Nat)
  PROVE  /\ Trimmed(q) \in Seq(Nat) /\ Len(Trimmed(q)) <= MaxRevoked
         /\ \E e \in Nat : /\ Len(q) = Len(Trimmed(q)) + e
                           /\ \A i \in 1..Len(Trimmed(q)) : Trimmed(q)[i] = q[i + e]
                           /\ e > 0 => Len(Trimmed(q)) = MaxRevoked
<1> DEFINE n == Len(q)
           r == Trimmed(q)
           Shift(e) == /\ Len(q) = Len(r) + e
                       /\ \A i \in 1..Len(r) : r[i] = q[i + e]
                       /\ e > 0 => Len(r) = MaxRevoked
<1>1. n \in Nat /\ DOMAIN q = 1..n /\ (\A i \in 1..n : q[i] \in Nat) /\ n = Len(q)
  OBVIOUS
<1> HIDE DEF n
<1>2. MaxRevoked \in Nat
  BY LifeAssumption
<1>3. r \in Seq(Nat) /\ Len(r) <= MaxRevoked /\ \E e \in Nat : Shift(e)
  <2>1. CASE n <= MaxRevoked
    <3>1. ~(n - MaxRevoked > 0)
      BY <1>1, <1>2, <2>1
    <3>2. r = q
      BY <1>1, <3>1 DEF Trimmed
    <3> HIDE DEF r
    <3>3. Len(q) = Len(r) + 0
      BY <1>1, <3>2
    <3>4. ASSUME NEW i \in 1..Len(r) PROVE r[i] = q[i + 0]
      <4>1. i + 0 = i
        BY <1>1, <3>2
      <4> QED BY <3>2, <4>1
    <3>5. Shift(0)
      BY <3>3, <3>4
    <3>6. r \in Seq(Nat) /\ Len(r) <= MaxRevoked
      BY <1>1, <2>1, <3>2
    <3> HIDE DEF Shift
    <3> QED BY <3>5, <3>6
  <2>2. CASE n > MaxRevoked
    <3> DEFINE e == n - MaxRevoked
    <3>1. e \in Nat /\ e > 0 /\ n = MaxRevoked + e
      BY <1>1, <1>2, <2>2
    <3>2. r = SubSeq(q, e + 1, n)
      BY <1>1, <3>1 DEF Trimmed
    <3> HIDE DEF e, r
    <3>3. e + 1 \in Int /\ n \in Int /\ \A i \in (e + 1)..n : q[i] \in Nat
      BY <1>1, <3>1
    <3>4. /\ r \in Seq(Nat) /\ Len(r) = IF e + 1 <= n THEN n - (e + 1) + 1 ELSE 0
          /\ \A i \in 1..(n - (e + 1) + 1) : r[i] = q[e + 1 + i - 1]
      BY <3>2, <3>3, SubSeqProperties
    <3>5. Len(r) = MaxRevoked /\ n - (e + 1) + 1 = MaxRevoked
      BY <1>1, <1>2, <3>1, <3>4
    <3>6. ASSUME NEW i \in 1..MaxRevoked PROVE r[i] = q[i + e]
      <4>1. e + 1 + i - 1 = i + e
        BY <1>2, <3>1
      <4> QED BY <3>4, <3>5, <4>1
    <3>7. Len(q) = Len(r) + e
      BY <1>1, <3>1, <3>5
    <3>8. Len(r) <= MaxRevoked
      BY <1>2, <3>5
    <3>9. Shift(e)
      BY <3>5, <3>6, <3>7
    <3> HIDE DEF Shift
    <3> QED BY <3>1, <3>4, <3>8, <3>9
  <2> HIDE DEF r, Shift
  <2> QED BY <1>1, <1>2, <2>1, <2>2
<1> HIDE DEF r
<1> QED BY <1>3 DEF r

-------------------------------------------------------------------------------
(* Links: the order of revocations. *)

\* t was withdrawn before u, or with it and minted earlier.
Precedes(w, t, u) ==
  \E i, j \in DOMAIN w : t \in w[i] /\ u \in w[j] /\ (i < j \/ (i = j /\ t < u))
Before(t, u) == Precedes(withdrawn, t, u)

After(t) == {u \in Withdrawn : Before(t, u)}

\* No token is withdrawn twice.
Disjoint(w) == \A i, j \in DOMAIN w : i # j => w[i] \cap w[j] = {}
WithdrawnOnce == Disjoint(withdrawn)

\* Tombstones are of withdrawn tokens, in the order in which they were withdrawn.
TombstonesFit ==
  /\ tombstones \in Seq(Nat) /\ Len(tombstones) <= MaxRevoked
  /\ ToSet(tombstones) \subseteq Withdrawn
  /\ \A i, j \in DOMAIN tombstones : i < j => Before(tombstones[i], tombstones[j])

\* A token that may still be asked for is in the map until it is withdrawn, and has a tombstone
\* then, unless as many others as the service keeps were withdrawn after it.
TokenFits(t) ==
  \/ t \in live \/ t \in ToSet(tombstones)
  \/ t \in Withdrawn /\ Cardinality(After(t)) >= MaxRevoked
TokensFit == \A t \in Tokens : t > lost /\ ~Expired(t) => TokenFits(t)

OrderInv == WithdrawnOnce /\ TombstonesFit /\ TokensFit /\ RecordsHaveTimers

\* A revocation withdraws new tokens after all others.
LEMMA WithdrawOrder ==
  ASSUME WithdrawnInv, WithdrawnOnce, NEW S \in SUBSET Nat, Withdraw(S)
  PROVE  /\ WithdrawnOnce'
         /\ \A t, u : Before(t, u) => Before(t, u)'
         /\ \A t \in Withdrawn, u \in S \ Withdrawn : Before(t, u)'
         /\ \A t, u \in S \ Withdrawn : t < u => Before(t, u)'
<1> DEFINE n == Len(withdrawn)
           new == S \ Withdrawn
<1>1. withdrawn \in Seq(SUBSET Nat) /\ n \in Nat /\ DOMAIN withdrawn = 1..n
  BY DEF WithdrawnInv
<1>2. Withdrawn = UNION {withdrawn[i] : i \in 1..n}
  BY <1>1 DEF Withdrawn, ToSet
<1>3. CASE S \subseteq Withdrawn
  <2>1. withdrawn' = withdrawn
    BY <1>3 DEF Withdraw
  <2>2. (\A t, u : Before(t, u) => Before(t, u)') /\ WithdrawnOnce'
    BY <2>1 DEF Before, Precedes, WithdrawnOnce, Disjoint
  <2> QED BY <1>3, <2>2
<1>4. CASE ~(S \subseteq Withdrawn)
  <2>1. withdrawn' = Append(withdrawn, new) /\ new \in SUBSET Nat
    BY <1>4 DEF Withdraw
  <2> HIDE DEF new
  <2>2. /\ DOMAIN withdrawn' = 1..(n + 1) /\ withdrawn'[n + 1] = new
        /\ \A i \in 1..n : withdrawn'[i] = withdrawn[i]
    BY <1>1, <2>1
  <2> HIDE DEF n
  <2>3. \A i \in 1..n : i \in 1..(n + 1) /\ i # n + 1 /\ i < n + 1
    BY <1>1
  <2>4. \A i \in 1..(n + 1) : i \in 1..n \/ i = n + 1
    BY <1>1
  <2>5. n + 1 \in 1..(n + 1)
    BY <1>1
  <2>6. \A i \in 1..n : withdrawn[i] \cap new = {}
    BY <1>2 DEF new
  <2>7. WithdrawnOnce'
    <3> SUFFICES ASSUME NEW i \in 1..(n + 1), NEW j \in 1..(n + 1), i # j
                 PROVE  withdrawn'[i] \cap withdrawn'[j] = {}
      BY <2>2 DEF WithdrawnOnce, Disjoint
    <3>1. CASE i \in 1..n /\ j \in 1..n
      BY <1>1, <2>2, <3>1 DEF WithdrawnOnce, Disjoint
    <3>2. CASE i \in 1..n /\ j = n + 1
      BY <2>2, <2>6, <3>2
    <3>3. CASE i = n + 1 /\ j \in 1..n
      BY <2>2, <2>6, <3>3
    <3> QED BY <2>4, <3>1, <3>2, <3>3
  <2>8. ASSUME NEW t, NEW u, Before(t, u) PROVE Before(t, u)'
    BY <1>1, <2>2, <2>3, <2>8 DEF Before, Precedes
  <2>9. ASSUME NEW t \in Withdrawn, NEW u \in new PROVE Before(t, u)'
    <3>1. PICK i \in 1..n : t \in withdrawn[i]
      BY <1>2
    <3>2. i \in DOMAIN withdrawn' /\ n + 1 \in DOMAIN withdrawn' /\ i < n + 1
      BY <2>2, <2>3, <2>5
    <3>3. t \in withdrawn'[i] /\ u \in withdrawn'[n + 1]
      BY <2>2, <2>9, <3>1
    <3> QED BY <3>2, <3>3 DEF Before, Precedes
  <2>10. ASSUME NEW t \in new, NEW u \in new, t < u PROVE Before(t, u)'
    BY <2>2, <2>5, <2>10 DEF Before, Precedes
  <2> QED BY <2>7, <2>8, <2>9, <2>10 DEF new
<1> QED BY <1>3, <1>4

\* Nothing is withdrawn before itself.
LEMMA PrecedesIrreflexive ==
  ASSUME NEW w \in Seq(SUBSET Nat), Disjoint(w), NEW t
  PROVE  ~Precedes(w, t, t)
<1> SUFFICES ASSUME Precedes(w, t, t) PROVE FALSE
  OBVIOUS
<1>1. PICK i, j \in DOMAIN w : t \in w[i] /\ t \in w[j] /\ (i < j \/ (i = j /\ t < t))
  BY DEF Precedes
<1>2. i \in Nat /\ j \in Nat /\ t \in Nat
  BY <1>1
<1>3. i # j
  BY <1>1, <1>2
<1> QED BY <1>1, <1>3 DEF Disjoint

\* A sequence in the order of revocations has no token twice.
LEMMA OrderedInjective ==
  ASSUME WithdrawnInv, WithdrawnOnce, NEW q \in Seq(Nat),
         \A i, j \in DOMAIN q : i < j => Before(q[i], q[j])
  PROVE  IsInjective(q)
<1> SUFFICES ASSUME NEW i \in DOMAIN q, NEW j \in DOMAIN q, q[i] = q[j] PROVE i = j
  BY DEF IsInjective
<1>1. i \in Nat /\ j \in Nat
  OBVIOUS
<1>2. ~Before(q[i], q[j]) /\ ~Before(q[j], q[i])
  BY PrecedesIrreflexive DEF Before, WithdrawnInv, WithdrawnOnce
<1>3. ~(i < j) /\ ~(j < i)
  BY <1>2
<1> QED BY <1>1, <1>3

\* Tombstones followed by the links that a revocation finds, in the order they were minted.
LEMMA BuriedOrder ==
  ASSUME WithdrawnInv, OrderInv, NEW S \in SUBSET Nat, Withdraw(S),
         NEW found, found \subseteq S \cap live, IsFiniteSet(found),
         NEW full, full = tombstones \o InOrder(found)
  PROVE  /\ full \in Seq(Nat) /\ ToSet(full) = ToSet(tombstones) \cup found
         /\ \A i, j \in DOMAIN full : i < j => Before(full[i], full[j])'
<1> DEFINE buried == InOrder(found)
           m == Len(tombstones)
           n == Len(buried)
<1>1. found \subseteq S \ Withdrawn /\ found \subseteq Nat
  BY DEF WithdrawnInv
<1>2. /\ buried \in Seq(found) /\ ToSet(buried) = found
      /\ \A i, j \in DOMAIN buried : i < j => buried[i] < buried[j]
  BY <1>1, InOrderIs
<1>13. full = tombstones \o buried
  OBVIOUS
<1> HIDE DEF buried
<1>3. /\ tombstones \in Seq(Nat) /\ ToSet(tombstones) \subseteq Withdrawn
      /\ \A i, j \in DOMAIN tombstones : i < j => Before(tombstones[i], tombstones[j])
  BY DEF OrderInv, TombstonesFit
<1>4. /\ m \in Nat /\ DOMAIN tombstones = 1..m /\ (\A i \in 1..m : tombstones[i] \in Withdrawn)
      /\ n \in Nat /\ DOMAIN buried = 1..n /\ (\A i \in 1..n : buried[i] \in found)
  BY <1>2, <1>3 DEF ToSet
<1>5. buried \in Seq(Nat)
  <2>1. buried \in [1..n -> found]
    BY <1>2
  <2>2. buried \in [1..n -> Nat]
    BY <1>1, <2>1
  <2> QED BY <1>4, <2>2
<1>6. /\ full \in Seq(Nat) /\ Len(full) = m + n
      /\ \A i \in 1..m + n : full[i] = IF i <= m THEN tombstones[i] ELSE buried[i - m]
  BY <1>3, <1>5, <1>13, ConcatProperties
<1>7. DOMAIN full = 1..(m + n)
  BY <1>4, <1>6
<1> HIDE DEF m, n
<1>8. ASSUME NEW i \in 1..m PROVE i \in 1..(m + n) /\ full[i] = tombstones[i]
  BY <1>4, <1>6
<1>9. ASSUME NEW k \in 1..n PROVE m + k \in 1..(m + n) /\ full[m + k] = buried[k]
  <2> DEFINE i == m + k
  <2>1. i \in 1..(m + n) /\ ~(i <= m) /\ i - m = k
    BY <1>4
  <2> HIDE DEF i
  <2>2. full[i] = buried[i - m]
    BY <1>6, <2>1
  <2>3. full[i] = buried[k]
    BY <2>1, <2>2
  <2> QED BY <2>1, <2>3 DEF i
<1>14. ASSUME NEW i \in 1..(m + n), i \notin 1..m PROVE \E k \in 1..n : i = m + k
  <2>1. i - m \in 1..n /\ i = m + (i - m)
    BY <1>4, <1>14
  <2> QED BY <2>1
<1>10. ToSet(full) = ToSet(tombstones) \cup found
  <2>1. ASSUME NEW i \in 1..(m + n) PROVE full[i] \in ToSet(tombstones) \cup found
    <3>1. CASE i \in 1..m
      BY <1>4, <1>8, <3>1 DEF ToSet
    <3>2. CASE i \notin 1..m
      <4>1. PICK k \in 1..n : i = m + k
        BY <1>14, <3>2
      <4> QED BY <1>4, <1>9, <4>1
    <3> QED BY <3>1, <3>2
  <2>2. ToSet(tombstones) \subseteq ToSet(full)
    BY <1>4, <1>7, <1>8 DEF ToSet
  <2>3. ASSUME NEW t \in found PROVE t \in ToSet(full)
    <3>1. PICK k \in 1..n : buried[k] = t
      BY <1>2, <1>4 DEF ToSet
    <3>2. m + k \in DOMAIN full /\ full[m + k] = t
      BY <1>7, <1>9, <3>1
    <3> QED BY <3>2 DEF ToSet
  <2> QED BY <1>7, <2>1, <2>2, <2>3 DEF ToSet
<1>11. /\ \A t, u : Before(t, u) => Before(t, u)'
       /\ \A t \in Withdrawn, u \in S \ Withdrawn : Before(t, u)'
       /\ \A t, u \in S \ Withdrawn : t < u => Before(t, u)'
  BY WithdrawOrder DEF OrderInv
<1>12. ASSUME NEW i \in 1..(m + n), NEW j \in 1..(m + n), i < j PROVE Before(full[i], full[j])'
  <2>1. CASE i \in 1..m /\ j \in 1..m
    <3>1. Before(tombstones[i], tombstones[j])
      BY <1>3, <1>4, <1>12, <2>1
    <3>2. full[i] = tombstones[i] /\ full[j] = tombstones[j]
      BY <1>8, <2>1
    <3> QED BY <1>11, <3>1, <3>2
  <2>2. CASE i \in 1..m /\ j \notin 1..m
    <3>1. PICK k \in 1..n : j = m + k
      BY <1>14, <2>2
    <3>2. full[i] = tombstones[i] /\ full[j] = buried[k]
      BY <1>8, <1>9, <2>2, <3>1
    <3>3. full[i] \in Withdrawn /\ full[j] \in S \ Withdrawn
      BY <1>1, <1>4, <2>2, <3>2
    <3> QED BY <1>11, <3>3
  <2>3. CASE i \notin 1..m /\ j \notin 1..m
    <3>1. PICK k \in 1..n : i = m + k
      BY <1>14, <2>3
    <3>2. PICK l \in 1..n : j = m + l
      BY <1>14, <2>3
    <3>3. full[i] = buried[k] /\ full[j] = buried[l]
      BY <1>9, <3>1, <3>2
    <3>4. k < l
      BY <1>4, <1>12, <3>1, <3>2
    <3>5. buried[k] < buried[l] /\ buried[k] \in S \ Withdrawn /\ buried[l] \in S \ Withdrawn
      BY <1>1, <1>2, <1>4, <3>4
    <3> QED BY <1>11, <3>3, <3>5
  <2>4. i \in 1..m \/ j \notin 1..m
    BY <1>4, <1>12
  <2> QED BY <2>1, <2>2, <2>3, <2>4
<1> QED BY <1>6, <1>7, <1>10, <1>12 DEF buried

\* What was withdrawn after a token stays so, and is never too much to count.
LEMMA AfterGrows ==
  ASSUME IndexInv, WithdrawnInv, WithdrawnInv', UNCHANGED grants, Withdrawn \subseteq Withdrawn',
         \A t, u : Before(t, u) => Before(t, u)', NEW t
  PROVE  /\ IsFiniteSet(After(t)') /\ Cardinality(After(t)') \in Nat
         /\ Cardinality(After(t)) \in Nat /\ Cardinality(After(t)) <= Cardinality(After(t)')
<1>1. PICK A : A = After(t)
  OBVIOUS
<1>2. PICK B : B = After(t)'
  OBVIOUS
<1>3. Len(grants) \in Nat
  BY DEF IndexInv
<1>4. B \subseteq 1..Len(grants)
  BY <1>2 DEF After, WithdrawnInv
<1>5. IsFiniteSet(1..Len(grants))
  BY <1>3, FS_Interval
<1>6. IsFiniteSet(B)
  BY <1>4, <1>5, FS_Subset
<1>7. A \subseteq B
  BY <1>1, <1>2 DEF After
<1>8. IsFiniteSet(A) /\ Cardinality(A) <= Cardinality(B)
  BY <1>6, <1>7, FS_Subset
<1>9. Cardinality(A) \in Nat /\ Cardinality(B) \in Nat
  BY <1>6, <1>8, FS_CardinalityType
<1> QED BY <1>1, <1>2, <1>6, <1>8, <1>9

\* What the trim keeps of a sequence in order is in order, and comes after what it drops.
LEMMA KeptOrder ==
  ASSUME WithdrawnInv', WithdrawnOnce', IndexInv, UNCHANGED grants,
         NEW full \in Seq(Nat), ToSet(full) \subseteq Withdrawn',
         \A i, j \in DOMAIN full : i < j => Before(full[i], full[j])',
         NEW kept, kept = Trimmed(full)
  PROVE  /\ kept \in Seq(Nat) /\ Len(kept) <= MaxRevoked /\ ToSet(kept) \subseteq ToSet(full)
         /\ \A i, j \in DOMAIN kept : i < j => Before(kept[i], kept[j])'
         /\ \A t \in ToSet(full) \ ToSet(kept) : Cardinality(After(t)') >= MaxRevoked
<1> DEFINE n == Len(kept)
<1>1. PICK e \in Nat : Len(full) = n + e /\ (\A i \in 1..n : kept[i] = full[i + e]) /\ (e > 0 => n = MaxRevoked)
  BY TrimmedIs
<1>2. kept \in Seq(Nat) /\ n <= MaxRevoked /\ n \in Nat /\ DOMAIN kept = 1..n /\ DOMAIN full = 1..(n + e)
  BY <1>1, TrimmedIs
<1> HIDE DEF n
<1>3. ASSUME NEW i \in 1..n PROVE i + e \in DOMAIN full /\ kept[i] = full[i + e]
  BY <1>1, <1>2
<1>4. ToSet(kept) \subseteq ToSet(full)
  BY <1>2, <1>3 DEF ToSet
<1>5. ASSUME NEW i \in 1..n, NEW j \in 1..n, i < j PROVE Before(kept[i], kept[j])'
  <2>1. i + e < j + e
    BY <1>1, <1>2, <1>5
  <2>2. Before(full[i + e], full[j + e])'
    BY <1>3, <2>1
  <2> QED BY <1>3, <2>2
<1>6. ASSUME NEW t \in ToSet(full) \ ToSet(kept) PROVE Cardinality(After(t)') >= MaxRevoked
  <2>1. PICK k \in DOMAIN full : full[k] = t
    BY <1>6 DEF ToSet
  <2>2. k <= e
    <3> SUFFICES ASSUME k > e PROVE FALSE
      BY <1>1, <1>2
    <3> DEFINE i == k - e
    <3>1. i \in 1..n /\ i + e = k
      <4>1. k \in 1..(n + e) /\ n \in Nat /\ e \in Nat
        BY <1>1, <1>2
      <4> QED BY <4>1
    <3> HIDE DEF i
    <3>2. kept[i] = full[i + e]
      BY <1>1, <3>1
    <3>3. kept[i] = t
      BY <2>1, <3>1, <3>2
    <3> QED BY <1>2, <1>6, <3>1, <3>3 DEF ToSet
  <2>3. n = MaxRevoked
    BY <1>1, <1>2, <2>2
  <2>4. PICK A : A = After(t)'
    OBVIOUS
  <2>5. ASSUME NEW i \in 1..n PROVE kept[i] \in A
    <3>1. k < i + e
      BY <1>1, <1>2, <2>2
    <3>2. Before(full[k], full[i + e])'
      BY <1>3, <3>1
    <3>3. Before(t, kept[i])'
      BY <1>3, <2>1, <3>2
    <3>4. kept[i] \in ToSet(full)
      BY <1>2, <1>4 DEF ToSet
    <3> QED BY <2>4, <3>3, <3>4 DEF After
  <2>6. ASSUME NEW i \in 1..n, NEW j \in 1..n, kept[i] = kept[j] PROVE i = j
    <3>1. ~Before(kept[i], kept[i])'
      BY PrecedesIrreflexive DEF Before, WithdrawnInv, WithdrawnOnce
    <3>2. ~(i < j) /\ ~(j < i)
      BY <1>5, <2>6, <3>1
    <3> QED BY <1>2, <3>2
  <2>7. kept \in Injection(1..n, A)
    <3>1. kept \in [1..n -> A]
      BY <1>2, <2>5
    <3> QED BY <2>6, <3>1 DEF Injection, IsInjective
  <2>8. IsFiniteSet(A) /\ Cardinality(A) \in Nat
    <3>1. Len(grants) \in Nat
      BY DEF IndexInv
    <3>2. A \subseteq 1..Len(grants)
      BY <2>4 DEF After, WithdrawnInv
    <3>3. IsFiniteSet(1..Len(grants))
      BY <3>1, FS_Interval
    <3>4. IsFiniteSet(A)
      BY <3>2, <3>3, FS_Subset
    <3> QED BY <3>4, FS_CardinalityType
  <2>9. Cardinality(1..n) = n /\ Cardinality(1..n) <= Cardinality(A)
    BY <1>2, <2>7, <2>8, FS_Injection, FS_Interval
  <2> QED BY <1>2, <2>3, <2>4, <2>8, <2>9
<1> QED BY <1>2, <1>4, <1>5, <1>6 DEF n

\* A revocation makes tombstones of the live links it finds, and trims the oldest ones.
LEMMA BuryOrder ==
  ASSUME IndexInv, WithdrawnInv, OrderInv, WithdrawnInv', NEW found, found \subseteq live,
         NEW S \in SUBSET Nat, found \subseteq S, Bury(found), Withdraw(S), UNCHANGED <<grants, lost, now>>
  PROVE  OrderInv'
<1>1. PICK full : full = tombstones \o InOrder(found)
  OBVIOUS
<1>2. PICK kept : kept = Trimmed(full)
  OBVIOUS
<1>3. found \cap live = found
  OBVIOUS
<1>4. IsFiniteSet(found) /\ found \subseteq Nat
  <2>1. Len(grants) \in Nat /\ found \subseteq 1..Len(grants)
    <3>1. Len(grants) \in Nat
      BY DEF IndexInv
    <3>2. live \subseteq 1..Len(grants)
      BY DEF IndexInv
    <3> QED BY <3>1, <3>2
  <2>2. IsFiniteSet(1..Len(grants))
    BY <2>1, FS_Interval
  <2> QED BY <2>1, <2>2, FS_Subset
<1>5. ToSet(InOrder(found)) = found
  BY <1>4, InOrderIs
<1>6. /\ tombstones' = kept /\ live' = live \ found
      /\ DOMAIN timers' = (DOMAIN timers \cup found) \ (ToSet(full) \ ToSet(kept))
  BY <1>1, <1>2, <1>3, <1>5 DEF Bury, Unlist
<1>7. /\ full \in Seq(Nat) /\ ToSet(full) = ToSet(tombstones) \cup found
      /\ \A i, j \in DOMAIN full : i < j => Before(full[i], full[j])'
  <2>1. found \subseteq S \cap live
    OBVIOUS
  <2> QED BY <1>1, <1>4, <2>1, BuriedOrder
<1>8. WithdrawnOnce' /\ \A t, u : Before(t, u) => Before(t, u)'
  BY WithdrawOrder DEF OrderInv
<1>9. Withdrawn' = Withdrawn \cup S
  BY WithdrawEffect DEF WithdrawnInv
<1>10. ToSet(tombstones) \subseteq Withdrawn /\ Withdrawn \cap live = {}
  BY DEF OrderInv, TombstonesFit, WithdrawnInv
<1>11. ToSet(full) \subseteq Withdrawn'
  BY <1>7, <1>9, <1>10
<1>12. /\ kept \in Seq(Nat) /\ Len(kept) <= MaxRevoked /\ ToSet(kept) \subseteq ToSet(full)
       /\ \A i, j \in DOMAIN kept : i < j => Before(kept[i], kept[j])'
       /\ \A t \in ToSet(full) \ ToSet(kept) : Cardinality(After(t)') >= MaxRevoked
  BY <1>2, <1>7, <1>8, <1>11, KeptOrder
<1>13. TombstonesFit'
  BY <1>6, <1>11, <1>12 DEF TombstonesFit
<1>14. RecordsHaveTimers'
  <2>1. DOMAIN timers = live \cup ToSet(tombstones)
    BY DEF OrderInv, RecordsHaveTimers
  <2>2. DOMAIN timers' = (live \ found) \cup ToSet(kept)
    BY <1>6, <1>7, <1>10, <1>12, <2>1
  <2> QED BY <1>6, <2>2 DEF RecordsHaveTimers
<1>15. ASSUME NEW t \in Tokens, t > lost, ~Expired(t) PROVE TokenFits(t)'
  <2>1. TokenFits(t)
    BY <1>15 DEF OrderInv, TokensFit
  <2>2. CASE t \in live \ found
    BY <1>6, <2>2 DEF TokenFits
  <2>3. CASE t \in ToSet(full)
    <3>1. CASE t \in ToSet(kept)
      BY <1>6, <3>1 DEF TokenFits
    <3>2. CASE t \notin ToSet(kept)
      BY <1>11, <1>12, <2>3, <3>2 DEF TokenFits
    <3> QED BY <3>1, <3>2
  <2>4. CASE t \in Withdrawn /\ Cardinality(After(t)) >= MaxRevoked
    <3>1. Cardinality(After(t)) <= Cardinality(After(t)') /\ Cardinality(After(t)) \in Nat /\ Cardinality(After(t)') \in Nat
      BY <1>8, <1>9, AfterGrows
    <3>2. t \in Withdrawn' /\ Cardinality(After(t)') >= MaxRevoked
      BY <1>9, <2>4, <3>1, LifeAssumption
    <3> QED BY <3>2 DEF TokenFits
  <2> QED BY <1>7, <2>1, <2>2, <2>3, <2>4 DEF TokenFits
<1>16. TokensFit'
  BY <1>15 DEF TokensFit, Tokens, Expired
<1> QED BY <1>8, <1>13, <1>14, <1>16 DEF OrderInv

\* Steps that withdraw nothing and leave the tombstones.
LEMMA FrameOrder ==
  ASSUME OrderInv, UNCHANGED <<withdrawn, tombstones>>
  PROVE  /\ WithdrawnOnce' /\ TombstonesFit'
         /\ Withdrawn' = Withdrawn /\ \A t : After(t)' = After(t)
<1>1. Withdrawn' = Withdrawn /\ \A t, u : Before(t, u)' = Before(t, u)
  BY DEF Withdrawn, Before
<1>2. WithdrawnOnce'
  BY DEF OrderInv, WithdrawnOnce
<1>3. TombstonesFit'
  BY <1>1 DEF OrderInv, TombstonesFit
<1>4. \A t : After(t)' = After(t)
  BY <1>1 DEF After
<1> QED BY <1>1, <1>2, <1>3, <1>4

\* A token that is minted is in the map, and has a timer.
LEMMA MintOrder ==
  ASSUME IndexInv, OrderInv, NEW grant, Mint(grant), UNCHANGED <<now, lost, withdrawn, tombstones>>
  PROVE  OrderInv'
<1>1. PICK t : t = Len(grants) + 1
  OBVIOUS
<1>2. PICK S : grants \in Seq(S)
  BY DEF IndexInv
<1>3. grants' = Append(grants, grant) /\ live' = live \cup {t} /\ DOMAIN timers' = DOMAIN timers \cup {t}
  BY <1>1 DEF Mint
<1>4. DOMAIN grants' = DOMAIN grants \cup {t} /\ \A u \in DOMAIN grants : grants'[u] = grants[u]
  <2>1. grants \in Seq(S \cup {grant})
    BY <1>2
  <2> QED BY <1>1, <1>3, <2>1
<1>5. /\ WithdrawnOnce' /\ TombstonesFit'
      /\ Withdrawn' = Withdrawn /\ \A u : After(u)' = After(u)
  BY FrameOrder
<1>6. RecordsHaveTimers'
  BY <1>3 DEF OrderInv, RecordsHaveTimers
<1>7. ASSUME NEW u \in Tokens', u > lost, ~Expired(u)' PROVE TokenFits(u)'
  <2>1. CASE u = t
    BY <1>3, <2>1 DEF TokenFits
  <2>2. CASE u \in Tokens
    <3>1. ~Expired(u)
      BY <1>4, <1>7, <2>2 DEF Expired, Tokens
    <3>2. TokenFits(u)
      BY <1>7, <2>2, <3>1 DEF OrderInv, TokensFit
    <3> QED BY <1>3, <1>5, <3>2 DEF TokenFits
  <2> QED BY <1>4, <1>7, <2>1, <2>2 DEF Tokens
<1>8. TokensFit'
  BY <1>7 DEF TokensFit
<1> QED BY <1>5, <1>6, <1>8 DEF OrderInv

\* An expired link or tombstone is taken out with its timer.
LEMMA ExpireOrder ==
  ASSUME WithdrawnInv, OrderInv, NEW t, Expired(t), Expire(t), tombstones' = Without(tombstones, t),
         UNCHANGED <<grants, now, lost, withdrawn>>
  PROVE  OrderInv'
<1>1. /\ tombstones \in Seq(Nat) /\ Len(tombstones) <= MaxRevoked /\ ToSet(tombstones) \subseteq Withdrawn
      /\ \A i, j \in DOMAIN tombstones : i < j => Before(tombstones[i], tombstones[j])
  BY DEF OrderInv, TombstonesFit
<1>2. IsInjective(tombstones)
  BY <1>1, OrderedInjective DEF OrderInv
<1>3. /\ tombstones' \in Seq(Nat) /\ Len(tombstones') <= Len(tombstones)
      /\ ToSet(tombstones') = ToSet(tombstones) \ {t}
      /\ \A i, j \in DOMAIN tombstones' : i < j =>
           \E k, l \in DOMAIN tombstones : k < l /\ tombstones'[i] = tombstones[k] /\ tombstones'[j] = tombstones[l]
  BY <1>1, <1>2, WithoutIs
<1>4. Withdrawn' = Withdrawn /\ \A u, v : Before(u, v)' = Before(u, v)
  BY DEF Withdrawn, Before
<1>5. \A u : After(u)' = After(u)
  BY <1>4 DEF After
<1>6. WithdrawnOnce'
  BY DEF OrderInv, WithdrawnOnce
<1>7. TombstonesFit'
  <2>1. Len(tombstones') <= MaxRevoked
    BY <1>1, <1>3, LifeAssumption
  <2>2. \A i, j \in DOMAIN tombstones' : i < j => Before(tombstones'[i], tombstones'[j])
    BY <1>1, <1>3
  <2>3. \A i, j \in DOMAIN tombstones' : i < j => Before(tombstones[i], tombstones[j])'
    BY <1>4, <2>2
  <2> QED BY <1>1, <1>3, <1>4, <2>1, <2>3 DEF TombstonesFit
<1>8. live' = live \ {t} /\ DOMAIN timers' = DOMAIN timers \ {t}
  BY DEF Expire, Unlist, Disarm
<1>9. RecordsHaveTimers'
  BY <1>3, <1>8 DEF OrderInv, RecordsHaveTimers
<1>10. TokensFit'
  BY <1>3, <1>4, <1>5, <1>8 DEF OrderInv, TokensFit, TokenFits, Tokens, Expired
<1> QED BY <1>6, <1>7, <1>9, <1>10 DEF OrderInv

\* The clock, and what is no concern of the maps.
LEMMA SameOrder ==
  ASSUME OrderInv, UNCHANGED <<grants, live, tombstones, lost, withdrawn>>, DOMAIN timers' = DOMAIN timers,
         now \in Nat, now' \in Nat, now' >= now, \A t \in Tokens : grants[t].expires \in Nat
  PROVE  OrderInv'
<1>1. WithdrawnOnce' /\ TombstonesFit' /\ Withdrawn' = Withdrawn /\ \A t : After(t)' = After(t)
  BY FrameOrder
<1>2. RecordsHaveTimers'
  BY DEF OrderInv, RecordsHaveTimers
<1>3. \A t \in Tokens : ~Expired(t)' => ~Expired(t)
  BY DEF Expired
<1>4. TokensFit'
  BY <1>1, <1>3 DEF OrderInv, TokensFit, TokenFits, Tokens
<1> QED BY <1>1, <1>2, <1>4 DEF OrderInv

\* A restart forgets everything, and no token from before it is owed an answer.
LEMMA LostOrder ==
  ASSUME IndexInv, OrderInv, LinksLost
  PROVE  OrderInv'
<1>1. /\ live' = {} /\ tombstones' = << >> /\ DOMAIN timers' = {} /\ lost' = Len(grants)
      /\ UNCHANGED <<grants, withdrawn>>
  BY DEF LinksLost
<1>2. tombstones' \in Seq(Nat) /\ Len(tombstones') = 0 /\ DOMAIN tombstones' = {} /\ ToSet(tombstones') = {}
  BY <1>1 DEF ToSet
<1>3. WithdrawnOnce'
  BY <1>1 DEF OrderInv, WithdrawnOnce
<1>4. TombstonesFit'
  BY <1>2, LifeAssumption DEF TombstonesFit
<1>5. RecordsHaveTimers'
  BY <1>1, <1>2 DEF RecordsHaveTimers
<1>6. \A t \in Tokens' : ~(t > lost')
  <2>1. Len(grants) \in Nat /\ DOMAIN grants = 1..Len(grants)
    BY DEF IndexInv
  <2> QED BY <1>1, <2>1 DEF Tokens
<1>7. TokensFit'
  BY <1>6 DEF TokensFit
<1> QED BY <1>3, <1>4, <1>5, <1>7 DEF OrderInv

-------------------------------------------------------------------------------
(* Links: types. *)

Rows == Descriptors \cup {Absent} \cup {[d EXCEPT !.status = "revoked"] : d \in Descriptors}

LinkTypes ==
  /\ rows \in [Workspaces \X Previews -> Rows]
  /\ Len(grants) <= MaxTokens
  /\ \A t \in Tokens : grants[t].workspace \in Workspaces \cup {Absent} /\ grants[t].expires \in Nat
  /\ byPreview \in [Previews -> SUBSET Tokens] /\ byScope \in [Services -> SUBSET Tokens]
  /\ launchable \in BOOLEAN /\ launching \in [Services -> 0..MaxTokens]
  /\ lost \in 0..Len(grants)

\* The expiry of a preview, whether revoked or not.
LEMMA RowExpires ==
  ASSUME NEW row \in Rows, row # Absent
  PROVE  row.expires \in Nat \cup {Absent}
<1>1. CASE row \in Descriptors
  BY <1>1, LifeAssumption
<1>2. CASE row \in {[d EXCEPT !.status = "revoked"] : d \in Descriptors}
  <2>1. PICK d \in Descriptors : row = [d EXCEPT !.status = "revoked"]
    BY <1>2
  <2>2. row.expires = d.expires
    BY <2>1, LifeAssumption
  <2> QED BY <2>2, LifeAssumption
<1> QED BY <1>1, <1>2 DEF Rows

\* A preview that is revoked, perhaps again.
LEMMA RowRevoked ==
  ASSUME NEW row \in Rows, row # Absent
  PROVE  [row EXCEPT !.status = "revoked"] \in Rows
<1>1. CASE row \in Descriptors
  BY <1>1 DEF Rows
<1>2. CASE row \in {[d EXCEPT !.status = "revoked"] : d \in Descriptors}
  <2>1. PICK d \in Descriptors : row = [d EXCEPT !.status = "revoked"]
    BY <1>2
  <2>2. [row EXCEPT !.status = "revoked"] = row
    BY <2>1
  <2> QED BY <2>2
<1> QED BY <1>1, <1>2 DEF Rows

\* A minted link has its owner, its expiry and a token within the bound.
LEMMA MintTypes ==
  ASSUME IndexInv, LinkTypes, NEW grant, grant.workspace \in Workspaces \cup {Absent}, grant.expires \in Nat,
         Mint(grant), RoomForToken, UNCHANGED <<rows, launchable, lost>>, launching' \in [Services -> 0..MaxTokens]
  PROVE  LinkTypes'
<1> DEFINE n == Len(grants)
<1>1. PICK t : t = Len(grants) + 1
  OBVIOUS
<1>2. PICK S : grants \in Seq(S)
  BY DEF IndexInv
<1>3. /\ grants' = Append(grants, grant)
      /\ byPreview' = [p \in Previews |-> byPreview[p] \cup (IF p = grant.preview THEN {t} ELSE {})]
      /\ byScope' = [s \in Services |-> byScope[s] \cup (IF s = grant.service THEN {t} ELSE {})]
  BY <1>1 DEF Mint
<1>4. /\ n \in Nat /\ Len(grants') = n + 1 /\ Tokens' = Tokens \cup {t}
      /\ grants'[t] = grant /\ \A u \in Tokens : grants'[u] = grants[u]
  <2>1. grants \in Seq(S \cup {grant})
    BY <1>2
  <2> QED BY <1>1, <1>3, <2>1 DEF Tokens
<1>5. byPreview' \in [Previews -> SUBSET Tokens'] /\ byScope' \in [Services -> SUBSET Tokens']
  BY <1>3, <1>4 DEF LinkTypes
<1>6. Len(grants') <= MaxTokens /\ lost' \in 0..Len(grants')
  BY <1>4, LifeAssumption DEF LinkTypes, RoomForToken
<1>7. \A u \in Tokens' : grants'[u].workspace \in Workspaces \cup {Absent} /\ grants'[u].expires \in Nat
  BY <1>4 DEF LinkTypes
<1> QED BY <1>5, <1>6, <1>7 DEF LinkTypes

\* Links that are taken out leave the indexes sets of tokens.
LEMMA UnlistTypes ==
  ASSUME LinkTypes, NEW gone, Unlist(gone), UNCHANGED <<grants, launchable, launching, lost>>,
         rows' \in [Workspaces \X Previews -> Rows]
  PROVE  LinkTypes'
<1>1. /\ byPreview' = [p \in Previews |-> byPreview[p] \ gone]
      /\ byScope' = [s \in Services |-> byScope[s] \ gone]
  BY DEF Unlist
<1>2. byPreview' \in [Previews -> SUBSET Tokens] /\ byScope' \in [Services -> SUBSET Tokens]
  BY <1>1 DEF LinkTypes
<1> QED BY <1>2 DEF LinkTypes, Tokens

\* Steps that mint nothing and leave the indexes alone.
LEMMA SameTypes ==
  ASSUME LinkTypes, UNCHANGED <<grants, byPreview, byScope, lost>>,
         rows' \in [Workspaces \X Previews -> Rows], launchable' \in BOOLEAN,
         launching' \in [Services -> 0..MaxTokens]
  PROVE  LinkTypes'
BY DEF LinkTypes, Tokens

\* A restart empties the maps and forgets the launches under way.
LEMMA LostTypes ==
  ASSUME IndexInv, LinkTypes, LinksLost
  PROVE  LinkTypes'
<1>1. Len(grants) \in Nat
  BY DEF IndexInv
<1>2. /\ lost' = Len(grants) /\ launching' = [s \in Services |-> 0]
      /\ byPreview' = [p \in Previews |-> {}] /\ byScope' = [s \in Services |-> {}]
      /\ UNCHANGED <<rows, grants, launchable>>
  BY DEF LinksLost
<1>3. launching' \in [Services -> 0..MaxTokens] /\ lost' \in 0..Len(grants')
  BY <1>1, <1>2, LifeAssumption
<1>4. byPreview' \in [Previews -> SUBSET Tokens] /\ byScope' \in [Services -> SUBSET Tokens]
  BY <1>2
<1> QED BY <1>2, <1>3, <1>4 DEF LinkTypes, Tokens

-------------------------------------------------------------------------------
(* Links: the steps. *)

LinkInv == LinkTypes /\ OrderInv

\* What register, launch and revoke of a preview keep.
LEMMA PreviewSteps ==
  ASSUME now \in Nat, IndexInv, WithdrawnInv, WithdrawnInv', LinkInv, UNCHANGED now,
         NEW w \in Workspaces, NEW p \in Previews,
         RegisterPreview(w, p) \/ LaunchPreview(w, p) \/ RevokePreview(w, p)
  PROVE  LinkInv'
<1>1. LinkTypes /\ OrderInv /\ rows[<<w, p>>] \in Rows /\ <<w, p>> \in Workspaces \X Previews
  BY DEF LinkInv, LinkTypes
<1>2. CASE RegisterPreview(w, p)
  <2>1. PICK d \in Descriptors : rows' = [rows EXCEPT ![<<w, p>>] = d]
    BY <1>2 DEF RegisterPreview
  <2>2. rows' \in [Workspaces \X Previews -> Rows]
    BY <1>1, <2>1 DEF LinkTypes, Rows
  <2>3. UNCHANGED <<grants, live, byPreview, byScope, tombstones, timers, launchable, launching, lost, withdrawn>>
    BY <1>2 DEF RegisterPreview
  <2>4. LinkTypes'
    BY <1>1, <2>2, <2>3, SameTypes DEF LinkTypes
  <2>5. OrderInv'
    BY <1>1, <2>3, SameOrder DEF LinkTypes
  <2> QED BY <2>4, <2>5 DEF LinkInv
<1>3. CASE LaunchPreview(w, p)
  <2> DEFINE row == rows[<<w, p>>]
             expires == IF row.expires = Absent THEN now + DefaultLife ELSE row.expires
             grant == [workspace |-> w, preview |-> p, service |-> Absent,
                       root |-> RootPath(row), default |-> DefaultFile(row), expires |-> expires]
  <2>1. /\ row # Absent /\ RoomForToken /\ Mint(grant)
        /\ UNCHANGED <<rows, tombstones, launchable, launching, lost, withdrawn>>
    BY <1>3 DEF LaunchPreview
  <2>2. expires \in Nat
    BY <1>1, <2>1, RowExpires, LifeAssumption
  <2>3. grant.workspace \in Workspaces \cup {Absent} /\ grant.expires \in Nat
    BY <2>2
  <2> HIDE DEF grant
  <2>4. LinkTypes'
    BY <1>1, <2>1, <2>3, MintTypes DEF LinkTypes
  <2>5. OrderInv'
    BY <1>1, <2>1, MintOrder
  <2> QED BY <2>4, <2>5 DEF LinkInv
<1>4. CASE RevokePreview(w, p)
  <2> DEFINE S == OfPreview(w, p) \cup (byPreview[p] \cap live)
             found == byPreview[p]
  <2>1. /\ rows[<<w, p>>] # Absent /\ Bury(found) /\ Withdraw(S)
        /\ rows' = [rows EXCEPT ![<<w, p>>].status = "revoked"]
        /\ UNCHANGED <<grants, launchable, launching, lost>>
    BY <1>4 DEF RevokePreview
  <2>2. rows' \in [Workspaces \X Previews -> Rows]
    <3>1. rows' = [rows EXCEPT ![<<w, p>>] = [rows[<<w, p>>] EXCEPT !.status = "revoked"]]
      BY <2>1
    <3>2. [rows[<<w, p>>] EXCEPT !.status = "revoked"] \in Rows
      BY <1>1, <2>1, RowRevoked
    <3> QED BY <1>1, <3>1, <3>2 DEF LinkTypes
  <2>3. found \subseteq live /\ found \subseteq S
    BY DEF IndexInv, IndexesFollowLinks
  <2>4. S \in SUBSET Nat
    <3>1. Tokens \subseteq Nat /\ live \subseteq Nat
      BY DEF IndexInv, Tokens
    <3> QED BY <3>1 DEF OfPreview
  <2> HIDE DEF S, found
  <2>5. LinkTypes'
    <3>1. Unlist(found)
      BY <2>1 DEF Bury
    <3> QED BY <1>1, <2>1, <2>2, <3>1, UnlistTypes
  <2>6. OrderInv'
    BY <1>1, <2>1, <2>3, <2>4, BuryOrder
  <2> QED BY <2>5, <2>6 DEF LinkInv
<1> QED BY <1>2, <1>3, <1>4

\* What the two halves of a service launch, and its revocation, keep.
LEMMA ServiceSteps ==
  ASSUME now \in Nat, IndexInv, WithdrawnInv, WithdrawnInv', LinkInv, UNCHANGED now, NEW s \in Services,
         ServiceLaunchBegins(s) \/ ServiceLaunchReturns(s) \/ ServiceLaunchFails(s) \/ RevokeService(s)
  PROVE  LinkInv'
<1>1. /\ LinkTypes /\ OrderInv /\ rows \in [Workspaces \X Previews -> Rows]
      /\ launching \in [Services -> 0..MaxTokens] /\ launchable \in BOOLEAN
  BY DEF LinkInv, LinkTypes
<1>2. Len(grants) \in Nat /\ MaxTokens \in Nat
  BY LifeAssumption DEF IndexInv
<1>3. CASE ServiceLaunchBegins(s) \/ ServiceLaunchFails(s)
  <2>1. launching' \in [Services -> 0..MaxTokens]
    <3>1. CASE ServiceLaunchBegins(s)
      <4>1. launching' = [launching EXCEPT ![s] = launching[s] + 1] /\ Len(grants) + launching[s] < MaxTokens
        BY <3>1 DEF ServiceLaunchBegins
      <4>2. launching[s] + 1 \in 0..MaxTokens
        BY <1>1, <1>2, <4>1
      <4> QED BY <1>1, <4>1, <4>2
    <3>2. CASE ServiceLaunchFails(s)
      <4>1. launching' = [launching EXCEPT ![s] = launching[s] - 1] /\ launching[s] > 0
        BY <3>2 DEF ServiceLaunchFails
      <4>2. launching[s] - 1 \in 0..MaxTokens
        BY <1>1, <1>2, <4>1
      <4> QED BY <1>1, <4>1, <4>2
    <3> QED BY <1>3, <3>1, <3>2
  <2>2. UNCHANGED <<rows, grants, live, byPreview, byScope, tombstones, timers, launchable, lost, withdrawn>>
    BY <1>3 DEF ServiceLaunchBegins, ServiceLaunchFails
  <2>3. LinkTypes'
    BY <1>1, <2>1, <2>2, SameTypes
  <2>4. OrderInv'
    BY <1>1, <2>2, SameOrder DEF LinkTypes
  <2> QED BY <2>3, <2>4 DEF LinkInv
<1>4. CASE ServiceLaunchReturns(s)
  <2> DEFINE grant == [workspace |-> Absent, preview |-> Absent, service |-> s,
                       root |-> Absent, default |-> Absent, expires |-> now + ServiceLife]
  <2>1. /\ launching[s] > 0 /\ launching' = [launching EXCEPT ![s] = launching[s] - 1] /\ RoomForToken /\ Mint(grant)
        /\ UNCHANGED <<rows, tombstones, launchable, lost, withdrawn>>
    BY <1>4 DEF ServiceLaunchReturns
  <2>2. grant.workspace \in Workspaces \cup {Absent} /\ grant.expires \in Nat
    BY LifeAssumption
  <2> HIDE DEF grant
  <2>3. launching' \in [Services -> 0..MaxTokens]
    <3>1. launching[s] - 1 \in 0..MaxTokens
      BY <1>1, <1>2, <2>1
    <3> QED BY <1>1, <2>1, <3>1
  <2>4. LinkTypes'
    BY <1>1, <2>1, <2>2, <2>3, MintTypes
  <2>5. OrderInv'
    BY <1>1, <2>1, MintOrder
  <2> QED BY <2>4, <2>5 DEF LinkInv
<1>5. CASE RevokeService(s)
  <2> DEFINE S == OfService(s)
             found == byScope[s]
  <2>1. Bury(found) /\ Withdraw(S) /\ UNCHANGED <<rows, grants, launchable, launching, lost>>
    BY <1>5 DEF RevokeService
  <2>2. found \subseteq live /\ found \subseteq S /\ S \in SUBSET Nat
    <3>1. Tokens \subseteq Nat /\ live \subseteq Tokens
      BY DEF IndexInv, Tokens
    <3> QED BY <3>1 DEF OfService, IndexInv, IndexesFollowLinks
  <2> HIDE DEF S, found
  <2>3. LinkTypes'
    <3>1. Unlist(found)
      BY <2>1 DEF Bury
    <3> QED BY <1>1, <2>1, <3>1, UnlistTypes
  <2>4. OrderInv'
    BY <1>1, <2>1, <2>2, BuryOrder
  <2> QED BY <2>3, <2>4 DEF LinkInv
<1> QED BY <1>3, <1>4, <1>5

\* What a timer, an expired link that is opened and a change of the node keep.
LEMMA TimerSteps ==
  ASSUME now \in Nat, IndexInv, WithdrawnInv, LinkInv, UNCHANGED now,
         NEW t \in Tokens, OpenExpired(t) \/ TimerFires(t)
  PROVE  LinkInv'
<1>1. LinkTypes /\ OrderInv /\ rows \in [Workspaces \X Previews -> Rows]
  BY DEF LinkInv, LinkTypes
<1>2. ASSUME Expired(t), Expire(t), tombstones' = Without(tombstones, t),
             UNCHANGED <<rows, grants, launchable, launching, lost, withdrawn>>
      PROVE  LinkInv'
  <2>1. LinkTypes'
    <3>1. Unlist({t})
      BY <1>2 DEF Expire
    <3> QED BY <1>1, <1>2, <3>1, UnlistTypes
  <2>2. OrderInv'
    BY <1>1, <1>2, ExpireOrder
  <2> QED BY <2>1, <2>2 DEF LinkInv
<1>3. CASE OpenExpired(t)
  <2>1. tombstones' = Without(tombstones, t)
    BY <1>3 DEF OpenExpired, Without
  <2> QED BY <1>2, <1>3, <2>1 DEF OpenExpired
<1>4. CASE TimerFires(t) /\ Expired(t)
  BY <1>2, <1>4 DEF TimerFires
<1>5. CASE TimerFires(t) /\ ~Expired(t)
  <2>1. /\ t \in DOMAIN timers /\ timers' = Arm({t})
        /\ UNCHANGED <<rows, grants, live, byPreview, byScope, tombstones, launchable, launching, lost, withdrawn>>
    BY <1>5 DEF TimerFires
  <2>2. DOMAIN timers' = DOMAIN timers
    BY <2>1 DEF Arm
  <2>3. LinkTypes'
    BY <1>1, <2>1, SameTypes DEF LinkTypes
  <2>4. OrderInv'
    BY <1>1, <2>1, <2>2, SameOrder DEF LinkTypes
  <2> QED BY <2>3, <2>4 DEF LinkInv
<1> QED BY <1>3, <1>4, <1>5

\* A step of the service keeps the types and the order of revocations.
LEMMA LinkStep ==
  ASSUME RequestInv, RequestInv', IndexInv, WithdrawnInv, WithdrawnInv', LinkInv, [Next]_vars
  PROVE  LinkInv'
<1>1. now \in Nat /\ now' \in Nat
  BY DEF RequestInv, RowTypes
<1>2. LinkTypes /\ OrderInv
  BY DEF LinkInv
<1>3. ASSUME UNCHANGED linkVars, now' >= now PROVE LinkInv'
  <2>1. LinkTypes'
    BY <1>2, <1>3, SameTypes DEF linkVars, LinkTypes
  <2>2. OrderInv'
    BY <1>1, <1>2, <1>3, SameOrder DEF linkVars, LinkTypes
  <2> QED BY <2>1, <2>2 DEF LinkInv
<1>4. CASE Requests \/ UNCHANGED vars
  BY <1>1, <1>3, <1>4 DEF Requests, RequestsNext, vars
<1>5. CASE Links
  <2>1. CASE NodeChanges
    <3>1. /\ launchable' \in BOOLEAN
          /\ UNCHANGED <<rows, grants, live, byPreview, byScope, tombstones, timers, launching, lost, withdrawn>>
      BY <2>1 DEF NodeChanges
    <3>2. LinkTypes'
      BY <1>2, <3>1, SameTypes DEF LinkTypes
    <3>3. OrderInv'
      BY <1>1, <1>2, <1>5, <3>1, SameOrder DEF LinkTypes, Links, LinksNext
    <3> QED BY <3>2, <3>3 DEF LinkInv
  <2> QED BY <1>1, <1>5, <2>1, PreviewSteps, ServiceSteps, TimerSteps DEF Links, LinksNext
<1>6. CASE TimePasses
  BY <1>1, <1>3, <1>6 DEF TimePasses, Tick
<1>7. CASE Restart \/ RestartInSubmission
  <2>1. LinksLost
    BY <1>7 DEF Restart, RestartInSubmission
  <2> QED BY <1>2, <2>1, LostTypes, LostOrder DEF LinkInv
<1> QED BY <1>4, <1>5, <1>6, <1>7 DEF Next

-------------------------------------------------------------------------------
(* Requests: types. *)

RecordTypes(id) ==
  /\ records[id].body \in Bodies \cup Proofs
  /\ records[id].answer \in IF id[1] = "jobs.create" THEN DOMAIN jobs ELSE DOMAIN tokens

\* A job names a binding of its workspace.
JobIsBound(j) ==
  jobs[j].binding \in DOMAIN bindings /\ bindings[jobs[j].binding].workspace = jobs[j].workspace

RequestTypes ==
  /\ Len(tokens) <= MaxExchanges /\ Len(jobs) <= MaxJobs
  /\ (\E S : apiKeys \in Seq(S)) /\ Len(apiKeys) <= MaxKeys
  /\ \A id \in DOMAIN records : RecordTypes(id)
  /\ \A j \in DOMAIN jobs : JobIsBound(j)
  /\ \A a \in told : a[1] \in Bodies /\ a[2] \in DOMAIN jobs /\ a = <<a[1], a[2]>>

\* Rows are only added, and a binding keeps its workspace.
RowsStay ==
  /\ \A i \in DOMAIN jobs : i \in DOMAIN jobs'
  /\ \A t \in DOMAIN tokens : t \in DOMAIN tokens'
  /\ \A b \in DOMAIN bindings : b \in DOMAIN bindings' /\ bindings'[b].workspace = bindings[b].workspace

\* resolveBinding returns a binding of the workspace, found or new.
LEMMA BindsRow ==
  ASSUME BindingInv, NEW w, NEW body, NEW b, Binds(w, body, b)
  PROVE  /\ b \in DOMAIN bindings' /\ bindings'[b].workspace = w
         /\ \A c \in DOMAIN bindings : c \in DOMAIN bindings' /\ bindings'[c].workspace = bindings[c].workspace
<1> DEFINE n == Len(bindings)
<1>1. bindings \in Seq(BindingRow) /\ n \in Nat /\ DOMAIN bindings = 1..n
  BY DEF BindingInv, BindingTypes
<1>2. CASE b \in Found(w, body) /\ bindings' = [bindings EXCEPT ![b].touched = now]
  <2>1. b \in 1..n /\ bindings[b].workspace = w /\ bindings[b] \in BindingRow
    BY <1>1, <1>2 DEF Found, Candidates
  <2>2. /\ DOMAIN bindings' = 1..n /\ bindings'[b] = [bindings[b] EXCEPT !.touched = now]
        /\ \A c \in 1..n : c # b => bindings'[c] = bindings[c]
    BY <1>1, <1>2, <2>1
  <2>3. bindings'[b].workspace = bindings[b].workspace
    BY <2>1, <2>2 DEF BindingRow
  <2> HIDE DEF n
  <2> QED BY <1>1, <2>1, <2>2, <2>3
<1>3. CASE /\ b = n + 1
           /\ bindings' = Append(bindings, [workspace |-> w, client |-> body.client,
                                            session_key |-> body.session_key, touched |-> now])
  <2> DEFINE new == [workspace |-> w, client |-> body.client,
                     session_key |-> body.session_key, touched |-> now]
  <2>1. new.workspace = w
    OBVIOUS
  <2>2. bindings' = Append(bindings, new)
    BY <1>3
  <2> HIDE DEF new
  <2>3. bindings \in Seq(BindingRow \cup {new})
    BY <1>1
  <2>4. /\ DOMAIN bindings' = 1..(n + 1) /\ bindings'[n + 1] = new
        /\ \A c \in 1..n : bindings'[c] = bindings[c]
    BY <1>1, <2>2, <2>3
  <2> HIDE DEF n
  <2> QED BY <1>1, <1>3, <2>1, <2>4
<1> QED BY <1>2, <1>3 DEF Binds

\* A step adds rows, and what it changes besides is of the right type.
LEMMA TypesStep ==
  ASSUME RequestTypes, RowsStay,
         Len(tokens') <= MaxExchanges, Len(jobs') <= MaxJobs,
         \E S : apiKeys' \in Seq(S), Len(apiKeys') <= MaxKeys,
         \A id \in DOMAIN records' : (id \in DOMAIN records /\ records'[id] = records[id]) \/ RecordTypes(id)',
         \A j \in DOMAIN jobs' :
           \/ /\ j \in DOMAIN jobs /\ jobs'[j].binding = jobs[j].binding
              /\ jobs'[j].workspace = jobs[j].workspace
           \/ JobIsBound(j)',
         \A a \in told' :
           a \in told \/ (a[1] \in Bodies /\ a[2] \in DOMAIN jobs' /\ a = <<a[1], a[2]>>)
  PROVE  RequestTypes'
<1>1. ASSUME NEW id \in DOMAIN records', id \in DOMAIN records, records'[id] = records[id]
      PROVE  RecordTypes(id)'
  <2>1. RecordTypes(id)
    BY <1>1 DEF RequestTypes
  <2> QED BY <1>1, <2>1 DEF RecordTypes, RowsStay
<1>2. ASSUME NEW j \in DOMAIN jobs', j \in DOMAIN jobs, jobs'[j].binding = jobs[j].binding,
             jobs'[j].workspace = jobs[j].workspace
      PROVE  JobIsBound(j)'
  <2>1. JobIsBound(j)
    BY <1>2 DEF RequestTypes
  <2> QED BY <1>2, <2>1 DEF JobIsBound, RowsStay
<1>3. \A a \in told' : a[1] \in Bodies /\ a[2] \in DOMAIN jobs' /\ a = <<a[1], a[2]>>
  BY DEF RequestTypes, RowsStay
<1> QED BY <1>1, <1>2, <1>3 DEF RequestTypes

\* Steps that leave the rows as many as they are, and may forget records.
LEMMA SettledTypes ==
  ASSUME RequestInv, RequestTypes, JobsGo, Forgets, UNCHANGED <<tokens, bindings>>,
         \E S : apiKeys' \in Seq(S), Len(apiKeys') <= MaxKeys,
         \A a \in told' :
           a \in told \/ (a[1] \in Bodies /\ a[2] \in DOMAIN jobs /\ a = <<a[1], a[2]>>)
  PROVE  RequestTypes'
<1>1. RowsStay
  BY DEF RowsStay, JobsGo
<1>2. Len(jobs') = Len(jobs)
  <2>1. jobs \in Seq(JobRow) /\ jobs' \in Seq(JobRow) /\ DOMAIN jobs' = DOMAIN jobs
    BY DEF RequestInv, RowTypes, JobsGo
  <2> QED BY <2>1
<1>3. Len(tokens') <= MaxExchanges /\ Len(jobs') <= MaxJobs
  BY <1>2 DEF RequestTypes
<1>4. \A id \in DOMAIN records' : id \in DOMAIN records /\ records'[id] = records[id]
  BY DEF Forgets
<1>5. \A j \in DOMAIN jobs' : /\ j \in DOMAIN jobs /\ jobs'[j].binding = jobs[j].binding
                              /\ jobs'[j].workspace = jobs[j].workspace
  BY DEF JobsGo
<1>6. DOMAIN jobs' = DOMAIN jobs
  BY DEF JobsGo
<1> QED BY <1>1, <1>3, <1>4, <1>5, <1>6, TypesStep

\* Steps that add a job.
LEMMA GrownTypes ==
  ASSUME RequestInv, BindingInv, RequestTypes, NEW request \in Submission, JobsGrow(request), Len(jobs) < MaxJobs,
         UNCHANGED <<tokens, apiKeys>>,
         \A id \in DOMAIN records' :
           \/ id \in DOMAIN records /\ records'[id] = records[id]
           \/ id[1] = "jobs.create" /\ records'[id].body = request.body /\ records'[id].answer = Len(jobs) + 1,
         \A a \in told' : a \in told \/ a = <<request.body, Len(jobs) + 1>>
  PROVE  RequestTypes'
<1> DEFINE n == Len(jobs)
<1>1. /\ n \in Nat /\ DOMAIN jobs = 1..n /\ DOMAIN jobs' = 1..(n + 1) /\ Len(jobs') = n + 1
      /\ \A i \in 1..n : jobs'[i].binding = jobs[i].binding /\ jobs'[i].workspace = jobs[i].workspace
      /\ jobs'[n + 1].workspace = request.workspace
      /\ Binds(request.workspace, request.body, jobs'[n + 1].binding)
  <2>1. jobs \in Seq(JobRow) /\ jobs' \in Seq(JobRow) /\ Len(jobs') = n + 1
    BY DEF RequestInv, RowTypes, JobsGrow
  <2>2. n \in Nat /\ DOMAIN jobs = 1..n /\ DOMAIN jobs' = 1..(n + 1)
    BY <2>1, RowsOf
  <2> QED BY <2>1, <2>2 DEF JobsGrow
<1>2. PICK b : b = jobs'[n + 1].binding
  OBVIOUS
<1>3. Binds(request.workspace, request.body, b)
  BY <1>1, <1>2
<1>4. /\ b \in DOMAIN bindings' /\ bindings'[b].workspace = request.workspace
      /\ \A c \in DOMAIN bindings : c \in DOMAIN bindings' /\ bindings'[c].workspace = bindings[c].workspace
  BY <1>3, BindsRow
<1>5. request.body \in Bodies
  BY DEF Submission
<1> HIDE DEF n
<1>6. n + 1 \in DOMAIN jobs' /\ \A i \in 1..n : i \in DOMAIN jobs'
  BY <1>1
<1>7. RowsStay
  BY <1>1, <1>4, <1>6 DEF RowsStay
<1>8. ASSUME NEW id \in DOMAIN records'
      PROVE  (id \in DOMAIN records /\ records'[id] = records[id]) \/ RecordTypes(id)'
  BY <1>5, <1>6 DEF RecordTypes, n
<1>10. ASSUME NEW j \in DOMAIN jobs'
       PROVE  \/ /\ j \in DOMAIN jobs /\ jobs'[j].binding = jobs[j].binding
                 /\ jobs'[j].workspace = jobs[j].workspace
              \/ JobIsBound(j)'
  <2>1. CASE j \in 1..n
    BY <1>1, <2>1
  <2>2. CASE j = n + 1
    BY <1>1, <1>2, <1>4, <2>2 DEF JobIsBound
  <2> QED BY <1>1, <2>1, <2>2
<1>11. ASSUME NEW a \in told'
       PROVE  a \in told \/ (a[1] \in Bodies /\ a[2] \in DOMAIN jobs' /\ a = <<a[1], a[2]>>)
  <2>1. CASE a = <<request.body, n + 1>>
    BY <1>5, <1>6, <2>1
  <2> QED BY <2>1 DEF n
<1>12. Len(tokens') <= MaxExchanges /\ Len(jobs') <= MaxJobs /\ Len(apiKeys') <= MaxKeys /\ \E S : apiKeys' \in Seq(S)
  <2>1. n < MaxJobs
    BY DEF n
  <2> QED BY <1>1, <2>1, RecordAssumption DEF RequestTypes
<1> QED BY <1>7, <1>8, <1>10, <1>11, <1>12, TypesStep

\* An exchange issues a token and leaves its record.
LEMMA ExchangeTypes ==
  ASSUME RequestInv, RequestTypes, NEW r \in Slots, ExchangeReturns(r)
  PROVE  RequestTypes'
<1> DEFINE request == requests[r]
           n == Len(tokens)
<1>1. RowTypes
  BY DEF RequestInv
<1>2. request \in Exchange /\ Id(request)[1] = "auth.exchange" /\ request.body \in Proofs
  <2>1. request \in Exchange
    BY <1>1, AskedTypes DEF ExchangeReturns
  <2> QED BY <2>1, ScopeOf DEF Exchange
<1>3. /\ UNCHANGED <<apiKeys, jobs, bindings, told>> /\ n < MaxExchanges
      /\ Saves(request, n + 1, RecordExpiry(request))
  BY SaveEffect DEF ExchangeReturns
<1>4. PICK row : tokens' = Append(tokens, row)
  BY DEF ExchangeReturns
<1>5. tokens \in Seq(TokenRow \cup {row})
  BY <1>1 DEF RowTypes
<1>6. n \in Nat /\ DOMAIN tokens = 1..n /\ DOMAIN tokens' = 1..(n + 1) /\ Len(tokens') = n + 1
  BY <1>4, <1>5
<1> HIDE DEF n
<1>7. n + 1 \in DOMAIN tokens' /\ \A t \in DOMAIN tokens : t \in DOMAIN tokens'
  BY <1>6
<1>8. RowsStay
  BY <1>3, <1>7 DEF RowsStay
<1>9. ASSUME NEW id \in DOMAIN records'
      PROVE  (id \in DOMAIN records /\ records'[id] = records[id]) \/ RecordTypes(id)'
  BY <1>2, <1>3, <1>7 DEF Saves, RecordTypes
<1>10. Len(tokens') <= MaxExchanges /\ Len(jobs') <= MaxJobs /\ Len(apiKeys') <= MaxKeys /\ \E S : apiKeys' \in Seq(S)
  BY <1>3, <1>6, RecordAssumption DEF RequestTypes
<1> QED BY <1>3, <1>8, <1>9, <1>10, TypesStep

\* What each handler adds to the rows is of its type.
LEMMA HandlerTypes ==
  ASSUME RequestInv, BindingInv, RequestTypes, NEW r \in Slots, Step(r)
  PROVE  RequestTypes'
<1>1. RowTypes /\ RecordsFit /\ jobs \in Seq(JobRow)
  BY DEF RequestInv, RowTypes
<1>2. (UNCHANGED records) => Forgets
  BY DEF Forgets
<1>3. (\E S : apiKeys \in Seq(S)) /\ Len(apiKeys) <= MaxKeys
  BY DEF RequestTypes
<1>4. ASSUME Forgets, UNCHANGED <<tokens, apiKeys, jobs, bindings, told>> PROVE RequestTypes'
  <2>1. JobsGo
    BY <1>1, <1>4, SameJobsGo
  <2> QED BY <1>3, <1>4, <2>1, SettledTypes
<1>5. CASE \E w \in ApiWorkspaces \cup {None}, key \in ExchangeKeys, body \in Proofs : ExchangeBegins(r, w, key, body)
  BY <1>4, <1>5, ReadEffect DEF ExchangeBegins
<1>6. ASSUME NEW request, Admit(r, request) PROVE RequestTypes'
  BY <1>2, <1>4, <1>6 DEF Admit
<1>7. CASE ExchangeFails(r)
  BY <1>2, <1>4, <1>7 DEF ExchangeFails
<1>8. CASE Conflict(r)
  BY <1>4, <1>8, ReadEffect DEF Conflict
<1>9. CASE CreateApiKey(r)
  <2>1. PICK row : apiKeys' = Append(apiKeys, row)
    BY <1>9 DEF CreateApiKey
  <2>2. PICK S : apiKeys \in Seq(S)
    BY <1>3
  <2>3. apiKeys \in Seq(S \cup {row})
    BY <2>2
  <2>4. apiKeys' \in Seq(S \cup {row}) /\ Len(apiKeys') = Len(apiKeys) + 1 /\ Len(apiKeys) \in Nat
    BY <2>1, <2>3
  <2>5. Len(apiKeys) < MaxKeys /\ UNCHANGED <<tokens, records, jobs, bindings, told>>
    BY <1>9 DEF CreateApiKey
  <2>6. Len(apiKeys') <= MaxKeys
    BY <2>4, <2>5, RecordAssumption
  <2>7. JobsGo
    BY <1>1, <2>5, SameJobsGo
  <2> QED BY <1>2, <2>4, <2>5, <2>6, <2>7, SettledTypes
<1>10. CASE RevokeApiKey(r)
  <2>1. PICK k \in DOMAIN apiKeys : apiKeys' = [apiKeys EXCEPT ![k].revoked = TRUE]
    BY <1>10 DEF RevokeApiKey
  <2>2. PICK S : apiKeys \in Seq(S)
    BY <1>3
  <2> DEFINE row == [apiKeys[k] EXCEPT !.revoked = TRUE]
  <2>3. apiKeys' = [apiKeys EXCEPT ![k] = row]
    BY <2>1
  <2> HIDE DEF row
  <2>4. apiKeys \in Seq(S \cup {row})
    BY <2>2
  <2>5. apiKeys' \in Seq(S \cup {row}) /\ Len(apiKeys') = Len(apiKeys)
    BY <2>3, <2>4
  <2>6. UNCHANGED <<tokens, records, jobs, bindings, told>>
    BY <1>10 DEF RevokeApiKey
  <2>7. JobsGo
    BY <1>1, <2>6, SameJobsGo
  <2> QED BY <1>2, <1>3, <2>5, <2>6, <2>7, SettledTypes
<1>11. CASE Replay(r)
  <2> DEFINE request == requests[r]
             answer == Pruned[Id(request)].answer
  <2>1. request \in Submission /\ Id(request)[1] = "jobs.create" /\ Replays(request)
    BY <1>1, <1>11, AskedTypes, ScopeOf DEF Replay
  <2>2. Id(request) \in DOMAIN records /\ Pruned[Id(request)] = records[Id(request)]
    BY <2>1 DEF Replays, Known, Pruned
  <2>3. answer \in DOMAIN jobs /\ request.body \in Bodies
    BY <2>1, <2>2 DEF RequestTypes, RecordTypes, Submission
  <2>4. /\ Forgets /\ UNCHANGED <<tokens, apiKeys, jobs, bindings>>
        /\ told' = told \cup {<<request.body, answer>>}
    BY <1>11, ReadEffect DEF Replay
  <2> HIDE DEF request, answer
  <2>5. \A a \in told' : a \in told \/ (a[1] \in Bodies /\ a[2] \in DOMAIN jobs /\ a = <<a[1], a[2]>>)
    BY <2>3, <2>4
  <2>6. JobsGo
    BY <1>1, <2>4, SameJobsGo
  <2> QED BY <1>3, <2>4, <2>5, <2>6, SettledTypes
<1>12. CASE CreateJob(r)
  <2> DEFINE request == requests[r]
  <2>1. request \in Submission /\ Id(request)[1] = "jobs.create"
    BY <1>1, <1>12, AskedTypes, ScopeOf DEF CreateJob
  <2>2. /\ Len(jobs) < MaxJobs /\ Submits(request) /\ UNCHANGED <<tokens, apiKeys>>
        /\ told' = told \cup {<<request.body, Len(jobs) + 1>>}
        /\ Saves(request, Len(jobs) + 1, RecordExpiry(request))
    BY <1>12, SaveEffect DEF CreateJob
  <2>3. JobsGrow(request)
    BY <1>1, <2>1, <2>2, SubmitsGrow
  <2>4. \A id \in DOMAIN records' :
          \/ id \in DOMAIN records /\ records'[id] = records[id]
          \/ id[1] = "jobs.create" /\ records'[id].body = request.body /\ records'[id].answer = Len(jobs) + 1
    BY <2>1, <2>2 DEF Saves
  <2> HIDE DEF request
  <2> QED BY <2>1, <2>2, <2>3, <2>4, GrownTypes
<1> QED BY <1>5, <1>6, <1>7, <1>8, <1>9, <1>10, <1>11, <1>12, ExchangeTypes DEF Step

\* A step of the service keeps the rows of the right types.
LEMMA RequestTypesStep == RequestInv /\ BindingInv /\ RequestTypes /\ [Next]_vars => RequestTypes'
<1> SUFFICES ASSUME RequestInv, BindingInv, RequestTypes, [Next]_vars PROVE RequestTypes'
  OBVIOUS
<1>1. RowTypes /\ jobs \in Seq(JobRow)
  BY DEF RequestInv, RowTypes
<1>2. (UNCHANGED records) => Forgets
  BY DEF Forgets
<1>3. ASSUME JobsGo, UNCHANGED <<tokens, apiKeys, records, bindings, told>> PROVE RequestTypes'
  BY <1>2, <1>3, SettledTypes DEF RequestTypes
<1>4. CASE Requests
  <2>1. ASSUME NEW j \in DOMAIN jobs, JobEnds(j) PROVE RequestTypes'
    BY <1>1, <1>3, <2>1, JobEndsGo DEF JobEnds
  <2> QED BY <1>4, <2>1, HandlerTypes DEF Requests, RequestsNext
<1>5. CASE TimePasses \/ Links \/ UNCHANGED vars
  <2>1. UNCHANGED requestVars
    BY <1>5 DEF TimePasses, Links, vars
  <2> QED BY <1>1, <1>3, <2>1, SameJobsGo DEF requestVars
<1>6. CASE Restart
  <2>1. jobs' = Reconciled(jobs) /\ UNCHANGED <<tokens, apiKeys, records, bindings, told>>
    BY <1>6 DEF Restart, RequestsLost
  <2>2. JobsGo
    BY <1>1, <2>1, ReconciledRows DEF JobsGo
  <2> QED BY <1>3, <2>1, <2>2
<1>7. CASE RestartInSubmission
  <2>1. PICK r \in Slots : CreateJobCut(r)
    BY <1>7 DEF RestartInSubmission
  <2>2. requests[r] \in Submission
    BY <1>1, <2>1, AskedTypes DEF CreateJobCut
  <2>3. JobsGrow(requests[r])
    BY <1>1, <2>1, <2>2, CutGrow
  <2>4. Len(jobs) < MaxJobs /\ UNCHANGED <<tokens, apiKeys, told>> /\ Forgets
    BY <2>1, ReadEffect DEF CreateJobCut
  <2>5. \A id \in DOMAIN records' : id \in DOMAIN records /\ records'[id] = records[id]
    BY <2>4 DEF Forgets
  <2> QED BY <2>2, <2>3, <2>4, <2>5, GrownTypes
<1> QED BY <1>4, <1>5, <1>6, <1>7 DEF Next

-------------------------------------------------------------------------------
(* The maps agree. *)

ClockInv == now \in 0..MaxNow /\ group \in Groups

\* The service starts with empty maps and tables.
LEMMA InitMaps == Init => ClockInv /\ RequestTypes /\ LinkInv
<1> SUFFICES ASSUME Init PROVE ClockInv /\ RequestTypes /\ LinkInv
  OBVIOUS
<1>1. ClockInv
  BY MaxNowAssumption DEF Init, ClockInv
<1>2. /\ tokens = << >> /\ apiKeys = << >> /\ jobs = << >> /\ records = << >> /\ told = {}
      /\ rows = [row \in Workspaces \X Previews |-> Absent]
      /\ grants = << >> /\ live = {} /\ tombstones = << >> /\ timers = << >>
      /\ byPreview = [p \in Previews |-> {}] /\ byScope = [s \in Services |-> {}]
      /\ launchable = FALSE /\ launching = [s \in Services |-> 0] /\ lost = 0 /\ withdrawn = << >>
  BY DEF Init, RequestsInit, LinksInit
<1>3. /\ Len(tokens) = 0 /\ Len(jobs) = 0 /\ Len(apiKeys) = 0 /\ apiKeys \in Seq({})
      /\ DOMAIN records = {} /\ DOMAIN jobs = {}
  BY <1>2
<1>4. RequestTypes
  BY <1>2, <1>3, RecordAssumption DEF RequestTypes
<1>5. /\ Len(grants) = 0 /\ Tokens = {} /\ DOMAIN tombstones = {} /\ tombstones \in Seq(Nat)
      /\ Len(tombstones) = 0 /\ ToSet(tombstones) = {} /\ DOMAIN timers = {} /\ DOMAIN withdrawn = {}
  BY <1>2 DEF Tokens, ToSet
<1>6. LinkTypes
  <2>1. rows \in [Workspaces \X Previews -> Rows]
    BY <1>2 DEF Rows
  <2>2. byPreview \in [Previews -> SUBSET Tokens] /\ byScope \in [Services -> SUBSET Tokens]
    BY <1>2
  <2>3. launching \in [Services -> 0..MaxTokens] /\ launchable \in BOOLEAN /\ lost \in 0..Len(grants)
    <3>1. 0 \in 0..MaxTokens /\ 0 \in 0..0
      BY LifeAssumption
    <3> QED BY <1>2, <1>5, <3>1
  <2> QED BY <1>5, <2>1, <2>2, <2>3, LifeAssumption DEF LinkTypes
<1>7. OrderInv
  <2>1. WithdrawnOnce
    BY <1>5 DEF WithdrawnOnce, Disjoint
  <2>2. TombstonesFit
    BY <1>5, LifeAssumption DEF TombstonesFit
  <2>3. TokensFit /\ RecordsHaveTimers
    BY <1>2, <1>5 DEF TokensFit, RecordsHaveTimers
  <2> QED BY <2>1, <2>2, <2>3 DEF OrderInv
<1> QED BY <1>1, <1>4, <1>6, <1>7 DEF LinkInv

\* The clock stays within its bound, and time passes only in it.
LEMMA ClockStep == ClockInv /\ [Next]_vars => ClockInv'
<1> SUFFICES ASSUME ClockInv, [Next]_vars PROVE ClockInv'
  OBVIOUS
<1>1. CASE TimePasses
  BY <1>1, MaxNowAssumption DEF TimePasses, Tick, ClockInv
<1>2. CASE Requests \/ Links \/ Restart \/ RestartInSubmission \/ UNCHANGED vars
  BY <1>2 DEF Requests, RequestsNext, Links, LinksNext, Restart, RestartInSubmission, vars, ClockInv
<1> QED BY <1>1, <1>2 DEF Next

\* What the types of Api are made of.
LEMMA ApiTypes ==
  ASSUME ClockInv, RequestInv, RequestTypes, IndexInv, WithdrawnInv, LinkInv
  PROVE  TypeOK
<1>1. LinkTypes /\ OrderInv /\ TombstonesFit /\ WithdrawnOnce /\ RecordsHaveTimers
  BY DEF LinkInv, OrderInv
<1>2. Len(grants) \in Nat /\ Tokens = 1..Len(grants)
  BY DEF IndexInv, Tokens
<1>3. live \subseteq Tokens /\ Withdrawn \subseteq Tokens /\ ToSet(tombstones) \subseteq Tokens
  BY <1>1, <1>2 DEF IndexInv, WithdrawnInv, TombstonesFit
<1>4. IsInjective(tombstones)
  BY <1>1, OrderedInjective DEF TombstonesFit
<1>5. DOMAIN timers \subseteq Tokens
  BY <1>1, <1>3 DEF RecordsHaveTimers
<1>6. LinksTypeOK
  BY <1>1, <1>3, <1>4, <1>5 DEF LinksTypeOK, LinkTypes, Rows, TombstonesFit
<1>7. RequestsTypeOK
  <2>1. \A r \in Slots : Free(r) \/ requests[r].op \in {"submit", "exchange", "key.create", "key.revoke"}
    BY DEF RequestInv, RowTypes, InFlight, Submission, Exchange, KeyCall, Free
  <2>2. \A id \in DOMAIN records :
          /\ records[id].body \in Bodies \cup Proofs /\ records[id].expires \in Nat
          /\ records[id].answer \in IF id[1] = "jobs.create" THEN DOMAIN jobs ELSE DOMAIN tokens
    BY DEF RequestInv, RowTypes, RequestTypes, RecordTypes
  <2>3. ASSUME NEW j \in DOMAIN jobs
        PROVE  /\ jobs[j].status \in {"pending", "ended", "failed"}
               /\ jobs[j].binding \in DOMAIN bindings
               /\ bindings[jobs[j].binding].workspace = jobs[j].workspace
    <3>1. jobs[j] \in JobRow
      BY DEF RequestInv, RowTypes
    <3> QED BY <3>1 DEF JobRow, RequestTypes, JobIsBound
  <2>4. told \subseteq Bodies \X DOMAIN jobs
    BY DEF RequestTypes
  <2> QED BY <2>1, <2>2, <2>3, <2>4 DEF RequestsTypeOK, RequestTypes
<1> QED BY <1>6, <1>7 DEF TypeOK, ClockInv

\* What was withdrawn after a token is what the answer counts.
LEMMA LatestTold ==
  ASSUME IndexInv, WithdrawnInv, OrderInv
  PROVE  LatestRevocationsAreTold
<1> SUFFICES ASSUME NEW i \in DOMAIN withdrawn, NEW t \in withdrawn[i],
                    NEW later,
                    later = {u \in withdrawn[i] : u > t} \cup UNION {withdrawn[j] : j \in (i + 1)..Len(withdrawn)},
                    Cardinality(later) < MaxRevoked, t > lost, ~Expired(t)
             PROVE  Answer(t) = "403 revoked"
  BY DEF LatestRevocationsAreTold
<1>1. withdrawn \in Seq(SUBSET Nat) /\ Len(withdrawn) \in Nat /\ DOMAIN withdrawn = 1..Len(withdrawn)
  BY DEF WithdrawnInv
<1>2. Withdrawn = UNION {withdrawn[j] : j \in DOMAIN withdrawn}
  BY <1>1 DEF Withdrawn, ToSet
<1>3. Withdrawn \subseteq Tokens /\ t \in Withdrawn /\ t \notin live
  <2>1. t \in Withdrawn
    BY <1>2
  <2>2. Tokens = 1..Len(grants)
    BY DEF IndexInv, Tokens
  <2> QED BY <2>1, <2>2 DEF WithdrawnInv
<1>4. After(t) \subseteq later
  <2> SUFFICES ASSUME NEW u \in After(t) PROVE u \in later
    OBVIOUS
  <2>1. PICK k, l \in DOMAIN withdrawn :
          t \in withdrawn[k] /\ u \in withdrawn[l] /\ (k < l \/ (k = l /\ t < u))
    BY DEF After, Before, Precedes
  <2>2. k = i
    BY <2>1 DEF OrderInv, WithdrawnOnce, Disjoint
  <2>3. CASE i < l
    <3>1. l \in (i + 1)..Len(withdrawn)
      BY <1>1, <2>1, <2>3
    <3> QED BY <2>1, <3>1
  <2>4. CASE i = l /\ t < u
    <3>1. u \in Nat /\ t \in Nat
      BY <1>1, <2>1
    <3>2. u > t
      BY <2>4, <3>1
    <3> QED BY <2>1, <2>4, <3>2
  <2> QED BY <2>1, <2>2, <2>3, <2>4
<1>5. later \subseteq Withdrawn
  BY <1>1, <1>2
<1>6. Cardinality(After(t)) <= Cardinality(later) /\ Cardinality(After(t)) \in Nat /\ Cardinality(later) \in Nat
  <2>1. Len(grants) \in Nat /\ Tokens = 1..Len(grants)
    BY DEF IndexInv, Tokens
  <2>2. IsFiniteSet(1..Len(grants))
    BY <2>1, FS_Interval
  <2>3. later \subseteq 1..Len(grants)
    BY <1>3, <1>5, <2>1
  <2>4. IsFiniteSet(later)
    BY <2>2, <2>3, FS_Subset
  <2>5. IsFiniteSet(After(t)) /\ Cardinality(After(t)) <= Cardinality(later)
    BY <1>4, <2>4, FS_Subset
  <2> QED BY <2>4, <2>5, FS_CardinalityType
<1>7. ~(Cardinality(After(t)) >= MaxRevoked)
  BY <1>6, LifeAssumption
<1>8. TokenFits(t)
  BY <1>3 DEF OrderInv, TokensFit
<1>9. t \in ToSet(tombstones)
  BY <1>3, <1>7, <1>8 DEF TokenFits
<1> QED BY <1>9 DEF Answer

\* The types and the order of revocations hold throughout.
LEMMA MapsInvariance == Spec => [](ClockInv /\ RequestTypes /\ LinkInv)
<1>1. RequestInv /\ RequestInv' /\ IndexInv /\ WithdrawnInv /\ WithdrawnInv' /\ LinkInv /\ [Next]_vars => LinkInv'
  BY LinkStep
<1> QED BY <1>1, InitMaps, ClockStep, RequestTypesStep, RequestInvariance, BindingInvariance,
           IndexInvariance, WithdrawnInvariance, PTL DEF Spec

(***************************************************************************)
(* Links, indexes, tombstones and timers agree: every link and tombstone   *)
(* has its timer, and the holders of the latest revoked links are told so, *)
(* for any limit of tombstones, previews, services and restarts            *)
(* (trimRevokedLaunchCapabilities, scheduleLaunchCapabilityExpiry).        *)
(***************************************************************************)
THEOREM MapsTheorem == Spec => []LinkMapsAgree
<1>1. ASSUME ClockInv, RequestInv, RequestTypes, IndexInv, WithdrawnInv, LinkInv PROVE LinkMapsAgree
  <2>1. TypeOK
    BY <1>1, ApiTypes
  <2>2. RecordsHaveTimers /\ IndexesFollowLinks /\ OrderInv
    BY <1>1 DEF LinkInv, OrderInv, IndexInv
  <2>3. LatestRevocationsAreTold
    BY <1>1, <2>2, LatestTold
  <2> QED BY <2>1, <2>2, <2>3 DEF LinkMapsAgree
<1> QED BY <1>1, MapsInvariance, RequestInvariance, IndexInvariance, WithdrawnInvariance, PTL

-------------------------------------------------------------------------------
(* Links: the paths of files. *)

Clean == STRING \ {".."}

\* The walk over the first k segments of a path.
Walked(path, k, g) == g = [i \in 0..k |-> IF i = 0 THEN << >> ELSE Walk(g[i - 1], path[i])]

\* What a walk of k segments is, step by step.
LEMMA WalkedIs ==
  ASSUME NEW path, NEW k \in Nat, NEW g
  PROVE  Walked(path, k, g) <=>
           /\ DOMAIN g = 0..k /\ g = [i \in 0..k |-> g[i]]
           /\ g[0] = << >> /\ \A i \in 1..k : g[i] = Walk(g[i - 1], path[i])
<1>1. ASSUME Walked(path, k, g)
      PROVE  /\ DOMAIN g = 0..k /\ g = [i \in 0..k |-> g[i]]
             /\ g[0] = << >> /\ \A i \in 1..k : g[i] = Walk(g[i - 1], path[i])
  <2>1. g = [i \in 0..k |-> IF i = 0 THEN << >> ELSE Walk(g[i - 1], path[i])]
    BY <1>1 DEF Walked
  <2>2. DOMAIN g = 0..k /\ \A i \in 0..k : g[i] = IF i = 0 THEN << >> ELSE Walk(g[i - 1], path[i])
    BY <2>1
  <2>3. 0 \in 0..k /\ \A i \in 1..k : i \in 0..k /\ i # 0
    OBVIOUS
  <2>4. g = [i \in 0..k |-> g[i]]
    BY <2>1, <2>2
  <2> QED BY <2>2, <2>3, <2>4
<1>2. ASSUME DOMAIN g = 0..k, g = [i \in 0..k |-> g[i]],
             g[0] = << >>, \A i \in 1..k : g[i] = Walk(g[i - 1], path[i])
      PROVE  Walked(path, k, g)
  <2>1. \A i \in 0..k : g[i] = IF i = 0 THEN << >> ELSE Walk(g[i - 1], path[i])
    <3>1. \A i \in 0..k : i = 0 \/ i \in 1..k
      OBVIOUS
    <3> QED BY <1>2, <3>1
  <2> DEFINE f == [i \in 0..k |-> IF i = 0 THEN << >> ELSE Walk(g[i - 1], path[i])]
  <2>2. DOMAIN f = 0..k /\ \A i \in 0..k : f[i] = g[i]
    BY <2>1
  <2>3. f = [i \in 0..k |-> f[i]]
    OBVIOUS
  <2> HIDE DEF f
  <2>4. g = f
    BY <1>2, <2>2, <2>3
  <2> QED BY <2>4 DEF Walked, f
<1> QED BY <1>1, <1>2

\* Induction up to n, on the members of a set.
LEMMA UpTo ==
  ASSUME NEW n \in Nat, NEW T, 0 \in T, \A i \in 1..n : i - 1 \in T => i \in T
  PROVE  \A i \in 0..n : i \in T
<1> DEFINE B == {i \in 0..n : i \notin T}
<1>1. ASSUME B # {} PROVE FALSE
  <2>1. PICK i \in B : \A j \in B : i <= j
    <3>1. B \subseteq Nat
      OBVIOUS
    <3> HIDE DEF B
    <3> QED BY <1>1, <3>1, Least
  <2>2. i \in 1..n /\ i - 1 \in 0..n /\ i \notin T
    BY <2>1
  <2>3. i - 1 \in T
    BY <2>1, <2>2
  <2> QED BY <2>2, <2>3
<1> QED BY <1>1

\* There is one, for every number of segments.
LEMMA WalkExists ==
  ASSUME NEW path, NEW n \in Nat
  PROVE  \E g : Walked(path, n, g)
<1> DEFINE T == {k \in Nat : \E g : Walked(path, k, g)}
<1>1. 0 \in T
  <2> DEFINE g == [i \in 0..0 |-> << >>]
  <2>1. /\ DOMAIN g = 0..0 /\ g = [i \in 0..0 |-> g[i]]
        /\ g[0] = << >> /\ \A i \in 1..0 : g[i] = Walk(g[i - 1], path[i])
    OBVIOUS
  <2> HIDE DEF g
  <2> QED BY <2>1, WalkedIs
<1>2. ASSUME NEW k \in 1..n, k - 1 \in T PROVE k \in T
  <2> DEFINE m == k - 1
  <2>1. k \in Nat /\ m \in Nat /\ k = m + 1
    OBVIOUS
  <2>2. PICK h : Walked(path, m, h)
    BY <1>2
  <2> HIDE DEF m, T
  <2>3. DOMAIN h = 0..m /\ h[0] = << >> /\ \A i \in 1..m : h[i] = Walk(h[i - 1], path[i])
    BY <2>1, <2>2, WalkedIs
  <2> DEFINE g == [i \in 0..k |-> IF i = k THEN Walk(h[m], path[k]) ELSE h[i]]
  <2>4. /\ DOMAIN g = 0..k /\ g = [i \in 0..k |-> g[i]] /\ g[k] = Walk(h[m], path[k])
        /\ \A i \in 0..k : i # k => g[i] = h[i]
    BY <2>1
  <2> HIDE DEF g
  <2>5. g[0] = << >>
    BY <2>1, <2>3, <2>4
  <2>6. ASSUME NEW i \in 1..k PROVE g[i] = Walk(g[i - 1], path[i])
    <3>1. i - 1 \in 0..k /\ i - 1 # k /\ g[i - 1] = h[i - 1]
      BY <2>1, <2>4
    <3>2. CASE i = k
      <4>1. i - 1 = m
        BY <2>1, <3>2
      <4> QED BY <2>4, <3>1, <3>2, <4>1
    <3>3. CASE i # k
      <4>1. i \in 1..m /\ i \in 0..k
        BY <2>1, <3>3
      <4> QED BY <2>3, <2>4, <3>1, <3>3, <4>1
    <3> QED BY <3>2, <3>3
  <2>7. Walked(path, k, g)
    BY <2>1, <2>4, <2>5, <2>6, WalkedIs
  <2> QED BY <2>1, <2>7 DEF T
<1> HIDE DEF T
<1>3. n \in T
  <2>1. n \in 0..n
    OBVIOUS
  <2> QED BY <1>1, <1>2, <2>1, UpTo
<1> QED BY <1>3 DEF T

\* So Normalize is the end of the walk.
LEMMA NormalizeWalks ==
  ASSUME NEW path, Len(path) \in Nat
  PROVE  \E g : /\ g[0] = << >> /\ \A i \in 1..Len(path) : g[i] = Walk(g[i - 1], path[i])
                /\ Normalize(path) = g[Len(path)]
<1> DEFINE n == Len(path)
           w == CHOOSE g : Walked(path, n, g)
<1>1. n \in Nat
  OBVIOUS
<1> HIDE DEF n
<1>2. Walked(path, n, w)
  BY <1>1, WalkExists
<1>3. Normalize(path) = w[n]
  BY DEF Normalize, Walked, n
<1> HIDE DEF w
<1>4. w[0] = << >> /\ \A i \in 1..n : w[i] = Walk(w[i - 1], path[i])
  BY <1>1, <1>2, WalkedIs
<1> QED BY <1>3, <1>4 DEF n

\* A path without its last segment.
LEMMA FrontIs ==
  ASSUME NEW S, NEW q \in Seq(S), q # << >>
  PROVE  Front(q) \in Seq(S)
<1>1. Len(q) \in Nat /\ \A i \in 1..Len(q) : q[i] \in S
  OBVIOUS
<1>2. Len(q) - 1 \in Int /\ \A i \in 1..(Len(q) - 1) : q[i] \in S
  BY <1>1
<1>3. SubSeq(q, 1, Len(q) - 1) \in Seq(S)
  BY <1>2, SubSeqProperties
<1> QED BY <1>3 DEF Front

\* A normalized path goes nowhere up.
LEMMA NormalizeClean ==
  ASSUME NEW path \in Seq(STRING)
  PROVE  Normalize(path) \in Seq(Clean)
<1> DEFINE n == Len(path)
<1>1. n \in Nat /\ \A i \in 1..n : path[i] \in STRING
  OBVIOUS
<1>2. PICK g : /\ g[0] = << >> /\ \A i \in 1..n : g[i] = Walk(g[i - 1], path[i])
               /\ Normalize(path) = g[n]
  BY NormalizeWalks
<1> HIDE DEF n
<1> DEFINE T == {i \in Nat : g[i] \in Seq(Clean)}
<1>3. 0 \in T
  <2>1. << >> \in Seq(Clean) /\ Len(<< >>) = 0
    OBVIOUS
  <2> QED BY <1>2, <2>1
<1>4. ASSUME NEW i \in 1..n, i - 1 \in T PROVE i \in T
  <2> DEFINE seen == g[i - 1]
  <2>1. i \in Nat /\ seen \in Seq(Clean) /\ g[i] = Walk(seen, path[i])
    BY <1>1, <1>2, <1>4
  <2> HIDE DEF seen
  <2>2. CASE path[i] # ".."
    <3>1. path[i] \in Clean
      BY <1>1, <2>2 DEF Clean
    <3>2. Append(seen, path[i]) \in Seq(Clean)
      BY <2>1, <3>1
    <3> QED BY <2>1, <2>2, <3>2 DEF Walk
  <2>3. CASE path[i] = ".." /\ seen = << >>
    BY <2>1, <2>3 DEF Walk
  <2>4. CASE path[i] = ".." /\ seen # << >>
    <3>1. Front(seen) \in Seq(Clean)
      BY <2>1, <2>4, FrontIs
    <3> QED BY <2>1, <2>4, <3>1 DEF Walk
  <2> QED BY <2>2, <2>3, <2>4
<1> HIDE DEF T
<1>5. n \in T
  <2>1. n \in 0..n
    BY <1>1
  <2> QED BY <1>1, <1>3, <1>4, <2>1, UpTo
<1> QED BY <1>2, <1>5 DEF T

\* And is normalized already.
LEMMA NormalizeSame ==
  ASSUME NEW path \in Seq(Clean)
  PROVE  Normalize(path) = path
<1> DEFINE n == Len(path)
<1>1. n \in Nat /\ DOMAIN path = 1..n /\ \A i \in 1..n : path[i] \in Clean
  OBVIOUS
<1>2. PICK g : /\ g[0] = << >> /\ \A i \in 1..n : g[i] = Walk(g[i - 1], path[i])
               /\ Normalize(path) = g[n]
  BY NormalizeWalks
<1> HIDE DEF n
<1> DEFINE T == {i \in Nat : i <= n => /\ g[i] \in Seq(Clean) /\ Len(g[i]) = i
                                      /\ \A k \in 1..i : g[i][k] = path[k]}
<1>3. 0 \in T
  <2>1. g[0] \in Seq(Clean) /\ Len(g[0]) = 0
    BY <1>2
  <2>2. \A k \in 1..0 : g[0][k] = path[k]
    OBVIOUS
  <2> QED BY <2>1, <2>2
<1>4. ASSUME NEW i \in 1..n, i - 1 \in T PROVE i \in T
  <2> DEFINE seen == g[i - 1]
  <2>1. i \in Nat /\ i <= n /\ i - 1 <= n /\ g[i] = Walk(seen, path[i])
    BY <1>1, <1>2
  <2>2. seen \in Seq(Clean) /\ Len(seen) = i - 1 /\ \A k \in 1..(i - 1) : seen[k] = path[k]
    BY <1>4, <2>1
  <2> HIDE DEF seen
  <2>3. path[i] \in Clean /\ path[i] # ".."
    BY <1>1 DEF Clean
  <2>4. g[i] = Append(seen, path[i])
    BY <2>1, <2>3 DEF Walk
  <2>5. g[i] \in Seq(Clean) /\ Len(g[i]) = i /\ \A k \in 1..i : g[i][k] = path[k]
    BY <2>1, <2>2, <2>3, <2>4
  <2> QED BY <2>1, <2>5
<1> HIDE DEF T
<1>5. n \in T
  <2>1. n \in 0..n
    BY <1>1
  <2> QED BY <1>1, <1>3, <1>4, <2>1, UpTo
<1>6. g[n] \in Seq(Clean) /\ Len(g[n]) = n /\ \A k \in 1..n : g[n][k] = path[k]
  BY <1>1, <1>5 DEF T
<1>7. g[n] = path
  BY <1>1, <1>6
<1> QED BY <1>2, <1>7

Good(root, default) == root \in Seq(Clean) /\ default \in Seq(Clean) /\ IsPrefix(root, default)

\* A sequence is the subsequence of all of itself.
LEMMA WholeSubSeq ==
  ASSUME NEW S, NEW q \in Seq(S)
  PROVE  SubSeq(q, 1, Len(q)) = q
<1>1. Len(q) \in Nat /\ DOMAIN q = 1..Len(q) /\ \A i \in 1..Len(q) : q[i] \in S
  OBVIOUS
<1> DEFINE r == SubSeq(q, 1, Len(q))
<1>2. /\ r \in Seq(S) /\ Len(r) = IF 1 <= Len(q) THEN Len(q) - 1 + 1 ELSE 0
      /\ \A i \in 1..(Len(q) - 1 + 1) : r[i] = q[1 + i - 1]
  BY <1>1, SubSeqProperties
<1> HIDE DEF r
<1>3. Len(r) = Len(q)
  BY <1>1, <1>2
<1>4. \A i \in 1..Len(q) : r[i] = q[i]
  <2> TAKE i \in 1..Len(q)
  <2>1. i \in 1..(Len(q) - 1 + 1) /\ 1 + i - 1 = i
    BY <1>1
  <2> QED BY <1>2, <2>1
<1>5. r = q
  BY <1>1, <1>2, <1>3, <1>4
<1> QED BY <1>5 DEF r

\* A prefix of a path, segment by segment.
LEMMA PrefixIs ==
  ASSUME NEW root \in Seq(Clean), NEW default \in Seq(Clean), IsPrefix(root, default)
  PROVE  Len(root) <= Len(default) /\ \A i \in 1..Len(root) : root[i] = default[i]
<1> DEFINE m == Len(root)
           r == SubSeq(default, 1, m)
<1>1. m \in Nat /\ m <= Len(default) /\ Len(default) \in Nat /\ \A i \in 1..m : default[i] \in Clean
  BY DEF IsPrefix
<1>2. r = root
  BY WholeSubSeq DEF IsPrefix
<1>3. \A i \in 1..(m - 1 + 1) : r[i] = default[1 + i - 1]
  BY <1>1, SubSeqProperties
<1> HIDE DEF r
<1>4. ASSUME NEW i \in 1..m PROVE root[i] = default[i]
  <2>1. i \in 1..(m - 1 + 1) /\ 1 + i - 1 = i
    BY <1>1
  <2> QED BY <1>2, <1>3, <2>1
<1> QED BY <1>1, <1>4

\* The common part of a root and a path within it is the root.
LEMMA CommonIsRoot ==
  ASSUME NEW root \in Seq(Clean), NEW default \in Seq(Clean), IsPrefix(root, default)
  PROVE  Len(LongestCommonPrefix({root, default})) = Len(root)
<1> DEFINE C == CommonPrefixes({root, default})
           longest == LongestCommonPrefix({root, default})
<1>1. SubSeq(root, 1, Len(root)) = root /\ Len(root) \in Nat
  BY WholeSubSeq
<1>2. root \in C
  <2>1. root \in Prefixes(root)
    <3>1. Len(root) \in 0..Len(root)
      BY <1>1
    <3>2. \E l \in 0..Len(root) : root = SubSeq(root, 1, l)
      BY <1>1, <3>1
    <3> QED BY <3>2 DEF Prefixes
  <2>2. IsPrefix(root, root)
    BY <1>1 DEF IsPrefix
  <2> QED BY <2>1, <2>2 DEF CommonPrefixes
<1>3. \A other \in C : Len(other) <= Len(root)
  BY DEF CommonPrefixes, IsPrefix
<1>4. longest \in C /\ \A other \in C : Len(other) <= Len(longest)
  <2> HIDE DEF C
  <2>1. \E l \in C : \A other \in C : Len(other) <= Len(l)
    BY <1>2, <1>3
  <2> QED BY <2>1 DEF LongestCommonPrefix, C
<1>5. Len(longest) \in Nat
  <2> HIDE DEF longest
  <2>5. longest \in UNION {Prefixes(seq) : seq \in {root, default}}
    BY <1>4 DEF CommonPrefixes
  <2>6. PICK q \in {root, default} : longest \in Prefixes(q)
    BY <2>5
  <2>1. PICK l \in 0..Len(q) : longest = SubSeq(q, 1, l)
    BY <2>6 DEF Prefixes
  <2>2. q \in Seq(Clean) /\ Len(q) \in Nat /\ l \in Int
    BY <2>1
  <2>3. \A i \in 1..l : q[i] \in Clean
    BY <2>1, <2>2
  <2>4. SubSeq(q, 1, l) \in Seq(Clean)
    BY <2>2, <2>3, SubSeqProperties
  <2> QED BY <2>1, <2>4
<1> HIDE DEF C, longest
<1>6. Len(longest) <= Len(root) /\ Len(root) <= Len(longest)
  BY <1>2, <1>3, <1>4
<1>7. Len(longest) = Len(root)
  BY <1>1, <1>5, <1>6
<1> QED BY <1>7 DEF longest

\* The path of a link goes down from the root to the file.
LEMMA RelativeIs ==
  ASSUME NEW root \in Seq(Clean), NEW default \in Seq(Clean), IsPrefix(root, default)
  PROVE  LET url == RelativePath(root, default)
         IN  /\ url \in Seq(Clean) /\ Len(url) = Len(default) - Len(root)
             /\ \A i \in 1..(Len(default) - Len(root)) : url[i] = default[Len(root) + i]
<1> DEFINE m == Len(root)
           n == Len(default)
           ups == [i \in 1..(m - m) |-> ".."]
           down == SubSeq(default, m + 1, n)
           url == RelativePath(root, default)
<1>1. m \in Nat /\ n \in Nat /\ m <= n /\ \A i \in 1..n : default[i] \in Clean
  BY PrefixIs
<1>2. url = ups \o down
  BY CommonIsRoot DEF RelativePath
<1>3. ups \in Seq(Clean) /\ Len(ups) = 0
  <2>1. 1..(m - m) = {} /\ 1..0 = {}
    BY <1>1
  <2>2. ups = << >>
    BY <2>1
  <2> QED BY <2>2
<1>4. down \in Seq(Clean) /\ Len(down) = n - m /\ \A i \in 1..(n - m) : down[i] = default[m + i]
  <2>1. m + 1 \in Int /\ n \in Int /\ \A i \in (m + 1)..n : default[i] \in Clean
    BY <1>1
  <2>2. /\ down \in Seq(Clean) /\ Len(down) = IF m + 1 <= n THEN n - (m + 1) + 1 ELSE 0
        /\ \A i \in 1..(n - (m + 1) + 1) : down[i] = default[m + 1 + i - 1]
    BY <2>1, SubSeqProperties
  <2> HIDE DEF down
  <2>3. Len(down) = n - m
    <3>1. CASE m + 1 <= n
      BY <1>1, <2>2, <3>1
    <3>2. CASE ~(m + 1 <= n)
      BY <1>1, <2>2, <3>2
    <3> QED BY <3>1, <3>2
  <2>4. ASSUME NEW i \in 1..(n - m) PROVE down[i] = default[m + i]
    <3>1. i \in 1..(n - (m + 1) + 1) /\ m + 1 + i - 1 = m + i
      BY <1>1
    <3> QED BY <2>2, <3>1
  <2> QED BY <2>2, <2>3, <2>4
<1> HIDE DEF ups, down, m, n
<1>5. ups \o down = down
  BY <1>3, <1>4
<1> HIDE DEF url
<1> QED BY <1>2, <1>4, <1>5 DEF url, m, n

\* The file of a link is under its root, whatever is asked for.
LEMMA FileIsInside ==
  ASSUME NEW root, NEW default, Good(root, default), NEW asked,
         CapabilityFile(root, default, asked) # Absent
  PROVE  SubSeq(CapabilityFile(root, default, asked), 1, Len(root)) = root
<1>1. SubSeq(root, 1, Len(root)) = root
  BY WholeSubSeq DEF Good
<1>2. CASE asked.path = << >> /\ ~asked.absolute
  BY <1>1, <1>2 DEF CapabilityFile, Good, IsPrefix
<1>3. CASE ~(asked.path = << >> /\ ~asked.absolute)
  BY <1>1, <1>3 DEF CapabilityFile, IsWithin, IsPrefix
<1> QED BY <1>2, <1>3

\* Nothing asked for: the default file.
LEMMA EmptyOpensDefault ==
  ASSUME NEW root, NEW default, NEW asked, asked.path = << >>, ~asked.absolute
  PROVE  CapabilityFile(root, default, asked) = default
BY DEF CapabilityFile

\* A path asked for that stays under the root opens what it resolves to.
LEMMA InsideIsOpened ==
  ASSUME NEW root, NEW default, NEW asked, asked.path # << >>, IsWithin(root, Candidate(root, asked))
  PROVE  CapabilityFile(root, default, asked) = Candidate(root, asked)
BY DEF CapabilityFile

\* The link as it is given out opens the file it was made for.
LEMMA LinkOpensDefault ==
  ASSUME NEW root, NEW default, Good(root, default),
         \A i \in DOMAIN default : Escaped[default[i]] = default[i]
  PROVE  CapabilityFile(root, default, [absolute |-> FALSE, path |-> LaunchUrlPath(root, default)]) = default
<1> DEFINE m == Len(root)
           n == Len(default)
           path == RelativePath(root, default)
           url == LaunchUrlPath(root, default)
           asked == [absolute |-> FALSE, path |-> url]
<1>1. root \in Seq(Clean) /\ default \in Seq(Clean) /\ IsPrefix(root, default)
  BY DEF Good
<1>2. m \in Nat /\ n \in Nat /\ m <= n /\ DOMAIN default = 1..n /\ \A i \in 1..m : root[i] = default[i]
  BY <1>1, PrefixIs
<1>3. path \in Seq(Clean) /\ Len(path) = n - m /\ \A i \in 1..(n - m) : path[i] = default[m + i]
  BY <1>1, RelativeIs
<1>4. url = path
  <2>1. DOMAIN path = 1..(n - m) /\ path = [i \in DOMAIN path |-> path[i]]
    BY <1>2, <1>3
  <2>2. \A i \in DOMAIN path : Escaped[path[i]] = path[i]
    <3> SUFFICES ASSUME NEW i \in 1..(n - m) PROVE Escaped[path[i]] = path[i]
      BY <2>1
    <3>1. m + i \in DOMAIN default
      BY <1>2
    <3> QED BY <1>3, <3>1
  <2>3. url = [i \in DOMAIN path |-> Escaped[path[i]]]
    BY DEF LaunchUrlPath
  <2> HIDE DEF path, url
  <2> QED BY <2>1, <2>2, <2>3
<1> HIDE DEF path, url
<1>5. CASE url = << >>
  <2>1. asked.path = << >> /\ ~asked.absolute
    BY <1>5
  <2> HIDE DEF asked
  <2>2. CapabilityFile(root, default, asked) = default
    BY <2>1, EmptyOpensDefault
  <2> QED BY <2>2 DEF asked, url
<1>6. CASE url # << >>
  <2>1. root \o url = default
    <3> DEFINE full == root \o url
    <3>1. /\ full \in Seq(Clean) /\ Len(full) = m + (n - m)
          /\ \A i \in 1..m + (n - m) : full[i] = IF i <= m THEN root[i] ELSE url[i - m]
      BY <1>1, <1>3, <1>4, ConcatProperties
    <3> HIDE DEF full
    <3>2. Len(full) = n
      BY <1>2, <3>1
    <3>3. ASSUME NEW i \in 1..n PROVE full[i] = default[i]
      <4>1. i \in 1..m + (n - m)
        BY <1>2
      <4>2. CASE i <= m
        <5>1. i \in 1..m
          BY <1>2, <4>2
        <5> QED BY <1>2, <3>1, <4>1, <4>2, <5>1
      <4>3. CASE ~(i <= m)
        <5>1. i - m \in 1..(n - m) /\ m + (i - m) = i
          BY <1>2, <4>3
        <5>2. full[i] = url[i - m]
          BY <3>1, <4>1, <4>3
        <5>3. url[i - m] = default[m + (i - m)]
          BY <1>3, <1>4, <5>1
        <5> QED BY <5>1, <5>2, <5>3
      <4> QED BY <4>2, <4>3
    <3>4. full = default
      BY <1>1, <3>1, <3>2, <3>3
    <3> QED BY <3>4 DEF full
  <2>2. Candidate(root, asked) = default
    <3>1. Candidate(root, asked) = Normalize(root \o url)
      BY DEF Candidate
    <3> QED BY <1>1, <2>1, <3>1, NormalizeSame
  <2>3. asked.path = url /\ IsWithin(root, Candidate(root, asked))
    BY <1>1, <2>2 DEF IsWithin
  <2> HIDE DEF asked
  <2>4. asked.path # << >>
    BY <1>6, <2>3
  <2>5. CapabilityFile(root, default, asked) = Candidate(root, asked)
    BY <2>3, <2>4, InsideIsOpened
  <2> QED BY <2>2, <2>5 DEF asked, url
<1> QED BY <1>5, <1>6 DEF url

\* The root and the file of a preview's link.
LEMMA RowPaths ==
  ASSUME NEW row \in Rows, row # Absent, HasTarget(row)
  PROVE  RootPath(row) \in Seq(Clean) /\ DefaultFile(row) \in Seq(Clean)
<1>1. {row.path, row.entry_path} \subseteq Seq(STRING) \cup {Absent}
  <2>1. CASE row \in Descriptors
    BY <2>1, LifeAssumption
  <2>2. CASE row \in {[d EXCEPT !.status = "revoked"] : d \in Descriptors}
    <3>1. PICK d \in Descriptors : row = [d EXCEPT !.status = "revoked"]
      BY <2>2
    <3>2. row.path = d.path /\ row.entry_path = d.entry_path
      BY <3>1, LifeAssumption
    <3> QED BY <3>2, LifeAssumption
  <2> QED BY <2>1, <2>2 DEF Rows
<1>2. ASSUME NEW q \in Seq(Clean) PROVE Dirname(q) \in Seq(Clean)
  <2>1. CASE Len(q) <= 1
    BY <2>1 DEF Dirname
  <2>2. CASE ~(Len(q) <= 1)
    <3>1. q # << >>
      BY <2>2
    <3> QED BY <2>2, <3>1, FrontIs DEF Dirname
  <2> QED BY <2>1, <2>2
<1>3. ASSUME NEW q \in Seq(Clean) PROVE Append(q, IndexFile) \in Seq(Clean)
  <2>1. IndexFile \in Clean
    BY IndexAssumption DEF Clean
  <2> QED BY <2>1
<1>4. row.path # Absent => Normalize(row.path) \in Seq(Clean)
  BY <1>1, NormalizeClean
<1>5. row.entry_path # Absent => Normalize(row.entry_path) \in Seq(Clean)
  BY <1>1, NormalizeClean
<1>6. RootPath(row) \in Seq(Clean)
  BY <1>2, <1>4, <1>5 DEF RootPath, HasTarget
<1>7. DefaultFile(row) \in Seq(Clean)
  BY <1>3, <1>4, <1>5 DEF DefaultFile, HasTarget
<1> QED BY <1>6, <1>7

\* A file link is made for a file within its root.
FilesInv == \A t \in Tokens : grants[t].root # Absent => Good(grants[t].root, grants[t].default)

\* A link is minted for a file within its root.
LEMMA MintFiles ==
  ASSUME IndexInv, FilesInv, NEW grant, grant.root # Absent => Good(grant.root, grant.default), Mint(grant)
  PROVE  FilesInv'
<1>1. PICK t : t = Len(grants) + 1
  OBVIOUS
<1>2. PICK S : grants \in Seq(S)
  BY DEF IndexInv
<1>3. grants' = Append(grants, grant)
  BY DEF Mint
<1>4. DOMAIN grants' = DOMAIN grants \cup {t} /\ grants'[t] = grant /\ \A u \in DOMAIN grants : grants'[u] = grants[u]
  <2>1. grants \in Seq(S \cup {grant})
    BY <1>2
  <2> QED BY <1>1, <1>3, <2>1
<1> QED BY <1>4 DEF FilesInv, Tokens

\* Every step leaves each link the root and the file it was minted with.
LEMMA FilesStep == IndexInv /\ LinkInv /\ FilesInv /\ [Next]_vars => FilesInv'
<1> SUFFICES ASSUME IndexInv, LinkInv, FilesInv, [Next]_vars PROVE FilesInv'
  OBVIOUS
<1>1. (UNCHANGED grants) => FilesInv'
  BY DEF FilesInv, Tokens
<1>2. ASSUME NEW w \in Workspaces, NEW p \in Previews, LaunchPreview(w, p) PROVE FilesInv'
  <2> DEFINE row == rows[<<w, p>>]
             grant == [workspace |-> w, preview |-> p, service |-> Absent,
                       root |-> RootPath(row), default |-> DefaultFile(row),
                       expires |-> IF row.expires = Absent THEN now + DefaultLife ELSE row.expires]
  <2>1. row # Absent /\ HasTarget(row) /\ IsWithin(RootPath(row), DefaultFile(row)) /\ Mint(grant)
    BY <1>2 DEF LaunchPreview
  <2>2. row \in Rows
    BY DEF LinkInv, LinkTypes
  <2>3. Good(RootPath(row), DefaultFile(row))
    BY <2>1, <2>2, RowPaths DEF Good, IsWithin
  <2>4. grant.root # Absent => Good(grant.root, grant.default)
    BY <2>3
  <2> HIDE DEF grant
  <2> QED BY <2>1, <2>4, MintFiles
<1>3. ASSUME NEW s \in Services, ServiceLaunchReturns(s) PROVE FilesInv'
  <2> DEFINE grant == [workspace |-> Absent, preview |-> Absent, service |-> s,
                       root |-> Absent, default |-> Absent, expires |-> now + ServiceLife]
  <2>1. Mint(grant) /\ grant.root = Absent
    BY <1>3 DEF ServiceLaunchReturns
  <2> HIDE DEF grant
  <2> QED BY <2>1, MintFiles
<1>4. CASE Links
  <2>1. \/ \E w \in Workspaces, p \in Previews : LaunchPreview(w, p)
        \/ \E s \in Services : ServiceLaunchReturns(s)
        \/ UNCHANGED grants
    BY <1>4 DEF Links, LinksNext, RegisterPreview, RevokePreview, ServiceLaunchBegins, ServiceLaunchFails,
                RevokeService, NodeChanges, OpenExpired, TimerFires
  <2> QED BY <1>1, <1>2, <1>3, <2>1
<1>5. CASE Requests \/ TimePasses \/ Restart \/ RestartInSubmission \/ UNCHANGED vars
  <2>1. UNCHANGED grants
    BY <1>5 DEF Requests, TimePasses, Restart, RestartInSubmission, LinksLost, vars, linkVars
  <2> QED BY <1>1, <2>1
<1> QED BY <1>4, <1>5 DEF Next

\* Links made for a file within their root serve only files within it.
LEMMA FilesAreInside == FilesInv => FileLinksStayInside
<1> SUFFICES ASSUME FilesInv, NEW t \in Tokens, grants[t].root # Absent
             PROVE  /\ \A asked \in AskedPaths :
                         CapabilityFile(grants[t].root, grants[t].default, asked) # Absent =>
                           SubSeq(CapabilityFile(grants[t].root, grants[t].default, asked), 1, Len(grants[t].root))
                             = grants[t].root
                    /\ (\A i \in DOMAIN grants[t].default :
                          Escaped[grants[t].default[i]] = grants[t].default[i]) =>
                         CapabilityFile(grants[t].root, grants[t].default,
                                        [absolute |-> FALSE,
                                         path |-> LaunchUrlPath(grants[t].root, grants[t].default)])
                           = grants[t].default
  BY DEF FileLinksStayInside
<1>1. Good(grants[t].root, grants[t].default)
  BY DEF FilesInv
<1> QED BY <1>1, FileIsInside, LinkOpensDefault

(***************************************************************************)
(* File links stay inside: whatever path is asked for, the file served is  *)
(* under the root the preview had when its link was minted, and the link   *)
(* as given out opens the entry, for paths of any length                   *)
(* (resolveCapabilityFilePath, normalizePosixPath, buildFileLaunchUrl).    *)
(***************************************************************************)
THEOREM FilesTheorem == Spec => []FileLinksStayInside
<1>1. Init => FilesInv
  BY DEF Init, LinksInit, FilesInv, Tokens
<1> QED BY <1>1, FilesStep, FilesAreInside, IndexInvariance, MapsInvariance, PTL DEF Spec
================================================================================
