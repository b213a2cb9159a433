--------------------------- MODULE LaunchCapabilities ---------------------------
(***************************************************************************)
(* Launch links (src/src/previews/service.ts) and the routes that make,    *)
(* open and revoke them (src/src/api/app.ts).  A link is a token in        *)
(* launchCapabilities, entered in an index by its preview or by its        *)
(* service; a revoked token becomes a tombstone in                         *)
(* revokedLaunchCapabilities; each has one timer.  All of it is in memory, *)
(* while the previews themselves are rows of the database.                 *)
(*                                                                         *)
(* Tokens are numbered in the order they are minted, and grants holds the  *)
(* grant of every one.  A handler's synchronous part is one step; a launch *)
(* of a service awaits the adapter in between (launching).  The other half *)
(* of a service's revocation or restart, in the adapter, is in             *)
(* NodeSandboxes and changes nothing here.                                 *)
(***************************************************************************)
EXTENDS WallClock, FiniteSets, PreviewPaths

CONSTANTS
  Workspaces, Previews,   \* a preview is registered under a workspace and an id
  Services,               \* services of a node, each with its workspace and scope key
  Descriptors,            \* what clients register: [path, entry_path, source, status, expires]
  AskedPaths,             \* paths asked for under a link
  DefaultLife,            \* life of a link to a preview that has no expiry (15 min)
  ServiceLife,            \* life of a link to a service (5 min, from the adapter)
  MaxTimeout,             \* MAX_TIMEOUT_MS: the longest delay setTimeout takes
  MaxRevoked,             \* maxRevokedLaunchCapabilities (256)
  MaxTokens               \* bound: tokens minted, or to be minted by the launches of one service

VARIABLES
  rows,          \* previews, by workspace and preview id, or Absent
  grants,        \* the grant of every token minted, in order
  live,          \* launchCapabilities: the tokens in it
  byPreview,     \* previewLaunchTokens: keyed by the preview id alone
  byScope,       \* scopedLaunchTokens
  tombstones,    \* revokedLaunchCapabilities, oldest first
  timers,        \* capabilityExpiryTimers: when each fires
  launchable,    \* ensureLaunchableNode, of the services' node
  launching,     \* launches of a service that await the adapter
  lost,          \* history: how many tokens had been minted at the last restart
  withdrawn      \* history: the tokens that each revocation was for, oldest first

linkVars == <<rows, grants, live, byPreview, byScope, tombstones, timers,
              launchable, launching, lost, withdrawn>>

ASSUME LifeAssumption ==
  /\ DefaultLife \in Nat \ {0} /\ ServiceLife \in Nat \ {0}
  /\ MaxTimeout \in Nat \ {0} /\ MaxRevoked \in Nat \ {0} /\ MaxTokens \in Nat
  /\ \A d \in Descriptors :
       /\ d.expires \in Nat \union {Absent}
       /\ {d.path, d.entry_path} \subseteq Seq(STRING) \union {Absent}

Tokens == DOMAIN grants

\* The bound on tokens.
RoomForToken == Len(grants) < MaxTokens

Expired(t) == grants[t].expires <= now

--------------------------------------------------------------------------------
\* The maps of the service.

\* The members of a set of tokens in the order they were minted, which is how a Set
\* that they were added to lists them.
InOrder(S) == CHOOSE seq \in [1..Cardinality(S) -> S] : \A i, j \in DOMAIN seq : i < j => seq[i] < seq[j]

Without(seq, t) == IF t \in ToSet(seq) THEN RemoveAt(seq, CHOOSE i \in DOMAIN seq : seq[i] = t) ELSE seq
Lowest(a, b) == IF a < b THEN a ELSE b

\* createExpiryTimer: a timer due at the expiry, or as late as setTimeout allows.
\* An expiry that has passed is due at once.
Due(expires) == IF expires <= now THEN now ELSE Lowest(expires, now + MaxTimeout)

Disarm(gone) == [t \in DOMAIN timers \ gone |-> timers[t]]
Arm(armed) == [t \in DOMAIN timers \union armed |->
                 IF t \in armed THEN Due(grants[t].expires) ELSE timers[t]]

\* Defect: an expired link is taken out of the map alone.
UnlistMapOnly(gone) ==
  /\ live' = live \ gone
  /\ UNCHANGED <<byPreview, byScope>>

\* deleteLaunchCapability: out of the map and of both indexes.
Unlist(gone) ==
  /\ live' = live \ gone
  /\ byPreview' = [p \in Previews |-> byPreview[p] \ gone]
  /\ byScope' = [s \in Services |-> byScope[s] \ gone]

Expire(t) == Unlist({t}) /\ timers' = Disarm({t})

\* trimRevokedLaunchCapabilities: the oldest tombstones over the limit, and their timers.
Trimmed(seq) == LET excess == Len(seq) - MaxRevoked
                IN  IF excess > 0 THEN SubSeq(seq, excess + 1, Len(seq)) ELSE seq

\* Defect: a revoked link stays in the map and its tombstone answers for it.
BuryBeside(tokens) ==
  LET buried == InOrder((tokens \intersect live) \ ToSet(tombstones))
      kept == Trimmed(tombstones \o buried)
      forgotten == ToSet(tombstones \o buried) \ ToSet(kept)
  IN  /\ tombstones' = kept
      /\ timers' = [t \in (DOMAIN timers \union ToSet(buried)) \ forgotten |->
                      IF t \in ToSet(buried) THEN Due(grants[t].expires) ELSE timers[t]]
      /\ UNCHANGED <<live, byPreview, byScope>>

\* A revocation of the links in an index: every one that is live becomes a tombstone.
Bury(tokens) ==
  LET buried == InOrder(tokens \intersect live)
      kept == Trimmed(tombstones \o buried)
      forgotten == ToSet(tombstones \o buried) \ ToSet(kept)
  IN  /\ Unlist(tokens)
      /\ tombstones' = kept
      /\ timers' = [t \in (DOMAIN timers \union ToSet(buried)) \ forgotten |->
                      IF t \in ToSet(buried) THEN Due(grants[t].expires) ELSE timers[t]]

\* mintLaunchCapability and mintFileLaunchCapability: a token is made, listed,
\* indexed and given its timer in one go.
Mint(grant) ==
  LET t == Len(grants) + 1
  IN  /\ grants' = Append(grants, grant)
      /\ live' = live \union {t}
      /\ byPreview' = [p \in Previews |-> byPreview[p] \union (IF p = grant.preview THEN {t} ELSE {})]
      /\ byScope' = [s \in Services |-> byScope[s] \union (IF s = grant.service THEN {t} ELSE {})]
      /\ timers' = [u \in DOMAIN timers \union {t} |->
                      IF u = t THEN Due(grant.expires) ELSE timers[u]]

--------------------------------------------------------------------------------
\* Previews.

\* handleRegisterPreview, registerPreview, savePreview: the row is what the client
\* says, its status included, whatever was there before.
RegisterPreview(w, p) ==
  /\ \E d \in Descriptors : rows' = [rows EXCEPT ![<<w, p>>] = d]
  /\ UNCHANGED <<grants, live, byPreview, byScope, tombstones, timers,
                 launchable, launching, lost, withdrawn>>

\* handleLaunchPreview, launchPreview: refused for a revoked or an expired preview,
\* for one without a target, and for an entry outside its root.  A live service's
\* preview has no URL a client may have set, so buildPreviewTargetUrl refuses it.
LaunchPreview(w, p) ==
  LET row == rows[<<w, p>>]
  IN  /\ row # Absent
      /\ row.status # "revoked"
      /\ row.expires # Absent => row.expires > now
      /\ row.source = "files" /\ HasTarget(row)
      /\ IsWithin(RootPath(row), DefaultFile(row))
      /\ RoomForToken
      /\ Mint([workspace |-> w, preview |-> p, service |-> Absent,
               root |-> RootPath(row), default |-> DefaultFile(row),
               expires |-> IF row.expires = Absent THEN now + DefaultLife ELSE row.expires])
      /\ UNCHANGED <<rows, tombstones, launchable, launching, lost, withdrawn>>

\* What a revocation is for: the links minted for this preview of this workspace.
OfPreview(w, p) == {t \in Tokens : grants[t].workspace = w /\ grants[t].preview = p}
OfService(s) == {t \in Tokens : grants[t].service = s}

Withdrawn == UNION ToSet(withdrawn)
Withdraw(tokens) ==
  withdrawn' = IF tokens \subseteq Withdrawn THEN withdrawn ELSE Append(withdrawn, tokens \ Withdrawn)

\* handleRevokePreview, revokePreview: the links of this id, whosever preview it is.
RevokePreview(w, p) ==
  /\ rows[<<w, p>>] # Absent
  /\ Bury(byPreview[p])
  /\ rows' = [rows EXCEPT ![<<w, p>>].status = "revoked"]
  /\ Withdraw(OfPreview(w, p) \union (byPreview[p] \intersect live))
  /\ UNCHANGED <<grants, launchable, launching, lost>>

--------------------------------------------------------------------------------
\* Services.

\* handleLaunchNodeService: the node is checked, then the adapter is awaited.
ServiceLaunchBegins(s) ==
  /\ launchable
  /\ Len(grants) + launching[s] < MaxTokens
  /\ launching' = [launching EXCEPT ![s] = @ + 1]
  /\ UNCHANGED <<rows, grants, live, byPreview, byScope, tombstones, timers,
                 launchable, lost, withdrawn>>

\* The adapter's answer is minted, whatever was revoked meanwhile.
ServiceLaunchReturns(s) ==
  /\ launching[s] > 0
  /\ RoomForToken
  /\ launching' = [launching EXCEPT ![s] = @ - 1]
  /\ Mint([workspace |-> Absent, preview |-> Absent, service |-> s,
           root |-> Absent, default |-> Absent, expires |-> now + ServiceLife])
  /\ UNCHANGED <<rows, tombstones, launchable, lost, withdrawn>>

ServiceLaunchFails(s) ==
  /\ launching[s] > 0
  /\ launching' = [launching EXCEPT ![s] = @ - 1]
  /\ UNCHANGED <<rows, grants, live, byPreview, byScope, tombstones, timers,
                 launchable, lost, withdrawn>>

\* handleRevokeNodeService and handleRestartNodeService up to their await:
\* revokeLaunchScope.
RevokeService(s) ==
  /\ launchable
  /\ Bury(byScope[s])
  /\ Withdraw(OfService(s))
  /\ UNCHANGED <<rows, grants, launchable, launching, lost>>

\* The node registry's side of ensureLaunchableNode: approval and health change.
NodeChanges ==
  /\ launchable' = ~launchable
  /\ UNCHANGED <<rows, grants, live, byPreview, byScope, tombstones, timers,
                 launching, lost, withdrawn>>

--------------------------------------------------------------------------------
\* Opening a link, and the timers.

\* resolveLaunchCapability.
Answer(t) ==
  IF t \in ToSet(tombstones) THEN "403 revoked"
  ELSE IF t \notin live \/ Expired(t) THEN "410 expired"
  ELSE "opened"

\* An opened link changes nothing, unless it is found expired before its timer fired.
OpenExpired(t) ==
  /\ t \in live /\ t \notin ToSet(tombstones) /\ Expired(t)
  /\ Expire(t)
  /\ UNCHANGED <<rows, grants, tombstones, launchable, launching, lost, withdrawn>>

\* A timer fires, at its due time or later: it is armed again when the expiry was too
\* far off for one setTimeout, and removes the link or the tombstone otherwise.
TimerFires(t) ==
  /\ t \in DOMAIN timers /\ timers[t] <= now
  /\ IF ~Expired(t)
     THEN timers' = Arm({t}) /\ UNCHANGED <<live, byPreview, byScope, tombstones>>
     ELSE /\ Expire(t)
          /\ tombstones' = Without(tombstones, t)
  /\ UNCHANGED <<rows, grants, launchable, launching, lost, withdrawn>>

\* A restart of the host: the database is kept, the service's maps start empty.
LinksLost ==
  /\ lost' = Len(grants)
  /\ live' = {} /\ tombstones' = <<>> /\ timers' = <<>>
  /\ byPreview' = [p \in Previews |-> {}]
  /\ byScope' = [s \in Services |-> {}]
  /\ launching' = [s \in Services |-> 0]
  /\ UNCHANGED <<rows, grants, launchable, withdrawn>>

--------------------------------------------------------------------------------
LinksInit ==
  /\ rows = [row \in Workspaces \X Previews |-> Absent]
  /\ grants = <<>> /\ live = {} /\ tombstones = <<>> /\ timers = <<>>
  /\ byPreview = [p \in Previews |-> {}]
  /\ byScope = [s \in Services |-> {}]
  /\ launchable = FALSE
  /\ launching = [s \in Services |-> 0]
  /\ lost = 0 /\ withdrawn = <<>>

LinksNext ==
  /\ UNCHANGED now
  /\ \/ \E w \in Workspaces, p \in Previews :
          RegisterPreview(w, p) \/ LaunchPreview(w, p) \/ RevokePreview(w, p)
     \/ \E s \in Services : \/ ServiceLaunchBegins(s) \/ ServiceLaunchReturns(s)
                            \/ ServiceLaunchFails(s) \/ RevokeService(s)
     \/ NodeChanges
     \/ \E t \in Tokens : OpenExpired(t) \/ TimerFires(t)

--------------------------------------------------------------------------------
\* The state of the service: each token has a grant, the maps hold minted tokens, and
\* the tombstones are as many as the service keeps.
LinksTypeOK ==
  /\ rows \in [Workspaces \X Previews -> Descriptors \union {Absent}
                  \union {[d EXCEPT !.status = "revoked"] : d \in Descriptors}]
  /\ Len(grants) <= MaxTokens
  /\ \A t \in Tokens : grants[t].workspace \in Workspaces \union {Absent} /\ grants[t].expires \in Nat
  /\ live \union ToSet(tombstones) \subseteq Tokens
  /\ IsInjective(tombstones) /\ Len(tombstones) <= MaxRevoked
  /\ byPreview \in [Previews -> SUBSET Tokens] /\ byScope \in [Services -> SUBSET Tokens]
  /\ DOMAIN timers \subseteq Tokens
  /\ launchable \in BOOLEAN /\ launching \in [Services -> 0..MaxTokens]
  /\ lost \in 0..Len(grants)
  /\ Withdrawn \subseteq Tokens

\* A link never opens again once its preview (in its workspace) or its service was
\* revoked: a revocation reaches, through the index, every link minted before it, and
\* no tombstone that is trimmed or timed out lets one back in (revokePreview,
\* revokeLaunchScope, resolveLaunchCapability; requirements.md, section 4).
RevokedNeverOpens == \A t \in Withdrawn : Answer(t) # "opened"

\* The indexes hold the live links of a preview or a service and nothing else: no
\* link is out of a revocation's reach, and none stays in an index once it is gone
\* (mintLaunchCapability, removeCapabilityFromIndexes).
IndexesFollowLinks ==
  /\ \A p \in Previews : byPreview[p] = {t \in live : grants[t].preview = p}
  /\ \A s \in Services : byScope[s] = {t \in live : grants[t].service = s}

\* Every link and every tombstone has a timer that will remove it, and no timer is
\* left over: a mint, a revocation, a trim, a timer that fires before a far expiry
\* and a lookup that finds a link expired all keep the two in step
\* (scheduleLaunchCapabilityExpiry, createExpiryTimer, trimRevokedLaunchCapabilities).
RecordsHaveTimers == DOMAIN timers = live \union ToSet(tombstones)

\* As long as the host is up, the holder of one of the latest MaxRevoked revoked links
\* is told 403 until the link would have expired, and not 410: trimming forgets the
\* oldest revocations first (trimRevokedLaunchCapabilities, resolveLaunchCapability).
LatestRevocationsAreTold ==
  \A i \in DOMAIN withdrawn : \A t \in withdrawn[i] :
    LET later == {u \in withdrawn[i] : u > t} \union UNION {withdrawn[j] : j \in (i + 1)..Len(withdrawn)}
    IN  Cardinality(later) < MaxRevoked /\ t > lost /\ ~Expired(t) => Answer(t) = "403 revoked"

\* The file a link serves is under the root its preview had when the link was minted,
\* whatever path is asked for, and the link as it was given out opens the preview's
\* entry, unless a segment of it had to be escaped (resolveCapabilityFilePath,
\* buildFileLaunchUrl).
FileLinksStayInside ==
  \A t \in Tokens :
    LET g == grants[t]
        url == LaunchUrlPath(g.root, g.default)
    IN  g.root # Absent =>
          /\ \A asked \in AskedPaths :
               CapabilityFile(g.root, g.default, asked) # Absent =>
                 SubSeq(CapabilityFile(g.root, g.default, asked), 1, Len(g.root)) = g.root
          /\ (\A i \in DOMAIN g.default : Escaped[g.default[i]] = g.default[i]) =>
               CapabilityFile(g.root, g.default, [absolute |-> FALSE, path |-> url]) = g.default
================================================================================
