------------------------- MODULE NodeRegistryProofs -------------------------
(***************************************************************************)
(* Proofs about NodeRegistry, for every set of nodes, manifests, tokens    *)
(* and callers, and every number of credentials and restarts.              *)
(***************************************************************************)
EXTENDS NodeRegistry, TLAPS

\* A request for a credential and a stored credential look back, never ahead.
SinceLooksBack ==
  /\ \A i \in DOMAIN creds : creds[i].since < Len(creds)
  /\ \A c \in PendingIssues : call[c].since <= Len(creds)

\* An approved row has the manifest that was reviewed: every other write of a row makes it pending.
ApprovedIsReviewed ==
  \A n \in Nodes : row[n].status = "approved" => row[n].manifest = reviewed[n]

\* A redemption has read a token that was free or bound to the node it speaks of.
RedemptionFitsBinding ==
  \A c \in Callers :
    call[c].at = "redeeming" \/ (call[c].at = "enrolling" /\ call[c].t # None)
      => call[c].bound \in {None, NodeOf[call[c].m]}

IInv ==
  /\ TypeOK
  /\ SinceLooksBack
  /\ OlderAreRotated
  /\ ApprovedIsReviewed
  /\ ApprovedHasCredential
  /\ RedemptionFitsBinding

-----------------------------------------------------------------------------
(* What the calls write. *)

\* A call is what it awaits.
LEMMA CallTypes ==
  ASSUME TypeOK, NEW c \in Callers
  PROVE  /\ call[c].at = "idle" => call[c] = Idle
         /\ call[c].at = "redeeming" => call[c] \in Redeeming
         /\ call[c].at = "enrolling" => call[c] \in Enrolling
         /\ call[c].at = "issuing" => call[c] \in Issuing
BY DEF TypeOK, Idle, Redeeming, Enrolling, Issuing

\* issueRuntimeCredential rotates the credentials of one node and leaves the rest of each as it was.
LEMMA RotateEffect ==
  ASSUME TypeOK, NEW n \in Nodes, RotateAll(n)
  PROVE  /\ creds' \in Seq(Credential)
         /\ Len(creds') = Len(creds)
         /\ DOMAIN creds' = DOMAIN creds
         /\ \A i \in DOMAIN creds :
              /\ creds'[i].node = creds[i].node /\ creds'[i].since = creds[i].since
              /\ creds[i].node = n => creds'[i].rotated = TRUE
              /\ creds[i].node # n => creds'[i] = creds[i]
<1>1. /\ creds \in Seq(Credential) /\ Len(creds) \in Nat /\ DOMAIN creds = 1..Len(creds)
      /\ \A i \in DOMAIN creds : creds[i] \in Credential
  BY DEF TypeOK
<1>2. DOMAIN creds' = DOMAIN creds
  BY DEF RotateAll
<1>3. ASSUME NEW i \in DOMAIN creds
      PROVE  /\ creds'[i] \in Credential
             /\ creds'[i].node = creds[i].node /\ creds'[i].since = creds[i].since
             /\ creds[i].node = n => creds'[i].rotated = TRUE
             /\ creds[i].node # n => creds'[i] = creds[i]
  <2>1. creds[i] \in [node : Nodes, rotated : BOOLEAN, since : Nat]
    BY <1>1 DEF Credential
  <2>2. CASE creds[i].node = n
    <3>1. creds'[i] = [creds[i] EXCEPT !.rotated = TRUE]
      BY <2>2 DEF RotateAll
    <3> QED BY <2>1, <2>2, <3>1 DEF Credential
  <2>3. CASE creds[i].node # n
    <3>1. creds'[i] = creds[i]
      BY <2>3 DEF RotateAll
    <3> QED BY <2>1, <2>3, <3>1 DEF Credential
  <2> QED BY <2>2, <2>3
<1>4. creds' = [i \in 1..Len(creds) |-> creds'[i]]
  BY <1>1 DEF RotateAll
<1>5. creds' \in [1..Len(creds) -> Credential]
  BY <1>1, <1>3, <1>4
<1>6. creds' \in Seq(Credential) /\ Len(creds') = Len(creds)
  BY <1>1, <1>5
<1> QED BY <1>2, <1>3, <1>6

\* The end of issueRuntimeCredential adds one credential that is not rotated.
LEMMA StoreEffect ==
  ASSUME TypeOK, NEW c \in Callers, call[c].at = "issuing", StoreCredential(c)
  PROVE  /\ call[c].n \in Nodes /\ call[c].since \in Nat
         /\ creds' \in Seq(Credential)
         /\ Len(creds') = Len(creds) + 1
         /\ \A i \in DOMAIN creds : i \in DOMAIN creds' /\ creds'[i] = creds[i]
         /\ \A i \in DOMAIN creds' : i \in DOMAIN creds \/ i = Len(creds) + 1
         /\ Len(creds) + 1 \in DOMAIN creds'
         /\ creds'[Len(creds) + 1].node = call[c].n
         /\ creds'[Len(creds) + 1].rotated = FALSE
         /\ creds'[Len(creds) + 1].since = call[c].since
<1>1. call[c].n \in Nodes /\ call[c].since \in Nat
  BY CallTypes DEF Issuing
<1>2. creds \in Seq(Credential)
  BY DEF TypeOK
<1>3. [node |-> call[c].n, rotated |-> FALSE, since |-> call[c].since] \in Credential
  BY <1>1 DEF Credential
<1> DEFINE new == [node |-> call[c].n, rotated |-> FALSE, since |-> call[c].since]
<1>4. creds' = Append(creds, new) /\ new \in Credential
  BY <1>3 DEF StoreCredential
<1>5. new.node = call[c].n /\ new.rotated = FALSE /\ new.since = call[c].since
  OBVIOUS
<1> HIDE DEF new
<1>6. /\ creds' \in Seq(Credential) /\ Len(creds') = Len(creds) + 1
      /\ DOMAIN creds = 1..Len(creds) /\ DOMAIN creds' = 1..(Len(creds) + 1) /\ Len(creds) \in Nat
      /\ \A i \in 1..Len(creds) : creds'[i] = creds[i]
      /\ creds'[Len(creds) + 1] = new
  BY <1>2, <1>4
<1> QED BY <1>1, <1>5, <1>6

\* What a caller awaits next is all that changes of the calls.
LEMMA AwaitEffect ==
  ASSUME TypeOK, NEW c \in Callers, NEW r, Await(c, r)
  PROVE  /\ call'[c] = r
         /\ \A d \in Callers \ {c} : call'[d] = call[d]
         /\ DOMAIN call' = Callers
BY DEF TypeOK, Await

\* A token that is bound names one node, and the other tokens stay as they are.
LEMMA BindEffect ==
  ASSUME TypeOK, NEW t \in Tokens \cup {None}, NEW n \in Nodes, Bind(t, n)
  PROVE  /\ token' \in [Tokens -> Token]
         /\ \A u \in Tokens : token'[u] # token[u] => u = t /\ t # None /\ token'[u].node = n
BY DEF TypeOK, Bind, Token

-----------------------------------------------------------------------------
(* Type correctness. *)

LEMMA InitType == Init => TypeOK
BY RegistryAssumption DEF Init, TypeOK, Row, NoRow, Credential, Token, Idle

LEMMA ReturnType ==
  ASSUME TypeOK, NEW c \in Callers, Return(c)
  PROVE  call' \in [Callers -> {Idle} \cup Redeeming \cup Enrolling \cup Issuing]
BY DEF TypeOK, Return, Await

LEMMA BeginIssueType ==
  ASSUME TypeOK, NEW c \in Callers, NEW n \in Nodes, BeginIssue(c, n)
  PROVE  /\ call' \in [Callers -> {Idle} \cup Redeeming \cup Enrolling \cup Issuing]
         /\ creds' \in Seq(Credential)
<1>1. [at |-> "issuing", n |-> n, since |-> Len(creds)] \in Issuing
  BY DEF TypeOK, Issuing
<1> QED BY <1>1, RotateEffect DEF BeginIssue, TypeOK, Await

LEMMA LookType ==
  ASSUME TypeOK, NEW c \in Callers, NEW m \in Manifests, NEW t \in Tokens \cup {None},
         NEW b \in Nodes \cup {None}, LookForRow(c, m, t, b)
  PROVE  call' \in [Callers -> {Idle} \cup Redeeming \cup Enrolling \cup Issuing]
<1>1. row[NodeOf[m]].manifest \in Manifests \cup {None}
  BY RegistryAssumption DEF TypeOK, Row, NoRow
<1>2. [at |-> "enrolling", m |-> m, t |-> t, bound |-> b, seen |-> row[NodeOf[m]].manifest] \in Enrolling
  BY <1>1 DEF Enrolling
<1> QED BY <1>2 DEF LookForRow, TypeOK, Await

LEMMA NextType == TypeOK /\ [Next]_vars => TypeOK'
<1> SUFFICES ASSUME TypeOK, [Next]_vars PROVE TypeOK'
  OBVIOUS
<1>1. ASSUME NEW c \in Callers, NEW m \in Manifests, BeginEnroll(c, m) PROVE TypeOK'
  BY <1>1, LookType DEF BeginEnroll, TypeOK
<1>2. ASSUME NEW c \in Callers, NEW n \in Nodes, Approve(c, n) PROVE TypeOK'
  <2>1. row' \in [Nodes -> Row \cup {NoRow}]
    BY <1>2 DEF Approve, TypeOK, Row, NoRow
  <2>2. reviewed' \in [Nodes -> Manifests \cup {None}]
    BY <1>2 DEF Approve, TypeOK, Row, NoRow
  <2> QED BY <1>2, <2>1, <2>2, BeginIssueType DEF Approve, TypeOK
<1>3. ASSUME NEW c \in Callers, NEW t \in Tokens, NEW m \in Manifests, BeginRedeem(c, t, m) PROVE TypeOK'
  <2>1. [at |-> "redeeming", m |-> m, t |-> t, bound |-> token[t].node] \in Redeeming
    BY DEF TypeOK, Token, Redeeming
  <2> QED BY <1>3, <2>1 DEF BeginRedeem, Await, TypeOK
<1>4. ASSUME NEW c \in Callers, FinishEnroll(c) PROVE TypeOK'
  <2>1. call[c].m \in Manifests /\ call[c].t \in Tokens \cup {None} /\ NodeOf[call[c].m] \in Nodes
    BY <1>4, CallTypes, RegistryAssumption DEF FinishEnroll, Enrolling
  <2>2. row' \in [Nodes -> Row \cup {NoRow}]
    BY <1>4, <2>1 DEF FinishEnroll, SavePending, TypeOK, Row
  <2> QED BY <1>4, <2>1, <2>2, BindEffect, ReturnType DEF FinishEnroll, TypeOK
<1>5. ASSUME NEW c \in Callers, RefuseEnroll(c) PROVE TypeOK'
  BY <1>5, ReturnType DEF RefuseEnroll, TypeOK
<1>6. ASSUME NEW c \in Callers, RedeemApproved(c) PROVE TypeOK'
  <2>1. call[c].t \in Tokens /\ NodeOf[call[c].m] \in Nodes
    BY <1>6, CallTypes, RegistryAssumption DEF RedeemApproved, Redeeming
  <2> QED BY <1>6, <2>1, BindEffect, BeginIssueType DEF RedeemApproved, TypeOK
<1>7. ASSUME NEW c \in Callers, RedeemPending(c) PROVE TypeOK'
  <2>1. call[c].m \in Manifests /\ call[c].t \in Tokens /\ call[c].bound \in Nodes \cup {None}
    BY <1>7, CallTypes DEF RedeemPending, Redeeming
  <2> QED BY <1>7, <2>1, LookType DEF RedeemPending, TypeOK
<1>8. ASSUME NEW c \in Callers, RefuseRedeem(c) PROVE TypeOK'
  BY <1>8, ReturnType DEF RefuseRedeem, TypeOK
<1>9. ASSUME NEW c \in Callers, FinishIssue(c) PROVE TypeOK'
  BY <1>9, StoreEffect, ReturnType DEF FinishIssue, TypeOK
<1>10. ASSUME NEW t \in Tokens, IssueToken(t) PROVE TypeOK'
  BY <1>10 DEF IssueToken, TypeOK, Token
<1>11. ASSUME NEW t \in Tokens, ExpireToken(t) PROVE TypeOK'
  BY <1>11 DEF ExpireToken, TypeOK, Token
<1>12. CASE Crash
  <2>1. \A c \in PendingIssues : call[c].n \in Nodes
    BY CallTypes DEF PendingIssues, Issuing
  <2> QED BY <1>12, <2>1, RegistryAssumption DEF Crash, TypeOK
<1>13. CASE UNCHANGED vars
  BY <1>13 DEF vars, TypeOK
<1> QED BY <1>1, <1>2, <1>3, <1>4, <1>5, <1>6, <1>7, <1>8, <1>9, <1>10, <1>11, <1>12, <1>13 DEF Next

-----------------------------------------------------------------------------
(* Credentials: what was stored before a request is rotated. *)

CredentialInv == SinceLooksBack /\ OlderAreRotated

\* Steps that store and request no credential.
LEMMA QuietCredentials ==
  ASSUME CredentialInv, UNCHANGED creds,
         \A d \in Callers : call'[d].at = "issuing" => call'[d] = call[d]
  PROVE  CredentialInv'
BY DEF CredentialInv, SinceLooksBack, OlderAreRotated, PendingIssues

LEMMA RequestCredentials ==
  ASSUME TypeOK, CredentialInv, NEW c \in Callers, NEW n \in Nodes, BeginIssue(c, n)
  PROVE  CredentialInv'
<1>1. RotateAll(n) /\ Await(c, [at |-> "issuing", n |-> n, since |-> Len(creds)])
  BY DEF BeginIssue
<1>2. /\ Len(creds') = Len(creds) /\ Len(creds) \in Nat /\ DOMAIN creds' = DOMAIN creds
      /\ \A i \in DOMAIN creds : /\ creds'[i].node = creds[i].node /\ creds'[i].since = creds[i].since
                                 /\ creds[i].rotated => creds'[i].rotated
                                 /\ creds[i].node = n => creds'[i].rotated
  <2>1. ASSUME NEW i \in DOMAIN creds, creds[i].rotated PROVE creds'[i].rotated
    BY <1>1, <2>1, RotateEffect
  <2>2. ASSUME NEW i \in DOMAIN creds, creds[i].node = n PROVE creds'[i].rotated
    BY <1>1, <2>2, RotateEffect
  <2>3. Len(creds) \in Nat
    BY DEF TypeOK
  <2> QED BY <1>1, <2>1, <2>2, <2>3, RotateEffect
<1>3. /\ call'[c].n = n /\ call'[c].since = Len(creds)
      /\ \A d \in PendingIssues' : d = c \/ (d \in PendingIssues /\ call'[d] = call[d])
  BY <1>1, AwaitEffect DEF PendingIssues
<1>4. SinceLooksBack'
  BY <1>2, <1>3 DEF CredentialInv, SinceLooksBack
<1>5. \A i, j \in DOMAIN creds' : creds'[i].node = creds'[j].node /\ i <= creds'[j].since => creds'[i].rotated
  BY <1>2 DEF CredentialInv, OlderAreRotated
<1>6. \A d \in PendingIssues' : \A i \in DOMAIN creds' :
        creds'[i].node = call'[d].n /\ i <= call'[d].since => creds'[i].rotated
  BY <1>2, <1>3 DEF CredentialInv, OlderAreRotated
<1> QED BY <1>4, <1>5, <1>6 DEF CredentialInv, OlderAreRotated

LEMMA StoredCredentials ==
  ASSUME TypeOK, CredentialInv, NEW c \in Callers, FinishIssue(c)
  PROVE  CredentialInv'
<1>1. /\ call[c].at = "issuing" /\ c \in PendingIssues
      /\ StoreCredential(c) /\ Await(c, Idle)
  BY DEF FinishIssue, PendingIssues, Return
<1>2. Len(creds) \in Nat /\ DOMAIN creds = 1..Len(creds)
  BY DEF TypeOK
<1>3. \A d \in PendingIssues' : d \in PendingIssues /\ call'[d] = call[d]
  BY <1>1, AwaitEffect DEF PendingIssues, Idle
<1>4. \A d \in PendingIssues : call[d].since \in Nat /\ call[d].since <= Len(creds)
  BY CallTypes DEF CredentialInv, SinceLooksBack, PendingIssues, Issuing
<1>5. \A i \in DOMAIN creds' :
        \/ i \in DOMAIN creds /\ creds'[i] = creds[i] /\ creds[i].since < Len(creds) /\ creds[i].since \in Nat
        \/ /\ i = Len(creds) + 1
           /\ creds'[i].node = call[c].n /\ creds'[i].since = call[c].since
  <2>1. \A i \in DOMAIN creds : creds[i].since < Len(creds) /\ creds[i].since \in Nat
    <3>1. \A i \in DOMAIN creds : creds[i] \in Credential
      BY DEF TypeOK
    <3> QED BY <3>1 DEF CredentialInv, SinceLooksBack, Credential
  <2> QED BY <1>1, <2>1, StoreEffect
<1>6. Len(creds') = Len(creds) + 1
  BY <1>1, StoreEffect
<1>7. SinceLooksBack'
  BY <1>1, <1>2, <1>3, <1>4, <1>5, <1>6 DEF SinceLooksBack
<1>8. ASSUME NEW i \in DOMAIN creds', NEW j \in DOMAIN creds',
             creds'[i].node = creds'[j].node, i <= creds'[j].since
      PROVE  creds'[i].rotated
  <2>1. i \in DOMAIN creds /\ creds'[i] = creds[i]
    BY <1>1, <1>2, <1>4, <1>5, <1>8
  <2>2. CASE j \in DOMAIN creds /\ creds'[j] = creds[j]
    BY <1>8, <2>1, <2>2 DEF CredentialInv, OlderAreRotated
  <2>3. CASE creds'[j].node = call[c].n /\ creds'[j].since = call[c].since
    BY <1>1, <1>8, <2>1, <2>3 DEF CredentialInv, OlderAreRotated
  <2> QED BY <1>5, <2>2, <2>3
<1>9. \A d \in PendingIssues' : \A i \in DOMAIN creds' :
        creds'[i].node = call'[d].n /\ i <= call'[d].since => creds'[i].rotated
  BY <1>2, <1>3, <1>4, <1>5 DEF CredentialInv, OlderAreRotated
<1> QED BY <1>7, <1>8, <1>9 DEF CredentialInv, OlderAreRotated

-----------------------------------------------------------------------------
(* An approved node has a credential, or one is under way. *)

\* Steps that approve nothing and let every request for a credential go on.
LEMMA QuietHasCredential ==
  ASSUME ApprovedHasCredential, UNCHANGED <<creds, interrupted>>,
         \A d \in Callers : call[d].at = "issuing" => call'[d] = call[d],
         \A n \in Nodes : row'[n].status = "approved" => row[n].status = "approved"
  PROVE  ApprovedHasCredential'
BY DEF ApprovedHasCredential, PendingIssues

\* A request vouches for its node, and rotates no credential of another.
LEMMA RequestHasCredential ==
  ASSUME TypeOK, ApprovedHasCredential, NEW c \in Callers, NEW n \in Nodes, BeginIssue(c, n),
         call[c].at # "issuing", UNCHANGED interrupted,
         \A k \in Nodes \ {n} : row'[k] = row[k]
  PROVE  ApprovedHasCredential'
<1>1. RotateAll(n) /\ Await(c, [at |-> "issuing", n |-> n, since |-> Len(creds)])
  BY DEF BeginIssue
<1>2. c \in PendingIssues' /\ call'[c].n = n
  BY <1>1, AwaitEffect DEF PendingIssues
<1>3. \A d \in PendingIssues : d \in PendingIssues' /\ call'[d] = call[d]
  BY <1>1, AwaitEffect DEF PendingIssues
<1>4. ASSUME NEW k \in Nodes \ {n}
      PROVE  \/ row'[k].status # "approved"
             \/ k \in interrupted'
             \/ \E d \in PendingIssues' : call'[d].n = k
             \/ \E i \in DOMAIN creds' : creds'[i].node = k /\ ~creds'[i].rotated
  <2>1. CASE row[k].status # "approved" \/ k \in interrupted
    BY <2>1
  <2>2. CASE \E d \in PendingIssues : call[d].n = k
    BY <1>3, <2>2
  <2>3. CASE \E i \in DOMAIN creds : creds[i].node = k /\ ~creds[i].rotated
    <3>1. PICK i \in DOMAIN creds : creds[i].node = k /\ ~creds[i].rotated
      BY <2>3
    <3>2. i \in DOMAIN creds' /\ creds'[i].node = k /\ ~creds'[i].rotated
      BY <1>1, <1>4, <3>1, RotateEffect
    <3> QED BY <3>2
  <2> QED BY <2>1, <2>2, <2>3 DEF ApprovedHasCredential
<1> QED BY <1>2, <1>4 DEF ApprovedHasCredential

LEMMA StoredHasCredential ==
  ASSUME TypeOK, ApprovedHasCredential, NEW c \in Callers, FinishIssue(c)
  PROVE  ApprovedHasCredential'
<1>1. /\ call[c].at = "issuing" /\ row' = row /\ interrupted' = interrupted \ {call[c].n}
      /\ StoreCredential(c) /\ Await(c, Idle)
  BY DEF FinishIssue, Return
<1>2. \A d \in PendingIssues \ {c} : d \in PendingIssues' /\ call'[d] = call[d]
  BY <1>1, AwaitEffect DEF PendingIssues
<1>3. /\ \A i \in DOMAIN creds : i \in DOMAIN creds' /\ creds'[i] = creds[i]
      /\ \E i \in DOMAIN creds' : creds'[i].node = call[c].n /\ ~creds'[i].rotated
  BY <1>1, StoreEffect
<1>4. ASSUME NEW k \in Nodes
      PROVE  \/ row'[k].status # "approved"
             \/ k \in interrupted'
             \/ \E d \in PendingIssues' : call'[d].n = k
             \/ \E i \in DOMAIN creds' : creds'[i].node = k /\ ~creds'[i].rotated
  <2>1. CASE k = call[c].n
    BY <1>3, <2>1
  <2>2. CASE k # call[c].n
    BY <1>1, <1>2, <1>3, <2>2 DEF ApprovedHasCredential
  <2> QED BY <2>1, <2>2
<1> QED BY <1>4 DEF ApprovedHasCredential

-----------------------------------------------------------------------------
(* The inductive invariant. *)

LEMMA InitInv == Init => IInv
<1> SUFFICES ASSUME Init PROVE IInv
  OBVIOUS
<1>1. DOMAIN creds = {} /\ PendingIssues = {} /\ \A n \in Nodes : row[n].status = "none"
  BY DEF Init, PendingIssues, Idle, NoRow
<1>2. \A c \in Callers : call[c].at = "idle"
  BY DEF Init, Idle
<1> QED BY <1>1, <1>2, InitType DEF IInv, SinceLooksBack, OlderAreRotated, ApprovedIsReviewed,
                                    ApprovedHasCredential, RedemptionFitsBinding

LEMMA BeginEnrollInv ==
  ASSUME IInv, NEW c \in Callers, NEW m \in Manifests, BeginEnroll(c, m)
  PROVE  IInv'
<1>1. TypeOK'
  BY NextType DEF IInv, Next
<1>2. \E r : Await(c, r) /\ r.at = "enrolling" /\ r.t = None
  BY DEF BeginEnroll, LookForRow
<1>3. /\ \A d \in Callers \ {c} : call'[d] = call[d]
      /\ call[c].at = "idle" /\ call'[c].at = "enrolling" /\ call'[c].t = None
  BY <1>2, AwaitEffect DEF IInv, BeginEnroll, Free, Idle
<1>4. CredentialInv'
  BY <1>3, QuietCredentials DEF IInv, CredentialInv, BeginEnroll
<1>5. ApprovedHasCredential'
  BY <1>3, QuietHasCredential DEF IInv, BeginEnroll
<1>6. ApprovedIsReviewed' /\ RedemptionFitsBinding'
  BY <1>3 DEF IInv, BeginEnroll, ApprovedIsReviewed, RedemptionFitsBinding
<1> QED BY <1>1, <1>4, <1>5, <1>6 DEF IInv, CredentialInv

LEMMA ApproveInv ==
  ASSUME IInv, NEW c \in Callers, NEW n \in Nodes, Approve(c, n)
  PROVE  IInv'
<1>1. TypeOK'
  BY NextType DEF IInv, Next
<1>2. /\ BeginIssue(c, n) /\ call[c].at = "idle" /\ UNCHANGED <<token, interrupted>>
      /\ \A k \in Nodes \ {n} : row'[k] = row[k] /\ reviewed'[k] = reviewed[k]
      /\ row'[n].manifest = row[n].manifest /\ reviewed'[n] = row[n].manifest
  BY DEF IInv, TypeOK, Approve, Free, Idle, Row
<1>3. /\ \A d \in Callers \ {c} : call'[d] = call[d]
      /\ call'[c].at = "issuing"
  BY <1>2, AwaitEffect DEF IInv, BeginIssue
<1>4. CredentialInv'
  BY <1>2, RequestCredentials DEF IInv, CredentialInv
<1>5. ApprovedHasCredential'
  BY <1>2, RequestHasCredential DEF IInv
<1>6. ApprovedIsReviewed'
  BY <1>2 DEF IInv, ApprovedIsReviewed
<1>7. RedemptionFitsBinding'
  BY <1>3 DEF IInv, RedemptionFitsBinding
<1> QED BY <1>1, <1>4, <1>5, <1>6, <1>7 DEF IInv, CredentialInv

LEMMA BeginRedeemInv ==
  ASSUME IInv, NEW c \in Callers, NEW t \in Tokens, NEW m \in Manifests, BeginRedeem(c, t, m)
  PROVE  IInv'
<1>1. TypeOK'
  BY NextType DEF IInv, Next
<1>2. Await(c, [at |-> "redeeming", m |-> m, t |-> t, bound |-> token[t].node]) /\ call[c].at = "idle"
  BY DEF BeginRedeem, Free, Idle
<1>3. /\ \A d \in Callers \ {c} : call'[d] = call[d]
      /\ call'[c].at = "redeeming" /\ call'[c].m = m /\ call'[c].bound = token[t].node
  BY <1>2, AwaitEffect DEF IInv
<1>4. CredentialInv'
  BY <1>3, QuietCredentials DEF IInv, CredentialInv, BeginRedeem
<1>5. ApprovedHasCredential'
  BY <1>2, <1>3, QuietHasCredential DEF IInv, BeginRedeem
<1>6. ApprovedIsReviewed'
  BY DEF IInv, BeginRedeem, ApprovedIsReviewed
<1>7. token[t].node \in {None, NodeOf[m]}
  BY DEF BeginRedeem, Accepts
<1>8. RedemptionFitsBinding'
  BY <1>3, <1>7 DEF IInv, RedemptionFitsBinding
<1> QED BY <1>1, <1>4, <1>5, <1>6, <1>8 DEF IInv, CredentialInv

LEMMA FinishEnrollInv ==
  ASSUME IInv, NEW c \in Callers, FinishEnroll(c)
  PROVE  IInv'
<1>1. TypeOK'
  BY NextType DEF IInv, Next
<1>2. /\ call[c].at = "enrolling" /\ Await(c, Idle) /\ UNCHANGED <<creds, reviewed, interrupted>>
      /\ SavePending(call[c].m) /\ NodeOf[call[c].m] \in Nodes
  BY CallTypes, RegistryAssumption DEF IInv, FinishEnroll, Return, Enrolling
<1>3. /\ \A d \in Callers \ {c} : call'[d] = call[d]
      /\ call'[c].at = "idle"
  BY <1>2, AwaitEffect DEF IInv, Idle
<1>4. \A k \in Nodes : row'[k] = row[k] \/ row'[k].status = "pending"
  BY <1>2 DEF IInv, TypeOK, SavePending
<1>5. CredentialInv'
  BY <1>2, <1>3, QuietCredentials DEF IInv, CredentialInv
<1>6. ApprovedHasCredential'
  BY <1>2, <1>3, <1>4, QuietHasCredential DEF IInv
<1>7. ApprovedIsReviewed'
  BY <1>2, <1>4 DEF IInv, ApprovedIsReviewed
<1>8. RedemptionFitsBinding'
  BY <1>3 DEF IInv, RedemptionFitsBinding
<1> QED BY <1>1, <1>5, <1>6, <1>7, <1>8 DEF IInv, CredentialInv

\* A call that is refused returns, and nothing else happens.
LEMMA RefuseInv ==
  ASSUME IInv, NEW c \in Callers, RefuseEnroll(c) \/ RefuseRedeem(c)
  PROVE  IInv'
<1>1. TypeOK'
  BY NextType DEF IInv, Next
<1>2. /\ call[c].at # "issuing" /\ Await(c, Idle)
      /\ UNCHANGED <<row, creds, reviewed, interrupted>>
  BY DEF RefuseEnroll, RefuseRedeem, Return
<1>3. /\ \A d \in Callers \ {c} : call'[d] = call[d]
      /\ call'[c].at = "idle"
  BY <1>2, AwaitEffect DEF IInv, Idle
<1>4. CredentialInv'
  BY <1>2, <1>3, QuietCredentials DEF IInv, CredentialInv
<1>5. ApprovedHasCredential'
  BY <1>2, <1>3, QuietHasCredential DEF IInv
<1>6. ApprovedIsReviewed' /\ RedemptionFitsBinding'
  BY <1>2, <1>3 DEF IInv, ApprovedIsReviewed, RedemptionFitsBinding
<1> QED BY <1>1, <1>4, <1>5, <1>6 DEF IInv, CredentialInv

LEMMA RedeemApprovedInv ==
  ASSUME IInv, NEW c \in Callers, RedeemApproved(c)
  PROVE  IInv'
<1>1. TypeOK'
  BY NextType DEF IInv, Next
<1> DEFINE n == NodeOf[call[c].m]
<1>2. /\ n \in Nodes /\ BeginIssue(c, n) /\ call[c].at = "redeeming"
      /\ UNCHANGED <<row, reviewed, interrupted>>
  BY CallTypes, RegistryAssumption DEF IInv, RedeemApproved, Redeeming
<1> HIDE DEF n
<1>3. /\ \A d \in Callers \ {c} : call'[d] = call[d]
      /\ call'[c].at = "issuing"
  BY <1>2, AwaitEffect DEF IInv, BeginIssue
<1>4. CredentialInv'
  BY <1>2, RequestCredentials DEF IInv, CredentialInv
<1>5. ApprovedHasCredential'
  BY <1>2, RequestHasCredential DEF IInv
<1>6. ApprovedIsReviewed' /\ RedemptionFitsBinding'
  BY <1>2, <1>3 DEF IInv, ApprovedIsReviewed, RedemptionFitsBinding
<1> QED BY <1>1, <1>4, <1>5, <1>6 DEF IInv, CredentialInv

LEMMA RedeemPendingInv ==
  ASSUME IInv, NEW c \in Callers, RedeemPending(c)
  PROVE  IInv'
<1>1. TypeOK'
  BY NextType DEF IInv, Next
<1>2. /\ call[c].at = "redeeming" /\ UNCHANGED <<row, creds, reviewed, interrupted>>
      /\ LookForRow(c, call[c].m, call[c].t, call[c].bound)
  BY DEF RedeemPending
<1>3. /\ \A d \in Callers \ {c} : call'[d] = call[d]
      /\ call'[c].at = "enrolling" /\ call'[c].m = call[c].m /\ call'[c].bound = call[c].bound
  BY <1>2, AwaitEffect DEF IInv, LookForRow
<1>4. CredentialInv'
  BY <1>2, <1>3, QuietCredentials DEF IInv, CredentialInv
<1>5. ApprovedHasCredential'
  BY <1>2, <1>3, QuietHasCredential DEF IInv
<1>6. ApprovedIsReviewed' /\ RedemptionFitsBinding'
  BY <1>2, <1>3 DEF IInv, ApprovedIsReviewed, RedemptionFitsBinding
<1> QED BY <1>1, <1>4, <1>5, <1>6 DEF IInv, CredentialInv

LEMMA FinishIssueInv ==
  ASSUME IInv, NEW c \in Callers, FinishIssue(c)
  PROVE  IInv'
<1>1. TypeOK'
  BY NextType DEF IInv, Next
<1>2. Await(c, Idle) /\ UNCHANGED <<row, reviewed>>
  BY DEF FinishIssue, Return
<1>3. /\ \A d \in Callers \ {c} : call'[d] = call[d]
      /\ call'[c].at = "idle"
  BY <1>2, AwaitEffect DEF IInv, Idle
<1>4. CredentialInv' /\ ApprovedHasCredential'
  BY StoredCredentials, StoredHasCredential DEF IInv, CredentialInv
<1>5. ApprovedIsReviewed' /\ RedemptionFitsBinding'
  BY <1>2, <1>3 DEF IInv, ApprovedIsReviewed, RedemptionFitsBinding
<1> QED BY <1>1, <1>4, <1>5 DEF IInv, CredentialInv

\* Issuing or losing a token changes neither nodes nor calls.
LEMMA TokenInv ==
  ASSUME IInv, NEW t \in Tokens, IssueToken(t) \/ ExpireToken(t)
  PROVE  IInv'
<1>1. TypeOK'
  BY NextType DEF IInv, Next
<1>2. UNCHANGED <<row, creds, call, reviewed, interrupted>>
  BY DEF IssueToken, ExpireToken
<1> QED BY <1>1, <1>2 DEF IInv, SinceLooksBack, OlderAreRotated, PendingIssues, ApprovedIsReviewed,
                          ApprovedHasCredential, RedemptionFitsBinding

LEMMA CrashInv ==
  ASSUME IInv, Crash
  PROVE  IInv'
<1>1. TypeOK'
  BY NextType DEF IInv, Next
<1>2. /\ \A d \in Callers : call'[d].at = "idle"
      /\ UNCHANGED <<row, creds, reviewed>>
      /\ interrupted' = interrupted \cup {call[d].n : d \in PendingIssues}
  BY DEF Crash, Idle
<1>3. CredentialInv'
  BY <1>2, QuietCredentials DEF IInv, CredentialInv
<1>4. ApprovedHasCredential'
  BY <1>2 DEF IInv, ApprovedHasCredential
<1>5. ApprovedIsReviewed' /\ RedemptionFitsBinding'
  BY <1>2 DEF IInv, ApprovedIsReviewed, RedemptionFitsBinding
<1> QED BY <1>1, <1>3, <1>4, <1>5 DEF IInv, CredentialInv

LEMMA StutterInv ==
  ASSUME IInv, UNCHANGED vars
  PROVE  IInv'
<1>1. TypeOK'
  BY NextType DEF IInv
<1>2. UNCHANGED <<row, creds, call, reviewed, interrupted>>
  BY DEF vars
<1> QED BY <1>1, <1>2 DEF IInv, SinceLooksBack, OlderAreRotated, PendingIssues, ApprovedIsReviewed,
                          ApprovedHasCredential, RedemptionFitsBinding

(***************************************************************************)
(* In every reachable state the inductive invariant holds.                 *)
(***************************************************************************)
THEOREM Invariance == Spec => []IInv
<1>1. ASSUME IInv, [Next]_vars
      PROVE  IInv'
  BY <1>1, BeginEnrollInv, ApproveInv, BeginRedeemInv, FinishEnrollInv, RefuseInv, RedeemApprovedInv,
     RedeemPendingInv, FinishIssueInv, TokenInv, CrashInv, StutterInv DEF Next
<1> QED BY <1>1, InitInv, PTL DEF Spec

-----------------------------------------------------------------------------
(* The properties. *)

(***************************************************************************)
(* Type correctness of the rows and of the calls in flight.                *)
(***************************************************************************)
THEOREM TypeCorrectness == Spec => []TypeOK
<1>1. IInv => TypeOK
  BY DEF IInv
<1> QED BY <1>1, Invariance, PTL

(***************************************************************************)
(* A node that can connect does so under the manifest last approved        *)
(* (enrollNode, approveNode, authenticateConnectionToken).                 *)
(***************************************************************************)
THEOREM AdmissionTheorem == Spec => []AdmittedAsReviewed
<1>1. IInv => AdmittedAsReviewed
  <2> SUFFICES ASSUME IInv, NEW i \in DOMAIN creds, Admits(i)
               PROVE  row[creds[i].node].manifest = reviewed[creds[i].node]
    BY DEF AdmittedAsReviewed
  <2>1. creds[i].node \in Nodes
    <3>1. creds[i] \in Credential
      BY DEF IInv, TypeOK
    <3> QED BY <3>1 DEF Credential
  <2> QED BY <2>1 DEF IInv, ApprovedIsReviewed, Admits
<1> QED BY <1>1, Invariance, PTL

(***************************************************************************)
(* However issues overlap, every credential but the newest is rotated, and *)
(* an approved node is left without one by a crash only                    *)
(* (issueRuntimeCredential).                                               *)
(***************************************************************************)
THEOREM CredentialTheorem == Spec => []NewestCredentialStands
<1>1. IInv => NewestCredentialStands
  BY DEF IInv, NewestCredentialStands
<1> QED BY <1>1, Invariance, PTL

(***************************************************************************)
(* A step changes the key of a node only by an enrolment that saves over a *)
(* row it has not seen (enrollNode).                                       *)
(***************************************************************************)
THEOREM KeyTheorem == Spec => KeyChangesOnlyInRace
<1> DEFINE Race(n) == \E c \in Callers : /\ call[c].at = "enrolling" /\ NodeOf[call[c].m] = n /\ call'[c] = Idle
                                         /\ Key(call[c].seen) # Key(row[n].manifest)
           Step == \A n \in Nodes : row[n] # NoRow /\ Key(row'[n].manifest) # Key(row[n].manifest) => Race(n)
<1>1. ASSUME IInv, [Next]_vars
      PROVE  Step
  <2> SUFFICES ASSUME NEW n \in Nodes, row[n] # NoRow, Key(row'[n].manifest) # Key(row[n].manifest)
               PROVE  Race(n)
    BY DEF Step
  <2> HIDE DEF Race
  <2>1. row' # row
    OBVIOUS
  <2>2. ASSUME NEW c \in Callers, NEW k \in Nodes, Approve(c, k) PROVE FALSE
    BY <2>2 DEF Approve, IInv, TypeOK, Row
  <2>3. ASSUME NEW c \in Callers, FinishEnroll(c) PROVE Race(n)
    <3>1. call[c] \in Enrolling
      BY <1>1, <2>3, CallTypes DEF FinishEnroll, IInv
    <3>2. NodeOf[call[c].m] = n /\ row'[n].manifest = call[c].m
      BY <2>3, <2>1, <3>1 DEF FinishEnroll, SavePending, IInv, TypeOK
    <3>3. call'[c] = Idle
      BY <1>1, <2>3, AwaitEffect DEF FinishEnroll, Return, IInv
    <3>4. Key(call[c].seen) # Key(row[n].manifest)
      <4>1. row[n].manifest \in Manifests
        BY <1>1 DEF IInv, TypeOK, Row
      <4>2. Key(row[n].manifest) # None /\ Key(None) = None
        BY <4>1, RegistryAssumption DEF Key
      <4>3. call[c].seen = None \/ Key(call[c].seen) = Key(call[c].m)
        BY <2>3 DEF FinishEnroll, KeyMismatch
      <4> QED BY <3>2, <4>2, <4>3
    <3> QED BY <2>3, <3>2, <3>3, <3>4 DEF Race, FinishEnroll
  <2>4. CASE UNCHANGED vars
    BY <2>1, <2>4 DEF vars
  <2> QED BY <1>1, <2>1, <2>2, <2>3, <2>4 DEF Next, BeginEnroll, BeginRedeem, RefuseEnroll, RedeemApproved,
                  RedeemPending, RefuseRedeem, FinishIssue, IssueToken, ExpireToken, Crash
<1>2. Spec => [][Step]_vars
  BY <1>1, Invariance, PTL DEF Spec
<1> QED BY <1>2 DEF KeyChangesOnlyInRace

(***************************************************************************)
(* A bound token is bound to another node only by a redemption that read   *)
(* it before it was bound so (redeemBootstrapToken).                       *)
(***************************************************************************)
THEOREM BindingTheorem == Spec => TokenRebindsOnlyInRace
<1> DEFINE Race(t) == \E c \in Callers : /\ call[c].at \in {"redeeming", "enrolling"} /\ call[c].t = t
                                         /\ call[c].bound # token[t].node /\ call'[c] # call[c]
           Step == \A t \in Tokens : token[t].node # None /\ token'[t].node # token[t].node => Race(t)
<1>1. ASSUME IInv, [Next]_vars
      PROVE  Step
  <2> SUFFICES ASSUME NEW t \in Tokens, token[t].node # None, token'[t].node # token[t].node
               PROVE  Race(t)
    BY DEF Step
  <2> HIDE DEF Race
  <2>1. token' # token
    OBVIOUS
  <2>2. ASSUME NEW c \in Callers, FinishEnroll(c) PROVE Race(t)
    <3>1. call[c] \in Enrolling /\ NodeOf[call[c].m] \in Nodes
      BY <1>1, <2>2, CallTypes, RegistryAssumption DEF FinishEnroll, IInv, Enrolling
    <3>2. call[c].t = t /\ call[c].t # None /\ token'[t].node = NodeOf[call[c].m]
      BY <1>1, <2>2, <3>1, BindEffect DEF FinishEnroll, IInv, Enrolling
    <3>3. call[c].bound # token[t].node
      BY <1>1, <2>2, <3>2 DEF FinishEnroll, IInv, RedemptionFitsBinding
    <3>4. call'[c] = Idle
      BY <1>1, <2>2, AwaitEffect DEF FinishEnroll, Return, IInv
    <3> QED BY <2>2, <3>2, <3>3, <3>4 DEF Race, FinishEnroll, Idle
  <2>3. ASSUME NEW c \in Callers, RedeemApproved(c) PROVE Race(t)
    <3>1. call[c] \in Redeeming /\ NodeOf[call[c].m] \in Nodes
      BY <1>1, <2>3, CallTypes, RegistryAssumption DEF RedeemApproved, IInv, Redeeming
    <3>2. call[c].t = t /\ token'[t].node = NodeOf[call[c].m]
      BY <1>1, <2>3, <3>1, BindEffect DEF RedeemApproved, IInv, Redeeming
    <3>3. call[c].bound # token[t].node
      BY <1>1, <2>3, <3>2 DEF RedeemApproved, IInv, RedemptionFitsBinding
    <3>4. call'[c].at = "issuing"
      BY <1>1, <2>3, AwaitEffect DEF RedeemApproved, BeginIssue, IInv
    <3> QED BY <2>3, <3>2, <3>3, <3>4 DEF Race, RedeemApproved
  <2>4. ASSUME NEW u \in Tokens, IssueToken(u) \/ ExpireToken(u) PROVE FALSE
    BY <1>1, <2>4 DEF IssueToken, ExpireToken, IInv, TypeOK, Token
  <2>5. CASE UNCHANGED vars
    BY <2>1, <2>5 DEF vars
  <2> QED BY <1>1, <2>1, <2>2, <2>3, <2>4, <2>5 DEF Next, BeginEnroll, Approve, BeginRedeem, RefuseEnroll,
                  RedeemPending, RefuseRedeem, FinishIssue, Crash
<1>2. Spec => [][Step]_vars
  BY <1>1, Invariance, PTL DEF Spec
<1> QED BY <1>2 DEF TokenRebindsOnlyInRace

(***************************************************************************)
(* Who a node is, and whose token it is, change in races only (enrollNode, *)
(* redeemBootstrapToken).                                                  *)
(***************************************************************************)
THEOREM IdentityTheorem == Spec => IdentityChangesOnlyInRace
BY KeyTheorem, BindingTheorem DEF IdentityChangesOnlyInRace
=============================================================================
