-------------------------- MODULE RuntimeSelection --------------------------
(***************************************************************************)
(* How RuntimeSelectionService chooses among the runtime adapters, and     *)
(* among the nodes of one.                                                 *)
(*                                                                         *)
(* A candidate is a record of what an adapter's manifest declares and of   *)
(* what its health() answered:                                             *)
(*   id, health, caps, presets, trust, locality, isolation                 *)
(* where id is the place of adapter_id in alphabetical order.  A criterion *)
(* that the caller leaves out is Unspecified.                                      *)
(***************************************************************************)
EXTENDS Integers, FiniteSets

CONSTANT Unspecified \* a criterion the caller leaves out

HealthRank == [healthy |-> 4, degraded |-> 3, unknown |-> 2, unavailable |-> 0]
TrustTierRank == [production |-> 4, staging |-> 3, development |-> 2, untrusted |-> 1]
LocalityRank == [local |-> 3, hybrid |-> 2, remote |-> 1]

\* matchScore, of a value that is there.
MatchScore(value, expected) ==
  IF expected = Unspecified THEN 1 ELSE IF value = expected THEN 3 ELSE 0

LocalityPreference(value, required) ==
  IF required = Unspecified THEN LocalityRank[value] ELSE IF value = required THEN 5 ELSE 0

\* An adapter that select() keeps, before it looks at the adapter's nodes.
Qualifies(c, criteria) ==
  /\ criteria.id \in {Unspecified, c.id}
  /\ HealthRank[c.health] > 0
  /\ criteria.caps \subseteq c.caps
  /\ criteria.preset = Unspecified \/ criteria.preset \in c.presets
  /\ criteria.trust = Unspecified \/ TrustTierRank[c.trust] >= TrustTierRank[criteria.trust]
  /\ criteria.locality \in {Unspecified, c.locality}

\* A node that selectBestNode keeps.
NodeQualifies(node, criteria) ==
  /\ HealthRank[node.health] > 0
  /\ criteria.caps \subseteq node.caps
  /\ criteria.locality \in {Unspecified, node.locality}

Scores(c, criteria) ==
  << HealthRank[c.health],
     MatchScore(c.isolation, criteria.isolation),
     LocalityPreference(c.locality, criteria.locality),
     TrustTierRank[c.trust] >>

\* The first score that differs decides; the identifiers decide among equals.
Before(l, r, criteria) ==
  LET a == Scores(l, criteria)
      b == Scores(r, criteria)
  IN  \/ \E i \in 1..4 : a[i] > b[i] /\ \A k \in 1..(i - 1) : a[k] = b[k]
      \/ a = b /\ l.id < r.id

\* The head of the candidates as compareCandidates sorts them.
Selected(candidates, criteria) ==
  CHOOSE c \in candidates : \A d \in candidates \ {c} : Before(c, d, criteria)

-----------------------------------------------------------------------------
(***************************************************************************)
(* The comparison of two different adapters is decided, and by one side    *)
(* only, so that the order of the registry never matters.                  *)
(***************************************************************************)
StrictOrder(candidates, criteria) ==
  \A l, r \in candidates :
    l.id # r.id => (Before(l, r, criteria) <=> ~Before(r, l, criteria))

\* What sorting would give, by counting the candidates that come before each.
SelectedIsFirst(candidates, criteria) ==
  candidates # {} =>
    LET Earlier(c) == {d \in candidates : Before(d, c, criteria)}
    IN  /\ Earlier(Selected(candidates, criteria)) = {}
        /\ \A c, d \in candidates : c.id # d.id => Cardinality(Earlier(c)) # Cardinality(Earlier(d))
=============================================================================
