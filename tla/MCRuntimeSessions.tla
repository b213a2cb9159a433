------------------------- MODULE MCRuntimeSessions -------------------------
(* Small instances of RuntimeSessions for TLC. *)
EXTENDS RuntimeSessions, TLC

CONSTANTS s1, s2, c1, c2

\* Two calls at once on two read-write sessions, in one process.
Overlapping ==
  [callers |-> Callers, stageMode |-> [s \in Sessions |-> "read_write"],
   inspectable |-> {}, earlyDiscard |-> FALSE, maxCrashes |-> 0]

\* One call at a time, a restart, and only one staged session.
Restarted(c, t) ==
  [callers |-> {c}, stageMode |-> [s \in Sessions |-> IF s = t THEN "read_write" ELSE "none"],
   inspectable |-> {t}, earlyDiscard |-> TRUE, maxCrashes |-> 1]

OneProcess == {Overlapping}
AllSettings == {Overlapping} \cup {Restarted(c, t) : c \in Callers, t \in Sessions}

SessionSymmetry == Permutations(Sessions) \cup Permutations(Callers)
=============================================================================
