---------------------------- MODULE MCCoevoSync ----------------------------
(* Instances of CoevoSync for TLC.                                          *)
EXTENDS CoevoSync, TLC

CONSTANTS r1, r2, r3

\* ORDER BY updated_at
ByTime == [r \in Rows |-> 0]

\* ORDER BY relevance_score DESC, updated_at
ByRelevance == [r \in Rows |-> IF r = r1 THEN 1 ELSE 0]

\* Rows of equal rank, and runs, are interchangeable.
Symmetry == Permutations(Rows) \cup Permutations(Sessions)

=============================================================================
