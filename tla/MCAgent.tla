------------------------------ MODULE MCAgent ------------------------------
(* An instance of AgentAnswers for TLC. *)
EXTENDS AgentAnswers, TLC

CONSTANTS w, v, m, d, h, z

\* A short name that longer ones begin with, and one that only looks like it
Roster == {<<w, v>>, <<w, v, m>>, <<w, v, d>>, <<w, v, h>>}
Misspelt == {<<w, z>>, <<z, m>>}
ShownNames == [n \in Roster |-> IF n = <<w, v>> THEN <<z, m>> ELSE n]

=============================================================================
