-------------------------- MODULE MCTaskLifecycle --------------------------
(* Instances of TaskLifecycle for TLC.                                      *)
EXTENDS TaskLifecycle, TLC

\* Tasks, consumers, workers and attempts are interchangeable identities.
Symmetry == Permutations(Tasks) \cup Permutations(Workers)
                \cup Permutations(Consumers) \cup Permutations(Attempts)

=============================================================================
