-------------------------- MODULE MCWorkerRegistry --------------------------
(* Instances of WorkerRegistry for TLC.  Workers meet only in the order in  *)
(* which a checker visits them, and any order and delay is allowed, so one  *)
(* worker shows everything that can happen to an entry.                     *)
EXTENDS WorkerRegistry

=============================================================================
