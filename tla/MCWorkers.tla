----------------------------- MODULE MCWorkers -----------------------------
(* Instances of the modules about workers for TLC.  Workers meet in the    *)
(* registry only in the order in which a checker visits them, and any      *)
(* order and delay is allowed, so one worker shows everything that can     *)
(* happen to an entry there; the pool starts workers of its own.  One of   *)
(* the two modules runs in each behaviour.                                 *)
EXTENDS WorkerRegistry, WorkerPool

VARIABLE part

WorkersInit == part \in {"registry", "pool"} /\ RegistryInit /\ Init

WorkersNext ==
    /\ UNCHANGED part
    /\ \/ part = "registry" /\ RegistryNext /\ UNCHANGED vars
       \/ part = "pool" /\ Next /\ UNCHANGED registryVars

\* The fairness of the registry
WorkersSpec ==
    /\ WorkersInit /\ [][WorkersNext]_<<part, registryVars, vars>>
    /\ \A w \in Workers :
          /\ WF_registryVars(part = "registry" /\ Heartbeat(w))
          /\ WF_registryVars(part = "registry" /\ \E s \in OwnStatus : WriteEntry(w, s))
          /\ WF_registryVars(part = "registry" /\ WriteKey(w))
          /\ WF_registryVars(part = "registry" /\ KeyExpires(w) /\ proc[w] = "down")
    /\ \A c \in Checkers \ Maintainers : WF_registryVars(part = "registry" /\ BeginCheck(c))
    /\ \A c \in Checkers, w \in Workers : WF_registryVars(part = "registry" /\ Check(c, w))

=============================================================================
