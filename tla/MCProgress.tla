----------------------------- MODULE MCProgress -----------------------------
(* Instances of modules for TLC whose processes, jobs and timers have to   *)
(* get on.  They share no state, so one of them runs in each behaviour and *)
(* the others stay as they began.                                          *)
EXTENDS WsRouting, WorkerRegistry, CoevoSync, Librarian, Supervisor, ChatClient

CONSTANTS r1, r2, r3

VARIABLE part

Parts == {"sockets", "registry", "sync", "librarian", "supervisor", "chat"}

ProgressInit ==
    /\ part \in Parts
    /\ Init /\ RegistryInit /\ CoevoInit /\ LibInit /\ SupervisorInit /\ ChatInit
    /\ part # "librarian" => ~hasColumn

\* Every part but p stands still.
Rest(p) ==
    /\ IF p = "sockets" THEN TRUE ELSE UNCHANGED vars
    /\ IF p = "registry" THEN TRUE ELSE UNCHANGED registryVars
    /\ IF p = "sync" THEN TRUE ELSE UNCHANGED coevoVars
    /\ IF p = "librarian" THEN TRUE ELSE UNCHANGED libVars
    /\ IF p = "supervisor" THEN TRUE ELSE UNCHANGED supervisorVars
    /\ IF p = "chat" THEN TRUE ELSE UNCHANGED chatVars
    /\ UNCHANGED part

ProgressNext ==
    \/ part = "sockets" /\ Next /\ Rest("sockets")
    \/ part = "registry" /\ RegistryNext /\ Rest("registry")
    \/ part = "sync" /\ CoevoNext /\ Rest("sync")
    \/ part = "librarian" /\ LibNext /\ Rest("librarian")
    \/ part = "supervisor" /\ SupervisorNext /\ Rest("supervisor")
    \/ part = "chat" /\ ChatNext /\ Rest("chat")

\* The fairness of each module, while it is the one that runs
ProgressSpec ==
    /\ ProgressInit
    /\ [][ProgressNext]_<<part, vars, registryVars, coevoVars, libVars, supervisorVars, chatVars>>
    /\ \A d \in Deliveries : WF_vars(part = "sockets" /\ DeliveryRuns(d))
    /\ \A w \in Workers :
          WF_registryVars(part = "registry" /\ KeyExpires(w) /\ proc[w] = "down")
    /\ \A s \in Sessions : WF_coevoVars(part = "sync" /\ Advance(s))
    /\ \A r \in Runs : WF_libVars(part = "librarian" /\ LibAdvance(r))
    /\ WF_supervisorVars(part = "supervisor" /\ SupervisorStep)
    /\ \A m \in Messages :
          /\ WF_chatVars(part = "chat" /\ ChatProgress(m))
          /\ WF_chatVars(part = "chat" /\ Poll(m))

\* The type invariants
ProgressTypesOK ==
    /\ part = "sockets" => TypeOK
    /\ part = "registry" => RegistryTypeOK
    /\ part = "sync" => CoevoTypeOK
    /\ part = "librarian" => LibTypeOK
    /\ part = "supervisor" => SupervisorTypeOK
    /\ part = "chat" => ChatTypeOK

-----------------------------------------------------------------------------
(* Values of the constants *)

\* ORDER BY updated_at
ByTime == [r \in Rows |-> 0]

TwoOfThem == 1..2

=============================================================================
