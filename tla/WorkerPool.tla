------------------------------ MODULE WorkerPool ------------------------------
(***************************************************************************)
(* Who starts and stops worker processes.  Two processes hold a _workers   *)
(* table of their own: the workers process, which starts a pool of a fixed *)
(* size, and the gateway, whose auto_scale begins with an empty table and  *)
(* sees the pool's workers only through the registry.  Both number workers *)
(* and ports from the same base.  When either process dies, the workers it *)
(* started live on.                                                        *)
(*                                                                         *)
(* A worker registers itself before it binds its port; when the port is    *)
(* taken it deregisters again and exits.  Ids and ports are counted from   *)
(* their base, so worker-0 is 0 and so is WORKER_PORT_BASE.                *)
(***************************************************************************)
EXTENDS Naturals, FiniteSets

CONSTANTS
    Count,      \* workers that main.py workers starts (WORKER_MIN by default)
    MinWorkers, \* WORKER_MIN
    MaxWorkers, \* WORKER_MAX
    MaxDeaths,  \* bound on how often the two processes end
    None        \* no handle

\* The pool is not started beyond WORKER_MAX.  start_pool takes any --count of main.py: with
\* a larger one there are more workers than the limit before auto_scale has done anything.
ASSUME SizesAssumption ==
    /\ Count \in Nat /\ MinWorkers \in Nat \ {0} /\ MaxWorkers \in Nat
    /\ Count <= MaxWorkers /\ MinWorkers <= MaxWorkers
ASSUME BoundsAssumption == MaxDeaths \in Nat
ASSUME NoneAssumption == None \notin Nat

VARIABLES
    up,      \* whether each of the two processes runs
    life,    \* how often it has ended
    handles, \* its _workers: the port of each worker id it holds
    procs,   \* the worker processes there are
    entry,   \* the hash "workers" in Redis: the status of each id
    pc,      \* where auto_scale is
    todo,    \* idle_workers: idle ids it has read and not yet visited
    toRemove,\* how many of them it may still remove
    victim   \* the id whose entry it is about to delete

scaleVars == <<pc, todo, toRemove, victim>>
vars == <<up, life, handles, procs, entry, scaleVars>>

Managers == {"pool", "gateway"}
Ids == 0..(2 * MaxWorkers)

Processes == [owner : Managers, life : 0..MaxDeaths, id : Ids, port : Nat,
              state : {"new", "registered", "serving"}]

TypeOK ==
    /\ up \in [Managers -> BOOLEAN]
    /\ life \in [Managers -> 0..MaxDeaths]
    /\ handles \in [Managers -> [Ids -> Nat \cup {None}]]
    /\ procs \subseteq Processes
    /\ entry \in [Ids -> {"none", "idle", "busy"}]
    /\ pc \in {"sleep", "remove", "hdel"}
    /\ todo \subseteq Ids
    /\ toRemove \in 0..2
    /\ victim \in Ids

NoHandles == [i \in Ids |-> None]

Init ==
    /\ up = [m \in Managers |-> FALSE]
    /\ life = [m \in Managers |-> 0]
    /\ handles = [m \in Managers |-> NoHandles]
    /\ procs = {}
    /\ entry = [i \in Ids |-> "none"]
    /\ pc = "sleep" /\ todo = {} /\ toRemove = 0 /\ victim = 0

-----------------------------------------------------------------------------
(* The tables *)

Known(h) == {i \in Ids : h[i] # None}
Ports(h) == {h[i] : i \in Known(h)}
Size(m) == Cardinality(Known(handles[m]))

\* The first number from a on that is not in S.
FirstFree(a, S) ==
    CHOOSE i \in a..(a + Cardinality(S)) : i \notin S /\ a..(i - 1) \subseteq S

NextPort(h) == FirstFree(0, Ports(h))

\* auto_scale counts up from the size of the table until an id is free.
NextId(h) == FirstFree(Cardinality(Known(h)), Known(h))

Grown(h) == [h EXCEPT ![NextId(h)] = NextPort(h)]

Spawned(m, h) ==
    {[owner |-> m, life |-> life[m], id |-> i, port |-> h[i], state |-> "new"]
        : i \in Known(h) \ Known(handles[m])}

\* A process that the present run of its owner did not start.
Orphan(p) == p.life < life[p.owner]

Own(m) == {p \in procs : p.owner = m /\ ~Orphan(p)}
Serving == {p \in procs : p.state = "serving"}

-----------------------------------------------------------------------------
(* The two processes *)

\* start_pool with an empty table: worker-i gets the i-th port.
PoolHandlesFromOne == \* mutant: worker-1 is the first
    [i \in Ids |-> IF i \in 1..Count THEN i - 1 ELSE None]
PoolHandles == [i \in Ids |-> IF i < Count THEN i ELSE None]

StartPool ==
    /\ ~up["pool"]
    /\ up' = [up EXCEPT !["pool"] = TRUE]
    /\ handles' = [handles EXCEPT !["pool"] = PoolHandles]
    /\ procs' = procs \cup Spawned("pool", PoolHandles)
    /\ UNCHANGED <<life, entry, scaleVars>>

StartGateway ==
    /\ ~up["gateway"]
    /\ up' = [up EXCEPT !["gateway"] = TRUE]
    /\ UNCHANGED <<life, handles, procs, entry, scaleVars>>

Ended(m) ==
    /\ up[m] /\ life["pool"] + life["gateway"] < MaxDeaths
    /\ up' = [up EXCEPT ![m] = FALSE]
    /\ life' = [life EXCEPT ![m] = @ + 1]
    /\ handles' = [handles EXCEPT ![m] = NoHandles]

\* A crash, or SIGTERM, for which the workers process has no handler and after
\* which the gateway's lifespan does not stop workers.
Dies(m) ==
    /\ Ended(m)
    /\ IF m = "gateway"
       THEN pc' = "sleep" /\ todo' = {} /\ toRemove' = 0 /\ UNCHANGED victim
       ELSE UNCHANGED scaleVars
    /\ UNCHANGED <<procs, entry>>

\* KeyboardInterrupt: stop_pool.  A worker that is killed after 5 seconds leaves
\* its entry.
PoolStops ==
    /\ Ended("pool")
    /\ procs' = procs \ Own("pool")
    /\ \E gone \in SUBSET {p.id : p \in Own("pool")} :
         entry' = [i \in Ids |-> IF i \in gone THEN "none" ELSE entry[i]]
    /\ UNCHANGED scaleVars

-----------------------------------------------------------------------------
(* A worker process *)

InState(p, s) == (procs \ {p}) \cup {[p EXCEPT !.state = s]}

\* lifespan registers the worker before the server binds its port.
Register(p) ==
    /\ p.state = "new"
    /\ procs' = InState(p, "registered")
    /\ entry' = [entry EXCEPT ![p.id] = "idle"]
    /\ UNCHANGED <<up, life, handles, scaleVars>>

Bind(p) ==
    /\ p.state = "registered"
    /\ \A q \in Serving : q.port # p.port
    /\ procs' = InState(p, "serving")
    /\ UNCHANGED <<up, life, handles, entry, scaleVars>>

\* The port is taken: the server ends the lifespan, which deregisters the id,
\* whoever else works under it.
BindFails(p) ==
    /\ p.state = "registered"
    /\ \E q \in Serving : q.port = p.port
    /\ procs' = procs \ {p}
    /\ entry' = [entry EXCEPT ![p.id] = "none"]
    /\ UNCHANGED <<up, life, handles, scaleVars>>

\* A heartbeat or a task: the whole entry is written.
Report(p, s) ==
    /\ p.state = "serving"
    /\ entry' = [entry EXCEPT ![p.id] = s]
    /\ UNCHANGED <<up, life, handles, procs, scaleVars>>

Crash(p) ==
    /\ procs' = procs \ {p}
    /\ UNCHANGED <<up, life, handles, entry, scaleVars>>

-----------------------------------------------------------------------------
(* auto_scale, every 15 seconds in the gateway *)

Registered == {i \in Ids : entry[i] # "none"}
Busy == {i \in Ids : entry[i] = "busy"}
Idle == Registered \ Busy

MayGrowTo(n) == n <= MaxWorkers \* mutant: one more than the limit
MayGrow(n) == n < MaxWorkers

\* At most two workers are added.
GrownTo(h) == IF MayGrow(Cardinality(Known(h)) + 1) THEN Grown(Grown(h)) ELSE Grown(h)

\* Nothing is awaited between the answer of HGETALL and the last spawn.
ScaleUp ==
    /\ up["gateway"] /\ pc = "sleep"
    /\ Registered # {}
    /\ 10 * Cardinality(Busy) > 8 * Cardinality(Registered)
    /\ MayGrow(Size("gateway"))
    /\ \E grown \in {GrownTo(handles["gateway"])} :
         /\ handles' = [handles EXCEPT !["gateway"] = grown]
         /\ procs' = procs \cup Spawned("gateway", grown)
    /\ UNCHANGED <<up, life, entry, scaleVars>>

ScaleDown ==
    /\ up["gateway"] /\ pc = "sleep"
    /\ Registered # {}
    /\ 10 * Cardinality(Busy) < 2 * Cardinality(Registered)
    /\ Size("gateway") > MinWorkers
    /\ pc' = "remove"
    /\ todo' = Idle
    /\ toRemove' = IF Size("gateway") - MinWorkers < 2 THEN 1 ELSE 2
    /\ UNCHANGED <<up, life, handles, procs, entry, victim>>

Removable(i) == i \in Known(handles["gateway"]) /\ Size("gateway") > MinWorkers

\* _kill_worker waits for the end of the process; it may be dead already, and
\* one that is killed after 5 seconds leaves its entry.
Remove(i) ==
    /\ pc = "remove" /\ toRemove > 0
    /\ i \in todo /\ Removable(i)
    /\ handles' = [handles EXCEPT !["gateway"][i] = None]
    /\ procs' = procs \ {p \in Own("gateway") : p.id = i}
    /\ entry' = entry \/ entry' = [entry EXCEPT ![i] = "none"]
    /\ pc' = "hdel"
    /\ victim' = i
    /\ todo' = todo \ {i}
    /\ UNCHANGED <<up, life, toRemove>>

DeleteEntry ==
    /\ pc = "hdel"
    /\ entry' = [entry EXCEPT ![victim] = "none"]
    /\ pc' = "remove"
    /\ toRemove' = toRemove - 1
    /\ UNCHANGED <<up, life, handles, procs, todo, victim>>

\* Enough removed, nothing left to remove, or Redis failed.
ScaleEnds ==
    /\ \/ pc = "hdel"
       \/ pc = "remove" /\ (toRemove = 0 \/ \A i \in todo : ~Removable(i))
    /\ pc' = "sleep" /\ todo' = {} /\ toRemove' = 0
    /\ UNCHANGED <<up, life, handles, procs, entry, victim>>

-----------------------------------------------------------------------------

WorkerStep(p) ==
    \/ Register(p) \/ Bind(p) \/ BindFails(p) \/ Crash(p)
    \/ \E s \in {"idle", "busy"} : Report(p, s)

Next ==
    \/ StartPool \/ StartGateway \/ PoolStops
    \/ \E m \in Managers : Dies(m)
    \/ \E p \in procs : WorkerStep(p)
    \/ ScaleUp \/ ScaleDown \/ DeleteEntry \/ ScaleEnds
    \/ \E i \in Ids : Remove(i)

Spec == Init /\ [][Next]_vars

-----------------------------------------------------------------------------
(* Properties *)

\* WORKER_MAX limits the gateway's table only; the pool's workers and those left
\* behind by processes that died are not in it.  Still there are never more than
\* WORKER_MAX workers that serve, because all of them take their ports from the
\* first WORKER_MAX ones.
AtMostMax == Cardinality(Serving) <= MaxWorkers

\* The registry has one entry per id, so two workers of one id hide each other.
\* Two that serve exist only if one of them outlived the process that started it,
\* provided that the pool is started with at most MinWorkers workers.
OneServerPerId ==
    \A p, q \in Serving : p # q /\ p.id = q.id => Orphan(p) \/ Orphan(q)

=============================================================================
