---------------------------- MODULE WorkerRegistry ----------------------------
(***************************************************************************)
(* The registry of workers in Redis: one entry per worker in the hash      *)
(* "workers" and a key "worker:alive:<id>" that expires.  The worker       *)
(* writes both, from several coroutines and one command after another; the *)
(* scheduler's health check and the Maintainer read the whole hash, ping   *)
(* the workers one by one, and write back the entries they read before.    *)
(*                                                                         *)
(* Which status a worker writes depends on its load, which TaskLifecycle   *)
(* models; here it may write either.                                       *)
(***************************************************************************)
EXTENDS Naturals

CONSTANTS
    Workers,     \* worker ids
    Checkers,    \* runs that may check them at the same time
    Maintainers, \* those of the Maintainer; the others are the health check's
    Threshold,   \* failed pings before a worker is marked unhealthy (3)
    MaxLapses,   \* bound on keys and entries that running workers lose
    NoEntry      \* no entry

ASSUME MaintainersAssumption == Maintainers \subseteq Checkers
ASSUME ThresholdAssumption == Threshold \in Nat \ {0}
ASSUME MaxLapsesAssumption == MaxLapses \in Nat

VARIABLES
    proc,      \* the worker process
    pend,      \* statuses its coroutines have computed and not yet written
    keyDue,    \* an entry was written whose heartbeat key is still to be set
    entries,   \* the hash "workers"
    alive,     \* the key worker:alive:<id> exists
    snap,      \* what each checker read with HGETALL
    toCheck,   \* workers it has still to visit
    stage,     \* where it is with each of them
    lapses,    \* how often a running worker lost its key or its entry
    streak     \* history: pings of a worker that failed in a row, by whomever

workerVars  == <<proc, pend, keyDue>>
checkerVars == <<snap, toCheck, stage>>
registryVars == <<workerVars, entries, alive, checkerVars, lapses, streak>>

OwnStatus == {"idle", "busy"}
Entries == [status : OwnStatus \cup {"unhealthy"}, fails : 0..Threshold]

ASSUME NoEntryAssumption == NoEntry \notin Entries

RegistryTypeOK ==
    /\ proc \in [Workers -> {"down", "up", "stopping", "leaving"}]
    /\ pend \in [Workers -> SUBSET OwnStatus]
    /\ keyDue \in [Workers -> BOOLEAN]
    /\ entries \in [Workers -> Entries \cup {NoEntry}]
    /\ alive \in [Workers -> BOOLEAN]
    /\ snap \in [Checkers -> [Workers -> Entries \cup {NoEntry}]]
    /\ toCheck \in [Checkers -> SUBSET Workers]
    /\ stage \in [Checkers -> [Workers -> {"none", "ping", "stale", "ok", "failed"}]]
    /\ lapses \in 0..MaxLapses
    /\ streak \in [Workers -> 0..Threshold]

RegistryInit ==
    /\ proc = [w \in Workers |-> "down"]
    /\ pend = [w \in Workers |-> {}]
    /\ keyDue = [w \in Workers |-> FALSE]
    /\ entries = [w \in Workers |-> NoEntry]
    /\ alive = [w \in Workers |-> FALSE]
    /\ snap = [c \in Checkers |-> [w \in Workers |-> NoEntry]]
    /\ toCheck = [c \in Checkers |-> {}]
    /\ stage = [c \in Checkers |-> [w \in Workers |-> "none"]]
    /\ lapses = 0
    /\ streak = [w \in Workers |-> 0]

-----------------------------------------------------------------------------
(* The worker.  Every write is HSET of the entry, then SET of the key. *)

\* What the worker writes knows nothing of failed pings.
Written(s) == [status |-> s, fails |-> 0]

\* _register_worker: the first thing a process does.
Start(w) ==
    /\ proc[w] = "down"
    /\ proc' = [proc EXCEPT ![w] = "up"]
    /\ pend' = [pend EXCEPT ![w] = {"idle"}]
    /\ keyDue' = [keyDue EXCEPT ![w] = FALSE]
    /\ UNCHANGED <<entries, alive, checkerVars, lapses, streak>>

\* accept_task, a running task, its finally block, or the heartbeat decides on a
\* status; tasks go on while the process is shutting down.
Compute(w, s) ==
    /\ proc[w] # "down"
    /\ pend' = [pend EXCEPT ![w] = @ \cup {s}]
    /\ UNCHANGED <<proc, keyDue, entries, alive, checkerVars, lapses, streak>>

Heartbeat(w) == proc[w] = "up" /\ pend[w] = {} /\ \E s \in OwnStatus : Compute(w, s)

WriteEntrySticky(w, s) == \* mutant: an unhealthy entry is only touched
    /\ s \in pend[w]
    /\ pend' = [pend EXCEPT ![w] = @ \ {s}]
    /\ keyDue' = [keyDue EXCEPT ![w] = TRUE]
    /\ entries' = [entries EXCEPT
          ![w] = IF entries[w] # NoEntry /\ entries[w].status = "unhealthy"
                 THEN entries[w] ELSE Written(s)]
    /\ UNCHANGED <<proc, alive, checkerVars, lapses, streak>>
WriteEntry(w, s) ==
    /\ s \in pend[w]
    /\ pend' = [pend EXCEPT ![w] = @ \ {s}]
    /\ keyDue' = [keyDue EXCEPT ![w] = TRUE]
    /\ entries' = [entries EXCEPT ![w] = Written(s)]
    /\ UNCHANGED <<proc, alive, checkerVars, lapses, streak>>

WriteKey(w) ==
    /\ keyDue[w]
    /\ keyDue' = [keyDue EXCEPT ![w] = FALSE]
    /\ alive' = [alive EXCEPT ![w] = TRUE]
    /\ UNCHANGED <<proc, pend, entries, checkerVars, lapses, streak>>

\* SIGTERM: the heartbeat is cancelled and the worker takes itself off, entry first.
Deregister(w) ==
    /\ proc[w] = "up"
    /\ proc' = [proc EXCEPT ![w] = "stopping"]
    /\ entries' = [entries EXCEPT ![w] = NoEntry]
    /\ UNCHANGED <<pend, keyDue, alive, checkerVars, lapses, streak>>

DeregisterKey(w) ==
    /\ proc[w] = "stopping"
    /\ proc' = [proc EXCEPT ![w] = "leaving"]
    /\ alive' = [alive EXCEPT ![w] = FALSE]
    /\ UNCHANGED <<pend, keyDue, entries, checkerVars, lapses, streak>>

\* The process is gone: at the end of its shutdown, killed, or crashed.
Exit(w) ==
    /\ proc[w] # "down"
    /\ proc' = [proc EXCEPT ![w] = "down"]
    /\ pend' = [pend EXCEPT ![w] = {}]
    /\ keyDue' = [keyDue EXCEPT ![w] = FALSE]
    /\ UNCHANGED <<entries, alive, checkerVars, lapses, streak>>

\* A worker loses its key or its entry although it runs: bounded.
Lapse(w) ==
    IF proc[w] = "up" THEN lapses < MaxLapses /\ lapses' = lapses + 1
                      ELSE UNCHANGED lapses

\* 45 seconds without a write: nobody is there, or three heartbeats were missed.
KeyExpiresRunning(w) == \* mutant: a stopped worker's key has no expiry
    /\ alive[w] /\ proc[w] # "down"
    /\ alive' = [alive EXCEPT ![w] = FALSE]
    /\ Lapse(w)
    /\ UNCHANGED <<workerVars, entries, checkerVars, streak>>
KeyExpires(w) ==
    /\ alive[w]
    /\ alive' = [alive EXCEPT ![w] = FALSE]
    /\ Lapse(w)
    /\ UNCHANGED <<workerVars, entries, checkerVars, streak>>

\* HDEL by a pool, after it killed the process it knew under this id (scale-down,
\* restart); another pool's worker may run under the same id.
PoolRemoves(w) ==
    /\ entries[w] # NoEntry
    /\ entries' = [entries EXCEPT ![w] = NoEntry]
    /\ Lapse(w)
    /\ UNCHANGED <<workerVars, alive, checkerVars, streak>>

-----------------------------------------------------------------------------
(* The checkers. *)

\* A run starts.  The health check has an interval job, of which one run is active at
\* a time, and can be triggered by hand besides.  The Maintainer is only run by POST
\* /trigger/maintainer, because APScheduler calls the lambda of its interval job like
\* a function, in a thread, and drops the coroutine that comes back.
BeginCheck(c) ==
    /\ toCheck[c] = {}
    /\ snap' = [snap EXCEPT ![c] = entries]
    /\ toCheck' = [toCheck EXCEPT ![c] = {w \in Workers : entries[w] # NoEntry}]
    /\ UNCHANGED <<workerVars, entries, alive, stage, lapses, streak>>

\* One worker at a time.
Visit(c, w) ==
    /\ w \in toCheck[c]
    /\ \A v \in toCheck[c] : stage[c][v] = "none"
    /\ stage' = [stage EXCEPT ![c][w] =
                     IF c \in Maintainers /\ ~alive[w] THEN "stale" ELSE "ping"]
    /\ UNCHANGED <<workerVars, entries, alive, snap, toCheck, lapses, streak>>

Leave(c, w) ==
    /\ toCheck' = [toCheck EXCEPT ![c] = @ \ {w}]
    /\ stage' = [stage EXCEPT ![c][w] = "none"]
    /\ snap' = [snap EXCEPT ![c][w] = NoEntry]

\* The Maintainer removes an entry without heartbeat key.
RemoveStale(c, w) ==
    /\ stage[c][w] = "stale"
    /\ Leave(c, w)
    /\ entries' = [entries EXCEPT ![w] = NoEntry]
    /\ UNCHANGED <<workerVars, alive, lapses, streak>>

\* fail_count, as far as it matters: up to the threshold.
Counted(n) == IF n < Threshold THEN n + 1 ELSE n

PingAnswered(c, w) ==
    /\ stage[c][w] = "ping"
    /\ proc[w] = "up"
    /\ stage' = [stage EXCEPT ![c][w] = "ok"]
    /\ streak' = [streak EXCEPT ![w] = 0]
    /\ UNCHANGED <<workerVars, entries, alive, snap, toCheck, lapses>>

\* Nobody there, or no answer in 5 seconds.
PingFails(c, w) ==
    /\ stage[c][w] = "ping"
    /\ stage' = [stage EXCEPT ![c][w] = "failed"]
    /\ streak' = [streak EXCEPT ![w] = Counted(@)]
    /\ UNCHANGED <<workerVars, entries, alive, snap, toCheck, lapses>>

CheckedKept(e, ok) == \* mutant: an answer does not reset the count
    IF ok THEN e
    ELSE [status |-> IF Counted(e.fails) >= Threshold THEN "unhealthy" ELSE e.status,
          fails  |-> Counted(e.fails)]
\* A worker that answers keeps the status it had.
Checked(e, ok) ==
    IF ok THEN [e EXCEPT !.fails = 0]
    ELSE [status |-> IF Counted(e.fails) >= Threshold THEN "unhealthy" ELSE e.status,
          fails  |-> Counted(e.fails)]

\* HSET of what HGETALL returned, with the new count, over whatever is there now.
WriteBack(c, w) ==
    /\ stage[c][w] \in {"ok", "failed"}
    /\ Leave(c, w)
    /\ entries' = [entries EXCEPT ![w] = Checked(snap[c][w], stage[c][w] = "ok")]
    /\ UNCHANGED <<workerVars, alive, lapses, streak>>

-----------------------------------------------------------------------------

Worker(w) ==
    \/ Start(w) \/ Deregister(w) \/ DeregisterKey(w) \/ Exit(w)
    \/ WriteKey(w) \/ KeyExpires(w) \/ PoolRemoves(w)
    \/ \E s \in OwnStatus : Compute(w, s) \/ WriteEntry(w, s)

Check(c, w) ==
    Visit(c, w) \/ RemoveStale(c, w) \/ PingAnswered(c, w) \/ PingFails(c, w)
    \/ WriteBack(c, w)

RegistryNext ==
    \/ \E w \in Workers : Worker(w)
    \/ \E c \in Checkers : BeginCheck(c) \/ \E w \in Workers : Check(c, w)

RegistrySpec == RegistryInit /\ [][RegistryNext]_registryVars

\* Heartbeats every 15 seconds; a coroutine that can go on does; keys expire; the
\* health check's job fires.  Nobody has to trigger the Maintainer by hand.
RegistryFairSpec ==
    /\ RegistrySpec
    /\ \A w \in Workers :
          /\ WF_registryVars(Heartbeat(w))
          /\ WF_registryVars(\E s \in OwnStatus : WriteEntry(w, s))
          /\ WF_registryVars(WriteKey(w)) /\ WF_registryVars(KeyExpires(w) /\ proc[w] = "down")
    /\ \A c \in Checkers \ Maintainers : WF_registryVars(BeginCheck(c))
    /\ \A c \in Checkers, w \in Workers : WF_registryVars(Check(c, w))

-----------------------------------------------------------------------------
(* Properties *)

\* With one run at a time, no write gives an entry a count higher than the pings that
\* failed in a row: the entry written back may be old, but no heartbeat, restart or
\* answer in between makes the checker count a failure that an answer has ended.
FailsAreConsecutive ==
    [][\A w \in Workers : entries'[w] # entries[w] /\ entries'[w] # NoEntry
                              => entries'[w].fails <= streak[w]]_registryVars

Offered(w) ==
    entries[w] # NoEntry /\ entries[w].status # "unhealthy" /\ alive[w]

\* A live worker is offered to the consumers again and again, although checkers
\* overwrite its entry with old ones, remove it, or mark it.
LiveWorkerOffered == \A w \in Workers : proc[w] = "up" ~> (Offered(w) \/ proc[w] # "up")

\* A worker that is gone for good is some day never chosen again, whatever the
\* checkers write into its entry.
GoneNeverChosen ==
    \A w \in Workers : <>[](proc[w] = "down") => <>[]~Offered(w)

-----------------------------------------------------------------------------
(* What a comment in the code says and the code does not do *)

\* scheduler/jobs.py:84, "mark workers as unhealthy after 3 consecutive failures".
ThreeFailuresUnhealthy ==
    [][\A c \in Checkers, w \in Workers :
          WriteBack(c, w) /\ stage[c][w] = "failed" /\ streak[w] = Threshold
              => entries'[w].status = "unhealthy"]_registryVars

=============================================================================
