---------------------------- MODULE TaskLifecycle ----------------------------
(***************************************************************************)
(* The life of a chat task: POST /api/chat pushes it on the Redis list and *)
(* records it in claw_task_log; the gateway's queue consumers pop it, pick *)
(* a worker from the Redis registry and POST it there; the worker runs it  *)
(* under a slot and a timeout, releases the slot and stores the outcome;   *)
(* two reapers (the gateway's watchdog, the Maintainer role) time out rows *)
(* that stay unfinished too long.                                          *)
(*                                                                         *)
(* One action is one stretch of code between two awaits that other         *)
(* processes can observe.  Failures (an abandoned POST, a crash, a Redis   *)
(* or MySQL error) are actions of their own and draw on MaxFaults.         *)
(***************************************************************************)
EXTENDS Integers, Sequences, FiniteSets

CONSTANTS
    Tasks,      \* task ids handed out by POST /api/chat
    Workers,    \* worker processes
    Consumers,  \* the gateway's queue consumer coroutines
    Reapers,    \* which of the two reapers of unfinished rows run
    Attempts,   \* identities for accepted executions; bounds how many there are
    Capacity,   \* WORKER_CONCURRENCY
    MaxFaults,  \* how many failures a behaviour may contain
    None        \* no task, no worker

ASSUME CapacityAssumption == Capacity \in Nat \ {0}
ASSUME MaxFaultsAssumption == MaxFaults \in Nat
ASSUME NoneAssumption == None \notin Tasks /\ None \notin Workers
ASSUME AttemptsAssumption == IsFiniteSet(Attempts)
ASSUME ReapersAssumption == Reapers \subseteq {"watchdog", "maintainer"}

VARIABLES
    submit,   \* how far the POST /api/chat handler of each task got
    queue,    \* Redis list task_queue; its head is what BRPOP takes next
    cpc,      \* where each consumer is between its awaits
    hand,     \* the task each consumer has popped
    target,   \* the worker each consumer chose
    orphans,  \* POST /task requests whose client stopped waiting
    up,       \* is the worker process running
    active,   \* _active_task_count of each worker
    apc,      \* where each _process_task coroutine is
    atask,    \* the task it executes
    aworker,  \* the worker it runs on
    outcome,  \* its task_status
    pend,     \* registry writes that have been started and not yet applied
    registry, \* Redis hash "workers"
    alive,    \* does the key worker:alive:<id> exist
    row,      \* claw_task_log.status of each task
    stuck,    \* rows each reaper has selected and not yet handled
    lost,     \* history: tasks of which an execution or a result was dropped
    retried,  \* history: tasks whose POST /task was given up and queued again
    faults    \* failures so far

gatewayVars  == <<submit, cpc, hand, target>>
workerVars   == <<up, active, apc, atask, aworker, outcome>>
registryVars == <<pend, registry, alive>>
historyVars  == <<lost, retried>>
vars == <<gatewayVars, queue, orphans, workerVars, registryVars, row,
          stuck, historyVars, faults>>

-----------------------------------------------------------------------------
(* Types *)

Terminal == {"completed", "failed", "timeout"}
RowStatus == {"none", "queued"} \cup Terminal
WorkerStatus == {"idle", "busy"}
RegistryEntry == [status : WorkerStatus, slots : 0..Capacity]
SlotHolding == {"spawned", "running", "expired", "notified"}
Live == SlotHolding \cup {"releasing", "persist"}

TypeOK ==
    /\ submit \in [Tasks -> {"new", "pushed", "recorded", "refused"}]
    /\ queue \in Seq(Tasks)
    /\ cpc \in [Consumers -> {"pop", "scan", "post", "accepted", "full", "requeue"}]
    /\ hand \in [Consumers -> Tasks \cup {None}]
    /\ target \in [Consumers -> Workers \cup {None}]
    /\ orphans \subseteq Tasks \X Workers
    /\ up \in [Workers -> BOOLEAN]
    /\ active \in [Workers -> Nat]
    /\ apc \in [Attempts -> {"free", "done", "dead"} \cup Live]
    /\ atask \in [Attempts -> Tasks \cup {None}]
    /\ aworker \in [Attempts -> Workers \cup {None}]
    /\ outcome \in [Attempts -> {"none"} \cup Terminal]
    /\ pend \subseteq Attempts \X {"accept", "release"} \X WorkerStatus
    /\ registry \in [Workers -> RegistryEntry]
    /\ alive \in [Workers -> BOOLEAN]
    /\ row \in [Tasks -> RowStatus]
    /\ stuck \in [Reapers -> SUBSET Tasks]
    /\ lost \subseteq Tasks
    /\ retried \subseteq Tasks
    /\ faults \in 0..MaxFaults

-----------------------------------------------------------------------------
(* The pool is started and registered; nothing has been submitted. *)
Init ==
    /\ submit = [t \in Tasks |-> "new"]
    /\ queue = <<>>
    /\ cpc = [c \in Consumers |-> "pop"]
    /\ hand = [c \in Consumers |-> None]
    /\ target = [c \in Consumers |-> None]
    /\ orphans = {}
    /\ up = [w \in Workers |-> TRUE]
    /\ active = [w \in Workers |-> 0]
    /\ apc = [a \in Attempts |-> "free"]
    /\ atask = [a \in Attempts |-> None]
    /\ aworker = [a \in Attempts |-> None]
    /\ outcome = [a \in Attempts |-> "none"]
    /\ pend = {}
    /\ registry = [w \in Workers |-> [status |-> "idle", slots |-> Capacity]]
    /\ alive = [w \in Workers |-> TRUE]
    /\ row = [t \in Tasks |-> "none"]
    /\ stuck = [p \in Reapers |-> {}]
    /\ lost = {}
    /\ retried = {}
    /\ faults = 0

Fault == faults < MaxFaults /\ faults' = faults + 1

-----------------------------------------------------------------------------
(* POST /api/chat: push first, then record the row.                        *)

SubmitPush(t) ==
    /\ submit[t] = "new"
    /\ submit' = [submit EXCEPT ![t] = "pushed"]
    /\ queue' = Append(queue, t)
    /\ UNCHANGED <<cpc, hand, target, orphans, workerVars, registryVars, row,
                   stuck, historyVars, faults>>

\* LPUSH worked but LLEN, GET or HGETALL after it did not: the client gets 503.
SubmitRefused(t) ==
    /\ submit[t] = "pushed"
    /\ Fault
    /\ submit' = [submit EXCEPT ![t] = "refused"]
    /\ UNCHANGED <<cpc, hand, target, queue, orphans, workerVars, registryVars,
                   row, stuck, historyVars>>

\* The INSERT does not touch a row that exists.
RecordedRow(t) == IF row[t] = "none" THEN "queued" ELSE row[t]

\* INSERT of the row; a worker may have stored it already, and then the
\* duplicate key error is only logged.
SubmitRecord(t) ==
    /\ submit[t] = "pushed"
    /\ submit' = [submit EXCEPT ![t] = "recorded"]
    /\ row' = [row EXCEPT ![t] = RecordedRow(t)]
    /\ UNCHANGED <<cpc, hand, target, queue, orphans, workerVars, registryVars,
                   stuck, historyVars, faults>>

SubmitRecordFails(t) ==
    /\ submit[t] = "pushed"
    /\ Fault
    /\ submit' = [submit EXCEPT ![t] = "recorded"]
    /\ UNCHANGED <<cpc, hand, target, queue, orphans, workerVars, registryVars,
                   row, stuck, historyVars>>

-----------------------------------------------------------------------------
(* The queue consumers of the gateway. *)

\* BRPOP removes what it returns.
AfterPeek == queue \* mutant: read the task and leave it on the list
AfterPop == Tail(queue)

Pop(c) ==
    /\ cpc[c] = "pop"
    /\ queue # <<>>
    /\ hand' = [hand EXCEPT ![c] = Head(queue)]
    /\ queue' = AfterPop
    /\ cpc' = [cpc EXCEPT ![c] = "scan"]
    /\ UNCHANGED <<submit, target, orphans, workerVars, registryVars, row,
                   stuck, historyVars, faults>>

\* get_idle_worker: advertised idle, with free slots, heartbeat key present;
\* the most free slots win.
Candidates ==
    {w \in Workers : registry[w].status = "idle" /\ registry[w].slots > 0 /\ alive[w]}
BestWorkers ==
    {w \in Candidates : \A v \in Candidates : registry[v].slots <= registry[w].slots}

ChooseWorker(c) ==
    /\ cpc[c] = "scan"
    /\ \/ /\ Candidates = {}
          /\ cpc' = [cpc EXCEPT ![c] = "requeue"]
          /\ UNCHANGED target
       \/ \E w \in BestWorkers :
             /\ target' = [target EXCEPT ![c] = w]
             /\ cpc' = [cpc EXCEPT ![c] = "post"]
    /\ UNCHANGED <<submit, hand, queue, orphans, workerVars, registryVars, row,
                   stuck, historyVars, faults>>

\* The answer has HTTP status 200, whatever the worker put in its body.
Dispatched(c) ==
    /\ cpc[c] \in {"accepted", "full"}
    /\ lost' = IF cpc[c] = "full" THEN lost \cup {hand[c]} ELSE lost
    /\ cpc' = [cpc EXCEPT ![c] = "pop"]
    /\ hand' = [hand EXCEPT ![c] = None]
    /\ target' = [target EXCEPT ![c] = None]
    /\ UNCHANGED <<submit, queue, orphans, workerVars, registryVars, row,
                   stuck, retried, faults>>

\* Nobody listens on the worker's port.
ConnectFails(c) ==
    /\ cpc[c] = "post"
    /\ ~up[target[c]]
    /\ cpc' = [cpc EXCEPT ![c] = "requeue"]
    /\ target' = [target EXCEPT ![c] = None]
    /\ UNCHANGED <<submit, hand, queue, orphans, workerVars, registryVars, row,
                   stuck, historyVars, faults>>

\* The client's 10 s run out, or the connection breaks, before the answer is
\* read; the request may already have been handled, or still will be.
PostAbandoned(c) ==
    /\ cpc[c] \in {"post", "accepted", "full"}
    /\ Fault
    /\ orphans' = IF cpc[c] = "post" THEN orphans \cup {<<hand[c], target[c]>>}
                                     ELSE orphans
    /\ retried' = retried \cup {hand[c]}
    /\ cpc' = [cpc EXCEPT ![c] = "requeue"]
    /\ target' = [target EXCEPT ![c] = None]
    /\ UNCHANGED <<submit, hand, queue, workerVars, registryVars, row,
                   stuck, lost>>

\* RPUSH: on the end of the list that BRPOP reads.
RequeueForgotten(t) == queue \* mutant: back off without the RPUSH
Requeued(t) == <<t>> \o queue

Requeue(c) ==
    /\ cpc[c] = "requeue"
    /\ queue' = Requeued(hand[c])
    /\ cpc' = [cpc EXCEPT ![c] = "pop"]
    /\ hand' = [hand EXCEPT ![c] = None]
    /\ UNCHANGED <<submit, target, orphans, workerVars, registryVars, row,
                   stuck, historyVars, faults>>

\* An exception outside the inner try (registry read or RPUSH failed) reaches
\* the loop's handler, which goes on to the next task.
ConsumerError(c) ==
    /\ cpc[c] \in {"scan", "requeue"}
    /\ Fault
    /\ lost' = lost \cup {hand[c]}
    /\ cpc' = [cpc EXCEPT ![c] = "pop"]
    /\ hand' = [hand EXCEPT ![c] = None]
    /\ UNCHANGED <<submit, target, queue, orphans, workerVars, registryVars, row,
                   stuck, retried>>

\* The gateway process stops and starts again: its coroutines are gone, the
\* requests it had sent are not.
Unsent == {c \in Consumers : cpc[c] \in {"scan", "full", "requeue"}}
Sent == {c \in Consumers : cpc[c] = "post"}

GatewayRestart ==
    /\ Fault
    /\ submit' = [t \in Tasks |-> IF submit[t] = "pushed" THEN "refused" ELSE submit[t]]
    /\ orphans' = orphans \cup {<<hand[c], target[c]>> : c \in Sent}
    /\ lost' = lost \cup {hand[c] : c \in Unsent}
    /\ cpc' = [c \in Consumers |-> "pop"]
    /\ hand' = [c \in Consumers |-> None]
    /\ target' = [c \in Consumers |-> None]
    /\ stuck' = [p \in Reapers |-> IF p = "watchdog" THEN {} ELSE stuck[p]]
    /\ UNCHANGED <<queue, workerVars, registryVars, row, retried>>

-----------------------------------------------------------------------------
(* The worker: POST /task and the coroutine it spawns. *)

StatusFor(n) == IF n >= Capacity THEN "busy" ELSE "idle"
Entry(status, n) ==
    [status |-> status, slots |-> IF n >= Capacity THEN 0 ELSE Capacity - n]

\* HSET of the worker's entry and SET of its heartbeat key.
Advertise(w, status, n) ==
    /\ registry' = [registry EXCEPT ![w] = Entry(status, n)]
    /\ alive' = [alive EXCEPT ![w] = TRUE]

HasSlotOffByOne(w) == active[w] <= Capacity \* mutant: > instead of >=
HasSlot(w) == active[w] < Capacity

\* The check and the increment happen without an await between them.
Spawn(w, t, a) ==
    /\ up[w]
    /\ HasSlot(w)
    /\ apc[a] = "free"
    /\ active' = [active EXCEPT ![w] = @ + 1]
    /\ apc' = [apc EXCEPT ![a] = "spawned"]
    /\ atask' = [atask EXCEPT ![a] = t]
    /\ aworker' = [aworker EXCEPT ![a] = w]
    /\ pend' = pend \cup {<<a, "accept", StatusFor(active[w] + 1)>>}

AcceptTask(c, a) ==
    /\ cpc[c] = "post"
    /\ Spawn(target[c], hand[c], a)
    /\ cpc' = [cpc EXCEPT ![c] = "accepted"]
    /\ UNCHANGED <<submit, hand, target, queue, orphans, up, outcome, registry,
                   alive, row, stuck, historyVars, faults>>

WorkerFull(c) ==
    /\ cpc[c] = "post"
    /\ up[target[c]]
    /\ ~HasSlot(target[c])
    /\ cpc' = [cpc EXCEPT ![c] = "full"]
    /\ UNCHANGED <<submit, hand, target, queue, orphans, workerVars, registryVars,
                   row, stuck, historyVars, faults>>

\* A request whose client is gone is handled all the same ...
AcceptOrphan(t, w, a) ==
    /\ <<t, w>> \in orphans
    /\ Spawn(w, t, a)
    /\ orphans' = orphans \ {<<t, w>>}
    /\ UNCHANGED <<gatewayVars, queue, up, outcome, registry, alive, row,
                   stuck, historyVars, faults>>

\* ... unless the worker is full or not there any more.
DropOrphan(t, w) ==
    /\ <<t, w>> \in orphans
    /\ ~up[w] \/ ~HasSlot(w)
    /\ orphans' = orphans \ {<<t, w>>}
    /\ lost' = lost \cup {t}
    /\ UNCHANGED <<gatewayVars, queue, workerVars, registryVars, row,
                   stuck, retried, faults>>

\* The registry write that accept_task leaves behind as a task of its own: its
\* status was fixed at acceptance, its slot count is read when it runs.
WriteAccepted(a, status) ==
    /\ <<a, "accept", status>> \in pend
    /\ pend' = pend \ {<<a, "accept", status>>}
    /\ Advertise(aworker[a], status, active[aworker[a]])
    /\ UNCHANGED <<gatewayVars, queue, orphans, workerVars, row, stuck,
                   historyVars, faults>>

\* _run_task_inner begins by advertising the worker as busy.
StartRun(a) ==
    /\ apc[a] = "spawned"
    /\ apc' = [apc EXCEPT ![a] = "running"]
    /\ Advertise(aworker[a], "busy", active[aworker[a]])
    /\ UNCHANGED <<gatewayVars, queue, orphans, up, active, atask, aworker, outcome,
                   pend, row, stuck, historyVars, faults>>

\* The finally block: give the slot back, then await the registry write.
ReleaseSlot(a) ==
    LET w == aworker[a]
        n == IF active[w] > 0 THEN active[w] - 1 ELSE 0
    IN  /\ active' = [active EXCEPT ![w] = n]
        /\ apc' = [apc EXCEPT ![a] = "releasing"]
        /\ pend' = pend \cup {<<a, "release", StatusFor(n)>>}

Finish(a, o) ==
    /\ \/ apc[a] = "running" /\ o \in {"completed", "failed"}
       \/ apc[a] = "spawned" /\ o = "failed"
    /\ outcome' = [outcome EXCEPT ![a] = o]
    /\ ReleaseSlot(a)
    /\ UNCHANGED <<gatewayVars, queue, orphans, up, atask, aworker, registry,
                   alive, row, stuck, historyVars, faults>>

Expire(a) ==
    /\ apc[a] \in {"spawned", "running"}
    /\ apc' = [apc EXCEPT ![a] = "expired"]
    /\ outcome' = [outcome EXCEPT ![a] = "timeout"]
    /\ UNCHANGED <<gatewayVars, queue, orphans, up, active, atask, aworker,
                   registryVars, row, stuck, historyVars, faults>>

\* Upsert of the row, whatever it holds.
StoreTimeout(a) ==
    /\ apc[a] = "expired"
    /\ row' = [row EXCEPT ![atask[a]] = "timeout"]
    /\ apc' = [apc EXCEPT ![a] = "notified"]
    /\ UNCHANGED <<gatewayVars, queue, orphans, up, active, atask, aworker, outcome,
                   registryVars, stuck, historyVars, faults>>

StoreTimeoutFails(a) ==
    /\ apc[a] = "expired"
    /\ Fault
    /\ apc' = [apc EXCEPT ![a] = "notified"]
    /\ lost' = lost \cup {atask[a]}
    /\ UNCHANGED <<gatewayVars, queue, orphans, up, active, atask, aworker, outcome,
                   registryVars, row, stuck, retried>>

\* The slot of a timed-out task is held while its owner is being notified.
ReleaseExpired(a) ==
    /\ apc[a] = "notified"
    /\ ReleaseSlot(a)
    /\ UNCHANGED <<gatewayVars, queue, orphans, up, atask, aworker, outcome, registry,
                   alive, row, stuck, historyVars, faults>>

WriteReleased(a, status) ==
    /\ <<a, "release", status>> \in pend
    /\ pend' = pend \ {<<a, "release", status>>}
    /\ Advertise(aworker[a], status, active[aworker[a]])
    /\ apc' = [apc EXCEPT ![a] = IF outcome[a] = "timeout" THEN "done" ELSE "persist"]
    /\ UNCHANGED <<gatewayVars, queue, orphans, up, active, atask, aworker, outcome,
                   row, stuck, historyVars, faults>>

\* The write in finally raises: the coroutine ends there.
WriteReleasedFails(a, status) ==
    /\ <<a, "release", status>> \in pend
    /\ Fault
    /\ pend' = pend \ {<<a, "release", status>>}
    /\ apc' = [apc EXCEPT ![a] = "done"]
    /\ lost' = IF outcome[a] = "timeout" THEN lost ELSE lost \cup {atask[a]}
    /\ UNCHANGED <<gatewayVars, queue, orphans, up, active, atask, aworker, outcome,
                   registry, alive, row, stuck, retried>>

\* Upsert of the row, whatever it holds.
Persist(a) ==
    /\ apc[a] = "persist"
    /\ row' = [row EXCEPT ![atask[a]] = outcome[a]]
    /\ apc' = [apc EXCEPT ![a] = "done"]
    /\ UNCHANGED <<gatewayVars, queue, orphans, up, active, atask, aworker, outcome,
                   registryVars, stuck, historyVars, faults>>

PersistFails(a) ==
    /\ apc[a] = "persist"
    /\ Fault
    /\ apc' = [apc EXCEPT ![a] = "done"]
    /\ lost' = lost \cup {atask[a]}
    /\ UNCHANGED <<gatewayVars, queue, orphans, up, active, atask, aworker, outcome,
                   registryVars, row, stuck, retried>>

-----------------------------------------------------------------------------
(* The worker process: heartbeat, crash, start. *)

\* mutant: only the heartbeat key is renewed
HeartbeatKeyOnly(w) ==
    /\ up[w]
    /\ alive' = [alive EXCEPT ![w] = TRUE]
    /\ UNCHANGED <<gatewayVars, queue, orphans, workerVars, pend, registry, row,
                   stuck, historyVars, faults>>

Heartbeat(w) ==
    /\ up[w]
    /\ Advertise(w, StatusFor(active[w]), active[w])
    /\ UNCHANGED <<gatewayVars, queue, orphans, workerVars, pend, row, stuck,
                   historyVars, faults>>

Victims(w) == {a \in Attempts : aworker[a] = w /\ apc[a] \in Live}

Crash(w) ==
    /\ up[w]
    /\ Fault
    /\ up' = [up EXCEPT ![w] = FALSE]
    /\ active' = [active EXCEPT ![w] = 0]
    /\ apc' = [a \in Attempts |-> IF a \in Victims(w) THEN "dead" ELSE apc[a]]
    /\ pend' = {p \in pend : aworker[p[1]] # w}
    /\ lost' = lost \cup {atask[a] : a \in Victims(w)}
    /\ UNCHANGED <<gatewayVars, queue, orphans, atask, aworker, outcome, registry,
                   alive, row, stuck, retried>>

\* The 45 s of the heartbeat key pass; a running worker renews it every 15 s.
AliveExpires(w) ==
    /\ ~up[w]
    /\ alive[w]
    /\ alive' = [alive EXCEPT ![w] = FALSE]
    /\ UNCHANGED <<gatewayVars, queue, orphans, workerVars, pend, registry, row,
                   stuck, historyVars, faults>>

Start(w) ==
    /\ ~up[w]
    /\ up' = [up EXCEPT ![w] = TRUE]
    /\ Advertise(w, "idle", active[w])
    /\ UNCHANGED <<gatewayVars, queue, orphans, active, apc, atask, aworker, outcome,
                   pend, row, stuck, historyVars, faults>>

-----------------------------------------------------------------------------
(* The reapers. *)

\* status IN ('running', 'queued'); nothing in the code stores 'running'.
UnfinishedRunning(t) == row[t] = "running" \* mutant: only running rows
Unfinished(t) == row[t] \in {"running", "queued"}

\* The rows past the age threshold, as many as the LIMIT allows; how old a row
\* is, is not modelled, so they are any of the unfinished ones.
Select(p, S) ==
    /\ stuck[p] = {}
    /\ S # {} /\ \A t \in S : Unfinished(t)
    /\ stuck' = [stuck EXCEPT ![p] = S]
    /\ UNCHANGED <<gatewayVars, queue, orphans, workerVars, registryVars, row,
                   historyVars, faults>>

\* UPDATE ... WHERE status IN ('running', 'queued').
ReapedBlindly(t) == "timeout" \* mutant: no condition on the status
ReapedRow(t) == IF Unfinished(t) THEN "timeout" ELSE row[t]

Reap(p, t) ==
    /\ t \in stuck[p]
    /\ row' = [row EXCEPT ![t] = ReapedRow(t)]
    /\ stuck' = [stuck EXCEPT ![p] = @ \ {t}]
    /\ UNCHANGED <<gatewayVars, queue, orphans, workerVars, registryVars,
                   historyVars, faults>>

ReapFails(p, t) ==
    /\ t \in stuck[p]
    /\ Fault
    /\ stuck' = [stuck EXCEPT ![p] = @ \ {t}]
    /\ UNCHANGED <<gatewayVars, queue, orphans, workerVars, registryVars, row,
                   historyVars>>

-----------------------------------------------------------------------------

SubmitStep ==
    \E t \in Tasks : \/ SubmitPush(t)
                     \/ SubmitRefused(t)
                     \/ SubmitRecord(t)
                     \/ SubmitRecordFails(t)

ConsumerStep ==
    \E c \in Consumers : \/ Pop(c)
                         \/ ChooseWorker(c)
                         \/ Dispatched(c)
                         \/ ConnectFails(c)
                         \/ PostAbandoned(c)
                         \/ Requeue(c)
                         \/ ConsumerError(c)
                         \/ WorkerFull(c)
                         \/ \E a \in Attempts : AcceptTask(c, a)

OrphanStep ==
    \E t \in Tasks, w \in Workers : \/ DropOrphan(t, w)
                                    \/ \E a \in Attempts : AcceptOrphan(t, w, a)

AttemptStep ==
    \E a \in Attempts : \/ StartRun(a)
                        \/ \E o \in {"completed", "failed"} : Finish(a, o)
                        \/ Expire(a)
                        \/ StoreTimeout(a)
                        \/ StoreTimeoutFails(a)
                        \/ ReleaseExpired(a)
                        \/ Persist(a)
                        \/ PersistFails(a)
                        \/ \E s \in WorkerStatus : \/ WriteAccepted(a, s)
                                                   \/ WriteReleased(a, s)
                                                   \/ WriteReleasedFails(a, s)

WorkerStep ==
    \E w \in Workers : \/ Heartbeat(w)
                       \/ Crash(w)
                       \/ AliveExpires(w)
                       \/ Start(w)

ReaperStep ==
    \E p \in Reapers : \/ \E S \in SUBSET Tasks : Select(p, S)
                       \/ \E t \in Tasks : Reap(p, t) \/ ReapFails(p, t)

Next ==
    \/ SubmitStep
    \/ ConsumerStep
    \/ OrphanStep
    \/ AttemptStep
    \/ WorkerStep
    \/ ReaperStep
    \/ GatewayRestart

Spec == Init /\ [][Next]_vars

(***************************************************************************)
(* Coroutines that are not waiting for anything run on; so do the 15 s     *)
(* heartbeat and the watchdog's 60 s cycle, which selects every row that   *)
(* stays unfinished once it is old enough, and Redis expires keys.  BRPOP  *)
(* serves its waiting clients in turn, so a consumer that keeps asking     *)
(* gets a task.  Nothing is assumed of failures, of a crashed worker being *)
(* started again, of clients, or of the Maintainer.                        *)
(***************************************************************************)
ConsumerRuns(c) ==
    \/ ChooseWorker(c) \/ Dispatched(c) \/ ConnectFails(c) \/ Requeue(c)
    \/ WorkerFull(c)
    \/ \E a \in Attempts : AcceptTask(c, a)

AttemptRuns(a) ==
    \/ StartRun(a) \/ Expire(a) \/ StoreTimeout(a) \/ ReleaseExpired(a) \/ Persist(a)
    \/ \E s \in WorkerStatus : WriteReleased(a, s)

ReaperRuns(p, t) ==
    /\ WF_vars(\E S \in SUBSET Tasks : t \in S /\ Select(p, S))
    /\ WF_vars(Reap(p, t))

Fairness ==
    /\ \A t \in Tasks : WF_vars(SubmitRecord(t))
    /\ \A p \in Reapers \cap {"watchdog"}, t \in Tasks : ReaperRuns(p, t)
    /\ \A c \in Consumers : SF_vars(Pop(c)) /\ WF_vars(ConsumerRuns(c))
    /\ \A a \in Attempts : /\ WF_vars(AttemptRuns(a))
                           /\ WF_vars(\E s \in WorkerStatus : WriteAccepted(a, s))
    /\ \A w \in Workers : WF_vars(Heartbeat(w)) /\ WF_vars(AliveExpires(w))

FairSpec == Spec /\ Fairness

-----------------------------------------------------------------------------
(* Properties *)

Holding(w) == {a \in Attempts : aworker[a] = w /\ apc[a] \in SlotHolding}

\* Slot accounting of a worker: _active_task_count is the number of accepted
\* executions that have not reached their finally block, across acceptances,
\* timeouts, notifications, crashes and restarts, and never exceeds
\* WORKER_CONCURRENCY.
SlotsMatchAttempts ==
    \A w \in Workers : active[w] = Cardinality(Holding(w)) /\ active[w] <= Capacity

\* BRPOP hands a task to one consumer and a 200 answer ends its dispatch: a task
\* is executed at most once unless a POST /task was given up and queued again.
AtMostOnce ==
    \A a, b \in Attempts :
        atask[a] = atask[b] /\ atask[a] # None /\ a # b => atask[a] \in retried

Queued(t) == \E i \in DOMAIN queue : queue[i] = t
InHand(t) == \E c \in Consumers : hand[c] = t
InFlight(t) == \E w \in Workers : <<t, w>> \in orphans
Executing(t) == \E a \in Attempts : atask[a] = t /\ apc[a] \in Live

\* Conservation: a task that was pushed is in the queue, in a consumer's hand,
\* in a request, or being executed, until its row is final; the only other way
\* out is one the model records in lost (a failure, or a full worker).
Accounted ==
    \A t \in Tasks :
        submit[t] # "new" =>
            \/ Queued(t) \/ InHand(t) \/ InFlight(t) \/ Executing(t)
            \/ row[t] \in Terminal
            \/ t \in lost

\* Once a poller of /api/chat/result can see a final status it never sees the
\* task unfinished again: neither the late INSERT of submit_chat nor a reaper
\* reopens it.
TerminalStays ==
    [][\A t \in Tasks : row[t] \in Terminal => row'[t] \in Terminal]_vars

\* A stored result is not taken back, by a reaper that selected the row before
\* it was stored or by anyone else, unless the task runs a second time.
CompletedStays ==
    [][\A t \in Tasks : row[t] = "completed" /\ t \notin retried
                            => row'[t] = "completed"]_vars

\* What clients are promised: a recorded row becomes final, whatever crashed or
\* was lost; final it stays, and a stored result is only replaced by a repeated
\* execution.
Result == INSTANCE TaskResult WITH status <- row, repeated <- retried
ImplementsResult == Result!FairSpec

\* A worker that has free slots for good is advertised as idle again and again,
\* although every execution starts by advertising it as busy.
FreeWorkerAdvertised ==
    \A w \in Workers :
        <>[](up[w] /\ active[w] < Capacity) => []<>(registry[w].status = "idle")

\* Where the workers have room, every pushed task comes to be executed, also past
\* a worker that died and is still registered, unless a failure lost it or left
\* the only request for it in flight.
PushedTaskRuns ==
    \A t \in Tasks :
        submit[t] # "new"
            ~> (t \in lost \/ InFlight(t) \/ \E a \in Attempts : atask[a] = t)

-----------------------------------------------------------------------------
(* What comments in the code say and the code does not do *)

\* workers/worker.py:268, "when full return 409 at once, and the dispatcher puts
\* the task back on the Redis queue": without a failure no task is lost.
NothingLostWithoutFault == faults = 0 => lost = {}

=============================================================================
