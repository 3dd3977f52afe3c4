# OpenClaw TeamLab: TLA+ models, checks and proofs

TLA+ specifications of the TeamLab back end in `src/`: the FastAPI gateway, its
worker processes, the scheduler with its roles, and the data pipelines between
MySQL, Redis and the CoEvo database. Each module is a translation of the Python
code named in `PROJECT.json` (`map`); the configurations (`*.cfg`) are the
instances TLC checks, the `*Proofs.tla` modules hold theorems TLAPS checks for
every value of the constants.

    tlc -workers 2 -config MCOperations.cfg MCOperations.tla        # a run
    tlapm TaskLifecycleProofs.tla                                   # the proofs

## 1. Inventory

TeamLab runs as several processes started by `main.py`: one gateway, a pool of
worker processes, and one scheduler. They share a MySQL database (`claw_*`,
`coevo_*`, knowledge tables) and a Redis instance, and call each other over HTTP.
Inside a process everything is asyncio: code between two `await`s is atomic, and
every `await` is a point where other coroutines and other processes run.

| component | state it keeps | operations | talks to |
|---|---|---|---|
| chat API (`gateway/routes/chat.py`) | none; rows of `claw_task_log`, `claw_conversations` | `submit_chat`, `update_task_result`, `get_task_result`, history | Redis list `task_queue`, MySQL, the WebSocket manager |
| gateway loops (`gateway/app.py`) | 5 consumer coroutines, watchdog, pub/sub listener, auto-scale and health loops | `_queue_consumer`, `_run_watchdog_cycle`, `_pubsub_listener`, `lifespan` | Redis queue and registry, `POST /task` of workers, MySQL, WebSockets |
| WebSocket manager (`gateway/websocket.py`) | `active`, `_user_clients`, `_task_user` | `connect`, `disconnect`, `register_task`, `send_to_user`, `broadcast` | the socket endpoint, chat API, task-complete callback, watchdog |
| worker (`workers/worker.py`) | `_active_task_count`, `_active_tasks`, registry entry, heartbeat key | `accept_task`, `_process_task`, `_heartbeat`, register and deregister | Redis, MySQL, gateway callback, `callback_url`, mail, the LLM |
| pool (`workers/pool.py`) | `_workers` (per process), pid files | `start_pool`, `stop_pool`, `auto_scale`, `restart_worker`, `get_idle_worker` | Redis registry, worker subprocesses |
| scheduler (`scheduler/*.py`) | APScheduler jobs, cron entries in a YAML file | `run_skill_job`, `health_check_job`, `auto_scale_check`, cron updates, pause, resume | Redis queue and registry, roles, MySQL |
| roles (`roles/*.py`) | run logs | Librarian (`run`), Evolver, Maintainer (`_check_workers`, `_clear_stuck_tasks`) | MySQL, Redis, LLM |
| knowledge (`knowledge/*.py`) | nodes, edges, embeddings, session memory and facts in MySQL | `upsert_node`, `add_edge`, `delete_node`, `get_neighbors`, `save_session`, `add_fact`, retrieval | MySQL, Redis, embedder |
| CoEvo sync (`data_bridge/coevo_knowledge_sync.py`) | watermarks per source | `run`, one `_sync_*` per source | CoEvo MySQL (read only), knowledge store |
| team data (`data_bridge/*.py`) | risk scores, insights, student links, the cached team snapshot | `compute_all_risks`, `send_risk_alerts`, `scan_global_research`, `sync_students`, `get_team_snapshot` | both databases, Redis, the LLM |
| supervisor (`main.py`) | pid files, child processes | `cmd_all`, `cmd_workers`, `cmd_stop`, `cmd_chat` | processes, signals |
| agent API (`gateway/routes/agent_api.py`, `agent_actions/*`) | none between requests, except in the user's confirmation of a name | look-up of members, questions about one or two of them | both databases, the LLM |
| query and page API (`gateway/routes/*`) | none | reads, a few CRUD writes | MySQL |
| web page (`web/static/js/app.js`) | the chat's bubbles, pending tasks and polling timers | send, receive a frame, poll, give up | `POST /api/chat`, `/ws`, `GET /api/chat/result` |
| skills (`skills/*`), OpenClaw configuration | none | prompts and one-shot scripts | LLM, arXiv |

What is hard, and what must hold:

- **Task life cycle.** A task crosses three processes and four stores (Redis list,
  HTTP request, worker memory, MySQL row) with no transaction around any two of
  them. It must not disappear unaccounted, must not run twice unless a `POST` was
  given up, must not lose a stored result, and its row must end. Slots must match
  executions across timeouts and crashes.
- **WebSocket routing.** Ownership of a task is registered after the task was
  pushed, and forgotten on the first callback; results must reach the owner's
  connections and nobody else's; a reconnect reuses the identity of the connection
  it replaces.
- **Worker registry.** One Redis hash entry per worker, written by the worker's own
  coroutines and read, modified and written back by the scheduler's health check
  and by the Maintainer; the pool that scales is not the pool that runs.
- **CoEvo sync.** Watermarks advance over rows read in an order that is not always
  that of the watermark; a row must be taken in once and none skipped.
- **Execution of a task.** The conversation with a stateless model must stay one the
  service accepts, through rounds of tool calls that may fail; a time limit may cut in
  at every await.
- **Knowledge and memory.** `SELECT` then `INSERT` without a lock; session memory
  is read, extended and written back as a whole, to two stores of which one expires.
- **Scheduler.** Triggers live in a process and in a file that is truncated before it is
  written; a job may run by hand next to itself.
- **Supervisor.** Signals come in the midst of starts, restarts and of the handler.
- **Team data.** Runs by hand and by the scheduler overlap between a look-up and the
  insert that rests on it; days end in between; an alert depends on the row before the
  last.
- **Web page.** A reply may come twice, late, or never.

## 2. Plan

Each module is built to be proved about (constants with named assumptions, one action
per operation, invariants as conjunctions of named parts, no `RECURSIVE` operator).

| modules | section | state |
|---|---|---|
| `TaskLifecycle`, with its abstract specification `TaskResult` | 3 | checked, proved |
| `Execution` | 3 | checked, proved |
| `WsRouting`, with its abstract specification `Mailbox` | 4 | checked, safety proved |
| `WorkerRegistry` | 5 | checked, safety proved |
| `CoevoSync`, with its abstract specification `SourceCopy`; `CoevoGraph` | 6 | checked, safety proved |
| `WorkerPool`; `Supervisor` | 7 | checked, safety of both proved |
| `KnowledgeStore`, with its abstract specification `KeyedGraph`; `Librarian` | 8 | checked, safety proved |
| `SessionMemory`, `Retrieval` | 8 | checked, proved |
| `SchedulerJobs` | 9 | checked, safety proved |
| `StudentSync` | 10 | checked, proved |
| `RiskAlerts`, `Insights`, `TeamSnapshot`, `Indicators` | 10 | checked, proved |
| `ChatClient` | 11 | checked, safety proved |
| `AgentAnswers` | 11 | checked, proved |

Every safety property that a run checks is also a theorem, and so is the safety part of the
four refinements (`TaskResult`, `SourceCopy`, `Mailbox`, `KeyedGraph`). Left to do:
`Supervisor` composed with `WorkerPool`, that is, what a restart of the workers process or of
the gateway does to workers that outlive it. Today `WorkerPool` lets both processes end and
start again at any time, which includes what a supervisor does.


## 3. The task life cycle: `TaskLifecycle`

One variable per piece of state of the code, one action per stretch between two
awaits that others can observe.

| in the model | in the code |
|---|---|
| `queue` | Redis list `task_queue`, written from the side `BRPOP` reads last (`LPUSH`) or first (`RPUSH`) |
| `submit[t]` | how far `submit_chat` got: pushed, row inserted, or answered 503 |
| `cpc`, `hand`, `target` | each `_queue_consumer` coroutine: its place, the task it popped, the worker it chose |
| `orphans` | `POST /task` requests whose client has given up; the worker may still handle them |
| `active[w]` | `_active_task_count` |
| `apc`, `atask`, `aworker`, `outcome` | each `_process_task` coroutine: its place, task, worker, `task_status` |
| `pend` | the registry writes of `accept_task` (its own coroutine) and of `finally`, whose status is computed before the await |
| `registry`, `alive` | Redis hash `workers` and keys `worker:alive:<id>` |
| `row[t]` | `claw_task_log.status` |
| `stuck` | the rows the watchdog or the Maintainer has selected and not yet updated |
| `lost`, `retried`, `faults` | history variables: tasks dropped by a failure or a misread refusal; tasks queued again after their `POST` was given up; failures so far |

`SubmitPush` then `SubmitRecord` follow `submit_chat`'s order; the primary key makes
the late `INSERT` fail when a worker was faster. `Pop`, `ChooseWorker`,
`Dispatched`, `ConnectFails`, `PostAbandoned`, `Requeue` and `ConsumerError` are one
turn of `_queue_consumer`. `AcceptTask` and `WorkerFull` are `accept_task`;
`StartRun`, `Finish`, `Expire`, `StoreTimeout`, `ReleaseExpired`, `WriteReleased` and
`Persist` are `_process_task` with the slot released before the outcome is stored.
`Crash`, `Start`, `AliveExpires` and `Heartbeat` are the process; `Select` and `Reap`
the watchdog and the Maintainer. Every awaited write that may raise has a `...Fails`
action.

Left out: the contents of tasks and results, progress events and notifications
(section 4 models their routing), tasks whose skill starts with `__` (a client
cannot name one: `submit_chat` pushes an empty skill), the estimate of the waiting
time, and `POST /api/chat/result/{id}`, which nothing in the repository calls.
`get_idle_worker` reads the hash and the heartbeat keys with one await each; the
model reads them in one step, because the staleness that matters, between that read
and the arrival of the `POST`, is a separate step in any case. Timeouts have no
clock: `Expire`, `Select` and `AliveExpires` may happen as soon as the state allows
them, so every order the real durations allow is included and others as well.

### Properties

- `SlotsMatchAttempts`: `_active_task_count` equals the executions that have not
  reached `finally`, and is at most `WORKER_CONCURRENCY`.
- `AtMostOnce`: two executions of one task only if its `POST` was given up.
- `Accounted`: a pushed task is queued, in a hand, in a request, being executed,
  ended, or in `lost`.
- `CompletedStays`: no step replaces a stored result unless the task was retried.
  (`TerminalStays`, that no step reopens an ended row, and the type invariant are proved
  and have no run of their own.)
- `ImplementsResult`: with `row` for `status` and `retried` for `repeated`, every
  behaviour is one of `TaskResult`: a task is recorded once, concluded once, and
  after that its status is only replaced while it is not a stored result, or if the
  task is repeated; a client that was told "queued" is told an end.
- `PushedTaskRuns`: a pushed task comes to be executed, also past a worker that died
  and is still registered, unless it is in `lost` or its only request is in flight.
- `FreeWorkerAdvertised`: a worker that keeps a free slot is advertised as idle again
  and again, although `StartRun` advertises it as busy each time.

### Runs

| run | instance | what it shows |
|---|---|---|
| `task_safety` | 2 tasks, 1 worker of capacity 1, 2 consumers, 2 attempts, watchdog, 1 failure; symmetry (700,955 states) | the three invariants and `CompletedStays` |
| `task_live` | 1 task, 2 workers of capacity 2, 1 consumer, 2 attempts, both reapers, 1 failure (181,777 states) | refinement of `TaskResult` with its liveness, `PushedTaskRuns`, `FreeWorkerAdvertised` |
| `task_full` | 2 tasks, 1 worker of capacity 1, no failure | violates `NothingLostWithoutFault` |

Two tasks and two consumers are enough for every race of the dispatch (two
consumers choosing one worker, a requeued task against a waiting one); capacity 1
makes the second acceptance meet a full worker; two attempts let a retried task run
next to its first execution, or next to the other task; one failure per behaviour
covers each failure between any two steps. Symmetry permutes tasks, workers, consumers
and attempts, none of which the model distinguishes; the liveness run does not use it.
There, two workers let a task be dispatched past a dead one, and capacity 2 leaves a
slot free next to every execution. With both workers full there is no claim: a
full worker loses the task (`task_full`).

### Fairness

`ConsumerRuns`, `AttemptRuns`: a coroutine that waits for nothing runs on (asyncio
runs ready coroutines in turn). `Expire` is part of `AttemptRuns`: `wait_for` ends a
run that does not end. `Heartbeat` every 15 s, the watchdog every 60 s; its `LIMIT 50`
does not starve a row because the rows it selects end and the ids are finite. `Pop`
is strongly fair: Redis serves blocked clients in the order they asked. Redis expires
the key of a dead worker (`AliveExpires`). Nothing is assumed of failures, of a dead
worker being started again, of clients, or of the Maintainer.

### Where the code and its comments disagree

- `task_full`: `accept_task` returns `({...}, 409)`, a tuple that FastAPI sends as a
  JSON array with status 200; `_queue_consumer` counts it as dispatched. The
  docstring (`workers/worker.py:268`) says a full worker answers 409 and the
  dispatcher puts the task back.
- Two smaller ones are in the model without a run of their own: `RPUSH` puts a
  requeued task where `BRPOP` reads next (`Requeued`), while `gateway/app.py:316` says it
  goes to the back; every started execution advertises `busy` (`StartRun`), while
  `workers/worker.py:196` says busy means full.

### What is proved (`TaskLifecycleProofs`)

For every number of tasks, workers, consumers, attempts, failures and any capacity,
from the named assumptions of the module only:

- `TypeCorrect`: `Spec => []TypeOK`. Not inductive alone: `Shape` adds that a consumer
  holds a task exactly between `BRPOP` and the end of its turn, that an attempt has a
  task and a worker once accepted, and that a pending `finally` write belongs to an
  attempt waiting for it.
- `SlotAccounting`: `Spec => []SlotsMatchAttempts`, by three lemmas on how an
  acceptance, a release and a crash change the set of attempts that hold a slot.
- `ExecutedAtMostOnce`: `Spec => []AtMostOnce`. The inductive invariant is `OneCopy`: a
  task never retried is in one place only (once on the queue, in one hand, in one
  request, in one attempt), a consumer that has read "accepted" sharing it with the
  attempt it caused.
- `FinalStatusStays`: `Spec => TerminalStays`, from `Results` (an attempt that reached
  `finally` has a terminal outcome).
- `StoredResultStays`: `Spec => CompletedStays`. A row that is completed was stored by an
  attempt that is over; by `ExecutedAtMostOnce` it is the only one, so no coroutine is
  left that could store over it, and the reapers' `UPDATE` is conditional.

- `KeepsItsPromise`: `Spec => Result!Spec`, the safety part of `ImplementsResult`. Only
  four kinds of step write a row and only one sets `retried`; `StepRefines` maps each of
  them to an abstract step, by the invariants above.
- `NothingVanishes`: `Spec => []Accounted`. `Accounted` is not inductive: when a finished
  attempt disappears from it, the row must be final already. `Conserved` adds `Closed`
  (an attempt that is over, or has timed out and been stored, has settled its task) and
  `Answered` (a consumer that holds an acceptance has the attempt to show for it, so
  dropping the task is safe), and counts attempts by their task, which never changes.

The liveness properties are model-checked only.

### One execution: `Execution`

What a worker does between taking a slot and giving it back (`_run_task_inner`), which
`TaskLifecycle` has as the steps `StartRun`, `Finish` and `Expire`.

| in the model | in the code |
|---|---|
| `skill` | the skill in the payload, chosen by the first rule of `intent_routing` that fits (`SkillFor`) |
| `phase` | the await the coroutine is at |
| `system`, `said` | the parts of the system message; the messages after it |
| `wanted`, `iteration` | the calls of the model's last reply that are still to be run; the round of the loop in `call_llm_with_tools` |
| `bar`, `summary`, `status` | progress published last; `result_summary`; what `_process_task` gets |

`LoadsSkill` fails for a skill that routing names and nobody installed; `AddsTeam` and
`AddsKnowledge` have the fallbacks of the code; `AsksForTools` and `RunsTool` are the loop,
in which an unknown function and one that raises answer with an error; `RunsOut` is
`wait_for`. `CallsAnswered` says that whenever the model is called, each of its tool calls has
exactly one answer, in the order of the calls, right behind the message that made them:
the service refuses other conversations. Two calls per reply and two rounds
(`MaxToolIterations` is 3 in the code) let answers of one reply be confused with each other
and with those of the round before. In the model, as in the code, the published percentage
goes back (20, then 17), a task whose model asks for tools once more after the last round is
completed with an empty text, and a timeout may follow the event that says 100.

Proved (`OperationsProofs`), for any tools, routing, calls in a reply and rounds:
`ExecutionTypeCorrect` and `EveryCallAnswered`: `ExecutionSpec => []CallsAnswered`. While tools
run the calls of the newest reply are not all answered, so the property is not inductive;
the invariant says that those without an answer are the tail of that reply's calls
(`TailWanted`), that every earlier reply has its answers behind it (`AllAnswered`), and that
rounds, and so the calls' numbers, differ (`RoundsDiffer`).

## 4. WebSocket routing: `WsRouting`, `Mailbox`

| in the model | in the code |
|---|---|
| `sock[s]` | a connection: not yet made, open, broken and not noticed, ended |
| `cid[s]`, `claims[s]` | the client id it connected with; history: the users it said it is |
| `active`, `userClients`, `taskUser` | `ConnectionManager.active`, `_user_clients`, `_task_user` |
| `abandoned` | history: ids whose endpoint ended by an exception, and that nobody has disconnected since |
| `submit`, `owner` | how far `submit_chat` got with a task, and the user who sent it |
| `phase`, `to`, `todo`, `stale`, `delivered` | a call of `send_to_user` or `broadcast`: its place, addressee, what its snapshot has left, the client ids it failed to serve; history: which delivery under way reached which connection |

`Connect`, `Receive`, `EndpointEnds` and `EndpointRaises` are the endpoint, `Break` the
network. The endpoint has one `except`, for `WebSocketDisconnect`, and no `finally`
(`gateway/app.py:456`): a frame without text makes `receive_text` raise `KeyError`, and after
a send that failed it raises `RuntimeError`; then nothing is disconnected (`EndpointRaises`),
and the id stays active and in its user's set until a send to it fails or another connection
under it ends. A message is a delivery `<<task, kind>>`: `RegisterTask` (queued), `Callback`
(a result), `WatchdogNotifies`, `Progress`. `Begin` takes the snapshot; each `SendOne` is one
awaited send, to the socket that is behind the client id by then (`send_to_user`) or to the
one in the snapshot (`broadcast`); `EndDelivery` disconnects what failed and, after a
callback, forgets the owner. `Disconnect` removes a client id whatever socket is behind it, as
the code does. A send on a broken connection may raise or vanish. `Restart` replaces the
gateway process. The consumer's `task_queued` message after a requeue is a delivery like the
watchdog's and is not modelled apart from it.

Properties: `NoGhost` (an id whose connections have ended is neither active nor in a user's
set, although late `register` messages add it again, unless it is in `abandoned`: what an
exception left behind is all that is left behind, and a disconnect removes all of it),
`LiveIsReachable` (a working connection is the one its id leads to), `DeliveredToAddressee`
(what is addressed to a user reaches connections of that user only, though the snapshot is
older than the sends), `SnapshotServed` (one failing send does not keep the message from the
others). The last three exclude connections under an id the client chose (`ChosenIds`): two of
them may share an id, and then the later one takes the place of the earlier one by design.

| run | instance | what it shows |
|---|---|---|
| `ws_safety` | 2 connections, 2 ids of which one is chosen by clients, 2 users, 1 task, its queued message, result, timeout and progress events, at most 2 of them (3,160,000 states), any restarts | `NoGhost`, `LiveIsReachable`, `DeliveredToAddressee` |
| `progress` (section 12) | 2 connections under ids of their own, 1 user (and "anonymous"), one message, queued or of the watchdog, any restarts | `SnapshotServed`, type |
| `ws_stranger` | one result | violates `ResultOnlyToOwner` |

Two connections are the least with one to fail and one to be served after it, or to take over
an id; two deliveries at a time are the least that can disconnect each other's clients
(`MaxDeliveries`), and `LiveIsReachable` in `ws_safety` says that they do not cut off a
working connection. `progress` sends one message, by any of the senders, also after a restart
of the gateway, when the watchdog tells the owner of a task whose POST was lost. Deadlock is
not checked: with every connection closed and every message sent the system is at rest.
Fairness: a delivery whose send returned goes on. Nothing is assumed of clients.

`ws_stranger`: `send_to_task_owner` turns an unknown owner into the user `""`, for whom
`send_to_user` broadcasts. An owner is unknown while `submit_chat` still stores the row
(the push comes first), after a second callback, and after a gateway restart. The comment
at `gateway/routes/api.py:52` promises targeted delivery or none. Two related remarks have
no run: progress events are broadcast by design of `_pubsub_listener`, which
`gateway/websocket.py:10` advises against; and the entry of a task that was registered
after its result stays in `_task_user`, which `gateway/websocket.py:30` says is cleared.

Proved (`WsRoutingProofs`), for any numbers of connections, ids, users, tasks, messages
and restarts: `WsTypeCorrect`; `NothingLeftBehind` (`NoGhost`); `ReachableWhileLive`
(`LiveIsReachable`), whose invariant says that a stale id is never that of a working
connection: a failed send, or an id without socket, means that its connection is broken
or ended, and it never works again; `AddresseeOnly` (`DeliveredToAddressee`), whose
invariant says that a user's set and every snapshot of it hold ids of connections that
claimed this user. `SnapshotServed` is model-checked.

`DeliveriesAreLetters`: `Spec => ImplementsMailbox`. `Mailbox` is what a connection sees of the
gateway: letters that are sent, handed to working connections and closed, and crashes that
lose both; there are no client ids, no two maps, no snapshots and no failed sends in it, apart
from connections under an id that others may have too. A letter is handed to a connection
at most once: a snapshot has each client id once and a connection has one client id (`Once`);
and only to connections of the addressee, by the invariant of `AddresseeOnly`.

## 5. The worker registry: `WorkerRegistry`

| in the model | in the code |
|---|---|
| `proc[w]` | the worker process: down, up, shutting down (entry deleted, key deleted) |
| `pend[w]`, `keyDue[w]` | statuses that coroutines of the worker have computed and not yet written; an `HSET` whose `SET` of the key is still to come |
| `entries[w]`, `alive[w]` | field `w` of the Redis hash `workers` (status and `fail_count`), key `worker:alive:w` |
| `snap`, `toCheck`, `stage` | a run of `health_check_job` or of the Maintainer's `_check_workers`: what `HGETALL` returned, the workers it has still to visit, the worker it is pinging |
| `lapses`, `streak` | bound on keys and entries a running worker loses; history: failed pings in a row |

The worker writes the entry and then the key, two commands; the checkers read all
entries once, then ping one worker after the other for up to 5 s each, and write back
what they had read with a new `fail_count`, over whatever is there by then. `PoolRemoves`
is the `HDEL` of a pool. `KeyExpires` is the 45 s TTL. What makes a worker idle or busy is
section 3's; here both are entries that can be offered.

Properties: `FailsAreConsecutive` (no write gives an entry more failures than pings that
failed in a row), `GoneNeverChosen` (a dead worker is some day never offered again,
although old entries are written back for it and a status computed before its shutdown
may come after it), `LiveWorkerOffered` (a live worker is offered again and again, though
checkers overwrite, remove and mark its entry).

| run | instance | what it shows |
|---|---|---|
| `progress` (section 12) | 1 worker, the Maintainer, threshold 3, 1 lapse | type, `FailsAreConsecutive`, `GoneNeverChosen` |
| `workers` (with section 7; 517,000 states) | 1 worker, health check and Maintainer, threshold 1, 1 lapse | `LiveWorkerOffered` |
| `reg_unhealthy` | 1 worker, health check, threshold 3 | violates `ThreeFailuresUnhealthy` |

One worker is enough: entries of different workers meet only in the order in which a
checker visits them, and every order and delay is allowed for one already.
In `progress` there is no health check, which would mark a dead worker as unhealthy and so hide
whether the expiry of its key suffices. `FailsAreConsecutive` holds for one run at a time:
two checkers' counts overwrite each other. Fairness: heartbeats, coroutines that can go
on, expiry, the health check's job. Nobody has to trigger the Maintainer.

`reg_unhealthy`: `fail_count` lives in the entry, which the worker's own heartbeat
replaces every 15 s by one without it, while checks are 30 s apart; a worker whose HTTP
server hangs and whose heartbeat runs is never marked (`scheduler/jobs.py:84` says: after
three consecutive failures).

The scheduler never runs the Maintainer (section 9), so the entry of a dead worker is
removed only when somebody triggers it, and `RegistryFairSpec` does not count on it.

Proved (`WorkerRegistryProofs`), for any workers, checkers and threshold:
`RegistryTypeCorrect`, with the invariant that a checker has an entry for each worker it
still has to visit; and `CountsAreJustified`: `RegistrySpec /\ []Alone =>
FailsAreConsecutive`, where `Alone` says that no two runs of checkers overlap (health check,
Maintainer, and whoever triggers it). The invariant `Covered` is that both the entry and the
copy of the run in progress hold at most `streak` failures. The liveness properties are
model-checked.

## 6. The CoEvo synchronisation: `CoevoSync`, `SourceCopy`

| in the model | in the code |
|---|---|
| `now`, `upd[r]`, `text[r]` | the clock in seconds; `updated_at` of a row of the source, and whether it has text worth storing |
| `node[r]` | the version of the row in `claw_knowledge_nodes`, as the time of that version |
| `wm` | the watermark in Redis, or none |
| `pc`, `since`, `batch`, `latest` | a run of `_sync_*`: its place, the watermark it read, the rows it selected and has not handled, `latest_ts` |
| `forgiven`, `faults` | history: how far runs without a watermark looked back; failures so far |

One source is modelled; the four differ in what they order by (`Rank`: relevance for memories,
nothing for the others) and in whether rows may be passed over for lack of text (`Empties`).
`BeginRun` and `ReadWatermark` (reading the watermark, or falling back on 30 days), `Select`
(rows newer than it, ordered, at most `Limit`), `Store` or `Skip` per row, `LoopEnds`, `Save`;
an error ends the loop and the watermark is still saved. `RunDies` is a process that ends,
`ResetWatermark` the API's reset or the 90 days after which Redis forgets. `Change` and `Tick`
are the platform that writes the source. What a row leaves in the graph is `CoevoGraph`'s,
below; how its text is worded is left out.

Properties: `NothingSkipped` (a row with text whose last change is not later than the
watermark is in the graph in its last version), and `ImplementsCopy`: seen by readers of the
graph, the synchronisation is `SourceCopy`, a copy of the source that lags behind. There a row
changes (`Change`), the copy shows a newer version of it, though perhaps not the last
(`Show`), the mark moves to a time up to which the copy is complete (`Move`), is lost (`Forget`), or
changes are given up as too old (`Forgive`); a version in the copy is never replaced by an
older one, and under its fairness every change arrives, unless the row changes again or was
given up. Batches, runs and `latest_ts` have no counterpart.

| run | instance | what it shows |
|---|---|---|
| `progress` (section 12) | 3 rows (one of which may be without text), batches of 2, 3 seconds, look-back of 2, 1 failure | type, `NothingSkipped`, `ImplementsCopy` |
| `coevo_memories` | 2 rows of different relevance, batches of 1 | violates `NothingSkipped` |

Three rows and batches of two leave a row behind a full batch; with three seconds all three
may have changed when a run begins, or one may change again while it waits in a batch.
Failures are bounded, and that is what the fairness of `ImplementsCopy` rests on: a row that
cannot be stored at any time blocks those behind it. Fairness: the job comes every four hours
and a run goes on.

Three assumptions are needed, and the code does not ensure them; each is a constant, and
changing it in `MCProgress.cfg` shows the violation. *Batches in the order of changes*
(`Rank`): memories are ordered by relevance first, so the watermark moves past less
relevant ones beyond the batch (`coevo_memories`; `coevo_knowledge_sync.py:15-16` says the
watermark is the time up to which the last synchronisation has got). *No two changes in
one second* (`Ties = TRUE`): the next run asks for `updated_at > watermark`, and a batch may
end between two rows of one second. *Runs do not overlap* (`Sessions` with two members):
the scheduler, the Librarian and `POST /coevo/sync` may each run one, and an old version
may be stored last. Besides, `Empties` must leave room in a batch: a batch of rows without
text does not move the watermark and comes again for ever (`Empties = {r2, r3}` with
`MaxTime = 4`).

Proved (`CoevoSyncProofs`), for any rows, limit, look-back and clock: `CoevoTypeCorrect`, and
`WatermarkSafe`: `CoevoSpec => []NothingSkipped` under `Orderly`, the first three assumptions
above. The invariant speaks of the run in progress: what it selected is a prefix, in time, of
the changes after `since`; each of them is stored, still in `batch`, or changed again later
than everything in the batch; and `latest` is never later than a row still in it.

`GraphIsACopy`, under `Orderly`: `CoevoSpec => Copy!Spec`, the safety part of `ImplementsCopy`,
step by step. It needs that nothing in a batch is older than what the graph shows (`Forward`).
Its fairness is model-checked.

`NoRowMissing` says what is left when runs overlap, which the code does not prevent: if rows
change at different seconds and are selected in that order (`InOrder`), a row with text behind
the watermark is in the graph (`NoneMissing`), perhaps in an older version that a slower run
stored last. The invariant `Overlapping` speaks of each run by itself: rows that changed up to
the watermark, `since` or `latest` are present, and what a run has in its batch is all that is
missing up to the newest of it.

### What a run leaves in the graph: `CoevoGraph`

All four sources of one run, one after the other: `BeginSync` (with the map of project names,
which may fail to load), `FetchRows`, `StoreRow` or `PassOver` for each row, `SourceDone` (the
watermark, whose write may fail). `ReadMark` is `_get_watermark`: the watermark, or 30 days
ago, without one and also when it cannot be read or parsed. `MarkGone` is a watermark that
expired or that the API deleted. A row has no node of its own: `upsert_node` finds nodes by
type, entity and title, and `ReportNode`, `PlanNode`, `RecommendationNode`, `MemoryNode` say
which node a row gets, `OwnEdges` which relations. `StoreRowFails` ends a loop before the
node, or between the node and its last edge; `SyncStops` ends the process. `carried` is the
change whose text a node holds, `related` the edges, `mark` the watermarks; `missed` (rows
older than 30 days that a run without a watermark did not look at) and `wentBack` (how far
behind its watermark a run has gone that could not read it) are history.

- `NewestShown`: of rows that share a node (reports of one person for meetings of one name,
  recommendations to one person) the graph shows the newest text among those behind the
  watermark, whatever failed. Two exemptions are what the fallback of `_get_watermark` costs:
  rows in `missed`, until they change again, and rows later than `wentBack`: a run that could not
  read the watermark stores older rows over newer ones of the same node, and if the process
  ends, its first row fails, or the watermark cannot be written, the older text stays behind
  the watermark. Once a run that began there or earlier has written a watermark, the promise
  holds again (the watermark then goes back to the last row stored). Memories are read by
  relevance and are not promised any of this.
- `RelationsShown`: rows behind the watermark have their relations, although node and edges
  are separate statements: a failure between them leaves the row ahead of the watermark.

Checked in `operations` with 2 reports that share a node, 1 recommendation with two partners,
1 plan and 1 memory, batches of 2, 3 seconds, a look-back of 3 and 1 failure: the least at
which a run goes behind its watermark, and at which a row is older than the look-back (rows
change at different seconds; the tie is `CoevoSync`'s). A project that the map does not have
is known by its number instead of its name (`ProjectNode`): the report stays related to a
second node for the same project, and its watermark moves on. `RelationsShown` accepts either
node.

Proved (`KnowledgeProofs`), for any tables, rows, batches, clock, look-back and number of
failures: `CoevoGraphTypeCorrect`, `NewestAlwaysShown` and `RelationsAlwaysShown`. Rows that a
run has fetched are stored in the order of their changes, and nothing changes in the past: so
what is stored of a source grows from where the run began without a gap (`Gapless`, `Ahead`),
what was stored is shown (`StoredShown`), and so is what lies behind the watermark or behind
the beginning of the run (`PassedShown`, `BehindShown`), in so far as no run that began
earlier has left something unfinished (`RewindNoted`). The one assumption on the tables
(`TablesAssumption`) is that a row belongs to one source.

## 7. The worker pool: `WorkerPool`

| in the model | in the code |
|---|---|
| `up[m]`, `life[m]` | whether the workers process (`"pool"`) or the gateway runs; how often it has ended |
| `handles[m]` | `_workers` of that process: the port of each worker id it holds |
| `procs` | the worker processes there are: who started them, in which run, id, port, and whether they are new, registered or serving |
| `entry[i]` | the Redis hash `workers`: no entry, idle or busy |
| `pc`, `todo`, `toRemove`, `victim` | `auto_scale` between its awaits: `idle_workers`, what it may still remove, the entry it is about to delete |

`workers/pool.py` is imported by two processes, and each has a `_workers` of its own: the
workers process runs `start_pool`, the gateway runs `auto_scale` every 15 s on a table that
is empty at first, counting the load over the registry, in which it sees the workers of
both. Ids and ports are counted from the same base in both. A worker registers in its
lifespan's startup, before the server binds the port; if the port is taken the lifespan
ends and deregisters the id (`BindFails`), also when another worker serves under it. A
crashed worker stays in its table (nothing polls the process) and in the registry. SIGTERM
ends the workers process without `stop_pool`, and the gateway stops no workers when it
shuts down: they go on as orphans (`Dies`), and only Ctrl+C stops the pool (`PoolStops`). What
is atomic: from the answer of `HGETALL` to the last spawn of a scale-up nothing is awaited;
a scale-down awaits each `HDEL`.

Properties: `AtMostMax`, at most `WORKER_MAX` workers serve, if the pool was started with no
more (`SizesAssumption`: `Count <= MaxWorkers`). The code does not see to that: `main.py
workers --count N` goes to `start_pool` as it is (`main.py:97`), and with a larger N there are
more workers than `WORKER_MAX` from the start. The code limits `len(_workers)` of one process
only; the property holds for another reason, that every table takes its ports from the first
`WORKER_MAX` ones and a port is bound once. `OneServerPerId`: two workers that serve under one
id, and so hide each other in the registry, exist only if one was left behind by a process
that ended.

| run | instance | what it shows |
|---|---|---|
| `workers` (with section 5; 517,000 states) | pool of 1, `WORKER_MIN` 1, `WORKER_MAX` 2, one end of one of the processes, any crashes of workers | `AtMostMax`, `OneServerPerId` |

The sizes are the least at which a table grows, shrinks and grows again, so that ids and
ports part (the gateway may have worker-2 on the first port); one end of each process
gives orphans of both beside new workers of the same ids. No fairness is assumed: the
system may stop. `OneServerPerId` needs a pool no larger than `WORKER_MIN`, which
`main.py all` and the default of `main.py workers` ensure. With `--count` above it the property
fails: with `Count = 2`, `MinWorkers = 1`, `MaxWorkers = 3` the gateway gives worker-1 another
port than the pool does, and both serve.

Not a property, because it does not hold and no document promises it: that a scale-up
adds a worker. As long as the gateway's table is empty, its first spawns take the ids and
ports of the pool's workers and fail, and each takes the entry of the pool's worker of
that id with it until the next heartbeat. (`auto_scale_check` of the scheduler, which
posts to a route that does not exist, changes nothing and is not in the model.)

Proved (`WorkerPoolProofs`), for any sizes with `Count <= MaxWorkers` and any number of ends
and crashes: `TypeCorrect`; `NeverTooMany`: `Spec => []AtMostMax`; and `OneIdOnePort`: `Count
<= MinWorkers` implies `Spec => []OneServerPerId`. The invariant of the first two says that
tables fit (not more workers than the limit, ports below it) and that ports in use are
distinct, and rests on lemmas on the first free number and on what a spawn does to a table.
That of the third adds that what a process started in its present run is in its table, and
that a table has the port of its number for each id below `WORKER_MIN`: a small table is
filled without gaps, a large one never shrinks below the minimum.

### The supervisor: `Supervisor`

`main.py all`: `StartAll`, `Popen` and `Record` (a process exists before it is in `procs` and
has a pid file), `NextRound`, `PollRunning` and `PollEnded` (the loop over the children),
the back-off before the next `Popen`, `Signal`, `Terminate` and `ShutDown` (the handler), and
`Abandon`, a second signal whose handler exits within the first, or a kill. `CmdStop` is
`main.py stop`, which works on the pid files. `left` is a history variable: processes that a
signal found between `Popen` and `Record`, and those that `Abandon` left.

- `OneOfEach`: a component has one process, and none when the supervisor has ended, except
  those in `left`.
- `ComponentRestarted`: a component whose process ended is started again. The fairness is
  that of a process that runs (`SupervisorStep`).

Checked in `progress` with two components, four processes, two signals and one `stop`: enough
for a restart of each component, or of one twice, with a signal in the midst of it. As the
model shows, what `main.py stop` ("Stop all components", `main.py:435`) stops under a running
supervisor is started again, and a signal between `Popen` and `Record` leaves the new process
alone.

Proved (`ProgressProofs`), for any components, processes, signals and stops:
`SupervisorTypeCorrect`, and `SupervisorKeepsOne`: `SupervisorSpec => []OneOfEach`. The
invariant: a process outside `left` is the one in `procs` or the one just opened (`Known`);
one is opened only where none of its component is (`OpenedAlone`), because the loop saw the
last one end (`WaitsForEnded`) or `procs` was empty (`FirstStart`); what still runs while
the supervisor stops is in the loop that terminates it (`StopsAll`).


## 8. Knowledge

### The store: `KnowledgeStore`, `KeyedGraph`

| in the model | in the code |
|---|---|
| `nodes`, `lastId`, `edges` | `claw_knowledge_nodes`, which has no unique key, its `AUTO_INCREMENT`, `claw_knowledge_edges` |
| `step`, `pending`, `found`, `held` | a writer: the statement it is at, the keys it has still to store, the id its `SELECT` found, the ids that `upsert_node` returned |
| `raced`, `orphans` | history: keys looked up in vain while another writer was inserting them; nodes deleted while a writer held their id |

A key is what `upsert_node` looks for: type, entity and title. `LookUp`, `UpdateNode`,
`InsertNode`, `AddEdge` and `DeleteNode` are one statement (or transaction) each;
`UpsertFails` and `WriterEnds` are failures between them. An `UPDATE` of a row that was deleted
meanwhile succeeds and stores nothing.

- `OneNodePerKey`: a key has one node, unless it is in `raced`. `knowledge/store.py:7` promises
  an update instead of a second insert; the model shows that overlapping inserts are the only
  way in which that fails.
- `EdgesHaveEnds`: an edge leads to nodes that exist, except ends in `orphans`.

Two writers, two keys, programs of one node or two with an edge, three ids: an insert, a
race and a deletion fit between two statements.

Proved (`KnowledgeProofs`), for any writers, keys, programs and ids: `StoreTypeCorrect`,
`GraphHasOneNodePerKey` and `GraphEdgesHaveEnds`. The invariant: a writer about to insert a
key outside `raced` is the only one, and no row has the key (`NewKeyAlone`); the ids a writer
found or holds are of rows that exist, or are in `orphans` (`HeldStored`); and a writer that
links holds two ids (`ProgramsKept`, which follows a program of one or two keys through
failures).

`StoreIsKeyed`: `StoreSpec => ImplementsKeyed`. To its readers the store is `KeyedGraph`: a node is
added under an id that none ever had, keeps its key, and is removed with its edges; a key that
has a node gets no second one unless two writers collided; everything else that writers do,
updates of rows that are gone included, is invisible. It rests on the same invariant.

### Session memory: `SessionMemory`

A session is a row in MySQL, a copy in Redis that expires, and a copy in each request that
reads it, changes it and writes it back as a whole to both (`SaveRow`, `RefreshCache`).
`Compress` moves facts beyond the limit to a node of the graph; when that fails they are cut
off all the same. `PinnedKept`: what was pinned stays, and what was cleared does not come
back, whatever expires or fails, unless requests of the session overlapped or one ended
between MySQL and a Redis that has an older copy (`disturbed`). Two requests, three in all,
two facts, a limit of one. The overflow node has one title per session and is replaced by each
overflow, although `docs/knowledge.md:143` has old facts archived.

Proved (`KnowledgeProofs`), for any facts, requests and limits: `MemoryTypeCorrect` and
`PinnedFactsKept`: `MemorySpec => []PinnedKept`. While nothing has disturbed the session, a
request that writes is alone (`WritersAlone`), its copy and the row have what is pinned
(`CopyIsPinned`, `RowIsPinned`), and Redis has it too, except between the two writes of that
request (`CacheIsPinned`).

### Librarian

The first phase of a run: `Fetch` (the newest `Batch` unmarked conversations) or `FallBack`
(the newest `Batch` of all: whenever the first query raises, for a missing column or any other
reason, the code runs one without marks, `roles/librarian.py:212`), `Extract` or
`ExtractsNothing` one after the other, `Mark` at the end; `RunStops` in between. Two runs, by
the scheduler and by hand, overlap. `hasColumn` is whether `librarian_processed` exists in
`claw_task_log`: the docs list it and nothing in the repository creates it; the code works,
differently, without. `ExtractedOnce`: with the column, knowledge is extracted once unless two
runs had the conversation, one stopped before it marked it, or a run whose query failed took
it again although it was marked (`again`). `NoneForgotten`: every completed conversation is
looked at. Two conversations in batches of one make the older one wait behind the newer.
Fairness: the job comes every day and a run goes on (`LibAdvance`); stops are bounded.

Proved (`ProgressProofs`), for any conversations, runs and batches: `LibTypeCorrect` and
`LibExtractsOnce`: `LibSpec => []ExtractedOnce`. The invariant, for conversations outside
`again`: no two runs have the same one (`OneHand`), one that a run has not come to was never
extracted (`PendingNew`), and one that was extracted is marked or in the hand of the run
that extracted it (`DoneIsKept`), so that no run can fetch it unnoticed.

### Retrieval

One retrieval: `Search` (any nodes, in any order: scores are left out), `BeginExpand`, `Round`
and `EndExpand` (the loop of `get_neighbors`, for the first `TopNodes`), `BeginLayout` and then
sections and entries up to `MaxChars`. `NeighborsFound` compares the loop with a definition of
neighbourhood (`Ball`): what it finds is within the rounds it made, not more than the limit,
and all of it unless a `LIMIT` cut a round short. The `LIMIT` of a round counts rows that lead
back, so nodes may be missing although the limit is not reached. The type invariant says
that `used` never exceeds `MaxChars`; the text itself may, by the "..." of a cut entry. All
graphs of three nodes are initial states. `knowledge/embedder.py` and the numbers are not in
the model.

Proved (`KnowledgeProofs`), for any finite set of nodes, any edges, depth and limits:
`RetrievalTypeCorrect` and `NeighborsAreFound`: `RetrievalSpec => []NeighborsFound`. The invariant
ties the loop to the definition: what was visited is within the rounds made (`Searched`), and as
long as no row was cut off it is the whole ball, of which only the frontier can have
neighbours outside (`Exhausted`). That `Ball`, a recursive function, satisfies its equation is
itself proved, from induction over the naturals for sets (`SetInduction`).

## 9. The scheduler: `SchedulerJobs`

| in the model | in the code |
|---|---|
| `yaml`, `writing`, `buffer` | `agents.yaml`, or that it is empty; a change under way, and what it read before it truncated the file |
| `daemon`, `trigger`, `paused` | whether the process runs, and its jobs |
| `running`, `byHand` | runs that came due (one instance per job), runs through `POST /jobs/{id}/trigger` |
| `accepted`, `failed` | history: triggers in answers that said "updated"; jobs whose trigger could not be written |

`update_job_cron` has no `await`, so nothing interleaves with `Reschedule`, `OpenFile` and
`Dump`; the process may end between them. `UpdateKept`: what was answered "updated" holds in
the running scheduler and in the file, unless a later change of the job failed, or the file
was left empty, from which no scheduler starts. An internal job is not in the file: its change
is answered in the same way and gone after a restart (`gateway/routes/system.py:225` says that
changes are persisted). A change of trigger resumes a paused job, and pauses do not survive a
restart. Two jobs of the file, one internal one, two triggers, two changes, one end.

Proved (`OperationsProofs`), for any jobs, triggers, changes and ends: `SchedulerTypeCorrect`
and `ChangedTriggersKept`: `SchedulerSpec => []UpdateKept`. The invariant says what holds
while a change is written: the file is as accepted, or is empty and the buffer holds it
(`FileKept`), and the job of the change has the trigger that is being written
(`TriggersKept`).

`maintainer_never`: the Maintainer's job is a plain `lambda` that returns a coroutine, which
APScheduler calls in a thread and drops (`Awaited`). The run assumes that a job which is not
paused comes due again and again (strong fairness of `Fire`, because a running instance
disables it) and that runs end (`timeout_sec`); `MaintainerRuns`, what
`scheduler/scheduler.py:106` says, is violated.

When a trigger comes due is APScheduler's and not in the model; a numeric day of the week
means another day there than in a crontab.

## 10. Team data

**`RiskAlerts`**: the scores of one student (`rows`), and runs that compute, store and, unless an
agent action makes them, compare the score with the row before the newest. `RedRaised`: when
the scores have turned red an alert was raised, unless (`excused`) the first of them was
stored by a run that does not compare, runs overlapped, or the run failed after it stored
the score. Scores green, yellow and red, three rows, two runs. The alert itself reaches
nobody: the modules of the two messengers are not in the repository. Proved: `RiskTypeCorrect`
and `RedAlwaysRaised`; as long as there is neither an excuse nor an alert, some run is about
to compare, and its red score follows one that was not.

**`Insights`**: a scan goes through topics and the projects, obtains a text for each and saves it
over the row of the same day (`Obtain`, `SelectToday`, `SaveInsight`; the date is taken first).
`OneInsightADay`: a subject has one row a day, whatever fails and whenever the day ends,
unless two scans saved the subject at a time (`crossed`). A text that begins with "[ERROR]" is
saved like another and replaces the day's insight. Two scans, two subjects, two days, two
rows. Proved, for any finite set of subjects: `InsightsTypeCorrect` and `OneInsightOfADay`; a scan
that alone saves a subject finds no row later than the day it looks for (`NothingLater`), and
either the row of that day or none (`FoundRowFits`).

**`TeamSnapshot`**: requests that look up, build and store the cached text, with a clock.
`SnapshotFresh`: a served text is never older than the time Redis keeps it and the longest
request together, whichever request wrote it last; a forced one is never older than its request.
The data of an older build may replace those of a newer one. Two requests, time to live 3,
limit 2, 6 ticks. Proved, for any requests, times and limits: `SnapshotTypeCorrect` and
`SnapshotStaysFresh`; a text is stored at most `Limit` after its data were read, and is gone TTL
after that.

**`Indicators`**: the figures computed of counts: risk with its five signals, innovation, team
health, success, submission, engagement and coverage rates, in integer arithmetic; counts grow
one at a time up to `MaxFigure`, and what a model answers is any of `Replies`, which may be
any numbers: `risk_engine.py` asks for 0 to 100 and uses what `json.loads` gives. (A reply
that is no number raises, and the student is left out of this run; without a reply a default
stands in.) The type invariant says which bounds are left: the innovation index and the rates,
which no model touches, are percentages; the overall risk is at most 100, and not negative
unless the model counts fewer than no recurring blockers (`risk_engine.py:123` has no lower
cap); the health is not negative, and at most 100 if there are not more reports than meetings
and the mean risk is not negative. `SilentNeverRed`: a student of whom there are fewer than
two reports is never red, because a signal that cannot be computed counts 0; but with a mood
below -100 that does not decline, whose signal has no cap (`risk_engine.py:217`), the student
may be. `MCOperations` has replies of -200, -100, 0 and 100. Proved, for any counts and
replies: `IndicatorsTypeCorrect`, by bounds of each part, of weighted sums and of caps in the
integer division of the source, and from the counts that stay within one another (`CountsOK`);
and `SilenceNeverRed`.

**`StudentSync`**: runs that read the users of CoEvo, look for their links, and insert students
with links in one transaction. `OneStudentPerUser`: a user has at most one student row and each
row belongs to the user whose link names it, however runs overlap, fail or die; the unique
key of the links is what it rests on (`Unique`). A run that fails still reports the rows it
had counted, and one that dies stays "running" in the log. Two users, two runs. Proved
(`OperationsProofs`), for any finite set of users, any runs and rows: `StudentTypeCorrect` and
`StudentsAreOne`; a transaction gives each of its users one row, since as many rows as users
that cover all users give none two (`OrderInjective`).

All proofs of this section are in `OperationsProofs`.

## 11. Agents and the web page

**`AgentAnswers`**: an agent asks about members by name; `ResolvedAs` is `resolve_user` (the
first three by id whose name contains the text, the exact one among those; else by two
characters; else by display name), `Suggestions` is `suggest_users`. Names are sequences of
characters, because parts of them are compared; the first members by id are stated as a set,
those with fewer than `FewHits` before them, so that they can be reasoned about. An unknown
name is answered with candidates (`NobodyFound`, `MustConfirm`), a known one by the action
(`PersonContext` and the others), in limited time (`TimesOut`). `ConfirmedIsAnswered`: a
candidate whom the user confirmed is answered about, not asked for again and not taken for
somebody else. It takes names to be unique (`Join`): `users.username` is not declared so
(`models/coevo.py:26`), but the table is the platform's, and no answer by name could tell two
members of one name apart. With three members it holds (`operations`); with a fourth whose
name contains the confirmed one it does not (`agent_names`), because the exact name is looked
for among three (`agent_actions/_helpers.py:86`; `agent_actions/query.py:38` says that the
best was selected). Proved (`KnowledgeProofs`), for any members and names:
`AnswersTypeCorrect` (no answer has more than `MaxSuggested` candidates), and
`ConfirmedIsFound`: under `FewAlike` (no name is part of more than `FewHits` members' names,
its own among them) `ConfirmedIsAnswered` holds. It holds in `operations` and not in
`agent_names`.

**`ChatClient`**: the page posts a message; its reply comes by a frame or by polling. The page
opens `/ws` without a user and never registers one, so that frames addressed to its user do
not reach it and most replies come from polls; "timeout" is no answer to it. `ReplyFinal`: a
reply that is shown is never replaced, by no late frame, late answer or giving up.
`ReplyShown`: every message gets a reply, if only that the page gave up (after 60 polls,
120 s, while tasks may take 300 s). One message is enough, since messages meet in nothing but
the spinner; three polls (`Retries`), two outages. Fairness: the browser runs its timers and settles
requests; nothing is assumed of the network or of the gateway. Proved (`ProgressProofs`), for
any messages, polls and outages: `ChatTypeCorrect`, and `ReplyStaysFinal`: `ChatSpec =>
ReplyFinal`; an awaited message has no reply (`AwaitedOpen`), because only the answer to its
`POST` makes it awaited, and a bubble that failed before then takes none (`NewUnseen`).

## 12. The combined runs

Modules that share no state are checked together: the MC module extends all of them, a
variable `part`, chosen in the initial state, says which one runs, and the others stand still
(`Rest`). The numbers of states so add up instead of multiplying. No interaction is lost by
that: where components share state (the registry, the pool's table, the graph), the module
itself has all of its writers.

| run | modules | states | what it shows |
|---|---|---|---|
| `workers` | `WorkerRegistry`, `WorkerPool` | 517,000 | sections 5 and 7 |
| `progress` | `WsRouting`, `WorkerRegistry`, `CoevoSync`, `Librarian`, `Supervisor`, `ChatClient` | 114,800 | what has to get on does, each thing once; all liveness but that of `task_live` and `workers` |
| `operations` | `SchedulerJobs`, `KnowledgeStore`, `SessionMemory`, `Retrieval`, `RiskAlerts`, `Insights`, `TeamSnapshot`, `Indicators`, `StudentSync`, `CoevoGraph`, `AgentAnswers`, `Execution` | 933,500 | safety of these, with requests and runs overlapping and failing between statements |

`ProgressSpec` and `WorkersSpec` state each module's fairness for the part that runs; so a
condition like `WF_coevoVars(part = "sync" /\ Advance(s))` is `CoevoFairSpec`'s, there.
`ProgressTypesOK` and `OperationsTypesOK` are the type invariants of the parts. In `operations`
the overlapping runs of one kind are interchangeable (`RunsSymmetry`); `progress` has
liveness and no symmetry. Deadlock is not checked in either: when all messages are sent, all
bounds reached or all rows stored, a part is at rest.

All bounds are constants of the modules, listed in the `.cfg` files: numbers of processes,
requests and rows (sets), `MaxFaults`, `MaxErrors`, `MaxStops`, `MaxEnds`, `MaxSignals`,
`MaxOutages` (failures), `MaxTime`, `LastTime`, `MaxNow`, `LastDay` (clocks), `MaxNode`,
`MaxRowId`, `MaxRows`, `MaxStudents`, `MaxPid` (ids), `MaxBegun`, `MaxChanges`, `MaxCalls`,
`MaxMembers`, `MaxFigure` (inputs). Limits of the code (`Limit`, `Batch`, `FactsMax`,
`MaxNodes`, `MaxChars`, `BatchLimit`, `MaxToolIterations`, `FewHits`, `TTL`) have small values
there, chosen so that they are reached.

What is proved of a module holds in these runs: `ProgressImplements` and
`OperationsImplements` say that every behaviour of a combined run is one of each of its
modules' specifications, since whatever part runs the others stutter; `ProgressTypeCorrect` and
`OperationsTypeCorrect` follow from that and the type theorems of all eighteen modules.

Every safety property that a run checks is a theorem; `FailsAreConsecutive`, `NothingSkipped`,
`ConfirmedIsAnswered` and `OneServerPerId` under the conditions their sections state. Some
theorems have no run of their own: `FinalStatusStays`, `NoRowMissing`, the type invariants of
`TaskLifecycle`, `WsRouting`, `WorkerPool` and the others outside the two combined invariants,
and the refinements: the safety parts of `ImplementsResult` and `ImplementsCopy`, which runs
check together with their fairness, `ImplementsMailbox` and `ImplementsKeyed`. Only
model-checked are the liveness properties (`FreeWorkerAdvertised`, `PushedTaskRuns`,
`SnapshotServed`, `LiveWorkerOffered`, `GoneNeverChosen`, `NoneForgotten`,
`ComponentRestarted`, `ReplyShown`) and the fairness in `ImplementsResult` and
`ImplementsCopy`: the installed backends have no rule for fairness and `ENABLED`. Induction
over the naturals can be had for sets (`SetInduction` in `KnowledgeProofs`), which is enough
for a recursive function like `Ball`; what folds, `SelectSeq` and other recursion over
sequences compute is out of reach, and definitions that are reasoned about do without them.

## 13. What is not modelled

`PROJECT.json` lists every component.

- *Action tracker*: nothing calls its extraction, so its reconciliation works on a table that
  nothing fills.
- *Research directions*: the analysis needs a setting that `config/settings.py` does not have
  and never writes; the routes are single statements on one table. (An update that makes a
  direction its own ancestor takes it out of the tree that the page shows.)
- *Growth narratives*: a text is stored and shown; the newest stored one is shown for ever,
  also one that says that its generation failed.
- *The digest* of `scheduler/evolution.py`, `workers/dispatcher.py` and
  `workers/task_poller.py`: nothing calls or imports them.
- *Scripts of skills*: they import `config.database.get_db_pool`, which does not exist, so
  they cannot be loaded; `Execution` has tools that cannot be loaded.
- *Agent actions that write* (`agent_actions/write.py`): their `INSERT` names columns that
  the tables do not have and always fails. Questions about the whole team: read-only.
- *`auto_scale_check`* of the scheduler posts to a route that does not exist.
- *Pages and query routes*: one query each, without state between requests. *Configuration,
  engines, logs, messengers*: no state of the system; failures of Redis and MySQL are actions
  of the modules whose code calls them.
- The contents of prompts, answers and reports, similarity as a number, and embeddings.
