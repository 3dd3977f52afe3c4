------------------------------ MODULE WsRouting ------------------------------
(***************************************************************************)
(* The gateway's ConnectionManager and the coroutines that use it: the     *)
(* socket endpoint, submit_chat (which registers the owner of a task after *)
(* the task was pushed), the task-complete callback of the workers, the    *)
(* watchdog, and the progress listener.                                    *)
(*                                                                         *)
(* A message to a user goes to a snapshot of that user's client ids, one   *)
(* send after another, and every send awaits: connections come and go in   *)
(* between.  What could not be sent is disconnected at the end.  Only an   *)
(* endpoint that ends by WebSocketDisconnect disconnects its id; one that  *)
(* ends by another exception leaves it to the next failing send.           *)
(***************************************************************************)
EXTENDS Naturals, FiniteSets

CONSTANTS
    Sockets,     \* WebSocket connections, each used once
    ClientIds,   \* keys of ConnectionManager.active
    ChosenIds,   \* those that clients pick themselves and may use again
    Users,       \* user ids other than "" and "anonymous"
    Tasks,
    Callbacks,   \* the task-complete callbacks a task can cause
    Others,      \* which of "timeout" (watchdog) and "progress" messages are sent
    MaxDeliveries, \* bound on messages sent
    Anonymous,   \* the user id "anonymous"
    None         \* nothing: no socket, no client id, no owner known

ASSUME ChosenIdsAssumption == ChosenIds \subseteq ClientIds
ASSUME BoundsAssumption == MaxDeliveries \in Nat
ASSUME AbsentAssumption ==
    /\ None \notin Sockets \cup ClientIds \cup Users \cup {Anonymous}
    /\ Anonymous \notin Users
ASSUME KindsAssumption ==
    /\ Callbacks \cap {"queued", "timeout", "progress"} = {}
    /\ Others \subseteq {"timeout", "progress"}

VARIABLES
    sock,        \* the state of each connection
    cid,         \* the client id it connected with
    claims,      \* history: the users it presented itself as
    active,      \* client_id -> WebSocket
    userClients, \* _user_clients
    abandoned,   \* history: ids left behind by an exception and not disconnected since
    taskUser,    \* _task_user
    submit,      \* how far POST /api/chat got with each task
    owner,       \* the user who submitted it
    phase,       \* where each delivery of a message is
    to,          \* the user it is addressed to; None for a broadcast
    todo,        \* client ids still to be served, with their socket in a broadcast
    stale,       \* client ids it failed to serve
    delivered    \* history: which delivery under way reached which socket

socketVars   == <<sock, cid, claims>>
managerVars  == <<active, userClients, abandoned, taskUser>>
taskVars     == <<submit, owner>>
deliveryVars == <<phase, to, todo, stale, delivered>>
vars == <<socketVars, managerVars, taskVars, deliveryVars>>

Kinds == {"queued"} \cup Callbacks \cup Others
Deliveries == Tasks \X Kinds

TypeOK ==
    /\ sock \in [Sockets -> {"new", "open", "broken", "closed"}]
    /\ cid \in [Sockets -> ClientIds \cup {None}]
    /\ claims \in [Sockets -> SUBSET Users]
    /\ active \in [ClientIds -> Sockets \cup {None}]
    /\ userClients \in [Users -> SUBSET ClientIds]
    /\ abandoned \subseteq ClientIds
    /\ taskUser \in [Tasks -> Users \cup {Anonymous, None}]
    /\ submit \in [Tasks -> {"new", "pushed", "registered", "gone"}]
    /\ owner \in [Tasks -> Users \cup {Anonymous, None}]
    /\ phase \in [Deliveries -> {"idle", "sending", "done"}]
    /\ to \in [Deliveries -> Users \cup {Anonymous, None}]
    /\ todo \in [Deliveries -> SUBSET (ClientIds \X (Sockets \cup {None}))]
    /\ stale \in [Deliveries -> SUBSET ClientIds]
    /\ delivered \subseteq Deliveries \X Sockets

Init ==
    /\ sock = [s \in Sockets |-> "new"]
    /\ cid = [s \in Sockets |-> None]
    /\ claims = [s \in Sockets |-> {}]
    /\ active = [c \in ClientIds |-> None]
    /\ userClients = [u \in Users |-> {}]
    /\ abandoned = {}
    /\ taskUser = [t \in Tasks |-> None]
    /\ submit = [t \in Tasks |-> "new"]
    /\ owner = [t \in Tasks |-> None]
    /\ phase = [d \in Deliveries |-> "idle"]
    /\ to = [d \in Deliveries |-> None]
    /\ todo = [d \in Deliveries |-> {}]
    /\ stale = [d \in Deliveries |-> {}]
    /\ delivered = {}

-----------------------------------------------------------------------------
(* disconnect: the client id leaves active and every user's set, whichever *)
(* socket is behind it by now.                                             *)

Disconnected(S) == [c \in ClientIds |-> IF c \in S THEN None ELSE active[c]]

ForgottenNowhere(S) == userClients \* mutant: only active is cleaned
Forgotten(S) == [u \in Users |-> userClients[u] \ S]

Disconnect(S) ==
    /\ active' = Disconnected(S)
    /\ userClients' = Forgotten(S)
    /\ abandoned' = abandoned \ S

-----------------------------------------------------------------------------
(* The socket endpoint. *)

\* An id the server makes up is new; one the client brings may be in use.
Connect(s, c, u) ==
    /\ sock[s] = "new"
    /\ c \in ChosenIds \/ \A r \in Sockets : cid[r] # c
    /\ sock' = [sock EXCEPT ![s] = "open"]
    /\ cid' = [cid EXCEPT ![s] = c]
    /\ active' = [active EXCEPT ![c] = s]
    /\ IF u = None
       THEN UNCHANGED <<claims, userClients>>
       ELSE /\ claims' = [claims EXCEPT ![s] = {u}]
            /\ userClients' = [userClients EXCEPT ![u] = @ \cup {c}]
    /\ UNCHANGED <<abandoned, taskUser, taskVars, deliveryVars>>

\* A "register" message; the acknowledgement goes to whoever is behind the
\* client id, and a failure to send it disconnects that id.  A message that
\* arrived before the connection broke is still handled.
Receive(s, u) ==
    /\ sock[s] \in {"open", "broken"}
    /\ claims' = [claims EXCEPT ![s] = @ \cup {u}]
    /\ LET r == active[cid[s]]
           registered == [userClients EXCEPT ![u] = @ \cup {cid[s]}]
       IN  \/ /\ r # None => sock[r] # "closed"
              /\ userClients' = registered
              /\ UNCHANGED <<active, abandoned>>
           \/ /\ r # None /\ sock[r] # "open"
              /\ active' = Disconnected({cid[s]})
              /\ abandoned' = abandoned \ {cid[s]}
              /\ userClients' = [v \in Users |-> registered[v] \ {cid[s]}]
    /\ UNCHANGED <<sock, cid, taskUser, taskVars, deliveryVars>>

\* The connection breaks; the server has not noticed yet.
Break(s) ==
    /\ sock[s] = "open"
    /\ sock' = [sock EXCEPT ![s] = "broken"]
    /\ UNCHANGED <<cid, claims, managerVars, taskVars, deliveryVars>>

\* receive_text raises WebSocketDisconnect.
EndpointEnds(s) ==
    /\ sock[s] = "broken"
    /\ sock' = [sock EXCEPT ![s] = "closed"]
    /\ Disconnect({cid[s]})
    /\ UNCHANGED <<cid, claims, taskUser, taskVars, deliveryVars>>

\* It raises anything else, which nobody catches: KeyError for a frame without text,
\* RuntimeError after a send that failed.  The server closes the connection, and the
\* manager keeps its id.
EndpointRaises(s) ==
    /\ sock[s] \in {"open", "broken"}
    /\ sock' = [sock EXCEPT ![s] = "closed"]
    /\ abandoned' = abandoned \cup {cid[s]}
    /\ UNCHANGED <<cid, claims, active, userClients, taskUser, taskVars, deliveryVars>>

-----------------------------------------------------------------------------
(* Deliveries. *)

Everyone == {<<c, active[c]>> : c \in {c \in ClientIds : active[c] # None}}

\* mutant: without a connection of the user, everybody gets it
ToUserOrAll(u) ==
    IF u \in Users /\ userClients[u] # {} THEN userClients[u] \X {None} ELSE Everyone
\* Client ids of the user, whose sockets are looked up when their turn comes;
\* a broadcast when the user is "" or "anonymous".
ToUser(u) == IF u \in Users THEN userClients[u] \X {None} ELSE Everyone

Begin(d, u, targets) ==
    /\ phase[d] = "idle"
    /\ Cardinality({e \in Deliveries : phase[e] # "idle"}) < MaxDeliveries
    /\ phase' = [phase EXCEPT ![d] = "sending"]
    /\ to' = [to EXCEPT ![d] = u]
    /\ todo' = [todo EXCEPT ![d] = targets]
    /\ UNCHANGED <<stale, delivered>>

\* mutant: the first failure ends the loop
RestAfterFailureNone(d, p) == {}
RestAfterFailure(d, p) == todo[d] \ {p}

StaleAlways(d, p, ok) == stale[d] \cup {p[1]} \* mutant: also after success
StaleAfter(d, p, ok) == IF ok THEN stale[d] ELSE stale[d] \cup {p[1]}

\* One send.  On a broken connection it may raise or disappear.
SendOne(d, p) ==
    LET s == IF p[2] = None THEN active[p[1]] ELSE p[2]
    IN  /\ phase[d] = "sending"
        /\ p \in todo[d]
        /\ \/ /\ s # None /\ sock[s] \in {"open", "broken"}
              /\ todo' = [todo EXCEPT ![d] = @ \ {p}]
              /\ stale' = [stale EXCEPT ![d] = StaleAfter(d, p, TRUE)]
              /\ delivered' = IF sock[s] = "open" THEN delivered \cup {<<d, s>>}
                                                  ELSE delivered
           \/ /\ s # None => sock[s] # "open"
              /\ todo' = [todo EXCEPT ![d] = RestAfterFailure(d, p)]
              /\ stale' = [stale EXCEPT ![d] = StaleAfter(d, p, FALSE)]
              /\ UNCHANGED delivered
        /\ UNCHANGED <<socketVars, managerVars, taskVars, phase, to>>

\* mutant: the entry goes, and with it the key
Unregistered(t) == [taskUser EXCEPT ![t] = None]

\* The loop is over: disconnect what failed; a callback then forgets the owner.
EndDelivery(d) ==
    /\ phase[d] = "sending"
    /\ todo[d] = {}
    /\ phase' = [phase EXCEPT ![d] = "done"]
    /\ stale' = [stale EXCEPT ![d] = {}]
    /\ Disconnect(stale[d])
    /\ taskUser' = IF d[2] \in Callbacks THEN Unregistered(d[1]) ELSE taskUser
    /\ delivered' = {r \in delivered : r[1] # d}
    /\ UNCHANGED <<socketVars, taskVars, to, todo>>

-----------------------------------------------------------------------------
(* Who sends. *)

SubmitPush(t, u) ==
    /\ submit[t] = "new"
    /\ submit' = [submit EXCEPT ![t] = "pushed"]
    /\ owner' = [owner EXCEPT ![t] = u]
    /\ UNCHANGED <<socketVars, managerVars, deliveryVars>>

\* After the row and the conversation were stored.
RegisterTask(t) ==
    /\ submit[t] = "pushed"
    /\ submit' = [submit EXCEPT ![t] = "registered"]
    /\ taskUser' = [taskUser EXCEPT ![t] = owner[t]]
    /\ Begin(<<t, "queued">>, owner[t], ToUser(owner[t]))
    /\ UNCHANGED <<socketVars, active, userClients, abandoned, owner>>

\* POST /api/internal/task-complete: the owner is looked up, "" if unknown.
Callback(t, k) ==
    /\ submit[t] # "new"
    /\ Begin(<<t, k>>, taskUser[t], ToUser(taskUser[t]))
    /\ UNCHANGED <<socketVars, managerVars, taskVars>>

\* The watchdog takes the owner from the row.
WatchdogNotifies(t) ==
    /\ "timeout" \in Others
    /\ submit[t] \in {"registered", "gone"}
    /\ Begin(<<t, "timeout">>, owner[t], ToUser(owner[t]))
    /\ UNCHANGED <<socketVars, managerVars, taskVars>>

\* Progress events of workers, from Redis.
Progress(t) ==
    /\ "progress" \in Others
    /\ submit[t] # "new"
    /\ Begin(<<t, "progress">>, None, Everyone)
    /\ UNCHANGED <<socketVars, managerVars, taskVars>>

\* The gateway process is replaced: the manager starts empty.
Restart ==
    /\ sock' = [s \in Sockets |-> IF sock[s] = "new" THEN "new" ELSE "closed"]
    /\ active' = [c \in ClientIds |-> None]
    /\ userClients' = [u \in Users |-> {}]
    /\ abandoned' = {}
    /\ taskUser' = [t \in Tasks |-> None]
    /\ submit' = [t \in Tasks |-> IF submit[t] = "pushed" THEN "gone" ELSE submit[t]]
    /\ phase' = [d \in Deliveries |-> IF phase[d] = "sending" THEN "done" ELSE phase[d]]
    /\ todo' = [d \in Deliveries |-> {}]
    /\ stale' = [d \in Deliveries |-> {}]
    /\ delivered' = {}
    /\ UNCHANGED <<cid, claims, owner, to>>

-----------------------------------------------------------------------------

SocketStep ==
    \E s \in Sockets : \/ \E c \in ClientIds, u \in Users \cup {None} : Connect(s, c, u)
                       \/ \E u \in Users : Receive(s, u)
                       \/ Break(s)
                       \/ EndpointEnds(s)
                       \/ EndpointRaises(s)

DeliveryStep ==
    \E d \in Deliveries : \/ \E p \in todo[d] : SendOne(d, p)
                          \/ EndDelivery(d)

TaskStep ==
    \E t \in Tasks : \/ \E u \in Users \cup {Anonymous} : SubmitPush(t, u)
                     \/ RegisterTask(t)
                     \/ \E k \in Callbacks : Callback(t, k)
                     \/ WatchdogNotifies(t)
                     \/ Progress(t)

Next == SocketStep \/ DeliveryStep \/ TaskStep \/ Restart

Spec == Init /\ [][Next]_vars

\* A delivery that has something to do goes on; nothing else is certain.
DeliveryRuns(d) == EndDelivery(d) \/ \E p \in todo[d] : SendOne(d, p)
FairSpec == Spec /\ \A d \in Deliveries : WF_vars(DeliveryRuns(d))

-----------------------------------------------------------------------------
(* Properties *)

\* Nothing is left behind but what an exception abandoned: when the last connection
\* that used a client id has ended, the id is neither active nor in any user's set,
\* although other deliveries and late "register" messages used it meanwhile.  An id whose
\* endpoint ended without disconnect stays until a send to it fails, or a later connection
\* under it ends; then it is gone everywhere as well.
NoGhost ==
    \A c \in ClientIds \ abandoned :
        (\A s \in Sockets : cid[s] = c => sock[s] = "closed")
            => active[c] = None /\ \A u \in Users : c \notin userClients[u]

\* A connection that works, under an id the server made up, is the one behind that
\* id: no delivery and no other connection's end can cut it off.
LiveIsReachable ==
    \A s \in Sockets :
        sock[s] = "open" /\ cid[s] \notin ChosenIds => active[cid[s]] = s

\* What is addressed to a user reaches only connections of that user, although the
\* snapshot of client ids is older than the sends.
DeliveredToAddressee ==
    \A d \in Deliveries, s \in Sockets :
        <<d, s>> \in delivered /\ to[d] \in Users /\ cid[s] \notin ChosenIds
            => to[d] \in claims[s]

Awaits(s, d) ==
    /\ phase[d] = "sending" /\ \E p \in todo[d] : p[1] = cid[s]
    /\ sock[s] = "open" /\ cid[s] \notin ChosenIds

\* A connection that failed does not keep a message from those after it: every
\* working connection in the snapshot gets it, or ends first.
SnapshotServed ==
    \A d \in Deliveries, s \in Sockets :
        Awaits(s, d) ~> (<<d, s>> \in delivered \/ sock[s] # "open")

\* Seen from the connections, deliveries are letters, each handed to a connection at most
\* once, under whichever of its client ids the snapshot had it.
Mail == INSTANCE Mailbox WITH
    Letters <- Deliveries, Readers <- Sockets, Persons <- Users,
    Addressees <- Users \cup {Anonymous, None}, Nobody <- None,
    seen <- {s \in Sockets : sock[s] # "new"}, working <- {s \in Sockets : sock[s] = "open"},
    shared <- {s \in Sockets : cid[s] \in ChosenIds}, guests <- claims,
    stage <- phase, addressed <- to, handed <- delivered
ImplementsMailbox == Mail!Spec

-----------------------------------------------------------------------------
(* What comments in the code say and the code does not do *)

\* gateway/routes/api.py:52, "targeted push to the owner of the task; without a
\* connection it is silently dropped": results reach nobody else.
ResultOnlyToOwner ==
    \A t \in Tasks, k \in Callbacks, s \in Sockets :
        /\ <<<<t, k>>, s>> \in delivered
        /\ owner[t] \in Users
        /\ cid[s] \notin ChosenIds
        => owner[t] \in claims[s]

=============================================================================
