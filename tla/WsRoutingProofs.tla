--------------------------- MODULE WsRoutingProofs ---------------------------
(***************************************************************************)
(* Theorems about WsRouting for every value of its constants.  Routes says *)
(* what ties the manager's two maps, and the client ids that deliveries    *)
(* carry across their awaits, to the connections; Once that a delivery has *)
(* a client id, and so a connection, once.  With them, WsRouting implements*)
(* Mailbox.                                                                *)
(***************************************************************************)
EXTENDS WsRouting, TLAPS

Up(s) == sock[s] \in {"open", "broken"}

\* A connection has a client id once it is connected; without this TypeOK is not
\* inductive, because the endpoint registers its own id.
Identified == \A s \in Sockets : cid[s] = None <=> sock[s] = "new"

TypeInv == TypeOK /\ Identified

\* An id the server made up belongs to one connection.
Unique ==
    \A r, s \in Sockets :
        cid[r] = cid[s] /\ cid[s] # None /\ cid[s] \notin ChosenIds => r = s

\* Behind an id is a connection that is up, unless an exception abandoned the id.
Linked ==
    \A c \in ClientIds : active[c] # None =>
        cid[active[c]] = c /\ sock[active[c]] # "new" /\ (Up(active[c]) \/ c \in abandoned)

Claimed ==
    \A u \in Users : \A c \in userClients[u] :
        \E s \in Sockets : cid[s] = c /\ (Up(s) \/ c \in abandoned) /\ u \in claims[s]

Targets ==
    \A d \in Deliveries : \A p \in todo[d] :
        /\ \E s \in Sockets : cid[s] = p[1]
        /\ p[2] # None => cid[p[2]] = p[1]
        /\ to[d] \in Users =>
              /\ p[2] = None
              /\ \E s \in Sockets : cid[s] = p[1] /\ to[d] \in claims[s]

Failed ==
    \A d \in Deliveries : \A c \in stale[d] :
        /\ \E s \in Sockets : cid[s] = c
        /\ c \notin ChosenIds => \A s \in Sockets : cid[s] = c => sock[s] # "open"

Heard ==
    \A d \in Deliveries, s \in Sockets :
        <<d, s>> \in delivered => sock[s] # "new" /\ phase[d] # "idle"

Routes ==
    /\ Heard /\ Unique /\ Linked /\ Claimed /\ Targets /\ Failed
    /\ LiveIsReachable /\ DeliveredToAddressee

-----------------------------------------------------------------------------

LEMMA ToUserType ==
  ASSUME TypeOK, NEW u \in Users \cup {Anonymous, None}
  PROVE  ToUser(u) \in SUBSET (ClientIds \X (Sockets \cup {None}))
BY DEF ToUser, Everyone, TypeOK

LEMMA BeginType ==
  ASSUME TypeOK, NEW d \in Deliveries, NEW u \in Users \cup {Anonymous, None},
         NEW S \in SUBSET (ClientIds \X (Sockets \cup {None})), Begin(d, u, S)
  PROVE  /\ phase' \in [Deliveries -> {"idle", "sending", "done"}]
         /\ to' \in [Deliveries -> Users \cup {Anonymous, None}]
         /\ todo' \in [Deliveries -> SUBSET (ClientIds \X (Sockets \cup {None}))]
         /\ stale' \in [Deliveries -> SUBSET ClientIds]
         /\ delivered' \subseteq Deliveries \X Sockets
BY DEF Begin, TypeOK

LEMMA TypeInvInvariant == Spec => []TypeInv
<1>1. Init => TypeInv
  BY BoundsAssumption DEF Init, TypeInv, TypeOK, Identified, Deliveries
<1>2. TypeInv /\ [Next]_vars => TypeOK'
  <2> SUFFICES ASSUME TypeOK, Identified, [Next]_vars
               PROVE  TypeOK'
    BY DEF TypeInv
  <2> USE DEF socketVars, managerVars, taskVars, deliveryVars
  <2>1. ASSUME NEW s \in Sockets, NEW c \in ClientIds, NEW u \in Users \cup {None},
               Connect(s, c, u)
        PROVE  TypeOK'
    BY <2>1, AbsentAssumption DEF Connect, TypeOK
  <2>2. ASSUME NEW s \in Sockets, NEW u \in Users, Receive(s, u)
        PROVE  TypeOK'
    <3>1. claims' \in [Sockets -> SUBSET Users]
      BY <2>2 DEF Receive, TypeOK
    <3>2. cid[s] \in ClientIds
      BY <2>2 DEF Receive, TypeOK, Identified
    <3> QED  BY <2>2, <3>1, <3>2 DEF Receive, TypeOK, Disconnected
  <2>3. ASSUME NEW s \in Sockets, Break(s) \/ EndpointEnds(s) \/ EndpointRaises(s)
        PROVE  TypeOK'
    BY <2>3, AbsentAssumption
       DEF Break, EndpointEnds, EndpointRaises, Disconnect, Disconnected, Forgotten, Identified,
           TypeOK
  <2>4. ASSUME NEW d \in Deliveries, NEW p \in todo[d], SendOne(d, p)
        PROVE  TypeOK'
    BY <2>4 DEF SendOne, TypeOK, StaleAfter, RestAfterFailure
  <2>5. ASSUME NEW d \in Deliveries, EndDelivery(d)
        PROVE  TypeOK'
    BY <2>5 DEF EndDelivery, Disconnect, Disconnected, Forgotten, Unregistered, TypeOK,
                Deliveries
  <2>6. ASSUME NEW t \in Tasks, NEW u \in Users \cup {Anonymous}, SubmitPush(t, u)
        PROVE  TypeOK'
    BY <2>6 DEF SubmitPush, TypeOK
  <2>7. ASSUME NEW t \in Tasks,
               \/ RegisterTask(t) \/ (\E k \in Callbacks : Callback(t, k))
               \/ WatchdogNotifies(t) \/ Progress(t)
        PROVE  TypeOK'
    <3>1. /\ owner[t] \in Users \cup {Anonymous, None}
          /\ taskUser[t] \in Users \cup {Anonymous, None}
      BY DEF TypeOK
    <3>2. Everyone \in SUBSET (ClientIds \X (Sockets \cup {None}))
      BY DEF Everyone, TypeOK
    <3>3. CASE RegisterTask(t)
      BY <3>1, <3>3, BeginType, ToUserType DEF RegisterTask, TypeOK, Deliveries, Kinds
    <3>4. ASSUME NEW k \in Callbacks, Callback(t, k)
          PROVE  TypeOK'
      BY <3>1, <3>4, BeginType, ToUserType DEF Callback, TypeOK, Deliveries, Kinds
    <3>5. CASE WatchdogNotifies(t)
      BY <3>1, <3>5, BeginType, ToUserType DEF WatchdogNotifies, TypeOK, Deliveries, Kinds
    <3>6. CASE Progress(t)
      BY <3>2, <3>6, BeginType DEF Progress, TypeOK, Deliveries, Kinds
    <3> QED  BY <2>7, <3>3, <3>4, <3>5, <3>6
  <2>8. CASE Restart
    BY <2>8, BoundsAssumption DEF Restart, TypeOK
  <2>9. CASE UNCHANGED vars
    BY <2>9 DEF vars, TypeOK
  <2> QED
    BY <2>1, <2>2, <2>3, <2>4, <2>5, <2>6, <2>7, <2>8, <2>9
       DEF Next, SocketStep, DeliveryStep, TaskStep
<1>3. TypeInv /\ [Next]_vars => Identified'
  <2> SUFFICES ASSUME TypeInv, [Next]_vars
               PROVE  Identified'
    OBVIOUS
  <2> USE AbsentAssumption
      DEF TypeInv, TypeOK, Identified, socketVars, managerVars, taskVars, deliveryVars
  <2>1. CASE SocketStep
    BY <2>1 DEF SocketStep, Connect, Receive, Break, EndpointEnds, EndpointRaises
  <2>2. CASE DeliveryStep
    BY <2>2 DEF DeliveryStep, SendOne, EndDelivery
  <2>3. CASE TaskStep
    BY <2>3 DEF TaskStep, SubmitPush, RegisterTask, Callback, WatchdogNotifies, Progress
  <2>4. CASE Restart
    BY <2>4 DEF Restart
  <2>5. CASE UNCHANGED vars
    BY <2>5 DEF vars
  <2> QED  BY <2>1, <2>2, <2>3, <2>4, <2>5 DEF Next
<1> QED  BY <1>1, <1>2, <1>3, PTL DEF Spec, TypeInv

\* The variables keep their types.
THEOREM WsTypeCorrect == Spec => []TypeOK
BY TypeInvInvariant, PTL DEF TypeInv

-----------------------------------------------------------------------------
(* Routes, one lemma per kind of step. *)

LEMMA ConnectRoutes ==
  ASSUME TypeInv, Routes, NEW s \in Sockets, NEW c \in ClientIds,
         NEW u \in Users \cup {None}, Connect(s, c, u)
  PROVE  Routes'
<1> USE AbsentAssumption DEF TypeInv, TypeOK
<1>1. /\ cid[s] = None /\ cid'[s] = c /\ sock'[s] = "open" /\ sock[s] = "new"
      /\ \A r \in Sockets : r # s => /\ cid'[r] = cid[r] /\ sock'[r] = sock[r]
                                     /\ claims'[r] = claims[r]
      /\ active'[c] = s
      /\ \A e \in ClientIds : e # c => active'[e] = active[e]
      /\ UNCHANGED <<deliveryVars, abandoned>>
      /\ c \notin ChosenIds => \A r \in Sockets : cid[r] # c
      /\ \A v \in Users : \A e \in userClients'[v] : e \in userClients[v] \/ (e = c /\ v = u)
      /\ u \in Users => claims'[s] = {u}
  BY DEF Connect, Identified
<1>2. \A r \in Sockets : cid[r] # None => r # s
  BY <1>1
<1>3. Unique' /\ Linked'
  BY <1>1, <1>2 DEF Routes, Unique, Linked, Up
<1>4. Claimed'
  <2> SUFFICES ASSUME NEW v \in Users, NEW e \in userClients'[v]
               PROVE  \E r \in Sockets :
                         cid'[r] = e /\ (Up(r)' \/ e \in abandoned') /\ v \in claims'[r]
    BY DEF Claimed
  <2>1. CASE e \in userClients[v]
    <3>1. PICK r \in Sockets : cid[r] = e /\ (Up(r) \/ e \in abandoned) /\ v \in claims[r]
      BY <2>1 DEF Routes, Claimed
    <3>2. r # s
      BY <1>1, <3>1
    <3> QED  BY <1>1, <3>1, <3>2 DEF Up
  <2>2. CASE e = c /\ v = u
    BY <1>1, <2>2 DEF Up
  <2> QED  BY <1>1, <2>1, <2>2
<1>5. Targets'
  <2> SUFFICES ASSUME NEW d \in Deliveries, NEW p \in todo[d]
               PROVE  /\ \E r \in Sockets : cid'[r] = p[1]
                      /\ p[2] # None => cid'[p[2]] = p[1]
                      /\ to[d] \in Users =>
                            /\ p[2] = None
                            /\ \E r \in Sockets : cid'[r] = p[1] /\ to[d] \in claims'[r]
    BY <1>1 DEF Targets, deliveryVars
  <2>1. p[1] \in ClientIds /\ p[2] \in Sockets \cup {None}
    OBVIOUS
  <2>2. \A r \in Sockets : cid[r] = p[1] => r # s /\ cid'[r] = p[1] /\ claims'[r] = claims[r]
    BY <1>1, <2>1
  <2> QED  BY <2>1, <2>2 DEF Routes, Targets
<1>6. Failed'
  <2> SUFFICES ASSUME NEW d \in Deliveries, NEW e \in stale[d]
               PROVE  /\ \E r \in Sockets : cid'[r] = e
                      /\ e \notin ChosenIds => \A r \in Sockets : cid'[r] = e => sock'[r] # "open"
    BY <1>1 DEF Failed, deliveryVars
  <2>1. PICK r \in Sockets : cid[r] = e
    BY DEF Routes, Failed
  <2>2. r # s
    BY <1>1, <2>1
  <2>3. e \notin ChosenIds => e # c
    BY <1>1, <2>1
  <2> QED  BY <1>1, <2>1, <2>2, <2>3 DEF Routes, Failed
<1>7. LiveIsReachable'
  BY <1>1, <1>2 DEF Routes, LiveIsReachable, Identified
<1>8. DeliveredToAddressee'
  <2> SUFFICES ASSUME NEW d \in Deliveries, NEW r \in Sockets, <<d, r>> \in delivered,
                      to[d] \in Users, cid'[r] \notin ChosenIds
               PROVE  to[d] \in claims'[r]
    BY <1>1 DEF DeliveredToAddressee, deliveryVars
  <2>1. r # s
    BY <1>1 DEF Routes, Heard
  <2> QED  BY <1>1, <2>1 DEF Routes, DeliveredToAddressee
<1>9. Heard'
  BY <1>1 DEF Routes, Heard, deliveryVars
<1> QED  BY <1>3, <1>4, <1>5, <1>6, <1>7, <1>8, <1>9 DEF Routes

\* Ids are disconnected none of which, unless chosen, has a working connection; a
\* connection that ends is one of them.
LEMMA DisconnectRoutes ==
  ASSUME TypeInv, Routes, NEW S \in SUBSET ClientIds,
         active' = Disconnected(S), abandoned' = abandoned \ S,
         \A u \in Users : userClients'[u] \subseteq userClients[u] \ S,
         UNCHANGED <<cid, to, todo>>, delivered' \subseteq delivered,
         \A d \in Deliveries : phase'[d] = "idle" => phase[d] = "idle",
         \A r \in Sockets :
            /\ claims[r] \subseteq claims'[r]
            /\ \/ sock'[r] = sock[r]
               \/ cid[r] \in S /\ sock[r] # "new" /\ sock'[r] = "closed"
            /\ cid[r] \in S \ ChosenIds => sock'[r] # "open",
         \A d \in Deliveries : stale'[d] \subseteq stale[d]
  PROVE  Routes'
<1> USE AbsentAssumption DEF TypeInv, TypeOK, Disconnected
<1>1. Unique' /\ Heard'
  BY DEF Routes, Unique, Heard
<1>2. Linked'
  <2> SUFFICES ASSUME NEW c \in ClientIds, active'[c] # None
               PROVE  /\ cid'[active'[c]] = c /\ sock'[active'[c]] # "new"
                      /\ sock'[active'[c]] \in {"open", "broken"} \/ c \in abandoned'
    BY DEF Linked, Up
  <2>1. c \notin S /\ active'[c] = active[c] /\ active[c] \in Sockets
    OBVIOUS
  <2>2. /\ cid[active[c]] = c /\ sock[active[c]] # "new"
        /\ Up(active[c]) \/ c \in abandoned
    BY <2>1 DEF Routes, Linked
  <2> QED  BY <2>1, <2>2 DEF Up
<1>3. Claimed'
  <2> SUFFICES ASSUME NEW u \in Users, NEW c \in userClients[u], c \notin S
               PROVE  \E s \in Sockets :
                         cid[s] = c /\ (Up(s)' \/ c \in abandoned') /\ u \in claims'[s]
    BY DEF Claimed
  <2>1. PICK s \in Sockets : cid[s] = c /\ (Up(s) \/ c \in abandoned) /\ u \in claims[s]
    BY DEF Routes, Claimed
  <2>2. sock'[s] = sock[s]
    BY <2>1
  <2> QED  BY <2>1, <2>2 DEF Up
<1>4. Targets'
  <2> SUFFICES ASSUME NEW d \in Deliveries, NEW p \in todo[d]
               PROVE  /\ \E s \in Sockets : cid[s] = p[1]
                      /\ p[2] # None => cid[p[2]] = p[1]
                      /\ to[d] \in Users =>
                            /\ p[2] = None
                            /\ \E s \in Sockets : cid[s] = p[1] /\ to[d] \in claims'[s]
    BY DEF Targets
  <2> QED  BY DEF Routes, Targets
<1>5. Failed'
  BY DEF Routes, Failed
<1>6. LiveIsReachable'
  <2> SUFFICES ASSUME NEW s \in Sockets, sock'[s] = "open", cid[s] \notin ChosenIds
               PROVE  active'[cid[s]] = s
    BY DEF LiveIsReachable
  <2>1. sock[s] = "open" /\ cid[s] \notin S /\ cid[s] \in ClientIds
    BY DEF Identified
  <2> QED  BY <2>1 DEF Routes, LiveIsReachable
<1>7. DeliveredToAddressee'
  BY DEF Routes, DeliveredToAddressee
<1> QED  BY <1>1, <1>2, <1>3, <1>4, <1>5, <1>6, <1>7 DEF Routes

\* An endpoint ends by an exception: what its id leads to is abandoned with it.
LEMMA RaiseRoutes ==
  ASSUME TypeInv, Routes, NEW s \in Sockets, EndpointRaises(s)
  PROVE  Routes'
<1>1. /\ cid[s] \in ClientIds /\ sock[s] # "new" /\ sock' = [sock EXCEPT ![s] = "closed"]
      /\ abandoned' = abandoned \cup {cid[s]}
      /\ UNCHANGED <<cid, claims, active, userClients, deliveryVars>>
  BY AbsentAssumption DEF EndpointRaises, TypeInv, TypeOK, Identified
<1>2. \A r \in Sockets : /\ Up(r) => Up(r)' \/ cid[r] \in abandoned'
                         /\ sock'[r] = "open" => sock[r] = "open"
                         /\ sock'[r] = "new" <=> sock[r] = "new"
  BY <1>1 DEF Up, TypeInv, TypeOK
<1>3. Heard' /\ Unique' /\ Targets' /\ Failed' /\ DeliveredToAddressee'
  BY <1>1, <1>2
     DEF Routes, Heard, Unique, Targets, Failed, DeliveredToAddressee, deliveryVars
<1>4. Linked' /\ Claimed'
  BY <1>1, <1>2, AbsentAssumption DEF Routes, Linked, Claimed, TypeInv, TypeOK
<1>5. LiveIsReachable'
  BY <1>1, <1>2 DEF Routes, LiveIsReachable
<1> QED  BY <1>3, <1>4, <1>5 DEF Routes

LEMMA ReceiveRoutes ==
  ASSUME TypeInv, Routes, NEW s \in Sockets, NEW u \in Users, Receive(s, u)
  PROVE  Routes'
<1> USE AbsentAssumption DEF TypeInv, TypeOK
<1>1. /\ cid[s] \in ClientIds /\ Up(s) /\ u \in claims'[s]
      /\ \A r \in Sockets : claims[r] \subseteq claims'[r]
      /\ UNCHANGED <<sock, cid, phase, to, todo, delivered, stale>>
  BY DEF Receive, Identified, Up, deliveryVars
<1>2. CASE /\ userClients' = [userClients EXCEPT ![u] = @ \cup {cid[s]}]
           /\ UNCHANGED <<active, abandoned>>
  <2>1. Heard' /\ Unique' /\ Linked' /\ Failed' /\ LiveIsReachable'
    BY <1>1, <1>2 DEF Routes, Heard, Unique, Linked, Failed, LiveIsReachable, Up
  <2>2. Claimed'
    BY <1>1, <1>2 DEF Routes, Claimed, Up
  <2>3. Targets'
    BY <1>1, <1>2 DEF Routes, Targets
  <2>4. DeliveredToAddressee'
    BY <1>1, <1>2 DEF Routes, DeliveredToAddressee
  <2> QED  BY <2>1, <2>2, <2>3, <2>4 DEF Routes
<1>3. CASE /\ active[cid[s]] # None /\ sock[active[cid[s]]] # "open"
           /\ active' = Disconnected({cid[s]}) /\ abandoned' = abandoned \ {cid[s]}
           /\ userClients' = [v \in Users |->
                 [userClients EXCEPT ![u] = @ \cup {cid[s]}][v] \ {cid[s]}]
  <2>1. \A r \in Sockets : cid[r] \in {cid[s]} \ ChosenIds => sock'[r] # "open"
    <3> SUFFICES ASSUME NEW r \in Sockets, cid[r] = cid[s], cid[r] \notin ChosenIds
                 PROVE  sock[r] # "open"
      BY <1>1
    <3>1. sock[r] = "open" => active[cid[r]] = r
      BY DEF Routes, LiveIsReachable
    <3> QED  BY <1>3, <3>1
  <2>2. \A v \in Users : userClients'[v] \subseteq userClients[v] \ {cid[s]}
    BY <1>3
  <2>3. /\ {cid[s]} \in SUBSET ClientIds
        /\ active' = Disconnected({cid[s]}) /\ abandoned' = abandoned \ {cid[s]}
        /\ UNCHANGED <<cid, to, todo, delivered>>
        /\ \A d \in Deliveries : phase'[d] = "idle" => phase[d] = "idle"
        /\ \A d \in Deliveries : stale'[d] \subseteq stale[d]
    BY <1>1, <1>3
  <2>4. \A r \in Sockets :
           /\ claims[r] \subseteq claims'[r]
           /\ \/ sock'[r] = sock[r]
              \/ cid[r] \in {cid[s]} /\ sock[r] # "new" /\ sock'[r] = "closed"
           /\ cid[r] \in {cid[s]} \ ChosenIds => sock'[r] # "open"
    BY <1>1, <2>1
  <2> HIDE DEF TypeInv, TypeOK, Disconnected
  <2> QED  BY <2>2, <2>3, <2>4, DisconnectRoutes
<1> QED  BY <1>2, <1>3 DEF Receive

LEMMA SendRoutes ==
  ASSUME TypeInv, Routes, NEW d \in Deliveries, NEW p \in todo[d], SendOne(d, p)
  PROVE  Routes'
<1> USE AbsentAssumption DEF TypeInv, TypeOK
<1> DEFINE s == IF p[2] = None THEN active[p[1]] ELSE p[2]
<1>1. /\ UNCHANGED <<socketVars, managerVars, to>>
      /\ \A e \in Deliveries : todo'[e] \subseteq todo[e]
      /\ \A e \in Deliveries : stale'[e] \subseteq stale[e] \cup (IF e = d THEN {p[1]} ELSE {})
  BY DEF SendOne, StaleAfter, RestAfterFailure
<1>2. /\ p[1] \in ClientIds /\ p[2] \in Sockets \cup {None} /\ s \in Sockets \cup {None}
      /\ \E r \in Sockets : cid[r] = p[1]
      /\ s # None => cid[s] = p[1]
  BY DEF Routes, Targets, Linked
<1>3. Heard' /\ Unique' /\ Linked' /\ Claimed' /\ LiveIsReachable'
  <2>1. /\ delivered' \subseteq delivered \cup {<<d, s>>}
        /\ delivered' # delivered => sock[s] = "open"
    BY DEF SendOne
  <2>2. Heard'
    BY <1>1, <1>2, <2>1 DEF SendOne, Routes, Heard, socketVars
  <2> QED
    BY <1>1, <2>2 DEF Routes, Unique, Linked, Claimed, LiveIsReachable, Up, socketVars,
                      managerVars
<1>4. Targets'
  BY <1>1 DEF Routes, Targets, socketVars
<1>5. Failed'
  <2>1. CASE stale'[d] = stale[d] \cup {p[1]} /\ (s # None => sock[s] # "open")
    <3>1. p[1] \notin ChosenIds => \A r \in Sockets : cid[r] = p[1] => sock[r] # "open"
      BY <1>2, <2>1 DEF Routes, LiveIsReachable, Unique
    <3> QED  BY <1>1, <1>2, <2>1, <3>1 DEF Routes, Failed, socketVars
  <2>2. CASE stale' = stale
    BY <1>1, <2>2 DEF Routes, Failed, socketVars
  <2> QED  BY <2>1, <2>2 DEF SendOne, StaleAfter
<1>6. DeliveredToAddressee'
  <2>1. CASE delivered' = delivered
    BY <1>1, <2>1 DEF Routes, DeliveredToAddressee, socketVars
  <2>2. CASE delivered' = delivered \cup {<<d, s>>} /\ s \in Sockets
    <3>1. to[d] \in Users /\ cid[s] \notin ChosenIds => to[d] \in claims[s]
      BY <1>2, <2>2 DEF Routes, Targets, Unique
    <3> QED  BY <1>1, <2>2, <3>1 DEF Routes, DeliveredToAddressee, socketVars
  <2> QED  BY <1>2, <2>1, <2>2 DEF SendOne
<1> QED  BY <1>3, <1>4, <1>5, <1>6 DEF Routes

\* A delivery begins with ids of the user it is addressed to, or with everyone's.
LEMMA BeginRoutes ==
  ASSUME TypeInv, Routes, NEW d \in Deliveries, NEW u \in Users \cup {Anonymous, None},
         NEW T, T = ToUser(u) \/ (u = None /\ T = Everyone),
         Begin(d, u, T), UNCHANGED <<socketVars, active, userClients, abandoned>>
  PROVE  Routes'
<1> USE AbsentAssumption DEF TypeInv, TypeOK, socketVars
<1>1. /\ to' = [to EXCEPT ![d] = u] /\ todo' = [todo EXCEPT ![d] = T]
      /\ phase[d] = "idle" /\ phase' = [phase EXCEPT ![d] = "sending"]
      /\ UNCHANGED <<stale, delivered>>
  BY DEF Begin
<1>2. Heard' /\ Unique' /\ Linked' /\ Claimed' /\ LiveIsReachable' /\ Failed'
  BY <1>1 DEF Routes, Heard, Unique, Linked, Claimed, LiveIsReachable, Failed, Up
<1>3. \A p \in T : /\ \E s \in Sockets : cid[s] = p[1]
                   /\ p[2] # None => cid[p[2]] = p[1]
                   /\ u \in Users =>
                         /\ p[2] = None
                         /\ \E s \in Sockets : cid[s] = p[1] /\ u \in claims[s]
  <2>1. CASE u \in Users
    <3>1. T = userClients[u] \X {None}
      BY <2>1 DEF ToUser
    <3> QED  BY <2>1, <3>1 DEF Routes, Claimed
  <2>2. CASE u \notin Users
    <3>1. T = {<<c, active[c]>> : c \in {e \in ClientIds : active[e] # None}}
      BY <2>2 DEF ToUser, Everyone
    <3> QED  BY <2>2, <3>1 DEF Routes, Linked
  <2> QED  BY <2>1, <2>2
<1>4. Targets'
  BY <1>1, <1>3 DEF Routes, Targets
<1>5. DeliveredToAddressee'
  BY <1>1 DEF Routes, DeliveredToAddressee, Heard
<1> QED  BY <1>2, <1>4, <1>5 DEF Routes

LEMMA RoutesInvariant == Spec => []Routes
<1>1. Init => Routes
  BY AbsentAssumption
     DEF Init, Routes, Heard, Unique, Linked, Claimed, Targets, Failed, LiveIsReachable,
         DeliveredToAddressee
<1>2. TypeInv /\ Routes /\ [Next]_vars => Routes'
  <2> SUFFICES ASSUME TypeInv, Routes, [Next]_vars
               PROVE  Routes'
    OBVIOUS
  <2>1. CASE SocketStep
    <3>1. ASSUME NEW s \in Sockets, Break(s)
          PROVE  Routes'
      <4>1. /\ UNCHANGED <<cid, claims, managerVars, deliveryVars>>
            /\ sock[s] = "open" /\ sock' = [sock EXCEPT ![s] = "broken"]
        BY <3>1 DEF Break
      <4>2. \A r \in Sockets : /\ Up(r)' <=> Up(r)
                               /\ sock'[r] = "open" => sock[r] = "open"
                               /\ sock'[r] = "new" <=> sock[r] = "new"
        BY <4>1 DEF Up, TypeInv, TypeOK
      <4>3. Heard' /\ Unique' /\ Claimed' /\ Targets' /\ Failed' /\ DeliveredToAddressee'
        BY <4>1, <4>2
           DEF Routes, Heard, Unique, Claimed, Targets, Failed, DeliveredToAddressee, Up,
               managerVars, deliveryVars
      <4>4. Linked'
        BY <4>1, <4>2 DEF Routes, Linked, Up, managerVars, TypeInv, TypeOK
      <4>5. LiveIsReachable'
        BY <4>1, <4>2 DEF Routes, LiveIsReachable, managerVars
      <4> QED  BY <4>3, <4>4, <4>5 DEF Routes
    <3>2. ASSUME NEW s \in Sockets, EndpointEnds(s)
          PROVE  Routes'
      <4>1. {cid[s]} \in SUBSET ClientIds
        BY <3>2, AbsentAssumption DEF EndpointEnds, TypeInv, TypeOK, Identified
      <4>2. \A r \in Sockets :
               /\ \/ sock'[r] = sock[r]
                  \/ cid[r] \in {cid[s]} /\ sock[r] # "new" /\ sock'[r] = "closed"
               /\ cid[r] \in {cid[s]} \ ChosenIds => sock'[r] # "open"
        BY <3>2, <4>1, AbsentAssumption
           DEF EndpointEnds, TypeInv, TypeOK, Routes, Unique, Identified
      <4>3. /\ active' = Disconnected({cid[s]}) /\ abandoned' = abandoned \ {cid[s]}
            /\ \A u \in Users : userClients'[u] \subseteq userClients[u] \ {cid[s]}
            /\ UNCHANGED <<cid, claims, phase, to, todo, stale, delivered>>
        BY <3>2 DEF EndpointEnds, Disconnect, Forgotten, deliveryVars
      <4> QED  BY <4>1, <4>2, <4>3, DisconnectRoutes
    <3> QED  BY <2>1, <3>1, <3>2, ConnectRoutes, ReceiveRoutes, RaiseRoutes DEF SocketStep
  <2>2. CASE DeliveryStep
    <3>1. ASSUME NEW d \in Deliveries, EndDelivery(d)
          PROVE  Routes'
      <4>1. /\ stale[d] \in SUBSET ClientIds
            /\ \A e \in Deliveries : stale'[e] \subseteq stale[e]
            /\ \A e \in Deliveries : phase'[e] = "idle" => phase[e] = "idle"
            /\ active' = Disconnected(stale[d]) /\ abandoned' = abandoned \ stale[d]
            /\ \A u \in Users : userClients'[u] \subseteq userClients[u] \ stale[d]
            /\ UNCHANGED <<sock, cid, claims, to, todo>> /\ delivered' \subseteq delivered
        BY <3>1 DEF EndDelivery, Disconnect, Forgotten, socketVars, TypeInv, TypeOK
      <4>2. \A r \in Sockets : cid[r] \in stale[d] \ ChosenIds => sock'[r] # "open"
        BY <4>1 DEF Routes, Failed
      <4> QED  BY <4>1, <4>2, DisconnectRoutes
    <3> QED  BY <2>2, <3>1, SendRoutes DEF DeliveryStep
  <2>3. CASE TaskStep
    <3>1. ASSUME NEW t \in Tasks
          PROVE  /\ owner[t] \in Users \cup {Anonymous, None}
                 /\ taskUser[t] \in Users \cup {Anonymous, None}
                 /\ \A k \in Kinds : <<t, k>> \in Deliveries
                 /\ "queued" \in Kinds /\ Callbacks \subseteq Kinds /\ Others \subseteq Kinds
      BY DEF TypeInv, TypeOK, Deliveries, Kinds
    <3>2. ASSUME NEW t \in Tasks, RegisterTask(t)
          PROVE  Routes'
      BY <3>1, <3>2, BeginRoutes DEF RegisterTask
    <3>3. ASSUME NEW t \in Tasks, NEW k \in Callbacks, Callback(t, k)
          PROVE  Routes'
      BY <3>1, <3>3, BeginRoutes DEF Callback, managerVars
    <3>4. ASSUME NEW t \in Tasks, WatchdogNotifies(t)
          PROVE  Routes'
      BY <3>1, <3>4, BeginRoutes DEF WatchdogNotifies, managerVars
    <3>5. ASSUME NEW t \in Tasks, Progress(t)
          PROVE  Routes'
      BY <3>1, <3>5, BeginRoutes DEF Progress, managerVars
    <3>6. ASSUME NEW t \in Tasks, NEW u \in Users \cup {Anonymous}, SubmitPush(t, u)
          PROVE  Routes'
      BY <3>6 DEF SubmitPush, socketVars, managerVars, deliveryVars, Routes, Heard, Unique,
         Linked, Claimed, Targets, Failed, LiveIsReachable, DeliveredToAddressee, Up
    <3> QED  BY <2>3, <3>2, <3>3, <3>4, <3>5, <3>6 DEF TaskStep
  <2>4. CASE Restart
    <3>1. \A s \in Sockets : sock'[s] = "closed" \/ (sock'[s] = "new" /\ sock[s] = "new")
      BY <2>4 DEF Restart, TypeInv, TypeOK
    <3>2. \A s \in Sockets : sock'[s] = "new" => sock[s] = "new"
      BY <3>1, <2>4 DEF Restart, TypeInv, TypeOK
    <3>3. \A d \in Deliveries : phase'[d] = "idle" => phase[d] = "idle"
      BY <2>4 DEF Restart
    <3>4. Heard' /\ Unique' /\ Linked' /\ Claimed' /\ Targets' /\ Failed'
      BY <2>4, <3>1, <3>2, <3>3
         DEF Restart, Routes, Heard, Unique, Linked, Claimed, Targets, Failed
    <3>5. LiveIsReachable' /\ DeliveredToAddressee'
      BY <2>4, <3>1 DEF Restart, Routes, LiveIsReachable, DeliveredToAddressee
    <3> QED  BY <3>4, <3>5 DEF Routes
  <2>5. CASE UNCHANGED vars
    BY <2>5 DEF vars, socketVars, managerVars, deliveryVars, Routes, Heard, Unique,
       Linked, Claimed, Targets, Failed, LiveIsReachable, DeliveredToAddressee, Up
  <2> QED  BY <2>1, <2>2, <2>3, <2>4, <2>5 DEF Next
<1> QED  BY <1>1, <1>2, TypeInvInvariant, PTL DEF Spec

\* A client id whose connections have all ended is forgotten by both maps, unless an
\* exception abandoned it and no disconnect of it has followed.
THEOREM NothingLeftBehind == Spec => []NoGhost
<1>1. TypeInv /\ Routes => NoGhost
  BY AbsentAssumption DEF TypeInv, TypeOK, Routes, Linked, Claimed, Up, NoGhost
<1> QED  BY <1>1, TypeInvInvariant, RoutesInvariant, PTL

\* A working connection with an id of its own stays reachable under it.
THEOREM ReachableWhileLive == Spec => []LiveIsReachable
<1>1. Routes => LiveIsReachable
  BY DEF Routes
<1> QED  BY <1>1, RoutesInvariant, PTL

\* A message addressed to a user reaches no connection of somebody else.
THEOREM AddresseeOnly == Spec => []DeliveredToAddressee
<1>1. Routes => DeliveredToAddressee
  BY DEF Routes
<1> QED  BY <1>1, RoutesInvariant, PTL

-----------------------------------------------------------------------------
(* The mailbox.  A delivery has a client id once, and a connection has one *)
(* client id: so what was handed to a connection is not handed to it again.*)

Once ==
    \A d \in Deliveries :
        /\ \A p, q \in todo[d] : p[1] = q[1] => p = q
        /\ \A s \in Sockets : <<d, s>> \in delivered => \A p \in todo[d] : p[1] # cid[s]

LEMMA OnceByIds ==
    ASSUME Once, TypeInv, Routes,
           \A d \in Deliveries : todo'[d] \subseteq todo[d], delivered' \subseteq delivered,
           \A s \in Sockets : cid'[s] = cid[s] \/ sock[s] = "new"
    PROVE  Once'
  BY DEF Once, TypeInv, TypeOK, Routes, Heard

LEMMA OnceBegin ==
    ASSUME Once, TypeInv, Routes, NEW d \in Deliveries, NEW u,
           NEW targets \in SUBSET (ClientIds \X (Sockets \cup {None})),
           \A p, q \in targets : p[1] = q[1] => p = q,
           Begin(d, u, targets), UNCHANGED cid
    PROVE  Once'
<1>1. /\ phase[d] = "idle" /\ todo' = [todo EXCEPT ![d] = targets]
      /\ UNCHANGED <<cid, delivered>>
  BY DEF Begin
<1>2. \A s \in Sockets : <<d, s>> \notin delivered
  BY <1>1 DEF Routes, Heard
<1>3. ASSUME NEW e \in Deliveries
      PROVE  todo'[e] = IF e = d THEN targets ELSE todo[e]
  BY <1>1 DEF TypeInv, TypeOK
<1> QED
  BY <1>1, <1>2, <1>3 DEF Once

LEMMA ToUserOnce ==
    ASSUME TypeInv, NEW u
    PROVE  /\ \A p, q \in ToUser(u) : p[1] = q[1] => p = q
           /\ \A p, q \in Everyone : p[1] = q[1] => p = q
  BY DEF ToUser, Everyone

\* The connection behind the client id whose turn it is.
LEMMA OnceSend ==
    ASSUME Once, TypeInv, Routes, NEW d \in Deliveries, NEW p \in todo[d], SendOne(d, p)
    PROVE  /\ Once'
           /\ \/ delivered' = delivered
              \/ \E s \in Sockets : /\ sock[s] = "open" /\ <<d, s>> \notin delivered
                                     /\ delivered' = delivered \cup {<<d, s>>}
<1> DEFINE s == IF p[2] = None THEN active[p[1]] ELSE p[2]
<1> USE AbsentAssumption DEF TypeInv, TypeOK
<1>1. /\ p[1] \in ClientIds /\ p[2] \in Sockets \cup {None}
      /\ s # None => s \in Sockets
  OBVIOUS
<1>2. s # None => cid[s] = p[1]
  BY <1>1 DEF Routes, Linked, Targets
<1>3. /\ todo' = [todo EXCEPT ![d] = todo[d] \ {p}]
      /\ UNCHANGED cid
      /\ \/ delivered' = delivered
         \/ s # None /\ sock[s] = "open" /\ delivered' = delivered \cup {<<d, s>>}
  BY DEF SendOne, RestAfterFailure, socketVars
<1>4. \A e \in Deliveries : todo'[e] = IF e = d THEN todo[d] \ {p} ELSE todo[e]
  BY <1>3
<1> HIDE DEF s
<1>5. CASE delivered' = delivered
  <2>1. \A e \in Deliveries : todo'[e] \subseteq todo[e]
    BY <1>4
  <2> QED
    BY <1>3, <1>5, <2>1, OnceByIds
<1>6. CASE s # None /\ sock[s] = "open" /\ delivered' = delivered \cup {<<d, s>>}
  <2>1. <<d, s>> \notin delivered
    BY <1>1, <1>2, <1>6 DEF Once
  <2>2. \A q \in todo[d] \ {p} : q[1] # cid[s]
    BY <1>2, <1>6 DEF Once
  <2>3. ASSUME NEW e \in Deliveries, NEW r \in Sockets, <<e, r>> \in delivered',
               NEW q \in todo'[e]
        PROVE  q[1] # cid'[r]
    <3>1. CASE <<e, r>> \in delivered
      BY <1>3, <1>4, <2>3, <3>1 DEF Once
    <3>2. CASE e = d /\ r = s
      BY <1>3, <1>4, <2>2, <2>3, <3>2
    <3> QED
      BY <1>6, <2>3, <3>1, <3>2
  <2>4. \A e \in Deliveries : \A q, r \in todo'[e] : q[1] = r[1] => q = r
    BY <1>4 DEF Once
  <2> QED
    BY <1>1, <1>6, <2>1, <2>3, <2>4 DEF Once
<1> QED
  BY <1>3, <1>5, <1>6

LEMMA OnceNext ==
    ASSUME Once, TypeInv, Routes, [Next]_vars
    PROVE  Once'
<1> USE DEF socketVars, managerVars, taskVars, deliveryVars
<1>1. CASE SocketStep
  <2>1. ASSUME NEW s \in Sockets, NEW c \in ClientIds, NEW u \in Users \cup {None},
               Connect(s, c, u)
        PROVE  Once'
    <3>1. /\ UNCHANGED <<todo, delivered>> /\ sock[s] = "new"
          /\ cid' = [cid EXCEPT ![s] = c]
      BY <2>1 DEF Connect
    <3>2. \A r \in Sockets : cid'[r] = cid[r] \/ sock[r] = "new"
      BY <3>1 DEF TypeInv, TypeOK
    <3> QED
      BY <3>1, <3>2, OnceByIds
  <2>2. ASSUME NEW s \in Sockets,
               \/ (\E u \in Users : Receive(s, u)) \/ Break(s)
               \/ EndpointEnds(s) \/ EndpointRaises(s)
        PROVE  Once'
    BY <2>2 DEF Receive, Break, EndpointEnds, EndpointRaises, Once
  <2> QED
    BY <1>1, <2>1, <2>2 DEF SocketStep
<1>2. CASE DeliveryStep
  <2>1. ASSUME NEW d \in Deliveries, EndDelivery(d)
        PROVE  Once'
    BY <2>1 DEF EndDelivery, Once
  <2> QED
    BY <1>2, <2>1, OnceSend DEF DeliveryStep
<1>3. CASE TaskStep
  <2>1. ASSUME NEW t \in Tasks, NEW u \in Users \cup {Anonymous}, SubmitPush(t, u)
        PROVE  Once'
    BY <2>1 DEF SubmitPush, Once
  <2>2. ASSUME NEW t \in Tasks, RegisterTask(t)
        PROVE  \E d \in Deliveries, u \in Users \cup {Anonymous, None} :
                   Begin(d, u, ToUser(u)) /\ UNCHANGED cid
    BY <2>2 DEF RegisterTask, TypeInv, TypeOK, Deliveries, Kinds
  <2>3. ASSUME NEW t \in Tasks,
               (\E k \in Callbacks : Callback(t, k)) \/ WatchdogNotifies(t)
        PROVE  \E d \in Deliveries, u \in Users \cup {Anonymous, None} :
                   Begin(d, u, ToUser(u)) /\ UNCHANGED cid
    BY <2>3 DEF Callback, WatchdogNotifies, TypeInv, TypeOK, Deliveries, Kinds
  <2>4. ASSUME NEW t \in Tasks, Progress(t)
        PROVE  \E d \in Deliveries : Begin(d, None, Everyone) /\ UNCHANGED cid
    BY <2>4 DEF Progress, Deliveries, Kinds
  <2>5. ASSUME NEW d \in Deliveries, NEW u \in Users \cup {Anonymous, None},
               Begin(d, u, ToUser(u)), UNCHANGED cid
        PROVE  Once'
    BY <2>5, ToUserOnce, ToUserType, OnceBegin DEF TypeInv
  <2>6. Everyone \in SUBSET (ClientIds \X (Sockets \cup {None}))
    BY DEF Everyone, TypeInv, TypeOK
  <2>7. ASSUME NEW d \in Deliveries, Begin(d, None, Everyone), UNCHANGED cid
        PROVE  Once'
    BY <2>6, <2>7, ToUserOnce, OnceBegin
  <2> QED
    BY <1>3, <2>1, <2>2, <2>3, <2>4, <2>5, <2>7 DEF TaskStep
<1>4. CASE Restart
  BY <1>4 DEF Restart, Once
<1>5. CASE UNCHANGED vars
  BY <1>5 DEF vars, Once
<1> QED
  BY <1>1, <1>2, <1>3, <1>4, <1>5 DEF Next

\* What the connections see of the manager.
LEMMA MailSockets ==
    ASSUME TypeInv, SocketStep
    PROVE  Mail!Next \/ UNCHANGED Mail!vars
<1> USE DEF TypeInv, TypeOK, deliveryVars
<1>1. ASSUME NEW s \in Sockets, NEW c \in ClientIds, NEW u \in Users \cup {None},
             Connect(s, c, u)
      PROVE  Mail!Come(s)
  <2>1. /\ sock[s] = "new" /\ sock' = [sock EXCEPT ![s] = "open"]
        /\ cid' = [cid EXCEPT ![s] = c]
        /\ claims' = [claims EXCEPT ![s] = claims[s]] \/ claims' = [claims EXCEPT ![s] = {u}]
        /\ u # None => claims' = [claims EXCEPT ![s] = {u}]
        /\ UNCHANGED <<phase, to, delivered>>
    BY <1>1 DEF Connect
  <2>2. \E who \in SUBSET Users : claims' = [claims EXCEPT ![s] = who]
    <3>1. CASE u = None
      BY <1>1, <3>1 DEF Connect
    <3>2. CASE u # None
      BY <2>1, <3>2
    <3> QED
      BY <3>1, <3>2
  <2>3. {r \in Sockets : sock'[r] # "new"} = {r \in Sockets : sock[r] # "new"} \cup {s}
    BY <2>1
  <2>4. {r \in Sockets : sock'[r] = "open"} = {r \in Sockets : sock[r] = "open"} \cup {s}
    BY <2>1
  <2>5. cid[s] \notin ChosenIds
    BY <2>1, AbsentAssumption, ChosenIdsAssumption DEF Identified
  <2>6. {r \in Sockets : cid'[r] \in ChosenIds}
            \in {{r \in Sockets : cid[r] \in ChosenIds},
                 {r \in Sockets : cid[r] \in ChosenIds} \cup {s}}
    <3>1. CASE c \in ChosenIds
      <4>1. {r \in Sockets : cid'[r] \in ChosenIds}
                = {r \in Sockets : cid[r] \in ChosenIds} \cup {s}
        BY <2>1, <3>1
      <4> QED
        BY <4>1
    <3>2. CASE c \notin ChosenIds
      <4>1. {r \in Sockets : cid'[r] \in ChosenIds} = {r \in Sockets : cid[r] \in ChosenIds}
        BY <2>1, <2>5, <3>2
      <4> QED
        BY <4>1
    <3> QED
      BY <3>1, <3>2
  <2>7. s \notin {r \in Sockets : sock[r] # "new"}
    BY <2>1
  <2> QED
    BY <2>1, <2>2, <2>3, <2>4, <2>6, <2>7 DEF Mail!Come
<1>2. ASSUME NEW s \in Sockets, NEW u \in Users, Receive(s, u)
      PROVE  Mail!Present(s)
  BY <1>2 DEF Receive, Mail!Present
<1>3. ASSUME NEW s \in Sockets, sock[s] = "open", Break(s) \/ EndpointRaises(s)
      PROVE  Mail!Leave(s)
  <2>1. /\ \E gone \in {"broken", "closed"} : sock' = [sock EXCEPT ![s] = gone]
        /\ UNCHANGED <<cid, claims, phase, to, delivered>>
    BY <1>3 DEF Break, EndpointRaises
  <2>2. {r \in Sockets : sock'[r] # "new"} = {r \in Sockets : sock[r] # "new"}
    BY <1>3, <2>1
  <2>3. {r \in Sockets : sock'[r] = "open"} = {r \in Sockets : sock[r] = "open"} \ {s}
    BY <2>1
  <2> QED
    BY <1>3, <2>1, <2>2, <2>3 DEF Mail!Leave
<1>4. ASSUME NEW s \in Sockets, sock[s] = "broken", EndpointEnds(s) \/ EndpointRaises(s)
      PROVE  UNCHANGED Mail!vars
  <2>1. /\ sock[s] = "broken" /\ sock' = [sock EXCEPT ![s] = "closed"]
        /\ UNCHANGED <<cid, claims, phase, to, delivered>>
    BY <1>4 DEF EndpointEnds, EndpointRaises
  <2>2. /\ {r \in Sockets : sock'[r] # "new"} = {r \in Sockets : sock[r] # "new"}
        /\ {r \in Sockets : sock'[r] = "open"} = {r \in Sockets : sock[r] = "open"}
    BY <2>1
  <2> QED
    BY <2>1, <2>2 DEF Mail!vars
<1>5. ASSUME NEW s \in Sockets, Break(s) \/ EndpointEnds(s) \/ EndpointRaises(s)
      PROVE  \/ sock[s] = "open" /\ (Break(s) \/ EndpointRaises(s))
             \/ sock[s] = "broken" /\ (EndpointEnds(s) \/ EndpointRaises(s))
  BY <1>5 DEF Break, EndpointEnds, EndpointRaises
<1> QED
  BY <1>1, <1>2, <1>3, <1>4, <1>5 DEF SocketStep, Mail!Next

LEMMA MailHand ==
    ASSUME Once, TypeInv, Routes, Routes', NEW d \in Deliveries, NEW p \in todo[d],
           SendOne(d, p)
    PROVE  (\E s \in Sockets : Mail!Hand(d, s)) \/ UNCHANGED Mail!vars
<1>1. /\ phase[d] = "sending"
      /\ UNCHANGED <<sock, cid, claims, phase, to>>
  BY DEF SendOne, socketVars
<1>2. CASE delivered' = delivered
  BY <1>1, <1>2 DEF Mail!vars
<1>3. ASSUME NEW s \in Sockets, sock[s] = "open", <<d, s>> \notin delivered,
             delivered' = delivered \cup {<<d, s>>}
      PROVE  Mail!Hand(d, s)
  <2>1. to[d] \in Users /\ cid[s] \notin ChosenIds => to[d] \in claims[s]
    BY <1>1, <1>3 DEF Routes, DeliveredToAddressee
  <2> QED
    BY <1>1, <1>3, <2>1 DEF Mail!Hand
<1> QED
  BY <1>2, <1>3, OnceSend

LEMMA MailBegin ==
    ASSUME TypeInv, NEW d \in Deliveries, NEW u \in Users \cup {Anonymous, None}, NEW S,
           Begin(d, u, S), UNCHANGED <<sock, cid, claims>>
    PROVE  Mail!Send(d)
  BY DEF Begin, Mail!Send

LEMMA MailStep ==
    ASSUME Once, TypeInv, Routes, Routes', [Next]_vars
    PROVE  [Mail!Next]_(Mail!vars)
<1>1. CASE SocketStep
  BY <1>1, MailSockets
<1>2. CASE DeliveryStep
  <2>1. ASSUME NEW d \in Deliveries, EndDelivery(d)
        PROVE  Mail!Close(d)
    BY <2>1 DEF EndDelivery, Mail!Close, socketVars
  <2> QED
    BY <1>2, <2>1, MailHand DEF DeliveryStep, Mail!Next
<1>3. CASE TaskStep
  <2>1. ASSUME NEW t \in Tasks, NEW u \in Users \cup {Anonymous}, SubmitPush(t, u)
        PROVE  UNCHANGED Mail!vars
    BY <2>1 DEF SubmitPush, socketVars, deliveryVars, Mail!vars
  <2>2. ASSUME NEW t \in Tasks,
               \/ RegisterTask(t) \/ (\E k \in Callbacks : Callback(t, k))
               \/ WatchdogNotifies(t) \/ Progress(t)
        PROVE  \E d \in Deliveries : \E u \in Users \cup {Anonymous, None} : \E S :
                   Begin(d, u, S) /\ UNCHANGED <<sock, cid, claims>>
    BY <2>2 DEF RegisterTask, Callback, WatchdogNotifies, Progress, socketVars, TypeInv, TypeOK,
                Deliveries, Kinds
  <2>3. ASSUME NEW t \in Tasks,
               \/ RegisterTask(t) \/ (\E k \in Callbacks : Callback(t, k))
               \/ WatchdogNotifies(t) \/ Progress(t)
        PROVE  \E d \in Deliveries : Mail!Send(d)
    BY <2>2, <2>3, MailBegin
  <2> QED
    BY <1>3, <2>1, <2>3 DEF TaskStep, Mail!Next
<1>4. CASE Restart
  <2>1. /\ sock' = [s \in Sockets |-> IF sock[s] = "new" THEN "new" ELSE "closed"]
        /\ phase' = [d \in Deliveries |-> IF phase[d] = "sending" THEN "done" ELSE phase[d]]
        /\ delivered' = {} /\ UNCHANGED <<cid, claims, to>>
    BY <1>4 DEF Restart
  <2>2. {r \in Sockets : sock'[r] # "new"} = {r \in Sockets : sock[r] # "new"}
    BY <2>1
  <2>3. {r \in Sockets : sock'[r] = "open"} = {}
    BY <2>1
  <2>4. Mail!Crash
    BY <2>1, <2>2, <2>3 DEF Mail!Crash
  <2> QED
    BY <2>4 DEF Mail!Next
<1>5. CASE UNCHANGED vars
  BY <1>5 DEF vars, socketVars, deliveryVars, Mail!vars
<1> QED
  BY <1>1, <1>2, <1>3, <1>4, <1>5 DEF Next

\* Deliveries are letters: whatever connections come, go, and register meanwhile, each is
\* handed to a working connection at most once, only while it is on its way, and if it is
\* addressed to a user only to a connection which came in as that user, or whose client id
\* others may have (websocket.py:33-111).
THEOREM DeliveriesAreLetters == Spec => ImplementsMailbox
<1>1. Init => Once /\ Mail!Init
  <2>1. Init => Once
    BY DEF Init, Once
  <2>2. Init => Mail!Init
    BY AbsentAssumption, ChosenIdsAssumption DEF Init, Mail!Init
  <2> QED
    BY <2>1, <2>2
<1>2. Once /\ TypeInv /\ Routes /\ Routes' /\ [Next]_vars => Once' /\ [Mail!Next]_(Mail!vars)
  BY OnceNext, MailStep
<1> QED
  BY <1>1, <1>2, TypeInvInvariant, RoutesInvariant, PTL DEF Spec, ImplementsMailbox, Mail!Spec

=============================================================================
