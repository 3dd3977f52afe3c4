------------------------ MODULE TaskLifecycleProofs ------------------------
(***************************************************************************)
(* Theorems about TaskLifecycle for every value of its constants.          *)
(*                                                                         *)
(* Shape relates the program counters to the variables they govern: a      *)
(* consumer holds a task exactly between BRPOP and the end of its turn, an *)
(* attempt has a task and a worker exactly once it was accepted, and a     *)
(* registry write from a finally block belongs to an attempt that waits    *)
(* for it.  TypeOK is not inductive without it: the row a coroutine stores *)
(* is that of a task only because the coroutine has one.                   *)
(***************************************************************************)
EXTENDS TaskLifecycle, FiniteSetTheorems, SequenceTheorems, TLAPS

HandShape ==
    \A c \in Consumers : /\ hand[c] = None <=> cpc[c] = "pop"
                         /\ cpc[c] \in {"post", "accepted", "full"} => target[c] \in Workers

AttemptShape ==
    \A a \in Attempts : /\ atask[a] = None <=> apc[a] = "free"
                        /\ apc[a] # "free" => aworker[a] \in Workers

PendShape ==
    /\ \A a \in Attempts, k \in {"accept", "release"}, s \in WorkerStatus :
          <<a, k, s>> \in pend => apc[a] # "free"
    /\ \A a \in Attempts, s \in WorkerStatus :
          <<a, "release", s>> \in pend =>
              /\ apc[a] = "releasing"
              /\ \A r \in WorkerStatus : <<a, "release", r>> \in pend => r = s

Shape == HandShape /\ AttemptShape /\ PendShape

TypeInv == TypeOK /\ Shape

-----------------------------------------------------------------------------

LEMMA InitTypeInv == Init => TypeInv
BY CapacityAssumption, MaxFaultsAssumption, NoneAssumption, EmptySeq
   DEF Init, TypeInv, TypeOK, Shape, HandShape, AttemptShape, PendShape,
       RegistryEntry, WorkerStatus, RowStatus, Terminal, Live, SlotHolding

LEMMA SubmitTypeInv ==
  ASSUME TypeInv, NEW t \in Tasks,
         SubmitPush(t) \/ SubmitRefused(t) \/ SubmitRecord(t) \/ SubmitRecordFails(t)
  PROVE  TypeInv'
<1> USE DEF TypeInv, TypeOK, Shape, HandShape, AttemptShape, PendShape, gatewayVars,
            workerVars, registryVars, historyVars, Fault
<1>1. CASE SubmitPush(t)
  BY <1>1 DEF SubmitPush
<1>2. CASE SubmitRefused(t)
  BY <1>2, MaxFaultsAssumption DEF SubmitRefused
<1>3. CASE SubmitRecord(t)
  BY <1>3 DEF SubmitRecord, RecordedRow, RowStatus
<1>4. CASE SubmitRecordFails(t)
  BY <1>4, MaxFaultsAssumption DEF SubmitRecordFails
<1> QED  BY <1>1, <1>2, <1>3, <1>4

LEMMA ConsumerTypeInv ==
  ASSUME TypeInv, NEW c \in Consumers,
         \/ Pop(c) \/ ChooseWorker(c) \/ Dispatched(c) \/ ConnectFails(c)
         \/ PostAbandoned(c) \/ Requeue(c) \/ ConsumerError(c) \/ WorkerFull(c)
  PROVE  TypeInv'
<1> USE NoneAssumption
    DEF TypeInv, TypeOK, Shape, HandShape, AttemptShape, PendShape, gatewayVars,
        workerVars, registryVars, historyVars, Fault
<1>1. CASE Pop(c)
  <2>1. Head(queue) \in Tasks /\ Tail(queue) \in Seq(Tasks)
    BY <1>1, HeadTailProperties DEF Pop
  <2> QED  BY <1>1, <2>1 DEF Pop, AfterPop
<1>2. CASE ChooseWorker(c)
  <2>1. CASE cpc' = [cpc EXCEPT ![c] = "requeue"] /\ UNCHANGED target
    BY <1>2, <2>1 DEF ChooseWorker
  <2>2. CASE \E w \in BestWorkers : /\ target' = [target EXCEPT ![c] = w]
                                   /\ cpc' = [cpc EXCEPT ![c] = "post"]
    <3>1. PICK w \in Workers : /\ target' = [target EXCEPT ![c] = w]
                               /\ cpc' = [cpc EXCEPT ![c] = "post"]
      BY <2>2 DEF BestWorkers, Candidates
    <3> QED  BY <1>2, <3>1 DEF ChooseWorker
  <2> QED  BY <1>2, <2>1, <2>2 DEF ChooseWorker
<1>3. CASE Dispatched(c)
  BY <1>3 DEF Dispatched
<1>4. CASE ConnectFails(c)
  BY <1>4 DEF ConnectFails
<1>5. CASE PostAbandoned(c)
  BY <1>5, MaxFaultsAssumption DEF PostAbandoned
<1>6. CASE Requeue(c)
  BY <1>6 DEF Requeue, Requeued
<1>7. CASE ConsumerError(c)
  BY <1>7, MaxFaultsAssumption DEF ConsumerError
<1>8. CASE WorkerFull(c)
  BY <1>8 DEF WorkerFull
<1> QED  BY <1>1, <1>2, <1>3, <1>4, <1>5, <1>6, <1>7, <1>8

LEMMA EntryType ==
  ASSUME NEW status \in WorkerStatus, NEW n \in Nat
  PROVE  Entry(status, n) \in RegistryEntry
BY CapacityAssumption DEF Entry, RegistryEntry

LEMMA StatusForType ==
  ASSUME NEW n \in Nat
  PROVE  StatusFor(n) \in WorkerStatus
BY CapacityAssumption DEF StatusFor, WorkerStatus

LEMMA AdvertiseType ==
  ASSUME TypeInv, NEW w \in Workers, NEW status \in WorkerStatus, NEW n \in Nat,
         Advertise(w, status, n)
  PROVE  registry' \in [Workers -> RegistryEntry] /\ alive' \in [Workers -> BOOLEAN]
BY EntryType DEF Advertise, TypeInv, TypeOK

\* What an acceptance and a release do to the variables of the worker.
LEMMA SpawnTypeInv ==
  ASSUME TypeInv, NEW w \in Workers, NEW t \in Tasks, NEW a \in Attempts,
         Spawn(w, t, a), outcome' = outcome
  PROVE  /\ active' \in [Workers -> Nat]
         /\ apc' \in [Attempts -> {"free", "done", "dead"} \cup Live]
         /\ atask' \in [Attempts -> Tasks \cup {None}]
         /\ aworker' \in [Attempts -> Workers \cup {None}]
         /\ pend' \subseteq Attempts \X {"accept", "release"} \X WorkerStatus
         /\ AttemptShape' /\ PendShape'
<1> USE NoneAssumption DEF TypeInv, TypeOK, Shape, Spawn
<1>1. active[w] + 1 \in Nat /\ active' \in [Workers -> Nat]
  OBVIOUS
<1>2. StatusFor(active[w] + 1) \in WorkerStatus
  BY <1>1, StatusForType
<1>3. /\ pend' \subseteq Attempts \X {"accept", "release"} \X WorkerStatus
      /\ apc' \in [Attempts -> {"free", "done", "dead"} \cup Live]
  BY <1>2 DEF Live, SlotHolding
<1>4. AttemptShape'
  BY DEF AttemptShape
<1>5. PendShape'
  BY DEF PendShape
<1> QED  BY <1>1, <1>3, <1>4, <1>5

LEMMA ReleaseTypeInv ==
  ASSUME TypeInv, NEW a \in Attempts, ReleaseSlot(a), apc[a] \in SlotHolding,
         UNCHANGED <<atask, aworker>>
  PROVE  /\ active' \in [Workers -> Nat]
         /\ apc' \in [Attempts -> {"free", "done", "dead"} \cup Live]
         /\ pend' \subseteq Attempts \X {"accept", "release"} \X WorkerStatus
         /\ AttemptShape' /\ PendShape'
<1> USE DEF TypeInv, TypeOK, Shape
<1> DEFINE w == aworker[a]
           n == IF active[w] > 0 THEN active[w] - 1 ELSE 0
<1>1. w \in Workers /\ n \in Nat
  BY DEF AttemptShape, SlotHolding
<1>2. StatusFor(n) \in WorkerStatus
  BY <1>1, StatusForType
<1>3. /\ active' = [active EXCEPT ![w] = n]
      /\ apc' = [apc EXCEPT ![a] = "releasing"]
      /\ pend' = pend \cup {<<a, "release", StatusFor(n)>>}
  BY DEF ReleaseSlot
<1> HIDE DEF n
<1>4. /\ active' \in [Workers -> Nat]
      /\ apc' \in [Attempts -> {"free", "done", "dead"} \cup Live]
      /\ pend' \subseteq Attempts \X {"accept", "release"} \X WorkerStatus
  BY <1>1, <1>2, <1>3 DEF Live
<1>5. AttemptShape'
  BY <1>3 DEF AttemptShape, SlotHolding
<1>6. PendShape'
  BY <1>2, <1>3 DEF PendShape, SlotHolding
<1> QED  BY <1>4, <1>5, <1>6

LEMMA AcceptTypeInv ==
  ASSUME TypeInv,
         \/ \E c \in Consumers, a \in Attempts : AcceptTask(c, a)
         \/ \E t \in Tasks, w \in Workers, a \in Attempts : AcceptOrphan(t, w, a)
         \/ \E t \in Tasks, w \in Workers : DropOrphan(t, w)
  PROVE  TypeInv'
<1> USE NoneAssumption DEF gatewayVars, workerVars, registryVars, historyVars
<1>1. ASSUME NEW c \in Consumers, NEW a \in Attempts, AcceptTask(c, a)
      PROVE  TypeInv'
  <2>1. target[c] \in Workers /\ hand[c] \in Tasks
    BY <1>1 DEF AcceptTask, TypeInv, TypeOK, Shape, HandShape
  <2>2. Spawn(target[c], hand[c], a) /\ outcome' = outcome
    BY <1>1 DEF AcceptTask
  <2>3. HandShape'
    BY <1>1 DEF AcceptTask, TypeInv, TypeOK, Shape, HandShape
  <2> QED
    BY <1>1, <2>1, <2>2, <2>3, SpawnTypeInv DEF AcceptTask, TypeInv, TypeOK, Shape
<1>2. ASSUME NEW t \in Tasks, NEW w \in Workers, NEW a \in Attempts, AcceptOrphan(t, w, a)
      PROVE  TypeInv'
  <2>1. Spawn(w, t, a) /\ outcome' = outcome
    BY <1>2 DEF AcceptOrphan
  <2>2. HandShape'
    BY <1>2 DEF AcceptOrphan, TypeInv, Shape, HandShape
  <2> QED
    BY <1>2, <2>1, <2>2, SpawnTypeInv DEF AcceptOrphan, TypeInv, TypeOK, Shape
<1>3. ASSUME NEW t \in Tasks, NEW w \in Workers, DropOrphan(t, w)
      PROVE  TypeInv'
  BY <1>3 DEF DropOrphan, TypeInv, TypeOK, Shape, HandShape, AttemptShape, PendShape
<1> QED  BY <1>1, <1>2, <1>3

LEMMA AttemptTypeInv ==
  ASSUME TypeInv, NEW a \in Attempts,
         \/ StartRun(a) \/ \E o \in {"completed", "failed"} : Finish(a, o)
         \/ Expire(a) \/ StoreTimeout(a) \/ StoreTimeoutFails(a) \/ ReleaseExpired(a)
         \/ Persist(a) \/ PersistFails(a)
         \/ \E s \in WorkerStatus : \/ WriteAccepted(a, s) \/ WriteReleased(a, s)
                                    \/ WriteReleasedFails(a, s)
  PROVE  TypeInv'
<1> USE DEF gatewayVars, workerVars, registryVars, historyVars
<1>0. /\ apc[a] # "free" => atask[a] \in Tasks /\ aworker[a] \in Workers
      /\ apc[a] # "free" => active[aworker[a]] \in Nat
  BY DEF TypeInv, TypeOK, Shape, AttemptShape
<1>1. CASE StartRun(a)
  <2>1. registry' \in [Workers -> RegistryEntry] /\ alive' \in [Workers -> BOOLEAN]
    BY <1>0, <1>1, AdvertiseType DEF StartRun, WorkerStatus
  <2> QED
    BY <1>1, <2>1 DEF StartRun, TypeInv, TypeOK, Shape, HandShape, AttemptShape,
                      PendShape, Live, SlotHolding
<1>2. ASSUME NEW o \in {"completed", "failed"}, Finish(a, o)
      PROVE  TypeInv'
  <2>1. ReleaseSlot(a) /\ apc[a] \in SlotHolding /\ UNCHANGED <<atask, aworker>>
    BY <1>2 DEF Finish, SlotHolding
  <2>2. HandShape'
    BY <1>2 DEF Finish, TypeInv, Shape, HandShape
  <2> QED
    BY <1>2, <2>1, <2>2, ReleaseTypeInv DEF Finish, TypeInv, TypeOK, Shape, Terminal
<1>3. CASE Expire(a)
  BY <1>3 DEF Expire, TypeInv, TypeOK, Shape, HandShape, AttemptShape, PendShape,
              Live, SlotHolding, Terminal
<1>4. CASE StoreTimeout(a)
  BY <1>0, <1>4 DEF StoreTimeout, TypeInv, TypeOK, Shape, HandShape, AttemptShape,
              PendShape, Live, SlotHolding, RowStatus, Terminal
<1>5. CASE StoreTimeoutFails(a)
  BY <1>0, <1>5, MaxFaultsAssumption
     DEF StoreTimeoutFails, Fault, TypeInv, TypeOK, Shape, HandShape, AttemptShape,
         PendShape, Live, SlotHolding
<1>6. CASE ReleaseExpired(a)
  <2>1. ReleaseSlot(a) /\ apc[a] \in SlotHolding /\ UNCHANGED <<atask, aworker>>
    BY <1>6 DEF ReleaseExpired, SlotHolding
  <2>2. HandShape'
    BY <1>6 DEF ReleaseExpired, TypeInv, Shape, HandShape
  <2> QED
    BY <1>6, <2>1, <2>2, ReleaseTypeInv DEF ReleaseExpired, TypeInv, TypeOK, Shape
<1>7. CASE Persist(a)
  <2>1. atask[a] \in Tasks
    BY <1>0, <1>7 DEF Persist
  <2>2. outcome[a] \in RowStatus
    BY <1>7 DEF RowStatus, TypeInv, TypeOK
  <2> QED
    BY <1>7, <2>1, <2>2
       DEF Persist, TypeInv, TypeOK, Shape, HandShape, AttemptShape, PendShape
<1>8. CASE PersistFails(a)
  BY <1>0, <1>8, MaxFaultsAssumption
     DEF PersistFails, Fault, TypeInv, TypeOK, Shape, HandShape, AttemptShape, PendShape
<1>9. ASSUME NEW s \in WorkerStatus, WriteAccepted(a, s)
      PROVE  TypeInv'
  <2>1. apc[a] # "free"
    BY <1>9 DEF WriteAccepted, TypeInv, Shape, PendShape
  <2>2. registry' \in [Workers -> RegistryEntry] /\ alive' \in [Workers -> BOOLEAN]
    BY <1>0, <1>9, <2>1, AdvertiseType DEF WriteAccepted
  <2> QED
    BY <1>9, <2>2 DEF WriteAccepted, TypeInv, TypeOK, Shape, HandShape, AttemptShape,
                      PendShape
<1>10. ASSUME NEW s \in WorkerStatus, WriteReleased(a, s)
       PROVE  TypeInv'
  <2>1. apc[a] = "releasing"
    BY <1>10 DEF WriteReleased, TypeInv, Shape, PendShape
  <2>2. registry' \in [Workers -> RegistryEntry] /\ alive' \in [Workers -> BOOLEAN]
    BY <1>0, <1>10, <2>1, AdvertiseType DEF WriteReleased
  <2>3. AttemptShape' /\ PendShape' /\ HandShape'
    BY <1>10, <2>1 DEF WriteReleased, TypeInv, TypeOK, Shape, HandShape, AttemptShape,
                       PendShape
  <2> QED
    BY <1>10, <2>2, <2>3 DEF WriteReleased, TypeInv, TypeOK, Shape, Live
<1>11. ASSUME NEW s \in WorkerStatus, WriteReleasedFails(a, s)
       PROVE  TypeInv'
  <2>1. apc[a] = "releasing" /\ atask[a] \in Tasks
    BY <1>0, <1>11 DEF WriteReleasedFails, TypeInv, Shape, PendShape
  <2>3. AttemptShape' /\ PendShape' /\ HandShape'
    BY <1>11, <2>1 DEF WriteReleasedFails, TypeInv, TypeOK, Shape, HandShape,
                       AttemptShape, PendShape
  <2> QED
    BY <1>11, <2>1, <2>3, MaxFaultsAssumption
       DEF WriteReleasedFails, Fault, TypeInv, TypeOK, Shape
<1> QED
  BY <1>1, <1>2, <1>3, <1>4, <1>5, <1>6, <1>7, <1>8, <1>9, <1>10, <1>11

LEMMA WorkerTypeInv ==
  ASSUME TypeInv, NEW w \in Workers,
         Heartbeat(w) \/ Crash(w) \/ AliveExpires(w) \/ Start(w)
  PROVE  TypeInv'
<1> USE DEF gatewayVars, workerVars, registryVars, historyVars
<1>0. active[w] \in Nat
  BY DEF TypeInv, TypeOK
<1>1. CASE Heartbeat(w)
  <2>1. registry' \in [Workers -> RegistryEntry] /\ alive' \in [Workers -> BOOLEAN]
    BY <1>0, <1>1, AdvertiseType, StatusForType DEF Heartbeat
  <2> QED
    BY <1>1, <2>1 DEF Heartbeat, TypeInv, TypeOK, Shape, HandShape, AttemptShape, PendShape
<1>2. CASE Crash(w)
  <2>1. lost' \subseteq Tasks
    BY <1>2 DEF Crash, Victims, Live, SlotHolding, TypeInv, TypeOK, Shape, AttemptShape
  <2>2. /\ pend' \subseteq pend
        /\ \A p \in pend' : aworker[p[1]] # w
    BY <1>2 DEF Crash
  <2>3. apc' \in [Attempts -> {"free", "done", "dead"} \cup Live]
    BY <1>2 DEF Crash, TypeInv, TypeOK
  <2>4. \A a \in Attempts : apc'[a] = "free" <=> apc[a] = "free"
    BY <1>2 DEF Crash, Victims, Live, SlotHolding
  <2>5. \A a \in Attempts : aworker[a] # w => apc'[a] = apc[a]
    BY <1>2 DEF Crash, Victims
  <2>6. AttemptShape' /\ HandShape'
    BY <1>2, <2>4 DEF Crash, TypeInv, Shape, AttemptShape, HandShape
  <2>7. PendShape'
    <3>1. \A a \in Attempts, k \in {"accept", "release"}, s \in WorkerStatus :
             <<a, k, s>> \in pend' => <<a, k, s>> \in pend /\ aworker[a] # w
      BY <2>2
    <3> QED
      BY <2>5, <3>1 DEF TypeInv, Shape, PendShape
  <2> QED
    BY <1>2, <2>1, <2>2, <2>3, <2>6, <2>7, MaxFaultsAssumption
       DEF Crash, Fault, TypeInv, TypeOK, Shape
<1>3. CASE AliveExpires(w)
  BY <1>3 DEF AliveExpires, TypeInv, TypeOK, Shape, HandShape, AttemptShape, PendShape
<1>4. CASE Start(w)
  <2>1. registry' \in [Workers -> RegistryEntry] /\ alive' \in [Workers -> BOOLEAN]
    BY <1>0, <1>4, AdvertiseType DEF Start, WorkerStatus
  <2> QED
    BY <1>4, <2>1 DEF Start, TypeInv, TypeOK, Shape, HandShape, AttemptShape, PendShape
<1> QED  BY <1>1, <1>2, <1>3, <1>4

LEMMA ReaperTypeInv ==
  ASSUME TypeInv, NEW p \in Reapers,
         \/ \E S \in SUBSET Tasks : Select(p, S)
         \/ \E t \in Tasks : Reap(p, t) \/ ReapFails(p, t)
  PROVE  TypeInv'
<1> USE MaxFaultsAssumption
    DEF gatewayVars, workerVars, registryVars, historyVars, Fault,
        TypeInv, TypeOK, Shape, HandShape, AttemptShape, PendShape
<1>1. ASSUME NEW S \in SUBSET Tasks, Select(p, S)
      PROVE  TypeInv'
  BY <1>1 DEF Select
<1>2. ASSUME NEW t \in Tasks, Reap(p, t)
      PROVE  TypeInv'
  BY <1>2 DEF Reap, ReapedRow, RowStatus, Terminal
<1>3. ASSUME NEW t \in Tasks, ReapFails(p, t)
      PROVE  TypeInv'
  BY <1>3 DEF ReapFails
<1> QED  BY <1>1, <1>2, <1>3

LEMMA RestartTypeInv ==
  ASSUME TypeInv, GatewayRestart
  PROVE  TypeInv'
<1> USE DEF gatewayVars, workerVars, registryVars, historyVars, GatewayRestart,
            TypeInv, TypeOK, Shape
<1>1. lost' \subseteq Tasks
  BY DEF Unsent, HandShape
<1>2. orphans' \subseteq Tasks \X Workers
  BY DEF Sent, HandShape
<1>3. HandShape' /\ AttemptShape' /\ PendShape'
  BY DEF HandShape, AttemptShape, PendShape
<1>4. submit' \in [Tasks -> {"new", "pushed", "recorded", "refused"}]
  OBVIOUS
<1>5. stuck' \in [Reapers -> SUBSET Tasks]
  OBVIOUS
<1> QED
  BY <1>1, <1>2, <1>3, <1>4, <1>5, MaxFaultsAssumption DEF Fault

LEMMA NextTypeInv == TypeInv /\ [Next]_vars => TypeInv'
<1> SUFFICES ASSUME TypeInv, [Next]_vars
             PROVE  TypeInv'
  OBVIOUS
<1>1. CASE SubmitStep
  BY <1>1, SubmitTypeInv DEF SubmitStep
<1>2. CASE ConsumerStep
  BY <1>2, ConsumerTypeInv, AcceptTypeInv DEF ConsumerStep
<1>3. CASE OrphanStep
  BY <1>3, AcceptTypeInv DEF OrphanStep
<1>4. CASE AttemptStep
  BY <1>4, AttemptTypeInv DEF AttemptStep
<1>5. CASE WorkerStep
  BY <1>5, WorkerTypeInv DEF WorkerStep
<1>6. CASE ReaperStep
  BY <1>6, ReaperTypeInv DEF ReaperStep
<1>7. CASE GatewayRestart
  BY <1>7, RestartTypeInv
<1>8. CASE UNCHANGED vars
  BY <1>8 DEF vars, gatewayVars, workerVars, registryVars, historyVars, TypeInv,
              TypeOK, Shape, HandShape, AttemptShape, PendShape
<1> QED
  BY <1>1, <1>2, <1>3, <1>4, <1>5, <1>6, <1>7, <1>8 DEF Next

LEMMA TypeInvInvariant == Spec => []TypeInv
BY InitTypeInv, NextTypeInv, PTL DEF Spec

\* Every variable keeps the type of the code's data: a queue of task ids, the row
\* statuses the code stores, a slot count that never goes below zero.
THEOREM TypeCorrect == Spec => []TypeOK
<1>1. TypeInv => TypeOK
  BY DEF TypeInv
<1> QED  BY <1>1, TypeInvInvariant, PTL

-----------------------------------------------------------------------------
(* Slot accounting.  The invariant is inductive together with TypeInv; what *)
(* it needs from Shape is that a write from a finally block is pending only *)
(* for an attempt that has already given its slot back.                     *)

LEMMA HoldingFinite ==
  ASSUME NEW w \in Workers
  PROVE  IsFiniteSet(Holding(w)) /\ Cardinality(Holding(w)) \in Nat
BY AttemptsAssumption, FS_Subset, FS_CardinalityType DEF Holding

\* A step that moves no attempt into or out of a slot and leaves the counters alone.
LEMMA SlotsUnaffected ==
  ASSUME SlotsMatchAttempts, UNCHANGED <<active, aworker>>,
         \A a \in Attempts : apc'[a] \in SlotHolding <=> apc[a] \in SlotHolding
  PROVE  SlotsMatchAttempts'
<1>1. \A w \in Workers : Holding(w)' = Holding(w)
  BY DEF Holding
<1> QED  BY <1>1 DEF SlotsMatchAttempts

LEMMA SpawnSlots ==
  ASSUME TypeInv, SlotsMatchAttempts, NEW w \in Workers, NEW t \in Tasks,
         NEW a \in Attempts, Spawn(w, t, a)
  PROVE  SlotsMatchAttempts'
<1> SUFFICES ASSUME NEW v \in Workers
             PROVE  active'[v] = Cardinality(Holding(v)') /\ active'[v] <= Capacity
  BY DEF SlotsMatchAttempts
<1>1. CASE v = w
  <2>1. Holding(v)' = Holding(v) \cup {a}
    BY <1>1 DEF Spawn, Holding, SlotHolding, TypeInv, TypeOK
  <2>2. a \notin Holding(v)
    BY DEF Spawn, Holding, SlotHolding
  <2>3. Cardinality(Holding(v)') = Cardinality(Holding(v)) + 1
    BY <2>1, <2>2, HoldingFinite, FS_AddElement
  <2>4. active'[v] = active[v] + 1 /\ active[v] < Capacity
    BY <1>1 DEF Spawn, HasSlot, TypeInv, TypeOK
  <2> QED
    BY <2>3, <2>4, CapacityAssumption DEF SlotsMatchAttempts, TypeInv, TypeOK
<1>2. CASE v # w
  <2>1. Holding(v)' = Holding(v) /\ active'[v] = active[v]
    BY <1>2 DEF Spawn, Holding, SlotHolding, TypeInv, TypeOK
  <2> QED  BY <2>1 DEF SlotsMatchAttempts
<1> QED  BY <1>1, <1>2

LEMMA ReleaseSlots ==
  ASSUME TypeInv, SlotsMatchAttempts, NEW a \in Attempts, ReleaseSlot(a),
         apc[a] \in SlotHolding, UNCHANGED aworker
  PROVE  SlotsMatchAttempts'
<1> DEFINE w == aworker[a]
<1>1. w \in Workers
  BY DEF TypeInv, Shape, AttemptShape, SlotHolding
<1> SUFFICES ASSUME NEW v \in Workers
             PROVE  active'[v] = Cardinality(Holding(v)') /\ active'[v] <= Capacity
  BY DEF SlotsMatchAttempts
<1>2. CASE v = w
  <2>1. Holding(v)' = Holding(v) \ {a}
    BY <1>2 DEF ReleaseSlot, Holding, SlotHolding, TypeInv, TypeOK
  <2>2. a \in Holding(v)
    BY <1>2 DEF Holding
  <2>3. Cardinality(Holding(v)') = Cardinality(Holding(v)) - 1
    BY <2>1, <2>2, HoldingFinite, FS_RemoveElement
  <2>4. Cardinality(Holding(v)) # 0
    BY <2>2, HoldingFinite, FS_EmptySet
  <2>5. active[v] = Cardinality(Holding(v)) /\ active[v] <= Capacity /\ active[v] > 0
    BY <2>4, HoldingFinite DEF SlotsMatchAttempts
  <2>6. active'[v] = active[v] - 1
    BY <1>1, <1>2, <2>5 DEF ReleaseSlot, TypeInv, TypeOK
  <2> QED
    BY <2>3, <2>5, <2>6, HoldingFinite, CapacityAssumption
<1>3. CASE v # w
  <2>1. Holding(v)' = Holding(v) /\ active'[v] = active[v]
    BY <1>3 DEF ReleaseSlot, Holding, SlotHolding, TypeInv, TypeOK
  <2> QED  BY <2>1 DEF SlotsMatchAttempts
<1> QED  BY <1>2, <1>3

LEMMA CrashSlots ==
  ASSUME TypeInv, SlotsMatchAttempts, NEW w \in Workers, Crash(w)
  PROVE  SlotsMatchAttempts'
<1> SUFFICES ASSUME NEW v \in Workers
             PROVE  active'[v] = Cardinality(Holding(v)') /\ active'[v] <= Capacity
  BY DEF SlotsMatchAttempts
<1>1. CASE v = w
  <2>1. Holding(v)' = {}
    BY <1>1 DEF Crash, Holding, Victims, Live, SlotHolding
  <2>2. active'[v] = 0
    BY <1>1 DEF Crash, TypeInv, TypeOK
  <2> QED  BY <2>1, <2>2, FS_EmptySet, CapacityAssumption
<1>2. CASE v # w
  <2>1. Holding(v)' = Holding(v) /\ active'[v] = active[v]
    BY <1>2 DEF Crash, Holding, Victims, Live, SlotHolding, TypeInv, TypeOK
  <2> QED  BY <2>1 DEF SlotsMatchAttempts
<1> QED  BY <1>1, <1>2

LEMMA NextSlots == TypeInv /\ SlotsMatchAttempts /\ [Next]_vars => SlotsMatchAttempts'
<1> SUFFICES ASSUME TypeInv, SlotsMatchAttempts, [Next]_vars
             PROVE  SlotsMatchAttempts'
  OBVIOUS
<1> USE DEF gatewayVars, workerVars, registryVars, historyVars
<1>1. CASE SubmitStep
  BY <1>1, SlotsUnaffected
     DEF SubmitStep, SubmitPush, SubmitRefused, SubmitRecord, SubmitRecordFails
<1>2. CASE ConsumerStep
  <2>1. ASSUME NEW c \in Consumers, NEW a \in Attempts, AcceptTask(c, a)
        PROVE  SlotsMatchAttempts'
    <3>1. target[c] \in Workers /\ hand[c] \in Tasks
      BY <2>1 DEF AcceptTask, TypeInv, TypeOK, Shape, HandShape
    <3> QED  BY <2>1, <3>1, SpawnSlots DEF AcceptTask
  <2>2. CASE UNCHANGED workerVars
    BY <2>2, SlotsUnaffected
  <2> QED
    BY <1>2, <2>1, <2>2 DEF ConsumerStep, Pop, ChooseWorker, Dispatched, ConnectFails,
       PostAbandoned, Requeue, ConsumerError, WorkerFull
<1>3. CASE OrphanStep
  <2>1. ASSUME NEW t \in Tasks, NEW w \in Workers, NEW a \in Attempts, AcceptOrphan(t, w, a)
        PROVE  SlotsMatchAttempts'
    BY <2>1, SpawnSlots DEF AcceptOrphan
  <2>2. ASSUME NEW t \in Tasks, NEW w \in Workers, DropOrphan(t, w)
        PROVE  SlotsMatchAttempts'
    BY <2>2, SlotsUnaffected DEF DropOrphan
  <2> QED  BY <1>3, <2>1, <2>2 DEF OrphanStep
<1>4. ASSUME NEW a \in Attempts,
             \/ StartRun(a) \/ Expire(a) \/ StoreTimeout(a) \/ StoreTimeoutFails(a)
             \/ Persist(a) \/ PersistFails(a)
      PROVE  SlotsMatchAttempts'
  BY <1>4, SlotsUnaffected
     DEF StartRun, Expire, StoreTimeout, StoreTimeoutFails, Persist, PersistFails,
         SlotHolding, TypeInv, TypeOK
<1>5. ASSUME NEW a \in Attempts,
             ReleaseExpired(a) \/ \E o \in {"completed", "failed"} : Finish(a, o)
      PROVE  SlotsMatchAttempts'
  BY <1>5, ReleaseSlots DEF ReleaseExpired, Finish, SlotHolding
<1>6. ASSUME NEW a \in Attempts, NEW s \in WorkerStatus,
             WriteAccepted(a, s) \/ WriteReleased(a, s) \/ WriteReleasedFails(a, s)
      PROVE  SlotsMatchAttempts'
  BY <1>6, SlotsUnaffected
     DEF WriteAccepted, WriteReleased, WriteReleasedFails, SlotHolding, TypeInv, TypeOK,
         Shape, PendShape
<1>7. CASE WorkerStep
  <2>1. ASSUME NEW w \in Workers, Heartbeat(w) \/ AliveExpires(w) \/ Start(w)
        PROVE  SlotsMatchAttempts'
    BY <2>1, SlotsUnaffected DEF Heartbeat, AliveExpires, Start
  <2> QED  BY <1>7, <2>1, CrashSlots DEF WorkerStep
<1>8. CASE ReaperStep
  BY <1>8, SlotsUnaffected DEF ReaperStep, Select, Reap, ReapFails
<1>9. CASE GatewayRestart
  BY <1>9, SlotsUnaffected DEF GatewayRestart
<1>10. CASE UNCHANGED vars
  BY <1>10, SlotsUnaffected DEF vars
<1> QED
  BY <1>1, <1>2, <1>3, <1>4, <1>5, <1>6, <1>7, <1>8, <1>9, <1>10 DEF Next, AttemptStep

\* A worker's _active_task_count is exactly the number of executions that hold one
\* of its slots, and never more than WORKER_CONCURRENCY, for any number of workers,
\* tasks and failures.
THEOREM SlotAccounting == Spec => []SlotsMatchAttempts
<1>1. Init => SlotsMatchAttempts
  <2> SUFFICES ASSUME Init, NEW w \in Workers
               PROVE  active[w] = Cardinality(Holding(w)) /\ active[w] <= Capacity
    BY DEF SlotsMatchAttempts
  <2>1. Holding(w) = {}
    BY DEF Init, Holding, SlotHolding
  <2> QED  BY <2>1, FS_EmptySet, CapacityAssumption DEF Init
<1> QED  BY <1>1, TypeInvInvariant, NextSlots, PTL DEF Spec

-----------------------------------------------------------------------------
(* At most one execution.  A task can be on the queue, in a consumer's hand, *)
(* in a request nobody waits for, or in an attempt.  The invariant says that *)
(* a task that was never queued again is in one of these places only; but a  *)
(* consumer that has read "accepted" shares it with the attempt it caused.   *)

QueueOnce ==
    \A i, j \in DOMAIN queue : queue[i] = queue[j] /\ i # j => queue[i] \in retried

HandOnce ==
    \A c, d \in Consumers : hand[c] = hand[d] /\ c # d /\ hand[c] # None
                               => hand[c] \in retried

OrphanOnce ==
    \A t \in Tasks, v, w \in Workers :
        <<t, v>> \in orphans /\ <<t, w>> \in orphans /\ v # w => t \in retried

Apart ==
    \A t \in Tasks :
        /\ Queued(t) /\ InHand(t) => t \in retried
        /\ Queued(t) /\ InFlight(t) => t \in retried
        /\ InHand(t) /\ InFlight(t) => t \in retried
        /\ \A a \in Attempts : atask[a] = t =>
              /\ Queued(t) => t \in retried
              /\ InFlight(t) => t \in retried
              /\ \A c \in Consumers : hand[c] = t /\ cpc[c] # "accepted" => t \in retried

\* A task that has not been submitted is nowhere.
NewNowhere ==
    \A t \in Tasks : submit[t] = "new" =>
        /\ ~Queued(t) /\ ~InHand(t) /\ ~InFlight(t)
        /\ \A a \in Attempts : atask[a] # t

OneCopy == QueueOnce /\ HandOnce /\ OrphanOnce /\ Apart /\ AtMostOnce /\ NewNowhere

\* The three ways the Redis list changes, as facts about who is on it.
LEMMA AppendFacts ==
  ASSUME NEW t \in Tasks, queue \in Seq(Tasks), queue' = Append(queue, t), QueueOnce,
         ~Queued(t), UNCHANGED retried
  PROVE  /\ \A u \in Tasks : Queued(u)' <=> Queued(u) \/ u = t
         /\ QueueOnce'
<1>1. /\ DOMAIN queue = 1..Len(queue) /\ Len(queue) \in Nat
      /\ DOMAIN queue' = 1..(Len(queue) + 1)
      /\ \A i \in 1..Len(queue) : queue'[i] = queue[i]
      /\ queue'[Len(queue) + 1] = t
  OBVIOUS
<1>2. \A u \in Tasks : Queued(u)' <=> Queued(u) \/ u = t
  BY <1>1 DEF Queued
<1>3. QueueOnce'
  BY <1>1 DEF QueueOnce, Queued
<1> QED  BY <1>2, <1>3

LEMMA TailFacts ==
  ASSUME NEW t \in Tasks, queue \in Seq(Tasks), queue # <<>>, t = Head(queue),
         queue' = Tail(queue), QueueOnce, UNCHANGED retried
  PROVE  /\ \A u \in Tasks : Queued(u)' => Queued(u)
         /\ Queued(t)
         /\ Queued(t)' => t \in retried
         /\ QueueOnce'
<1>1. /\ DOMAIN queue = 1..Len(queue) /\ Len(queue) \in Nat \ {0}
      /\ DOMAIN queue' = 1..(Len(queue) - 1)
      /\ \A i \in 1..(Len(queue) - 1) : queue'[i] = queue[i + 1]
      /\ t = queue[1]
  BY HeadTailProperties, EmptySeq
<1>2. \A i \in DOMAIN queue' : i + 1 \in DOMAIN queue /\ i + 1 # 1 /\ i \in Nat
  BY <1>1
<1>3. Queued(t)
  BY <1>1 DEF Queued
<1>4. \A u \in Tasks : Queued(u)' => Queued(u)
  BY <1>1, <1>2 DEF Queued
<1>5. Queued(t)' => t \in retried
  <2> SUFFICES ASSUME NEW i \in DOMAIN queue', queue'[i] = t
               PROVE  t \in retried
    BY DEF Queued
  <2>1. i + 1 \in DOMAIN queue /\ 1 \in DOMAIN queue /\ i + 1 # 1
    BY <1>1, <1>2
  <2>2. queue[i + 1] = queue[1]
    BY <1>1
  <2> QED  BY <1>1, <2>1, <2>2 DEF QueueOnce
<1>6. QueueOnce'
  BY <1>1, <1>2 DEF QueueOnce
<1> QED  BY <1>3, <1>4, <1>5, <1>6

LEMMA PushFacts ==
  ASSUME NEW t \in Tasks, queue \in Seq(Tasks), queue' = <<t>> \o queue, QueueOnce,
         Queued(t) => t \in retried, UNCHANGED retried
  PROVE  /\ \A u \in Tasks : Queued(u)' <=> Queued(u) \/ u = t
         /\ QueueOnce'
<1>1. <<t>> \in Seq(Tasks) /\ Len(<<t>>) = 1 /\ <<t>>[1] = t
  OBVIOUS
<1>2. /\ DOMAIN queue = 1..Len(queue) /\ Len(queue) \in Nat
      /\ DOMAIN queue' = 1..(Len(queue) + 1)
      /\ queue'[1] = t
      /\ \A i \in 1..(Len(queue) + 1) : i # 1 => queue'[i] = queue[i - 1]
  BY <1>1, ConcatProperties, LenProperties
<1>3. /\ \A i \in DOMAIN queue : i + 1 \in DOMAIN queue' /\ i + 1 # 1 /\ (i + 1) - 1 = i
      /\ \A i \in DOMAIN queue' : i # 1 => i - 1 \in DOMAIN queue
  BY <1>2
<1>4. \A u \in Tasks : Queued(u)' <=> Queued(u) \/ u = t
  BY <1>2, <1>3 DEF Queued
<1>5. ASSUME NEW i \in DOMAIN queue', NEW j \in DOMAIN queue', queue'[i] = queue'[j], i # j
      PROVE  queue'[i] \in retried
  <2>1. CASE i # 1 /\ j # 1
    BY <1>2, <1>3, <1>5, <2>1 DEF QueueOnce
  <2>2. CASE i = 1 \/ j = 1
    BY <1>2, <1>3, <1>5, <2>2 DEF Queued
  <2> QED  BY <2>1, <2>2
<1>6. QueueOnce'
  BY <1>5 DEF QueueOnce
<1> QED  BY <1>4, <1>6

\* A step that takes tasks out of hands and requests and puts none anywhere.
LEMMA PlacesUnaffected ==
  ASSUME OneCopy, UNCHANGED <<queue, atask>>, orphans' \subseteq orphans,
         retried \subseteq retried',
         \A t \in Tasks : submit'[t] = "new" => submit[t] = "new",
         \A c \in Consumers :
            \/ hand'[c] = None
            \/ /\ hand'[c] = hand[c]
               /\ cpc'[c] # "accepted" => cpc[c] # "accepted" \/ hand[c] \in retried'
  PROVE  OneCopy'
<1>1. QueueOnce' /\ AtMostOnce'
  BY DEF OneCopy, QueueOnce, AtMostOnce
<1>2. HandOnce'
  BY NoneAssumption DEF OneCopy, HandOnce
<1>3. OrphanOnce'
  BY DEF OneCopy, OrphanOnce
<1>4. \A t \in Tasks : /\ Queued(t)' <=> Queued(t)
                       /\ InHand(t)' => InHand(t)
                       /\ InFlight(t)' => InFlight(t)
  BY NoneAssumption DEF Queued, InHand, InFlight
<1>5. NewNowhere'
  BY <1>4 DEF OneCopy, NewNowhere
<1>6. Apart'
  <2> SUFFICES ASSUME NEW t \in Tasks
               PROVE  /\ Queued(t)' /\ InHand(t)' => t \in retried'
                      /\ Queued(t)' /\ InFlight(t)' => t \in retried'
                      /\ InHand(t)' /\ InFlight(t)' => t \in retried'
                      /\ \A a \in Attempts : atask'[a] = t =>
                            /\ Queued(t)' => t \in retried'
                            /\ InFlight(t)' => t \in retried'
                            /\ \A c \in Consumers : hand'[c] = t /\ cpc'[c] # "accepted"
                                                       => t \in retried'
    BY DEF Apart
  <2>1. \A a \in Attempts, c \in Consumers :
           atask[a] = t /\ hand[c] = t /\ cpc[c] # "accepted" => t \in retried
    BY DEF OneCopy, Apart
  <2>2. \A a \in Attempts, c \in Consumers :
           atask'[a] = t /\ hand'[c] = t /\ cpc'[c] # "accepted" => t \in retried'
    BY <2>1, NoneAssumption
  <2>3. /\ Queued(t) /\ InHand(t) => t \in retried
        /\ Queued(t) /\ InFlight(t) => t \in retried
        /\ InHand(t) /\ InFlight(t) => t \in retried
        /\ \A a \in Attempts : atask[a] = t =>
              (Queued(t) => t \in retried) /\ (InFlight(t) => t \in retried)
    BY DEF OneCopy, Apart
  <2> QED  BY <1>4, <2>2, <2>3
<1> QED  BY <1>1, <1>2, <1>3, <1>5, <1>6 DEF OneCopy

LEMMA SubmitOneCopy ==
  ASSUME TypeInv, OneCopy, NEW t \in Tasks, SubmitPush(t)
  PROVE  OneCopy'
<1>1. /\ ~Queued(t) /\ ~InHand(t) /\ ~InFlight(t)
      /\ \A a \in Attempts : atask[a] # t
  BY DEF SubmitPush, OneCopy, NewNowhere
<1>2. /\ \A u \in Tasks : Queued(u)' <=> Queued(u) \/ u = t
      /\ QueueOnce'
  BY <1>1, AppendFacts DEF SubmitPush, historyVars, OneCopy, TypeInv, TypeOK
<1>3. UNCHANGED <<hand, cpc, orphans, atask, retried>>
  BY DEF SubmitPush, workerVars, historyVars
<1>4. \A u \in Tasks : (InHand(u)' <=> InHand(u)) /\ (InFlight(u)' <=> InFlight(u))
  BY <1>3 DEF InHand, InFlight
<1>5. HandOnce' /\ OrphanOnce' /\ AtMostOnce'
  BY <1>3 DEF OneCopy, HandOnce, OrphanOnce, AtMostOnce
<1>6. Apart'
  BY <1>1, <1>2, <1>3, <1>4, NoneAssumption DEF OneCopy, Apart, InHand
<1>7. NewNowhere'
  BY <1>1, <1>2, <1>3, <1>4 DEF OneCopy, NewNowhere, SubmitPush, TypeInv, TypeOK
<1> QED  BY <1>2, <1>5, <1>6, <1>7 DEF OneCopy

LEMMA PopOneCopy ==
  ASSUME TypeInv, OneCopy, NEW c \in Consumers, Pop(c)
  PROVE  OneCopy'
<1>1. PICK t \in Tasks : t = Head(queue)
  BY HeadTailProperties DEF Pop, TypeInv, TypeOK
<1>2. /\ \A u \in Tasks : Queued(u)' => Queued(u)
      /\ Queued(t)
      /\ Queued(t)' => t \in retried
      /\ QueueOnce'
  BY <1>1, TailFacts DEF Pop, AfterPop, historyVars, OneCopy, TypeInv, TypeOK
<1>3. /\ hand' = [hand EXCEPT ![c] = t] /\ hand[c] = None
      /\ cpc' = [cpc EXCEPT ![c] = "scan"]
      /\ UNCHANGED <<submit, orphans, atask, retried>>
  BY <1>1 DEF Pop, workerVars, historyVars, TypeInv, Shape, HandShape
<1>4. /\ hand \in [Consumers -> Tasks \cup {None}]
      /\ cpc \in [Consumers -> {"pop", "scan", "post", "accepted", "full", "requeue"}]
  BY DEF TypeInv, TypeOK
<1>5. /\ \A d \in Consumers : d # c => hand'[d] = hand[d] /\ cpc'[d] = cpc[d]
      /\ hand'[c] = t
  BY <1>3, <1>4
<1>6. \A u \in Tasks : /\ InHand(u)' => InHand(u) \/ u = t
                       /\ InFlight(u)' <=> InFlight(u)
  BY <1>3, <1>5 DEF InHand, InFlight
<1>7. HandOnce'
  <2>1. \A d \in Consumers : hand[d] = t => t \in retried
    BY <1>1, <1>2 DEF OneCopy, Apart, InHand
  <2> QED  BY <1>3, <1>5, <2>1 DEF OneCopy, HandOnce
<1>8. OrphanOnce' /\ AtMostOnce'
  BY <1>3 DEF OneCopy, OrphanOnce, AtMostOnce
<1>9. Apart'
  <2> SUFFICES ASSUME NEW u \in Tasks
               PROVE  /\ Queued(u)' /\ InHand(u)' => u \in retried
                      /\ Queued(u)' /\ InFlight(u)' => u \in retried
                      /\ InHand(u)' /\ InFlight(u)' => u \in retried
                      /\ \A a \in Attempts : atask[a] = u =>
                            /\ Queued(u)' => u \in retried
                            /\ InFlight(u)' => u \in retried
                            /\ \A d \in Consumers : hand'[d] = u /\ cpc'[d] # "accepted"
                                                       => u \in retried
    BY <1>3 DEF Apart
  <2>1. CASE u = t
    BY <1>2, <1>6, <2>1 DEF OneCopy, Apart
  <2>2. CASE u # t
    BY <1>2, <1>5, <1>6, <2>2 DEF OneCopy, Apart
  <2> QED  BY <2>1, <2>2
<1>10. NewNowhere'
  BY <1>2, <1>3, <1>6 DEF OneCopy, NewNowhere
<1> QED  BY <1>2, <1>7, <1>8, <1>9, <1>10 DEF OneCopy

LEMMA RequeueOneCopy ==
  ASSUME TypeInv, OneCopy, NEW c \in Consumers, Requeue(c)
  PROVE  OneCopy'
<1>1. PICK t \in Tasks : t = hand[c]
  BY NoneAssumption DEF Requeue, TypeInv, TypeOK, Shape, HandShape
<1>2. Queued(t) => t \in retried
  BY <1>1 DEF OneCopy, Apart, InHand
<1>3. /\ \A u \in Tasks : Queued(u)' <=> Queued(u) \/ u = t
      /\ QueueOnce'
  BY <1>1, <1>2, PushFacts
     DEF Requeue, Requeued, historyVars, OneCopy, TypeInv, TypeOK
<1>4. /\ hand' = [hand EXCEPT ![c] = None] /\ cpc[c] = "requeue"
      /\ cpc' = [cpc EXCEPT ![c] = "pop"]
      /\ UNCHANGED <<submit, orphans, atask, retried>>
  BY DEF Requeue, workerVars, historyVars
<1>5. /\ \A d \in Consumers : d # c => hand'[d] = hand[d] /\ cpc'[d] = cpc[d]
      /\ hand'[c] = None
  BY <1>4 DEF TypeInv, TypeOK
<1>6. \A u \in Tasks : /\ InHand(u)' => InHand(u)
                       /\ InFlight(u)' <=> InFlight(u)
  BY <1>4, <1>5, NoneAssumption DEF InHand, InFlight
<1>7. HandOnce' /\ OrphanOnce' /\ AtMostOnce'
  BY <1>4, <1>5 DEF OneCopy, HandOnce, OrphanOnce, AtMostOnce
<1>8. InHand(t)' => t \in retried
  BY <1>1, <1>5, NoneAssumption DEF OneCopy, HandOnce, InHand
<1>9. Apart'
  <2> SUFFICES ASSUME NEW u \in Tasks
               PROVE  /\ Queued(u)' /\ InHand(u)' => u \in retried
                      /\ Queued(u)' /\ InFlight(u)' => u \in retried
                      /\ InHand(u)' /\ InFlight(u)' => u \in retried
                      /\ \A a \in Attempts : atask[a] = u =>
                            /\ Queued(u)' => u \in retried
                            /\ InFlight(u)' => u \in retried
                            /\ \A d \in Consumers : hand'[d] = u /\ cpc'[d] # "accepted"
                                                       => u \in retried
    BY <1>4 DEF Apart
  <2>1. CASE u = t
    <3>1. InHand(t)
      BY <1>1 DEF InHand
    <3>2. \A a \in Attempts : atask[a] = t => t \in retried
      BY <1>1, <1>4 DEF OneCopy, Apart
    <3> QED  BY <1>6, <1>8, <2>1, <3>1, <3>2 DEF OneCopy, Apart
  <2>2. CASE u # t
    BY <1>3, <1>5, <1>6, <2>2, NoneAssumption DEF OneCopy, Apart
  <2> QED  BY <2>1, <2>2
<1>10. NewNowhere'
  BY <1>1, <1>3, <1>4, <1>6 DEF OneCopy, NewNowhere, InHand
<1> QED  BY <1>3, <1>7, <1>9, <1>10 DEF OneCopy

LEMMA AbandonOneCopy ==
  ASSUME TypeInv, OneCopy, NEW c \in Consumers, PostAbandoned(c)
  PROVE  OneCopy'
<1>1. PICK t \in Tasks : t = hand[c]
  BY NoneAssumption DEF PostAbandoned, TypeInv, TypeOK, Shape, HandShape
<1>2. /\ t \in retried' /\ retried \subseteq retried'
      /\ cpc' = [cpc EXCEPT ![c] = "requeue"]
      /\ UNCHANGED <<submit, hand, queue, atask>>
      /\ \A u \in Tasks, w \in Workers : <<u, w>> \in orphans' => <<u, w>> \in orphans \/ u = t
  BY <1>1 DEF PostAbandoned, workerVars
<1>3. \A u \in Tasks : /\ Queued(u)' <=> Queued(u)
                       /\ InHand(u)' <=> InHand(u)
                       /\ InFlight(u)' => InFlight(u) \/ u = t
  BY <1>2 DEF Queued, InHand, InFlight
<1>4. QueueOnce' /\ AtMostOnce'
  BY <1>2 DEF OneCopy, QueueOnce, AtMostOnce
<1>5. HandOnce'
  BY <1>2 DEF OneCopy, HandOnce
<1>6. OrphanOnce'
  BY <1>2 DEF OneCopy, OrphanOnce
<1>7. \A d \in Consumers : d # c => cpc'[d] = cpc[d]
  BY <1>2 DEF TypeInv, TypeOK
<1>8. Apart'
  BY <1>1, <1>2, <1>3, <1>7 DEF OneCopy, Apart
<1>9. NewNowhere'
  BY <1>1, <1>2, <1>3 DEF OneCopy, NewNowhere, InHand
<1> QED  BY <1>4, <1>5, <1>6, <1>8, <1>9 DEF OneCopy

LEMMA AcceptOneCopy ==
  ASSUME TypeInv, OneCopy, NEW c \in Consumers, NEW a \in Attempts, AcceptTask(c, a)
  PROVE  OneCopy'
<1>1. PICK t \in Tasks : t = hand[c]
  BY NoneAssumption DEF AcceptTask, TypeInv, TypeOK, Shape, HandShape
<1>2. /\ atask' = [atask EXCEPT ![a] = t] /\ cpc[c] = "post"
      /\ cpc' = [cpc EXCEPT ![c] = "accepted"]
      /\ UNCHANGED <<submit, hand, queue, orphans, retried>>
  BY <1>1 DEF AcceptTask, Spawn, historyVars
<1>3. /\ \A b \in Attempts : b # a => atask'[b] = atask[b]
      /\ atask'[a] = t
      /\ \A d \in Consumers : d # c => cpc'[d] = cpc[d]
      /\ cpc'[c] = "accepted"
  BY <1>2 DEF TypeInv, TypeOK
<1>4. \A u \in Tasks : /\ Queued(u)' <=> Queued(u)
                       /\ InHand(u)' <=> InHand(u)
                       /\ InFlight(u)' <=> InFlight(u)
  BY <1>2 DEF Queued, InHand, InFlight
<1>5. /\ InHand(t)
      /\ \A b \in Attempts : atask[b] = t => t \in retried
      /\ \A d \in Consumers : d # c /\ hand[d] = t => t \in retried
  BY <1>1, <1>2, NoneAssumption DEF OneCopy, Apart, HandOnce, InHand
<1>6. QueueOnce' /\ HandOnce' /\ OrphanOnce'
  BY <1>2 DEF OneCopy, QueueOnce, HandOnce, OrphanOnce
<1>7. AtMostOnce'
  BY <1>2, <1>3, <1>5 DEF OneCopy, AtMostOnce
<1>8. Apart'
  BY <1>2, <1>3, <1>4, <1>5 DEF OneCopy, Apart
<1>9. NewNowhere'
  BY <1>2, <1>3, <1>4, <1>5 DEF OneCopy, NewNowhere
<1> QED  BY <1>6, <1>7, <1>8, <1>9 DEF OneCopy

LEMMA AcceptOrphanOneCopy ==
  ASSUME TypeInv, OneCopy, NEW t \in Tasks, NEW w \in Workers, NEW a \in Attempts,
         AcceptOrphan(t, w, a)
  PROVE  OneCopy'
<1>1. /\ atask' = [atask EXCEPT ![a] = t]
      /\ orphans' = orphans \ {<<t, w>>} /\ <<t, w>> \in orphans
      /\ UNCHANGED <<submit, hand, cpc, queue, retried>>
  BY DEF AcceptOrphan, Spawn, gatewayVars, historyVars
<1>2. /\ \A b \in Attempts : b # a => atask'[b] = atask[b]
      /\ atask'[a] = t
  BY <1>1 DEF TypeInv, TypeOK
<1>3. \A u \in Tasks : /\ Queued(u)' <=> Queued(u)
                       /\ InHand(u)' <=> InHand(u)
                       /\ InFlight(u)' => InFlight(u)
  BY <1>1 DEF Queued, InHand, InFlight
<1>4. /\ InFlight(t)
      /\ InFlight(t)' => t \in retried
  BY <1>1 DEF OneCopy, OrphanOnce, InFlight
<1>5. \A b \in Attempts : atask[b] = t => t \in retried
  BY <1>4 DEF OneCopy, Apart
<1>6. QueueOnce' /\ HandOnce' /\ OrphanOnce'
  BY <1>1 DEF OneCopy, QueueOnce, HandOnce, OrphanOnce
<1>7. AtMostOnce'
  BY <1>1, <1>2, <1>5 DEF OneCopy, AtMostOnce
<1>8. \A d \in Consumers : hand[d] = t => t \in retried
  BY <1>4 DEF OneCopy, Apart, InHand
<1>9. Apart'
  BY <1>1, <1>2, <1>3, <1>4, <1>8 DEF OneCopy, Apart
<1>10. NewNowhere'
  BY <1>1, <1>2, <1>3, <1>4 DEF OneCopy, NewNowhere
<1> QED  BY <1>6, <1>7, <1>9, <1>10 DEF OneCopy

LEMMA RestartOneCopy ==
  ASSUME TypeInv, OneCopy, GatewayRestart
  PROVE  OneCopy'
<1>1. /\ \A c \in Consumers : hand'[c] = None
      /\ \A t \in Tasks : submit'[t] = "new" => submit[t] = "new"
      /\ orphans' = orphans \cup {<<hand[c], target[c]>> : c \in Sent}
      /\ UNCHANGED <<queue, atask, retried>>
  BY DEF GatewayRestart, workerVars, TypeInv, TypeOK
<1>2. ASSUME NEW u \in Tasks, NEW w \in Workers, <<u, w>> \in orphans'
      PROVE  \/ <<u, w>> \in orphans
             \/ \E c \in Consumers : hand[c] = u /\ target[c] = w /\ cpc[c] = "post"
  BY <1>1, <1>2 DEF Sent
<1>3. /\ QueueOnce' /\ AtMostOnce'
      /\ HandOnce'
  BY <1>1 DEF OneCopy, QueueOnce, AtMostOnce, HandOnce
<1>4. OrphanOnce'
  <2> SUFFICES ASSUME NEW t \in Tasks, NEW v \in Workers, NEW w \in Workers,
                      <<t, v>> \in orphans', <<t, w>> \in orphans', v # w
               PROVE  t \in retried
    BY <1>1 DEF OrphanOnce
  <2>1. CASE <<t, v>> \in orphans /\ <<t, w>> \in orphans
    BY <2>1 DEF OneCopy, OrphanOnce
  <2>2. CASE InFlight(t) /\ InHand(t)
    BY <2>2 DEF OneCopy, Apart
  <2>3. CASE \E c, d \in Consumers : c # d /\ hand[c] = t /\ hand[d] = t
    BY <2>3, NoneAssumption DEF OneCopy, HandOnce
  <2> QED  BY <1>2, <2>1, <2>2, <2>3 DEF InFlight, InHand
<1>5. \A u \in Tasks :
         /\ Queued(u)' <=> Queued(u)
         /\ ~InHand(u)'
         /\ InFlight(u)' => \/ InFlight(u)
                            \/ \E c \in Consumers : hand[c] = u /\ cpc[c] = "post"
  BY <1>1, <1>2, NoneAssumption DEF Queued, InHand, InFlight
<1>6. Apart'
  <2> SUFFICES ASSUME NEW u \in Tasks
               PROVE  /\ Queued(u)' /\ InFlight(u)' => u \in retried
                      /\ \A a \in Attempts : atask[a] = u =>
                            /\ Queued(u)' => u \in retried
                            /\ InFlight(u)' => u \in retried
    BY <1>1, <1>5, NoneAssumption DEF Apart
  <2> QED  BY <1>5 DEF OneCopy, Apart, InHand
<1>7. NewNowhere'
  BY <1>1, <1>5 DEF OneCopy, NewNowhere, InHand
<1> QED  BY <1>3, <1>4, <1>6, <1>7 DEF OneCopy

LEMMA NextOneCopy == TypeInv /\ OneCopy /\ [Next]_vars => OneCopy'
<1> SUFFICES ASSUME TypeInv, OneCopy, [Next]_vars
             PROVE  OneCopy'
  OBVIOUS
<1> USE DEF gatewayVars, workerVars, registryVars, historyVars
<1>1. CASE SubmitStep
  <2>1. ASSUME NEW t \in Tasks, SubmitRefused(t) \/ SubmitRecord(t) \/ SubmitRecordFails(t)
        PROVE  OneCopy'
    BY <2>1, PlacesUnaffected
       DEF SubmitRefused, SubmitRecord, SubmitRecordFails, TypeInv, TypeOK
  <2> QED  BY <1>1, <2>1, SubmitOneCopy DEF SubmitStep
<1>2. CASE ConsumerStep
  <2>1. ASSUME NEW c \in Consumers,
               ChooseWorker(c) \/ Dispatched(c) \/ ConnectFails(c) \/ ConsumerError(c)
               \/ WorkerFull(c)
        PROVE  OneCopy'
    <3>1. UNCHANGED <<queue, atask, orphans, retried, submit>>
      BY <2>1 DEF ChooseWorker, Dispatched, ConnectFails, ConsumerError, WorkerFull
    <3>2. \A d \in Consumers :
             \/ hand'[d] = None
             \/ hand'[d] = hand[d] /\ (cpc'[d] # "accepted" => cpc[d] # "accepted")
      BY <2>1 DEF ChooseWorker, Dispatched, ConnectFails, ConsumerError, WorkerFull,
                  TypeInv, TypeOK
    <3> QED  BY <3>1, <3>2, PlacesUnaffected
  <2> QED
    BY <1>2, <2>1, PopOneCopy, RequeueOneCopy, AbandonOneCopy, AcceptOneCopy
       DEF ConsumerStep
<1>3. CASE OrphanStep
  <2>1. ASSUME NEW t \in Tasks, NEW w \in Workers, DropOrphan(t, w)
        PROVE  OneCopy'
    BY <2>1, PlacesUnaffected DEF DropOrphan
  <2> QED  BY <1>3, <2>1, AcceptOrphanOneCopy DEF OrphanStep
<1>4. CASE UNCHANGED <<gatewayVars, queue, orphans, atask, retried>>
  BY <1>4, PlacesUnaffected
<1>5. CASE AttemptStep
  BY <1>4, <1>5 DEF AttemptStep, StartRun, Finish, Expire, StoreTimeout, StoreTimeoutFails,
     ReleaseExpired, Persist, PersistFails, WriteAccepted, WriteReleased, WriteReleasedFails
<1>6. CASE WorkerStep
  BY <1>4, <1>6 DEF WorkerStep, Heartbeat, Crash, AliveExpires, Start
<1>7. CASE ReaperStep
  BY <1>4, <1>7 DEF ReaperStep, Select, Reap, ReapFails
<1>8. CASE GatewayRestart
  BY <1>8, RestartOneCopy
<1>9. CASE UNCHANGED vars
  BY <1>4, <1>9 DEF vars
<1> QED  BY <1>1, <1>2, <1>3, <1>5, <1>6, <1>7, <1>8, <1>9 DEF Next

\* A task whose POST /task was never given up is executed at most once, for any
\* number of gateways' consumers, workers and failures of any other kind.
THEOREM ExecutedAtMostOnce == Spec => []AtMostOnce
<1>1. Init => OneCopy
  BY NoneAssumption
     DEF Init, OneCopy, QueueOnce, HandOnce, OrphanOnce, Apart, AtMostOnce, NewNowhere,
         Queued, InHand, InFlight
<1>2. OneCopy => AtMostOnce
  BY DEF OneCopy
<1> QED  BY <1>1, <1>2, TypeInvInvariant, NextOneCopy, PTL DEF Spec

-----------------------------------------------------------------------------
(* Results stay.  Ended relates an attempt's outcome to how far it is, and   *)
(* CompletedBy says where a stored result came from: an attempt that is over *)
(* for good.  If the task is not retried that attempt is its only one, so no *)
(* coroutine is left that could store something else over it.                *)

Ended ==
    \A a \in Attempts : apc[a] \in {"releasing", "persist"} => outcome[a] \in Terminal

CompletedBy ==
    \A t \in Tasks : row[t] = "completed" => \E a \in Attempts : atask[a] = t /\ apc[a] = "done"

ExpiredOutcome ==
    \A a \in Attempts : apc[a] \in {"expired", "notified"} => outcome[a] = "timeout"

Results == Ended /\ CompletedBy /\ ExpiredOutcome

\* No step stores anything, no attempt reaches its finally block, and no attempt
\* that is over comes back.
LEMMA ResultsUnaffected ==
  ASSUME Results, UNCHANGED <<row, outcome>>,
         \A a \in Attempts : /\ apc'[a] \in {"releasing", "persist", "expired", "notified"}
                                   => apc[a] = apc'[a]
                             /\ apc[a] = "done" => apc'[a] = "done" /\ atask'[a] = atask[a]
  PROVE  Results'
BY DEF Results, Ended, CompletedBy, ExpiredOutcome

LEMMA AttemptResults ==
  ASSUME TypeInv, Results, NEW a \in Attempts,
         \/ StartRun(a) \/ (\E o \in {"completed", "failed"} : Finish(a, o)) \/ Expire(a)
         \/ StoreTimeoutFails(a) \/ ReleaseExpired(a) \/ PersistFails(a)
         \/ \E s \in WorkerStatus : \/ WriteAccepted(a, s)
                                    \/ WriteReleased(a, s)
                                    \/ WriteReleasedFails(a, s)
  PROVE  Results'
<1>1. /\ UNCHANGED <<row, atask>>
      /\ \A b \in Attempts : b # a => apc'[b] = apc[b] /\ outcome'[b] = outcome[b]
      /\ apc[a] # "done" \/ apc'[a] = "done"
      /\ apc'[a] \in {"releasing", "persist"} => outcome'[a] \in Terminal
      /\ apc'[a] \in {"expired", "notified"} => outcome'[a] = "timeout"
  <2> USE DEF TypeInv, TypeOK, Shape, PendShape, Results, Ended, ExpiredOutcome, Terminal
  <2>1. CASE \/ StartRun(a) \/ Expire(a) \/ StoreTimeoutFails(a) \/ PersistFails(a)
    BY <2>1 DEF StartRun, Expire, StoreTimeoutFails, PersistFails
  <2>2. CASE ReleaseExpired(a) \/ \E o \in {"completed", "failed"} : Finish(a, o)
    BY <2>2 DEF ReleaseExpired, Finish, ReleaseSlot
  <2>3. CASE \E s \in WorkerStatus : \/ WriteAccepted(a, s)
                                     \/ WriteReleased(a, s)
                                     \/ WriteReleasedFails(a, s)
    BY <2>3 DEF WriteAccepted, WriteReleased, WriteReleasedFails, workerVars
  <2> QED  BY <2>1, <2>2, <2>3
<1> QED  BY <1>1 DEF Results, Ended, CompletedBy, ExpiredOutcome

\* A coroutine that stores its outcome has reached that outcome.
LEMMA StoreResults ==
  ASSUME TypeInv, Results, NEW a \in Attempts, StoreTimeout(a) \/ Persist(a)
  PROVE  Results'
<1>1. /\ UNCHANGED <<outcome, atask>>
      /\ \A b \in Attempts : b # a => apc'[b] = apc[b]
      /\ apc[a] # "done"
      /\ (apc'[a] = "notified" /\ outcome[a] = "timeout") \/ apc'[a] = "done"
      /\ \A t \in Tasks : row'[t] = "completed" =>
            row[t] = "completed" \/ (t = atask[a] /\ apc'[a] = "done")
  BY DEF StoreTimeout, Persist, TypeInv, TypeOK, Results, ExpiredOutcome
<1> QED  BY <1>1 DEF Results, Ended, CompletedBy, ExpiredOutcome

LEMMA NextResults == TypeInv /\ Results /\ [Next]_vars => Results'
<1> SUFFICES ASSUME TypeInv, Results, [Next]_vars
             PROVE  Results'
  OBVIOUS
<1> USE DEF gatewayVars, workerVars, registryVars, historyVars
<1>1. CASE UNCHANGED <<row, workerVars>>
  BY <1>1, ResultsUnaffected
<1>2. CASE SubmitStep
  <2>1. ASSUME NEW t \in Tasks, SubmitRecord(t)
        PROVE  Results'
    BY <2>1 DEF SubmitRecord, RecordedRow, Results, Ended, CompletedBy, ExpiredOutcome,
                TypeInv, TypeOK
  <2> QED
    BY <1>1, <1>2, <2>1 DEF SubmitStep, SubmitPush, SubmitRefused, SubmitRecordFails
<1>3. CASE ConsumerStep
  <2>1. ASSUME NEW c \in Consumers, NEW a \in Attempts, AcceptTask(c, a)
        PROVE  Results'
    BY <2>1, ResultsUnaffected DEF AcceptTask, Spawn, TypeInv, TypeOK
  <2> QED
    BY <1>1, <1>3, <2>1 DEF ConsumerStep, Pop, ChooseWorker, Dispatched, ConnectFails,
       PostAbandoned, Requeue, ConsumerError, WorkerFull
<1>4. CASE OrphanStep
  <2>1. ASSUME NEW t \in Tasks, NEW w \in Workers, NEW a \in Attempts, AcceptOrphan(t, w, a)
        PROVE  Results'
    BY <2>1, ResultsUnaffected DEF AcceptOrphan, Spawn, TypeInv, TypeOK
  <2> QED  BY <1>1, <1>4, <2>1 DEF OrphanStep, DropOrphan
<1>5. CASE AttemptStep
  BY <1>5, AttemptResults, StoreResults DEF AttemptStep
<1>6. CASE WorkerStep
  <2>1. ASSUME NEW w \in Workers, Crash(w)
        PROVE  Results'
    BY <2>1, ResultsUnaffected DEF Crash, Victims, Live, SlotHolding, TypeInv, TypeOK
  <2>2. ASSUME NEW w \in Workers, Heartbeat(w) \/ AliveExpires(w) \/ Start(w)
        PROVE  Results'
    BY <2>2, ResultsUnaffected DEF Heartbeat, AliveExpires, Start
  <2> QED  BY <1>6, <2>1, <2>2 DEF WorkerStep
<1>7. CASE ReaperStep
  <2>1. ASSUME NEW p \in Reapers, NEW t \in Tasks, Reap(p, t)
        PROVE  Results'
    BY <2>1 DEF Reap, ReapedRow, Unfinished, Results, Ended, CompletedBy, ExpiredOutcome,
                TypeInv, TypeOK
  <2> QED  BY <1>1, <1>7, <2>1 DEF ReaperStep, Select, ReapFails
<1>8. CASE GatewayRestart
  BY <1>1, <1>8 DEF GatewayRestart
<1>9. CASE UNCHANGED vars
  BY <1>1, <1>9 DEF vars
<1> QED  BY <1>2, <1>3, <1>4, <1>5, <1>6, <1>7, <1>8, <1>9 DEF Next

LEMMA ResultsInvariant == Spec => []Results
<1>1. Init => Results
  BY DEF Init, Results, Ended, CompletedBy, ExpiredOutcome
<1> QED  BY <1>1, TypeInvInvariant, NextResults, PTL DEF Spec

\* The only steps that write a row.
LEMMA RowWriters ==
  ASSUME [Next]_vars, row' # row
  PROVE  \/ \E t \in Tasks : SubmitRecord(t)
         \/ \E a \in Attempts : StoreTimeout(a) \/ Persist(a)
         \/ \E p \in Reapers, t \in Tasks : Reap(p, t)
<1> USE DEF gatewayVars, workerVars, registryVars, historyVars
<1>1. CASE SubmitStep
  BY <1>1 DEF SubmitStep, SubmitPush, SubmitRefused, SubmitRecordFails
<1>2. CASE ConsumerStep
  BY <1>2 DEF ConsumerStep, Pop, ChooseWorker, Dispatched, ConnectFails, PostAbandoned,
     Requeue, ConsumerError, WorkerFull, AcceptTask
<1>3. CASE OrphanStep
  BY <1>3 DEF OrphanStep, DropOrphan, AcceptOrphan
<1>4. CASE AttemptStep
  BY <1>4 DEF AttemptStep, StartRun, Finish, Expire, StoreTimeoutFails, ReleaseExpired,
     PersistFails, WriteAccepted, WriteReleased, WriteReleasedFails
<1>5. CASE WorkerStep
  BY <1>5 DEF WorkerStep, Heartbeat, Crash, AliveExpires, Start
<1>6. CASE ReaperStep
  BY <1>6 DEF ReaperStep, Select, ReapFails
<1>7. CASE GatewayRestart
  BY <1>7 DEF GatewayRestart
<1>8. CASE UNCHANGED vars
  BY <1>8 DEF vars
<1> QED  BY <1>1, <1>2, <1>3, <1>4, <1>5, <1>6, <1>7, <1>8 DEF Next

LEMMA TerminalStep ==
  ASSUME TypeInv, Results, [Next]_vars, NEW t \in Tasks, row[t] \in Terminal
  PROVE  row'[t] \in Terminal
<1>1. ASSUME NEW u \in Tasks, SubmitRecord(u)
      PROVE  row'[t] \in Terminal
  BY <1>1 DEF SubmitRecord, RecordedRow, Terminal, TypeInv, TypeOK
<1>2. ASSUME NEW a \in Attempts, StoreTimeout(a) \/ Persist(a)
      PROVE  row'[t] \in Terminal
  BY <1>2 DEF StoreTimeout, Persist, Terminal, TypeInv, TypeOK, Results, Ended
<1>3. ASSUME NEW p \in Reapers, NEW u \in Tasks, Reap(p, u)
      PROVE  row'[t] \in Terminal
  BY <1>3 DEF Reap, ReapedRow, Terminal, TypeInv, TypeOK
<1>4. CASE row' # row
  BY <1>1, <1>2, <1>3, <1>4, RowWriters
<1> QED  BY <1>4

\* No step of any actor turns a final status back into an unfinished one.
THEOREM FinalStatusStays == Spec => TerminalStays
<1>1. TypeInv /\ Results /\ [Next]_vars =>
         \A t \in Tasks : row[t] \in Terminal => row'[t] \in Terminal
  BY TerminalStep
<1> QED  BY <1>1, TypeInvInvariant, ResultsInvariant, PTL DEF Spec, TerminalStays

\* A stored result is final unless the task's POST was given up and repeated.
THEOREM StoredResultStays == Spec => CompletedStays
<1>1. TypeInv /\ Results /\ AtMostOnce /\ [Next]_vars =>
         \A t \in Tasks : row[t] = "completed" /\ t \notin retried => row'[t] = "completed"
  <2> SUFFICES ASSUME TypeInv, Results, AtMostOnce, [Next]_vars, NEW t \in Tasks,
                      row[t] = "completed", t \notin retried, row' # row
               PROVE  row'[t] = "completed"
    OBVIOUS
  <2>1. PICK b \in Attempts : atask[b] = t /\ apc[b] = "done"
    BY DEF Results, CompletedBy
  <2>2. \A a \in Attempts : atask[a] = t => a = b
    BY <2>1, NoneAssumption DEF AtMostOnce
  <2>3. ASSUME NEW u \in Tasks, SubmitRecord(u)
        PROVE  row'[t] = "completed"
    BY <2>3 DEF SubmitRecord, RecordedRow, TypeInv, TypeOK
  <2>4. ASSUME NEW a \in Attempts, StoreTimeout(a) \/ Persist(a)
        PROVE  row'[t] = "completed"
    BY <2>1, <2>2, <2>4 DEF StoreTimeout, Persist, TypeInv, TypeOK
  <2>5. ASSUME NEW p \in Reapers, NEW u \in Tasks, Reap(p, u)
        PROVE  row'[t] = "completed"
    BY <2>5 DEF Reap, ReapedRow, Unfinished, TypeInv, TypeOK
  <2> QED  BY <2>3, <2>4, <2>5, RowWriters
<1> QED
  BY <1>1, TypeInvInvariant, ResultsInvariant, ExecutedAtMostOnce, PTL
     DEF Spec, CompletedStays

-----------------------------------------------------------------------------
(* TaskLifecycle implements TaskResult (its safety part; that a queued task  *)
(* ends is for TLC).  A step that writes a row is one of the abstract steps  *)
(* for that task, a POST that is given up is Repeat, all others stutter.     *)

LEMMA RetriedWriters ==
  ASSUME [Next]_vars, retried' # retried
  PROVE  \E c \in Consumers : PostAbandoned(c)
<1> USE DEF gatewayVars, workerVars, registryVars, historyVars
<1>1. CASE SubmitStep
  BY <1>1 DEF SubmitStep, SubmitPush, SubmitRefused, SubmitRecord, SubmitRecordFails
<1>2. CASE ConsumerStep
  BY <1>2 DEF ConsumerStep, Pop, ChooseWorker, Dispatched, ConnectFails, Requeue,
     ConsumerError, WorkerFull, AcceptTask
<1>3. CASE OrphanStep
  BY <1>3 DEF OrphanStep, DropOrphan, AcceptOrphan
<1>4. CASE AttemptStep
  BY <1>4 DEF AttemptStep, StartRun, Finish, Expire, StoreTimeout, StoreTimeoutFails,
     ReleaseExpired, Persist, PersistFails, WriteAccepted, WriteReleased, WriteReleasedFails
<1>5. CASE WorkerStep
  BY <1>5 DEF WorkerStep, Heartbeat, Crash, AliveExpires, Start
<1>6. CASE ReaperStep
  BY <1>6 DEF ReaperStep, Select, Reap, ReapFails
<1>7. CASE GatewayRestart
  BY <1>7 DEF GatewayRestart
<1>8. CASE UNCHANGED vars
  BY <1>8 DEF vars
<1> QED  BY <1>1, <1>2, <1>3, <1>4, <1>5, <1>6, <1>7, <1>8 DEF Next

LEMMA StepRefines ==
  ASSUME TypeInv, Results, AtMostOnce, [Next]_vars
  PROVE  [Result!Next]_(Result!vars)
<1> USE DEF TypeInv, TypeOK, Terminal, RowStatus, historyVars
<1>1. CASE row' # row
  <2>1. ASSUME NEW t \in Tasks, SubmitRecord(t)
        PROVE  Result!Record(t)
    BY <1>1, <2>1 DEF SubmitRecord, RecordedRow, Result!Record
  <2>2. ASSUME NEW a \in Attempts, StoreTimeout(a) \/ Persist(a)
        PROVE  atask[a] \in Tasks /\ (Result!Conclude(atask[a]) \/ Result!Replace(atask[a]))
    <3>1. atask[a] \in Tasks /\ apc[a] # "done"
      BY <2>2 DEF StoreTimeout, Persist, Shape, AttemptShape
    <3>2. /\ \E r \in Result!Terminal : row' = [row EXCEPT ![atask[a]] = r]
          /\ UNCHANGED retried
      BY <2>2 DEF StoreTimeout, Persist, Results, Ended, Result!Terminal
    <3>3. row[atask[a]] = "completed" => atask[a] \in retried
      BY <3>1, NoneAssumption DEF Results, CompletedBy, AtMostOnce
    <3> QED
      BY <3>1, <3>2, <3>3 DEF Result!Conclude, Result!Replace, Result!Terminal
  <2>3. ASSUME NEW p \in Reapers, NEW t \in Tasks, Reap(p, t)
        PROVE  Result!Conclude(t)
    BY <1>1, <2>3 DEF Reap, ReapedRow, Unfinished, Result!Conclude, Result!Terminal
  <2> QED  BY <1>1, <2>1, <2>2, <2>3, RowWriters DEF Result!Next
<1>2. CASE row' = row /\ retried' # retried
  <2>1. PICK c \in Consumers : PostAbandoned(c)
    BY <1>2, RetriedWriters
  <2>2. hand[c] \in Tasks
    BY <2>1 DEF PostAbandoned, Shape, HandShape
  <2>3. Result!Repeat(hand[c])
    BY <1>2, <2>1 DEF PostAbandoned, Result!Repeat
  <2> QED  BY <2>2, <2>3 DEF Result!Next
<1>3. CASE row' = row /\ retried' = retried
  BY <1>3 DEF Result!vars
<1> QED  BY <1>1, <1>2, <1>3

\* The life of a task keeps what TaskResult promises to whoever polls its row: it is
\* recorded once, concluded, and after that only replaced where that is allowed.
THEOREM KeepsItsPromise == Spec => Result!Spec
<1>1. Init => Result!Init
  BY DEF Init, Result!Init
<1>2. TypeInv /\ Results /\ AtMostOnce /\ [Next]_vars => [Result!Next]_(Result!vars)
  BY StepRefines
<1> QED
  BY <1>1, <1>2, TypeInvInvariant, ResultsInvariant, ExecutedAtMostOnce, PTL
     DEF Spec, Result!Spec

-----------------------------------------------------------------------------
(* Conservation.  A task that was pushed stays on record: in the queue, in a *)
(* hand, in a request, in an attempt, or settled.  Accounted says more of    *)
(* attempts, that they are being executed; the ones that are over have       *)
(* settled their task, which takes the outcome into account because a        *)
(* timeout is stored before the slot is released and a result after it.      *)
(* Answered is what lets a consumer drop a task it was told is accepted.     *)

Settled(t) == row[t] \in Terminal \/ t \in lost

Over(a) == \/ apc[a] \in {"done", "dead"}
           \/ apc[a] \in {"notified", "releasing"} /\ outcome[a] = "timeout"

Attempted(t) == \E a \in Attempts : atask[a] = t

OnRecord ==
    \A t \in Tasks : submit[t] # "new" =>
        Queued(t) \/ InHand(t) \/ InFlight(t) \/ Attempted(t) \/ Settled(t)

Closed == \A a \in Attempts : Over(a) => Settled(atask[a])

Answered == \A c \in Consumers : cpc[c] = "accepted" => Attempted(hand[c])

Conserved == OnRecord /\ Closed /\ Answered

LEMMA ConservedImpliesAccounted == TypeInv /\ Conserved => Accounted
<1> SUFFICES ASSUME TypeInv, Conserved, NEW a \in Attempts, NEW t \in Tasks, atask[a] = t,
                    ~Executing(t)
             PROVE  Settled(t)
  BY DEF Conserved, OnRecord, Accounted, Attempted, Settled
<1>1. apc[a] # "free" /\ apc[a] \notin Live
  BY NoneAssumption DEF TypeInv, Shape, AttemptShape, Executing
<1>2. apc[a] \in {"done", "dead"}
  BY <1>1 DEF TypeInv, TypeOK
<1> QED  BY <1>2 DEF Conserved, Closed, Over

\* No step takes back what was lost, nor the task of an attempt.
LEMMA HistoryGrows ==
  ASSUME TypeInv, [Next]_vars
  PROVE  lost \subseteq lost' /\ \A a \in Attempts : apc[a] # "free" => atask'[a] = atask[a]
<1> USE DEF TypeInv, TypeOK, gatewayVars, workerVars, registryVars, historyVars
<1>1. CASE SubmitStep
  BY <1>1 DEF SubmitStep, SubmitPush, SubmitRefused, SubmitRecord, SubmitRecordFails
<1>2. CASE ConsumerStep
  <2>1. ASSUME NEW c \in Consumers, NEW b \in Attempts, AcceptTask(c, b)
        PROVE  UNCHANGED lost /\ \A a \in Attempts : apc[a] # "free" => atask'[a] = atask[a]
    BY <2>1 DEF AcceptTask, Spawn
  <2>2. ASSUME NEW c \in Consumers,
               \/ Pop(c) \/ ChooseWorker(c) \/ Dispatched(c) \/ ConnectFails(c)
               \/ PostAbandoned(c) \/ Requeue(c) \/ ConsumerError(c) \/ WorkerFull(c)
        PROVE  lost \subseteq lost' /\ UNCHANGED atask
    BY <2>2 DEF Pop, ChooseWorker, Dispatched, ConnectFails, PostAbandoned, Requeue,
       ConsumerError, WorkerFull
  <2> QED  BY <1>2, <2>1, <2>2 DEF ConsumerStep
<1>3. CASE OrphanStep
  <2>1. ASSUME NEW t \in Tasks, NEW w \in Workers, NEW b \in Attempts, AcceptOrphan(t, w, b)
        PROVE  UNCHANGED lost /\ \A a \in Attempts : apc[a] # "free" => atask'[a] = atask[a]
    BY <2>1 DEF AcceptOrphan, Spawn
  <2> QED  BY <1>3, <2>1 DEF OrphanStep, DropOrphan
<1>4. CASE AttemptStep
  BY ZenonT(60), <1>4 DEF AttemptStep, StartRun, Finish, Expire, StoreTimeout, StoreTimeoutFails,
     ReleaseExpired, Persist, PersistFails, WriteAccepted, WriteReleased, WriteReleasedFails
<1>5. CASE WorkerStep
  BY <1>5 DEF WorkerStep, Heartbeat, Crash, AliveExpires, Start
<1>6. CASE ReaperStep
  BY <1>6 DEF ReaperStep, Select, Reap, ReapFails
<1>7. CASE GatewayRestart
  BY <1>7 DEF GatewayRestart
<1>8. CASE UNCHANGED vars
  BY <1>8 DEF vars
<1> QED  BY <1>1, <1>2, <1>3, <1>4, <1>5, <1>6, <1>7, <1>8 DEF Next

LEMMA SettledStays ==
  ASSUME TypeInv, Results, [Next]_vars, NEW t \in Tasks, Settled(t)
  PROVE  Settled(t)'
BY HistoryGrows, TerminalStep DEF Settled

\* An attempt comes to be over by storing its outcome or by losing it.
LEMMA BecomesOver ==
  ASSUME TypeInv, Results, [Next]_vars, NEW a \in Attempts, ~Over(a), Over(a)'
  PROVE  apc[a] # "free" /\ (row'[atask[a]] \in Terminal \/ atask[a] \in lost')
<1> USE DEF gatewayVars, workerVars, registryVars, historyVars, TypeInv, TypeOK
<1>1. CASE UNCHANGED <<apc, outcome>>
  BY <1>1 DEF Over
<1>2. CASE SubmitStep
  BY <1>1, <1>2 DEF SubmitStep, SubmitPush, SubmitRefused, SubmitRecord, SubmitRecordFails
<1>3. CASE ConsumerStep
  <2>1. ASSUME NEW c \in Consumers, NEW b \in Attempts, AcceptTask(c, b)
        PROVE  FALSE
    BY <2>1 DEF AcceptTask, Spawn, Over
  <2> QED
    BY <1>1, <1>3, <2>1 DEF ConsumerStep, Pop, ChooseWorker, Dispatched, ConnectFails,
       PostAbandoned, Requeue, ConsumerError, WorkerFull
<1>4. CASE OrphanStep
  <2>1. ASSUME NEW t \in Tasks, NEW w \in Workers, NEW b \in Attempts, AcceptOrphan(t, w, b)
        PROVE  FALSE
    BY <2>1 DEF AcceptOrphan, Spawn, Over
  <2> QED  BY <1>1, <1>4, <2>1 DEF OrphanStep, DropOrphan
<1>5. CASE AttemptStep
  <2>1. PICK b \in Attempts :
           \/ StartRun(b) \/ (\E o \in {"completed", "failed"} : Finish(b, o)) \/ Expire(b)
           \/ StoreTimeout(b) \/ StoreTimeoutFails(b) \/ ReleaseExpired(b) \/ Persist(b)
           \/ PersistFails(b)
           \/ \E s \in WorkerStatus : \/ WriteAccepted(b, s)
                                      \/ WriteReleased(b, s)
                                      \/ WriteReleasedFails(b, s)
    BY <1>5 DEF AttemptStep
  <2>2. CASE StartRun(b) \/ Expire(b) \/ \E o \in {"completed", "failed"} : Finish(b, o)
    BY <2>2 DEF StartRun, Expire, Finish, ReleaseSlot, Over
  <2>3. CASE StoreTimeout(b) \/ Persist(b)
    <3>1. a = b /\ apc[a] # "free"
      BY <2>3 DEF StoreTimeout, Persist, Over
    <3>2. row'[atask[a]] \in Terminal
      BY <2>3, <3>1, NoneAssumption
         DEF StoreTimeout, Persist, Results, Ended, Terminal, Shape, AttemptShape
    <3> QED  BY <3>1, <3>2
  <2>4. CASE StoreTimeoutFails(b) \/ PersistFails(b)
    BY <2>4 DEF StoreTimeoutFails, PersistFails, Over
  <2>5. CASE ReleaseExpired(b)
    BY <2>5 DEF ReleaseExpired, ReleaseSlot, Results, ExpiredOutcome, Over
  <2>6. CASE \E s \in WorkerStatus : WriteAccepted(b, s)
    BY <1>1, <2>6 DEF WriteAccepted
  <2>7. CASE \E s \in WorkerStatus : WriteReleased(b, s) \/ WriteReleasedFails(b, s)
    BY <2>7 DEF WriteReleased, WriteReleasedFails, Over, Shape, PendShape
  <2> QED  BY <2>1, <2>2, <2>3, <2>4, <2>5, <2>6, <2>7
<1>6. CASE WorkerStep
  <2>1. ASSUME NEW w \in Workers, Crash(w)
        PROVE  apc[a] # "free" /\ atask[a] \in lost'
    BY <2>1 DEF Crash, Victims, Live, SlotHolding, Over
  <2> QED  BY <1>1, <1>6, <2>1 DEF WorkerStep, Heartbeat, AliveExpires, Start
<1>7. CASE ReaperStep
  BY <1>1, <1>7 DEF ReaperStep, Select, Reap, ReapFails
<1>8. CASE GatewayRestart
  BY <1>1, <1>8 DEF GatewayRestart
<1>9. CASE UNCHANGED vars
  BY <1>1, <1>9 DEF vars
<1> QED  BY <1>2, <1>3, <1>4, <1>5, <1>6, <1>7, <1>8, <1>9 DEF Next

LEMMA NextClosed == TypeInv /\ Results /\ Closed /\ [Next]_vars => Closed'
<1> SUFFICES ASSUME TypeInv, Results, Closed, [Next]_vars, NEW a \in Attempts, Over(a)'
             PROVE  Settled(atask[a])'
  BY DEF Closed
<1>1. CASE Over(a)
  <2>1. apc[a] # "free"
    BY <1>1 DEF Over
  <2>2. atask[a] \in Tasks /\ atask'[a] = atask[a] /\ Settled(atask[a])
    BY <1>1, <2>1, HistoryGrows DEF Closed, TypeInv, TypeOK, Shape, AttemptShape
  <2>3. ASSUME NEW t \in Tasks, t = atask[a]
        PROVE  Settled(t)'
    BY <2>2, <2>3, SettledStays
  <2> QED  BY <2>2, <2>3 DEF Settled
<1>2. CASE ~Over(a)
  BY <1>2, BecomesOver, HistoryGrows DEF Settled
<1> QED  BY <1>1, <1>2

\* The three ways the Redis list changes, as facts about who stays on it.
LEMMA AppendKeeps ==
  ASSUME NEW t \in Tasks, queue \in Seq(Tasks), queue' = Append(queue, t)
  PROVE  Queued(t)' /\ \A u \in Tasks : Queued(u) => Queued(u)'
<1>1. /\ DOMAIN queue = 1..Len(queue) /\ Len(queue) \in Nat
      /\ DOMAIN queue' = 1..(Len(queue) + 1)
      /\ \A i \in 1..Len(queue) : queue'[i] = queue[i]
      /\ queue'[Len(queue) + 1] = t
  OBVIOUS
<1> QED  BY <1>1 DEF Queued

LEMMA TailKeeps ==
  ASSUME queue \in Seq(Tasks), queue # <<>>, queue' = Tail(queue)
  PROVE  \A u \in Tasks : Queued(u) => Queued(u)' \/ u = Head(queue)
<1>1. /\ DOMAIN queue = 1..Len(queue) /\ Len(queue) \in Nat \ {0}
      /\ DOMAIN queue' = 1..(Len(queue) - 1)
      /\ Head(queue) = queue[1]
      /\ \A i \in 1..(Len(queue) - 1) : queue'[i] = queue[i + 1]
  BY HeadTailProperties, EmptySeq
<1>2. ASSUME NEW i \in DOMAIN queue, i # 1
      PROVE  i - 1 \in DOMAIN queue' /\ queue'[i - 1] = queue[i]
  <2>1. i - 1 \in 1..(Len(queue) - 1) /\ (i - 1) + 1 = i
    BY <1>1, <1>2
  <2> QED  BY <1>1, <2>1
<1> QED  BY <1>1, <1>2 DEF Queued

LEMMA PushKeeps ==
  ASSUME NEW t \in Tasks, queue \in Seq(Tasks), queue' = <<t>> \o queue
  PROVE  Queued(t)' /\ \A u \in Tasks : Queued(u) => Queued(u)'
<1>1. <<t>> \in Seq(Tasks) /\ Len(<<t>>) = 1 /\ <<t>>[1] = t
  OBVIOUS
<1>2. /\ DOMAIN queue = 1..Len(queue) /\ Len(queue) \in Nat
      /\ DOMAIN queue' = 1..(Len(queue) + 1)
      /\ queue'[1] = t
      /\ \A i \in 1..(Len(queue) + 1) : i # 1 => queue'[i] = queue[i - 1]
  BY <1>1, ConcatProperties, LenProperties
<1>3. \A i \in DOMAIN queue : i + 1 \in DOMAIN queue' /\ queue'[i + 1] = queue[i]
  <2> SUFFICES ASSUME NEW i \in DOMAIN queue
               PROVE  i + 1 \in DOMAIN queue' /\ queue'[i + 1] = queue[i]
    OBVIOUS
  <2>1. i + 1 \in 1..(Len(queue) + 1) /\ i + 1 # 1 /\ (i + 1) - 1 = i
    BY <1>2
  <2> QED  BY <1>2, <2>1
<1>4. Queued(t)'
  <2>1. 1 \in DOMAIN queue'
    BY <1>2
  <2> QED  BY <1>2, <2>1 DEF Queued
<1>5. \A u \in Tasks : Queued(u) => Queued(u)'
  BY <1>3 DEF Queued
<1> QED  BY <1>4, <1>5

LEMMA AttemptedStays ==
  ASSUME TypeInv, [Next]_vars, NEW t \in Tasks, Attempted(t)
  PROVE  Attempted(t)'
<1>1. PICK a \in Attempts : atask[a] = t
  BY DEF Attempted
<1>2. apc[a] # "free"
  BY <1>1, NoneAssumption DEF TypeInv, Shape, AttemptShape
<1> QED  BY <1>1, <1>2, HistoryGrows DEF Attempted

\* What a consumer lets go of went somewhere.
LEMMA ConsumerKeeps ==
  ASSUME TypeInv, Conserved, ConsumerStep, NEW t \in Tasks,
         Queued(t) \/ InHand(t) \/ InFlight(t)
  PROVE  Queued(t)' \/ InHand(t)' \/ InFlight(t)' \/ Attempted(t)' \/ t \in lost'
<1> USE DEF gatewayVars, workerVars, registryVars, historyVars, TypeInv, TypeOK
<1>1. ASSUME NEW c \in Consumers, Pop(c)
      PROVE  Queued(t)' \/ InHand(t)' \/ InFlight(t)'
  <2>1. /\ hand'[c] = Head(queue) /\ UNCHANGED orphans
        /\ hand[c] = None /\ \A d \in Consumers : d # c => hand'[d] = hand[d]
    BY <1>1 DEF Pop, Shape, HandShape
  <2>2. Queued(t) => Queued(t)' \/ t = Head(queue)
    BY <1>1, TailKeeps DEF Pop, AfterPop
  <2> QED  BY <2>1, <2>2, NoneAssumption DEF InHand, InFlight
<1>2. ASSUME NEW c \in Consumers, ChooseWorker(c) \/ ConnectFails(c) \/ WorkerFull(c)
      PROVE  Queued(t)' \/ InHand(t)' \/ InFlight(t)'
  BY <1>2 DEF ChooseWorker, ConnectFails, WorkerFull, Queued, InHand, InFlight
<1>3. ASSUME NEW c \in Consumers, Dispatched(c) \/ ConsumerError(c)
      PROVE  Queued(t)' \/ InHand(t)' \/ InFlight(t)' \/ Attempted(t)' \/ t \in lost'
  <2>1. UNCHANGED <<queue, orphans, atask>> /\ \A d \in Consumers : d # c => hand'[d] = hand[d]
    BY <1>3 DEF Dispatched, ConsumerError
  <2>2. hand[c] = t => Attempted(t) \/ t \in lost'
    BY <1>3 DEF Dispatched, ConsumerError, Conserved, Answered
  <2> QED  BY <2>1, <2>2 DEF Queued, InHand, InFlight, Attempted
<1>4. ASSUME NEW c \in Consumers, PostAbandoned(c)
      PROVE  Queued(t)' \/ InHand(t)' \/ InFlight(t)'
  BY <1>4 DEF PostAbandoned, Queued, InHand, InFlight
<1>5. ASSUME NEW c \in Consumers, Requeue(c)
      PROVE  Queued(t)' \/ InHand(t)' \/ InFlight(t)'
  <2>1. PICK u \in Tasks : u = hand[c]
    BY <1>5 DEF Requeue, Shape, HandShape
  <2>2. Queued(u)' /\ (Queued(t) => Queued(t)')
    BY <1>5, <2>1, PushKeeps DEF Requeue, Requeued
  <2>3. UNCHANGED orphans /\ \A d \in Consumers : d # c => hand'[d] = hand[d]
    BY <1>5 DEF Requeue
  <2> QED  BY <2>1, <2>2, <2>3 DEF InHand, InFlight
<1>6. ASSUME NEW c \in Consumers, NEW a \in Attempts, AcceptTask(c, a)
      PROVE  Queued(t)' \/ InHand(t)' \/ InFlight(t)'
  BY <1>6 DEF AcceptTask, Queued, InHand, InFlight
<1> QED  BY <1>1, <1>2, <1>3, <1>4, <1>5, <1>6 DEF ConsumerStep

LEMMA NextKeeps ==
  ASSUME TypeInv, Conserved, [Next]_vars, NEW t \in Tasks,
         Queued(t) \/ InHand(t) \/ InFlight(t)
  PROVE  Queued(t)' \/ InHand(t)' \/ InFlight(t)' \/ Attempted(t)' \/ Attempted(t) \/ t \in lost'
<1> USE DEF gatewayVars, workerVars, registryVars, historyVars, TypeInv, TypeOK
<1>1. CASE UNCHANGED <<queue, hand, orphans>>
  BY <1>1 DEF Queued, InHand, InFlight
<1>2. CASE SubmitStep
  <2>1. ASSUME NEW u \in Tasks, SubmitPush(u)
        PROVE  Queued(t)' \/ InHand(t)' \/ InFlight(t)'
    <3>1. Queued(t) => Queued(t)'
      BY <2>1, AppendKeeps DEF SubmitPush
    <3> QED  BY <2>1, <3>1 DEF SubmitPush, InHand, InFlight
  <2> QED
    BY <1>1, <1>2, <2>1 DEF SubmitStep, SubmitRefused, SubmitRecord, SubmitRecordFails
<1>3. CASE ConsumerStep
  BY <1>3, ConsumerKeeps
<1>4. CASE OrphanStep
  <2>1. ASSUME NEW u \in Tasks, NEW w \in Workers, NEW a \in Attempts, AcceptOrphan(u, w, a)
        PROVE  Queued(t)' \/ InHand(t)' \/ InFlight(t)' \/ Attempted(t)'
    BY <2>1 DEF AcceptOrphan, Spawn, Queued, InHand, InFlight, Attempted
  <2>2. ASSUME NEW u \in Tasks, NEW w \in Workers, DropOrphan(u, w)
        PROVE  Queued(t)' \/ InHand(t)' \/ InFlight(t)' \/ t \in lost'
    BY <2>2 DEF DropOrphan, Queued, InHand, InFlight
  <2> QED  BY <1>4, <2>1, <2>2 DEF OrphanStep
<1>5. CASE AttemptStep
  BY ZenonT(60), <1>1, <1>5
     DEF AttemptStep, StartRun, Finish, Expire, StoreTimeout, StoreTimeoutFails, ReleaseExpired,
         Persist, PersistFails, WriteAccepted, WriteReleased, WriteReleasedFails
<1>6. CASE WorkerStep
  BY <1>1, <1>6 DEF WorkerStep, Heartbeat, Crash, AliveExpires, Start
<1>7. CASE ReaperStep
  BY <1>1, <1>7 DEF ReaperStep, Select, Reap, ReapFails
<1>8. CASE GatewayRestart
  <2>1. UNCHANGED queue /\ orphans \subseteq orphans'
    BY <1>8 DEF GatewayRestart
  <2>2. ASSUME NEW c \in Consumers, hand[c] = t
        PROVE  t \in lost' \/ InFlight(t)' \/ Attempted(t)
    <3>1. cpc[c] \in {"scan", "full", "requeue", "post", "accepted"}
      BY <2>2, NoneAssumption DEF Shape, HandShape
    <3>2. CASE cpc[c] = "post"
      BY <1>8, <2>2, <3>2 DEF GatewayRestart, Sent, InFlight, Shape, HandShape
    <3>3. CASE cpc[c] = "accepted"
      BY <2>2, <3>3 DEF Conserved, Answered
    <3>4. CASE cpc[c] \in {"scan", "full", "requeue"}
      BY <1>8, <2>2, <3>4 DEF GatewayRestart, Unsent
    <3> QED  BY <3>1, <3>2, <3>3, <3>4
  <2> QED  BY <2>1, <2>2 DEF Queued, InHand, InFlight
<1>9. CASE UNCHANGED vars
  BY <1>1, <1>9 DEF vars
<1> QED  BY <1>2, <1>3, <1>4, <1>5, <1>6, <1>7, <1>8, <1>9 DEF Next

\* Only SubmitPush makes a task known, and it puts the task on the list.
LEMMA NextOnRecord == TypeInv /\ Results /\ Conserved /\ [Next]_vars => OnRecord'
<1> SUFFICES ASSUME TypeInv, Results, Conserved, [Next]_vars, NEW t \in Tasks,
                    submit'[t] # "new"
             PROVE  Queued(t)' \/ InHand(t)' \/ InFlight(t)' \/ Attempted(t)' \/ Settled(t)'
  BY DEF OnRecord, Queued, InHand, InFlight, Attempted, Settled
<1>1. CASE submit[t] # "new"
  BY <1>1, NextKeeps, AttemptedStays, SettledStays DEF Conserved, OnRecord, Settled
<1>2. CASE submit[t] = "new"
  <2>1. SubmitPush(t)
    <3> USE DEF gatewayVars, TypeInv, TypeOK
    <3>1. submit' # submit
      BY <1>2
    <3>2. CASE SubmitStep
      BY <1>2, <3>2 DEF SubmitStep, SubmitPush, SubmitRefused, SubmitRecord,
         SubmitRecordFails
    <3>3. CASE GatewayRestart
      BY <1>2, <3>3 DEF GatewayRestart
    <3>4. CASE ConsumerStep
      BY <3>1, <3>4 DEF ConsumerStep, Pop, ChooseWorker, Dispatched, ConnectFails,
         PostAbandoned, Requeue, ConsumerError, WorkerFull, AcceptTask
    <3>5. CASE OrphanStep \/ ReaperStep \/ WorkerStep
      BY <3>1, <3>5 DEF OrphanStep, DropOrphan, AcceptOrphan, ReaperStep, Select, Reap,
         ReapFails, WorkerStep, Heartbeat, Crash, AliveExpires, Start
    <3>6. CASE AttemptStep
      BY <3>1, <3>6 DEF AttemptStep, StartRun, Finish, Expire, StoreTimeout,
         StoreTimeoutFails, ReleaseExpired, Persist, PersistFails, WriteAccepted,
         WriteReleased, WriteReleasedFails
    <3>7. CASE UNCHANGED vars
      BY <3>1, <3>7 DEF vars
    <3> QED  BY <3>2, <3>3, <3>4, <3>5, <3>6, <3>7 DEF Next
  <2> QED  BY <2>1, AppendKeeps DEF SubmitPush, TypeInv, TypeOK
<1> QED  BY <1>1, <1>2

LEMMA NextAnswered == TypeInv /\ Answered /\ [Next]_vars => Answered'
<1> SUFFICES ASSUME TypeInv, Answered, [Next]_vars, NEW c \in Consumers,
                    cpc'[c] = "accepted"
             PROVE  Attempted(hand[c])'
  BY DEF Answered
<1> USE DEF TypeInv, TypeOK, gatewayVars
<1>1. CASE cpc[c] = "accepted" /\ hand'[c] = hand[c]
  <2>1. PICK t \in Tasks : t = hand[c]
    BY <1>1 DEF Shape, HandShape
  <2>2. Attempted(t)'
    BY <1>1, <2>1, AttemptedStays DEF Answered
  <2> QED  BY <1>1, <2>1, <2>2 DEF Attempted
<1>2. CASE ConsumerStep
  <2>1. ASSUME NEW d \in Consumers, NEW a \in Attempts, AcceptTask(d, a)
        PROVE  Attempted(hand[c])'
    BY <1>1, <2>1 DEF AcceptTask, Spawn, Attempted
  <2>2. ASSUME NEW d \in Consumers,
               \/ Pop(d) \/ ChooseWorker(d) \/ Dispatched(d) \/ ConnectFails(d)
               \/ PostAbandoned(d) \/ Requeue(d) \/ ConsumerError(d) \/ WorkerFull(d)
        PROVE  Attempted(hand[c])'
    BY <1>1, <2>2 DEF Pop, ChooseWorker, Dispatched, ConnectFails, PostAbandoned, Requeue,
       ConsumerError, WorkerFull
  <2> QED  BY <1>2, <2>1, <2>2 DEF ConsumerStep
<1>3. CASE GatewayRestart
  BY <1>3 DEF GatewayRestart
<1>4. CASE UNCHANGED <<cpc, hand>>
  BY <1>1, <1>4
<1>5. CASE SubmitStep
  BY <1>4, <1>5 DEF SubmitStep, SubmitPush, SubmitRefused, SubmitRecord, SubmitRecordFails
<1>6. CASE OrphanStep \/ ReaperStep \/ WorkerStep
  BY <1>4, <1>6 DEF OrphanStep, DropOrphan, AcceptOrphan, ReaperStep, Select, Reap,
     ReapFails, WorkerStep, Heartbeat, Crash, AliveExpires, Start
<1>7. CASE AttemptStep
  BY <1>4, <1>7 DEF AttemptStep, StartRun, Finish, Expire, StoreTimeout,
     StoreTimeoutFails, ReleaseExpired, Persist, PersistFails, WriteAccepted,
     WriteReleased, WriteReleasedFails
<1>8. CASE UNCHANGED vars
  BY <1>4, <1>8 DEF vars
<1> QED  BY <1>2, <1>3, <1>5, <1>6, <1>7, <1>8 DEF Next

\* A task that was pushed is queued, in a hand, in a request, being executed, final,
\* or one of those the model says were lost: nothing else can become of it.
THEOREM NothingVanishes == Spec => []Accounted
<1>1. Init => Conserved
  BY DEF Init, Conserved, OnRecord, Closed, Answered, Over
<1>2. TypeInv /\ Results /\ Conserved /\ [Next]_vars => Conserved'
  BY NextOnRecord, NextClosed, NextAnswered DEF Conserved
<1>3. TypeInv /\ Conserved => Accounted
  BY ConservedImpliesAccounted
<1> QED  BY <1>1, <1>2, <1>3, TypeInvInvariant, ResultsInvariant, PTL DEF Spec

=============================================================================
