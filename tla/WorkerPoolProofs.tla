--------------------------- MODULE WorkerPoolProofs ---------------------------
(***************************************************************************)
(* Proofs about WorkerPool: never more than WORKER_MAX workers serve, and  *)
(* if the pool is started with at most WORKER_MIN workers, two workers of  *)
(* one id serve only if one of them outlived its owner; for any limits and *)
(* any number of crashes of workers and of their owners.                   *)
(***************************************************************************)
EXTENDS WorkerPool, FiniteSetTheorems, WellFoundedInduction, TLAPS

-----------------------------------------------------------------------------
(* The first free number *)

\* There is a free number within the next Cardinality(S) ones, and a least one.
LEMMA SomeFree ==
    ASSUME NEW a \in Nat, NEW S, IsFiniteSet(S)
    PROVE  \E i \in a..(a + Cardinality(S)) : i \notin S
<1> DEFINE n == Cardinality(S)
<1>1. n \in Nat
  BY FS_CardinalityType
<1>2. SUFFICES ASSUME a..(a + n) \subseteq S
               PROVE  FALSE
  OBVIOUS
<1> HIDE DEF n
<1>3. Cardinality(a..(a + n)) <= n
  BY <1>2, FS_Subset DEF n
<1>4. a \in Int /\ a + n \in Int /\ ~(a > a + n)
  BY <1>1
<1>5. Cardinality(a..(a + n)) = n + 1
  <2> DEFINE b == a + n
  <2>1. Cardinality(a..b) = IF a > b THEN 0 ELSE b - a + 1
    <3> HIDE DEF b
    <3>1. a \in Int /\ b \in Int
      BY <1>4 DEF b
    <3> QED
      BY <3>1, FS_Interval
  <2> QED
    BY <1>1, <2>1
<1> QED
  BY <1>1, <1>3, <1>5

LEMMA LeastFree ==
    ASSUME NEW a \in Nat, NEW S, IsFiniteSet(S)
    PROVE  /\ FirstFree(a, S) \in a..(a + Cardinality(S))
           /\ FirstFree(a, S) \notin S
           /\ a..(FirstFree(a, S) - 1) \subseteq S
<1> DEFINE n == Cardinality(S)
           Free == {i \in a..(a + n) : i \notin S}
           T == {a..i : i \in Free}
           R == StrictSubsetOrdering(Nat)
<1>1. n \in Nat
  BY FS_CardinalityType
<1>2. T # {}
  BY SomeFree
<1>3. T \subseteq FiniteSubsetsOf(Nat)
  <2> SUFFICES ASSUME NEW i \in Free
               PROVE  a..i \in FiniteSubsetsOf(Nat)
    OBVIOUS
  <2>1. i \in Int /\ a \in Int
    BY <1>1
  <2>2. IsFiniteSet(a..i)
    BY <2>1, FS_Interval
  <2> QED
    BY <2>2, <1>1 DEF FiniteSubsetsOf
<1>4. IsWellFoundedOn(R, FiniteSubsetsOf(Nat))
  BY FS_StrictSubsetOrderingWellFounded
<1>5. PICK x \in T : \A y \in T : ~(<<y, x>> \in R)
  BY <1>2, <1>3, <1>4, WFMin
<1>6. PICK i \in Free : x = a..i
  BY <1>5
<1>7. ASSUME NEW j \in a..(i - 1), j \notin S
      PROVE  FALSE
  <2>1. j \in Free /\ i \in Nat /\ j \in Nat /\ j < i /\ a <= j
    BY <1>1, <1>7
  <2>2. a..j \in T
    BY <2>1
  <2>3. a..j \subseteq x /\ a..j # x /\ a..j \subseteq Nat /\ x \subseteq Nat
    <3>1. i \in a..i /\ i \notin a..j
      BY <2>1
    <3> QED
      BY <2>1, <3>1, <1>6
  <2>4. <<a..j, x>> \in R
    BY <2>3 DEF StrictSubsetOrdering
  <2> QED
    BY <1>5, <2>2, <2>4
<1>8. i \in a..(a + n) /\ i \notin S /\ a..(i - 1) \subseteq S
  BY <1>7
<1> QED
  BY <1>8 DEF FirstFree

-----------------------------------------------------------------------------
(* Tables *)

Tables == [Ids -> Nat \cup {None}]

\* A table that fits: no more workers than the limit, ports below it.
Fits(h) ==
    /\ h \in Tables
    /\ Cardinality(Known(h)) <= MaxWorkers
    /\ \A i \in Known(h) : h[i] < MaxWorkers

LEMMA IdsFinite == IsFiniteSet(Ids)
<1>1. 0 \in Int /\ 2 * MaxWorkers \in Int
  BY SizesAssumption
<1> QED
  BY <1>1, FS_Interval DEF Ids

LEMMA KnownFinite ==
    ASSUME NEW h
    PROVE  IsFiniteSet(Known(h)) /\ Cardinality(Known(h)) \in Nat
<1>1. Known(h) \in SUBSET Ids
  BY DEF Known
<1> QED
  BY <1>1, IdsFinite, FS_Subset, FS_CardinalityType

LEMMA PortsFinite ==
    ASSUME NEW h
    PROVE  IsFiniteSet(Ports(h)) /\ Cardinality(Ports(h)) \in Nat
           /\ Cardinality(Ports(h)) <= Cardinality(Known(h))
<1> DEFINE f == [i \in Known(h) |-> h[i]]
<1>1. f \in Surjection(Known(h), Ports(h))
  BY DEF Surjection, Ports
<1> QED
  BY <1>1, KnownFinite, FS_Surjection, FS_CardinalityType

\* What one spawn does to a table with room: one more worker, on a free port below
\* the limit, the others as they were.
LEMMA GrownFits ==
    ASSUME NEW h, Fits(h), Cardinality(Known(h)) < MaxWorkers
    PROVE  /\ Fits(Grown(h))
           /\ NextId(h) \in Ids \ Known(h)
           /\ NextPort(h) \in Nat
           /\ Cardinality(Known(h)) <= NextId(h)
           /\ Known(Grown(h)) = Known(h) \cup {NextId(h)}
           /\ Cardinality(Known(Grown(h))) = Cardinality(Known(h)) + 1
           /\ \A i \in Known(h) : Grown(h)[i] = h[i]
           /\ Grown(h)[NextId(h)] = NextPort(h)
<1> DEFINE n == Cardinality(Known(h))
<1>1. n \in Nat /\ n < MaxWorkers /\ IsFiniteSet(Known(h)) /\ h \in Tables
  BY KnownFinite DEF Fits
<1>2. NextId(h) \in n..(n + n) /\ NextId(h) \notin Known(h)
  BY <1>1, LeastFree DEF NextId
<1>3. NextId(h) \in Ids \ Known(h) /\ n <= NextId(h)
  BY <1>1, <1>2, SizesAssumption DEF Ids
<1>4. NextPort(h) \in 0..(0 + Cardinality(Ports(h)))
  BY PortsFinite, LeastFree DEF NextPort
<1>5. NextPort(h) \in Nat /\ NextPort(h) <= n /\ NextPort(h) < MaxWorkers
  BY <1>1, <1>4, PortsFinite, SizesAssumption
<1>6. /\ Grown(h) \in Tables
      /\ Grown(h)[NextId(h)] = NextPort(h)
      /\ \A i \in Ids \ {NextId(h)} : Grown(h)[i] = h[i]
  BY <1>1, <1>3, <1>5 DEF Grown, Tables
<1>7. Known(Grown(h)) = Known(h) \cup {NextId(h)}
  BY <1>3, <1>5, <1>6, NoneAssumption DEF Known
<1>8. Cardinality(Known(Grown(h))) = n + 1
  BY <1>1, <1>3, <1>7, FS_AddElement
<1>9. \A i \in Known(h) : Grown(h)[i] = h[i]
  BY <1>3, <1>6 DEF Known
<1>10. Fits(Grown(h))
  BY <1>1, <1>5, <1>6, <1>7, <1>8, <1>9, SizesAssumption DEF Fits
<1> QED
  BY <1>3, <1>5, <1>6, <1>7, <1>8, <1>9, <1>10

LEMMA NoHandlesFits == Fits(NoHandles) /\ Known(NoHandles) = {}
<1>1. NoHandles \in Tables /\ Known(NoHandles) = {}
  BY DEF NoHandles, Tables, Known
<1> QED
  BY <1>1, FS_EmptySet, SizesAssumption DEF Fits

LEMMA PoolHandlesFits ==
    /\ Fits(PoolHandles)
    /\ Known(PoolHandles) = {i \in Ids : i < Count}
    /\ \A i \in Known(PoolHandles) : PoolHandles[i] = i
<1>1. PoolHandles \in Tables
  BY SizesAssumption DEF PoolHandles, Tables, Ids
<1>2. Known(PoolHandles) = {i \in Ids : i < Count}
  BY NoneAssumption, SizesAssumption DEF PoolHandles, Known, Ids
<1>3. \A i \in Known(PoolHandles) : PoolHandles[i] = i
  BY <1>2 DEF PoolHandles
<1>4. Cardinality(Known(PoolHandles)) <= Count
  <2>1. CASE Count = 0
    <3>1. Known(PoolHandles) = {}
      BY <1>2, <2>1 DEF Ids
    <3> QED
      BY <2>1, <3>1, FS_EmptySet
  <2>2. CASE Count # 0
    <3>1. Count - 1 \in Nat
      BY <2>2, SizesAssumption
    <3>2. Known(PoolHandles) \in SUBSET Nat /\ \A i \in Known(PoolHandles) : i <= Count - 1
      BY <1>2, SizesAssumption DEF Ids
    <3>3. Cardinality(Known(PoolHandles)) <= Count - 1 + 1
      BY <3>1, <3>2, FS_BoundedSetOfNaturals
    <3> QED
      BY <3>3, SizesAssumption
  <2> QED
    BY <2>1, <2>2
<1>5. Cardinality(Known(PoolHandles)) <= MaxWorkers
  BY <1>4, SizesAssumption, KnownFinite
<1>6. \A i \in Known(PoolHandles) : PoolHandles[i] < MaxWorkers
  BY <1>2, <1>3, SizesAssumption DEF Ids
<1>7. Fits(PoolHandles)
  BY <1>1, <1>5, <1>6 DEF Fits
<1> QED
  BY <1>2, <1>3, <1>7

-----------------------------------------------------------------------------
(* The invariant behind AtMostMax *)

\* Both tables fit, and so does every port in use, which is bound only once.  An
\* entry is deleted only while auto_scale has workers to remove.
PortsFit == \A p \in procs : p.port < MaxWorkers
PortsApart == \A p, q \in Serving : p.port = q.port => p = q
Inv ==
    /\ TypeOK
    /\ \A m \in Managers : Fits(handles[m])
    /\ PortsFit
    /\ PortsApart
    /\ pc = "hdel" => toRemove > 0

LEMMA SpawnedFit ==
    ASSUME NEW m \in Managers, NEW h, Fits(h), life[m] \in 0..MaxDeaths
    PROVE  \A p \in Spawned(m, h) :
               /\ p \in Processes /\ p.port < MaxWorkers /\ p.state = "new"
               /\ p.owner = m /\ p.life = life[m]
               /\ p.id \in Known(h) \ Known(handles[m]) /\ p.port = h[p.id]
<1> SUFFICES ASSUME NEW i \in Known(h) \ Known(handles[m])
             PROVE  /\ i \in Ids /\ h[i] \in Nat /\ h[i] < MaxWorkers
  BY DEF Spawned, Processes
<1> QED
  BY DEF Fits, Tables, Known

\* What the one or two spawns of a scale-up do to the table.
LEMMA GrownToFits ==
    ASSUME NEW h, Fits(h), MayGrow(Cardinality(Known(h)))
    PROVE  /\ Fits(GrownTo(h))
           /\ \A i \in Known(h) : GrownTo(h)[i] = h[i]
<1>1. /\ Fits(Grown(h))
      /\ Known(h) \subseteq Known(Grown(h))
      /\ Cardinality(Known(Grown(h))) = Cardinality(Known(h)) + 1
      /\ \A i \in Known(h) : Grown(h)[i] = h[i]
  BY GrownFits DEF MayGrow
<1>2. CASE MayGrow(Cardinality(Known(h)) + 1)
  <2>1. /\ Fits(Grown(Grown(h)))
        /\ \A i \in Known(Grown(h)) : Grown(Grown(h))[i] = Grown(h)[i]
    BY <1>1, <1>2, GrownFits DEF MayGrow
  <2> QED
    BY <1>1, <1>2, <2>1 DEF GrownTo
<1>3. CASE ~MayGrow(Cardinality(Known(h)) + 1)
  BY <1>1, <1>3 DEF GrownTo
<1> QED
  BY <1>2, <1>3

LEMMA InStateFits ==
    ASSUME NEW p \in procs, procs \subseteq Processes,
           NEW s \in {"new", "registered", "serving"}
    PROVE  /\ InState(p, s) \subseteq Processes
           /\ PortsFit => \A q \in InState(p, s) : q.port < MaxWorkers
<1>1. /\ [p EXCEPT !.state = s] \in Processes
      /\ [p EXCEPT !.state = s].port = p.port
  BY DEF Processes
<1> QED
  BY <1>1 DEF InState, PortsFit

\* A step that starts or ends processes and leaves the others as they are
\* changes no port.
LEMMA FewerFit ==
    ASSUME PortsFit, PortsApart, procs' \subseteq procs
    PROVE  PortsFit' /\ PortsApart'
BY DEF PortsFit, PortsApart, Serving

LEMMA MoreFit ==
    ASSUME NEW m \in Managers, NEW h, Fits(h), TypeOK, PortsFit, PortsApart,
           procs' = procs \cup Spawned(m, h)
    PROVE  procs' \subseteq Processes /\ PortsFit' /\ PortsApart'
<1>1. life[m] \in 0..MaxDeaths /\ procs \subseteq Processes
  BY DEF TypeOK
<1>2. \A p \in Spawned(m, h) : p \in Processes /\ p.port < MaxWorkers /\ p.state = "new"
  BY <1>1, SpawnedFit
<1>3. Serving' = Serving
  BY <1>2 DEF Serving
<1> QED
  BY <1>1, <1>2, <1>3 DEF PortsFit, PortsApart

LEMMA InvInit == Init => Inv
<1> SUFFICES ASSUME Init PROVE Inv
  OBVIOUS
<1> USE DEF Init
<1>1. \A m \in Managers : handles[m] = NoHandles
  OBVIOUS
<1>2. \A m \in Managers : Fits(handles[m])
  BY <1>1, NoHandlesFits
<1>3. PortsFit /\ PortsApart
  BY DEF PortsFit, PortsApart, Serving
<1>4. TypeOK
  <2>1. NoHandles \in [Ids -> Nat \cup {None}]
    BY NoHandlesFits DEF Fits, Tables
  <2>2. 0 \in Ids /\ 0 \in 0..MaxDeaths /\ 0 \in 0..2
    BY SizesAssumption, BoundsAssumption DEF Ids
  <2> QED
    BY <2>1, <2>2 DEF TypeOK
<1> QED
  BY <1>2, <1>3, <1>4 DEF Inv

\* The steps of the two processes that hold a table.
LEMMA StartPoolInv == ASSUME Inv, StartPool PROVE Inv'
<1> USE DEF Inv, StartPool
<1>1. /\ handles' \in [Managers -> Tables]
      /\ \A m \in Managers : Fits(handles'[m])
  BY PoolHandlesFits DEF TypeOK, Fits, Tables
<1>2. procs' \subseteq Processes /\ PortsFit' /\ PortsApart'
  BY PoolHandlesFits, MoreFit DEF Managers
<1>3. TypeOK'
  BY <1>1, <1>2 DEF TypeOK, Tables, scaleVars
<1> QED
  BY <1>1, <1>2, <1>3 DEF scaleVars

LEMMA EndedInv ==
    ASSUME Inv, NEW m \in Managers, Ended(m)
    PROVE  /\ up' \in [Managers -> BOOLEAN]
           /\ life' \in [Managers -> 0..MaxDeaths]
           /\ handles' \in [Managers -> Tables]
           /\ \A k \in Managers : Fits(handles'[k])
<1> USE DEF Inv, Ended
<1>1. life[m] + 1 \in 0..MaxDeaths
  <2>1. life["pool"] \in Nat /\ life["gateway"] \in Nat
    BY BoundsAssumption DEF TypeOK, Managers
  <2>2. m \in {"pool", "gateway"}
    BY DEF Managers
  <2> QED
    BY <2>1, <2>2, BoundsAssumption
<1>2. NoHandles \in Tables
  BY NoHandlesFits DEF Fits
<1> QED
  BY <1>1, <1>2, NoHandlesFits DEF TypeOK, Tables

LEMMA DiesInv == ASSUME Inv, NEW m \in Managers, Dies(m) PROVE Inv'
<1> USE DEF Inv, Dies
<1>1. /\ up' \in [Managers -> BOOLEAN]
      /\ life' \in [Managers -> 0..MaxDeaths]
      /\ handles' \in [Managers -> Tables]
      /\ \A k \in Managers : Fits(handles'[k])
  BY EndedInv
<1>2. PortsFit' /\ PortsApart'
  BY FewerFit
<1>3. /\ pc' \in {"sleep", "remove", "hdel"} /\ todo' \subseteq Ids
      /\ toRemove' \in 0..2 /\ victim' = victim
  BY DEF TypeOK, scaleVars
<1>4. TypeOK'
  BY <1>1, <1>3 DEF TypeOK, Tables
<1> QED
  BY <1>1, <1>2, <1>4 DEF scaleVars

LEMMA PoolStopsInv == ASSUME Inv, PoolStops PROVE Inv'
<1> USE DEF Inv, PoolStops
<1>1. /\ up' \in [Managers -> BOOLEAN]
      /\ life' \in [Managers -> 0..MaxDeaths]
      /\ handles' \in [Managers -> Tables]
      /\ \A k \in Managers : Fits(handles'[k])
  BY EndedInv DEF Managers
<1>2. PortsFit' /\ PortsApart'
  BY FewerFit
<1>3. procs' \subseteq Processes
  BY DEF TypeOK
<1>4. entry' \in [Ids -> {"none", "idle", "busy"}]
  BY DEF TypeOK
<1>5. TypeOK'
  BY <1>1, <1>3, <1>4 DEF TypeOK, Tables, scaleVars
<1> QED
  BY <1>1, <1>2, <1>5 DEF scaleVars

\* The steps of a worker.
LEMMA WorkerStepInv == ASSUME Inv, NEW p \in procs, WorkerStep(p) PROVE Inv'
<1> USE DEF Inv
<1>1. p \in Processes /\ p.id \in Ids
  BY DEF TypeOK, Processes
<1>2. CASE Register(p)
  <2>1. procs' \subseteq Processes /\ PortsFit'
    BY <1>2, InStateFits DEF Register, TypeOK, PortsFit
  <2>2. Serving' \subseteq Serving
    BY <1>1, <1>2 DEF Register, InState, Serving, Processes
  <2>3. PortsApart'
    BY <2>2 DEF PortsApart
  <2>4. TypeOK'
    BY <1>1, <1>2, <2>1 DEF Register, TypeOK, scaleVars
  <2> QED
    BY <1>2, <2>1, <2>3, <2>4 DEF Register, scaleVars
<1>3. CASE Bind(p)
  <2>1. procs' \subseteq Processes /\ PortsFit'
    BY <1>3, InStateFits DEF Bind, TypeOK, PortsFit
  <2> DEFINE b == [p EXCEPT !.state = "serving"]
  <2>2. Serving' \subseteq Serving \cup {b}
    BY <1>3 DEF Bind, InState, Serving
  <2>3. b.port = p.port
    BY <1>1 DEF Processes
  <2>4. \A q \in Serving : q.port # b.port
    BY <1>3, <2>3 DEF Bind
  <2> HIDE DEF b
  <2>5. PortsApart'
    BY <2>2, <2>4 DEF PortsApart
  <2>6. TypeOK'
    BY <1>3, <2>1 DEF Bind, TypeOK, scaleVars
  <2> QED
    BY <1>3, <2>1, <2>5, <2>6 DEF Bind, scaleVars
<1>4. CASE BindFails(p)
  <2>1. PortsFit' /\ PortsApart'
    BY <1>4, FewerFit DEF BindFails
  <2>2. TypeOK'
    BY <1>1, <1>4 DEF BindFails, TypeOK, scaleVars
  <2> QED
    BY <1>4, <2>1, <2>2 DEF BindFails, scaleVars
<1>5. CASE Crash(p)
  <2>1. PortsFit' /\ PortsApart'
    BY <1>5, FewerFit DEF Crash
  <2>2. TypeOK'
    BY <1>5, BoundsAssumption DEF Crash, TypeOK, scaleVars
  <2> QED
    BY <1>5, <2>1, <2>2 DEF Crash, scaleVars
<1>6. ASSUME NEW s \in {"idle", "busy"}, Report(p, s)
      PROVE  Inv'
  <2>1. PortsFit' /\ PortsApart'
    BY <1>6, FewerFit DEF Report
  <2>2. TypeOK'
    BY <1>1, <1>6 DEF Report, TypeOK, scaleVars
  <2> QED
    BY <1>6, <2>1, <2>2 DEF Report, scaleVars
<1> QED
  BY <1>2, <1>3, <1>4, <1>5, <1>6 DEF WorkerStep

\* The steps of auto_scale.
LEMMA ScaleUpInv == ASSUME Inv, ScaleUp PROVE Inv'
<1> USE DEF Inv
<1> DEFINE grown == GrownTo(handles["gateway"])
<1>1. Fits(grown)
  BY GrownToFits DEF ScaleUp, Size, Managers
<1>2. /\ handles' = [handles EXCEPT !["gateway"] = grown]
      /\ procs' = procs \cup Spawned("gateway", grown)
  BY DEF ScaleUp
<1> HIDE DEF grown
<1>3. /\ handles' \in [Managers -> Tables]
      /\ \A m \in Managers : Fits(handles'[m])
  BY <1>1, <1>2 DEF TypeOK, Fits, Tables
<1>4. procs' \subseteq Processes /\ PortsFit' /\ PortsApart'
  BY <1>1, <1>2, MoreFit DEF Managers
<1>5. TypeOK'
  BY <1>3, <1>4 DEF ScaleUp, TypeOK, Tables, scaleVars
<1> QED
  BY <1>3, <1>4, <1>5 DEF ScaleUp, scaleVars

LEMMA ScaleDownInv == ASSUME Inv, ScaleDown PROVE Inv'
<1> USE DEF Inv, ScaleDown
<1>1. PortsFit' /\ PortsApart'
  BY FewerFit
<1>2. TypeOK'
  BY DEF TypeOK, Idle, Registered
<1> QED
  BY <1>1, <1>2

LEMMA RemovedFits ==
    ASSUME NEW h, Fits(h), NEW i \in Ids
    PROVE  Fits([h EXCEPT ![i] = None])
<1> DEFINE g == [h EXCEPT ![i] = None]
<1>1. g \in Tables /\ Known(g) \subseteq Known(h)
  BY DEF Fits, Tables, Known
<1>2. Cardinality(Known(g)) <= Cardinality(Known(h))
  BY <1>1, KnownFinite, FS_Subset
<1>3. \A j \in Known(g) : g[j] = h[j]
  BY DEF Known, Fits, Tables
<1>4. Cardinality(Known(g)) <= MaxWorkers
  BY <1>2, KnownFinite, SizesAssumption DEF Fits
<1> QED
  BY <1>1, <1>3, <1>4 DEF Fits

LEMMA RemoveInv == ASSUME Inv, NEW i \in Ids, Remove(i) PROVE Inv'
<1> USE DEF Inv, Remove
<1>1. PortsFit' /\ PortsApart'
  BY FewerFit
<1>2. Fits([handles["gateway"] EXCEPT ![i] = None])
  BY RemovedFits DEF Managers
<1>3. /\ handles' \in [Managers -> Tables]
      /\ \A m \in Managers : Fits(handles'[m])
  BY <1>2 DEF TypeOK, Fits, Tables
<1>4. entry' \in [Ids -> {"none", "idle", "busy"}]
  BY DEF TypeOK
<1>5. TypeOK'
  BY <1>3, <1>4 DEF TypeOK, Tables
<1> QED
  BY <1>1, <1>3, <1>5

LEMMA DeleteEntryInv == ASSUME Inv, DeleteEntry PROVE Inv'
<1> USE DEF Inv, DeleteEntry
<1>1. PortsFit' /\ PortsApart'
  BY FewerFit
<1>2. entry' \in [Ids -> {"none", "idle", "busy"}]
  BY DEF TypeOK
<1> QED
  BY <1>1, <1>2 DEF TypeOK

LEMMA ScaleEndsInv == ASSUME Inv, ScaleEnds PROVE Inv'
<1> USE DEF Inv, ScaleEnds
<1>1. PortsFit' /\ PortsApart'
  BY FewerFit
<1> QED
  BY <1>1 DEF TypeOK

LEMMA InvStep == Inv /\ [Next]_vars => Inv'
<1> SUFFICES ASSUME Inv, [Next]_vars PROVE Inv'
  OBVIOUS
<1>1. CASE StartGateway
  <2>1. PortsFit' /\ PortsApart'
    BY <1>1, FewerFit DEF Inv, StartGateway
  <2> QED
    BY <1>1, <2>1 DEF Inv, StartGateway, TypeOK, scaleVars
<1>2. CASE UNCHANGED vars
  <2>1. PortsFit' /\ PortsApart'
    BY <1>2, FewerFit DEF Inv, vars
  <2> QED
    BY <1>2, <2>1 DEF Inv, vars, TypeOK, scaleVars
<1> QED
  BY <1>1, <1>2, StartPoolInv, DiesInv, PoolStopsInv, WorkerStepInv, ScaleUpInv,
     ScaleDownInv, RemoveInv, DeleteEntryInv, ScaleEndsInv DEF Next

\* The invariant holds in every reachable state.
LEMMA Invariance == Spec => []Inv
BY InvInit, InvStep, PTL DEF Spec

\* TypeOK: every variable keeps its type; in particular the ids and ports that
\* auto_scale counts up to exist.
THEOREM TypeCorrect == Spec => []TypeOK
<1>1. Inv => TypeOK
  BY DEF Inv
<1> QED
  BY <1>1, Invariance, PTL

\* AtMostMax: no more workers serve than there are ports below the limit.
THEOREM NeverTooMany == Spec => []AtMostMax
<1>1. ASSUME Inv PROVE AtMostMax
  <2> DEFINE Bound == 0..(MaxWorkers - 1)
             port == [p \in Serving |-> p.port]
  <2>1. port \in Injection(Serving, Bound)
    <3>1. \A p \in Serving : p.port \in Nat /\ p.port < MaxWorkers
      BY <1>1 DEF Inv, TypeOK, PortsFit, Serving, Processes
    <3>2. \A p \in Serving : p.port \in Bound
      BY <3>1, SizesAssumption
    <3> QED
      BY <1>1, <3>2 DEF Inv, PortsApart, Injection, IsInjective
  <2>2. IsFiniteSet(Bound) /\ Cardinality(Bound) = MaxWorkers
    <3> DEFINE b == MaxWorkers - 1
    <3>1. 0 \in Int /\ b \in Int /\ (0 > b <=> MaxWorkers = 0)
      BY SizesAssumption
    <3> HIDE DEF b
    <3>2. IsFiniteSet(0..b) /\ Cardinality(0..b) = IF 0 > b THEN 0 ELSE b - 0 + 1
      BY <3>1, FS_Interval
    <3> QED
      BY <3>1, <3>2, SizesAssumption DEF b
  <2> HIDE DEF Bound, port
  <2>3. Cardinality(Serving) <= Cardinality(Bound)
    BY <2>1, <2>2, FS_Injection
  <2> QED
    BY <2>2, <2>3 DEF AtMostMax
<1> QED
  BY <1>1, Invariance, PTL

-----------------------------------------------------------------------------
(* The invariant behind OneServerPerId *)

\* A table whose low ids have the ports of their number: as long as it is small
\* it is filled without gaps, and later ids are counted from its size.
Numbered(h) ==
    \/ /\ Cardinality(Known(h)) < MinWorkers
       /\ Known(h) = 0..(Cardinality(Known(h)) - 1)
       /\ \A i \in Known(h) : h[i] = i
    \/ /\ Cardinality(Known(h)) >= MinWorkers
       /\ \A i \in Known(h) : i < MinWorkers => h[i] = i

\* What a process started in its present run is in its table.
Held == \A p \in procs :
    /\ p.life <= life[p.owner]
    /\ ~Orphan(p) => handles[p.owner][p.id] = p.port

TablesNumbered ==
    /\ \A m \in Managers : ~up[m] => handles[m] = NoHandles
    /\ \A i \in Known(handles["pool"]) : i < Count /\ handles["pool"][i] = i
    /\ Numbered(handles["gateway"])

IdInv == Inv /\ Held /\ TablesNumbered

LEMMA GrownNumbered ==
    ASSUME NEW h, Fits(h), Numbered(h), Cardinality(Known(h)) < MaxWorkers
    PROVE  Numbered(Grown(h))
<1> DEFINE n == Cardinality(Known(h))
<1>1. /\ n \in Nat
      /\ Known(Grown(h)) = Known(h) \cup {NextId(h)}
      /\ Cardinality(Known(Grown(h))) = n + 1
      /\ \A i \in Known(h) : Grown(h)[i] = h[i]
      /\ Grown(h)[NextId(h)] = NextPort(h)
      /\ NextId(h) \in Nat /\ n <= NextId(h)
      /\ IsFiniteSet(Known(h)) /\ IsFiniteSet(Ports(h))
  BY GrownFits, KnownFinite, PortsFinite, SizesAssumption DEF Ids
<1>2. CASE n < MinWorkers
  <2>1. Known(h) = 0..(n - 1) /\ \A i \in Known(h) : h[i] = i
    BY <1>1, <1>2, SizesAssumption DEF Numbered
  <2>2. Ports(h) = 0..(n - 1)
    BY <2>1 DEF Ports
  <2>3. NextId(h) = n
    <3>1. NextId(h) \in n..(n + n) /\ n..(NextId(h) - 1) \subseteq Known(h)
      BY <1>1, LeastFree DEF NextId
    <3>2. ASSUME n < NextId(h) PROVE FALSE
      <4>1. n \in n..(NextId(h) - 1)
        BY <1>1, <3>2
      <4> QED
        BY <1>1, <2>1, <3>1, <4>1
    <3> QED
      BY <1>1, <3>1, <3>2
  <2>4. NextPort(h) = n
    <3>1. /\ NextPort(h) \in 0..(0 + Cardinality(Ports(h)))
          /\ NextPort(h) \notin Ports(h)
          /\ 0..(NextPort(h) - 1) \subseteq Ports(h)
      BY <1>1, LeastFree DEF NextPort
    <3>2. NextPort(h) \in Nat
      BY <3>1, PortsFinite
    <3>3. ~(NextPort(h) < n)
      BY <1>1, <2>2, <3>1, <3>2
    <3>4. ASSUME n < NextPort(h) PROVE FALSE
      <4>1. n \in 0..(NextPort(h) - 1)
        BY <1>1, <3>2, <3>4
      <4> QED
        BY <1>1, <2>2, <3>1, <4>1
    <3> QED
      BY <1>1, <3>2, <3>3, <3>4
  <2>5. \A i \in Known(Grown(h)) : Grown(h)[i] = i
    BY <1>1, <2>1, <2>3, <2>4
  <2>6. Known(Grown(h)) = 0..n
    BY <1>1, <2>1, <2>3
  <2>7. CASE n + 1 < MinWorkers
    <3>1. Known(Grown(h)) = 0..(Cardinality(Known(Grown(h))) - 1)
      <4>1. Cardinality(Known(Grown(h))) - 1 = n
        BY <1>1
      <4> QED
        BY <2>6, <4>1
    <3> QED
      BY <1>1, <2>5, <2>7, <3>1 DEF Numbered
  <2>8. CASE n + 1 >= MinWorkers
    BY <1>1, <2>5, <2>8 DEF Numbered
  <2> QED
    BY <1>1, <2>7, <2>8, SizesAssumption
<1>3. CASE n >= MinWorkers
  <2>1. \A i \in Known(h) : i < MinWorkers => h[i] = i
    BY <1>1, <1>3, SizesAssumption DEF Numbered
  <2>2. \A i \in Known(Grown(h)) : i < MinWorkers => Grown(h)[i] = i
    BY <1>1, <1>3, <2>1, SizesAssumption
  <2> QED
    BY <1>1, <1>3, <2>2, SizesAssumption DEF Numbered
<1> QED
  BY <1>1, <1>2, <1>3, SizesAssumption

LEMMA GrownToNumbered ==
    ASSUME NEW h, Fits(h), Numbered(h), MayGrow(Cardinality(Known(h)))
    PROVE  Numbered(GrownTo(h))
<1>1. /\ Numbered(Grown(h)) /\ Fits(Grown(h))
      /\ Cardinality(Known(Grown(h))) = Cardinality(Known(h)) + 1
  BY GrownNumbered, GrownFits DEF MayGrow
<1>2. CASE MayGrow(Cardinality(Known(h)) + 1)
  BY <1>1, <1>2, GrownNumbered DEF MayGrow, GrownTo
<1>3. CASE ~MayGrow(Cardinality(Known(h)) + 1)
  BY <1>1, <1>3 DEF GrownTo
<1> QED
  BY <1>2, <1>3

\* auto_scale removes from a table only above the minimum.
LEMMA RemovedNumbered ==
    ASSUME NEW h, Fits(h), Numbered(h), NEW i \in Known(h),
           Cardinality(Known(h)) > MinWorkers
    PROVE  Numbered([h EXCEPT ![i] = None])
<1> DEFINE g == [h EXCEPT ![i] = None]
<1>1. Known(g) = Known(h) \ {i} /\ \A j \in Known(g) : g[j] = h[j]
  BY DEF Fits, Tables, Known
<1>2. /\ Cardinality(Known(g)) = Cardinality(Known(h)) - 1
      /\ Cardinality(Known(h)) \in Nat
  BY <1>1, KnownFinite, FS_RemoveElement
<1>3. \A j \in Known(h) : j < MinWorkers => h[j] = j
  BY <1>2, SizesAssumption DEF Numbered
<1>4. Cardinality(Known(g)) >= MinWorkers
  BY <1>2, SizesAssumption
<1>5. \A j \in Known(g) : j < MinWorkers => g[j] = j
  BY <1>1, <1>3
<1> HIDE DEF g
<1>6. Numbered(g)
  BY <1>4, <1>5 DEF Numbered
<1> QED
  BY <1>6 DEF g

LEMMA NoHandlesNumbered == Numbered(NoHandles)
<1>1. Known(NoHandles) = {} /\ Cardinality(Known(NoHandles)) = 0
  BY NoHandlesFits, FS_EmptySet
<1>2. 0..(0 - 1) = {}
  OBVIOUS
<1> QED
  BY <1>1, <1>2, SizesAssumption DEF Numbered

LEMMA IdInit == Init => IdInv
<1> SUFFICES ASSUME Init PROVE IdInv
  OBVIOUS
<1>1. Held
  BY DEF Init, Held
<1>2. TablesNumbered
  BY NoHandlesNumbered, NoHandlesFits DEF Init, TablesNumbered, Managers
<1> QED
  BY <1>1, <1>2, InvInit DEF IdInv

\* A process that a table of ports holds has its id in it.
LEMMA HeldKnown ==
    ASSUME Inv, Held, NEW p \in procs, ~Orphan(p)
    PROVE  /\ p.owner \in Managers
           /\ p.id \in Known(handles[p.owner])
           /\ handles[p.owner][p.id] = p.port
<1>1. p \in Processes
  BY DEF Inv, TypeOK
<1>2. p.owner \in Managers /\ p.id \in Ids /\ p.port # None
  BY <1>1, NoneAssumption DEF Processes
<1> QED
  BY <1>2 DEF Held, Known

\* Steps that start no process and change no table.
LEMMA HeldFewer ==
    ASSUME IdInv, procs' \subseteq procs, UNCHANGED <<up, life, handles>>
    PROVE  Held' /\ TablesNumbered'
BY DEF IdInv, Held, TablesNumbered, Orphan

LEMMA HeldStartPool == ASSUME IdInv, StartPool PROVE Held' /\ TablesNumbered'
<1> USE DEF IdInv, StartPool
<1>1. ASSUME NEW p \in procs, ~Orphan(p)'
      PROVE  handles'[p.owner][p.id] = p.port
  <2>1. ~Orphan(p)
    BY <1>1 DEF Orphan
  <2>2. /\ p.owner \in Managers /\ p.id \in Known(handles[p.owner])
        /\ handles[p.owner][p.id] = p.port
    BY <2>1, HeldKnown
  <2>3. p.owner # "pool"
    BY <2>2, NoHandlesFits DEF TablesNumbered, Managers
  <2> QED
    BY <2>2, <2>3 DEF Inv, TypeOK
<1>2. \A p \in Spawned("pool", PoolHandles) :
          p.owner = "pool" /\ p.life = life["pool"] /\ PoolHandles[p.id] = p.port
  <2>1. life["pool"] \in 0..MaxDeaths
    BY DEF Inv, TypeOK, Managers
  <2> QED
    BY <2>1, PoolHandlesFits, SpawnedFit DEF Managers
<1>3. /\ handles'["pool"] = PoolHandles /\ handles'["gateway"] = handles["gateway"]
      /\ up'["pool"] /\ up'["gateway"] = up["gateway"]
      /\ life["pool"] <= life["pool"]
  BY DEF Inv, TypeOK, Managers
<1>4. Held'
  BY <1>1, <1>2, <1>3 DEF Held, Orphan
<1>5. TablesNumbered'
  BY <1>3, PoolHandlesFits DEF TablesNumbered, Managers
<1> QED
  BY <1>4, <1>5

LEMMA HeldEnded ==
    ASSUME IdInv, NEW m \in Managers, Ended(m), procs' \subseteq procs
    PROVE  Held' /\ TablesNumbered'
<1> USE DEF IdInv, Ended
<1>1. /\ life'[m] = life[m] + 1 /\ life[m] \in Nat
      /\ handles'[m] = NoHandles /\ ~up'[m]
      /\ \A k \in Managers \ {m} :
             life'[k] = life[k] /\ handles'[k] = handles[k] /\ up'[k] = up[k]
  BY BoundsAssumption DEF Inv, TypeOK
<1>2. ASSUME NEW p \in procs
      PROVE  p.life <= life'[p.owner] /\ (~Orphan(p)' => handles'[p.owner][p.id] = p.port)
  <2>1. p.owner \in Managers /\ p.life \in Nat
    BY BoundsAssumption DEF Inv, TypeOK, Processes
  <2>2. p.life <= life[p.owner]
    BY DEF Held
  <2>3. CASE p.owner = m
    BY <1>1, <2>1, <2>2, <2>3 DEF Orphan
  <2>4. CASE p.owner # m
    BY <1>1, <2>1, <2>2, <2>4 DEF Orphan, Held
  <2> QED
    BY <2>3, <2>4
<1>3. Held'
  BY <1>2 DEF Held
<1>4. TablesNumbered'
  BY <1>1, NoHandlesNumbered, NoHandlesFits DEF TablesNumbered, Managers
<1> QED
  BY <1>3, <1>4

LEMMA HeldInState ==
    ASSUME IdInv, NEW p \in procs, NEW s, procs' = InState(p, s),
           UNCHANGED <<up, life, handles>>
    PROVE  Held' /\ TablesNumbered'
<1> DEFINE b == [p EXCEPT !.state = s]
<1>1. b.owner = p.owner /\ b.life = p.life /\ b.id = p.id /\ b.port = p.port
  BY DEF IdInv, Inv, TypeOK, Processes
<1>2. procs' \subseteq procs \cup {b}
  BY DEF InState
<1> HIDE DEF b
<1>3. Held'
  BY <1>1, <1>2 DEF IdInv, Held, Orphan
<1> QED
  BY <1>3 DEF IdInv, TablesNumbered

LEMMA HeldScaleUp == ASSUME IdInv, ScaleUp PROVE Held' /\ TablesNumbered'
<1> USE DEF IdInv
<1> DEFINE h == handles["gateway"]
           grown == GrownTo(h)
<1>1. Fits(grown) /\ Numbered(grown) /\ \A i \in Known(h) : grown[i] = h[i]
  BY GrownToFits, GrownToNumbered DEF ScaleUp, Size, Inv, TablesNumbered, Managers
<1>2. /\ handles' = [handles EXCEPT !["gateway"] = grown]
      /\ procs' = procs \cup Spawned("gateway", grown)
      /\ UNCHANGED <<up, life>> /\ up["gateway"]
  BY DEF ScaleUp
<1> HIDE DEF grown
<1>3. handles'["gateway"] = grown /\ handles'["pool"] = handles["pool"]
  BY <1>2 DEF Inv, TypeOK, Managers
<1>4. ASSUME NEW p \in procs, ~Orphan(p)
      PROVE  handles'[p.owner][p.id] = p.port
  BY <1>1, <1>3, <1>4, HeldKnown DEF Managers
<1>5. life["gateway"] \in 0..MaxDeaths
  BY DEF Inv, TypeOK, Managers
<1>6. \A p \in Spawned("gateway", grown) :
          p.owner = "gateway" /\ p.life = life["gateway"] /\ grown[p.id] = p.port
  BY <1>1, <1>5, SpawnedFit DEF Managers
<1>7. Held'
  BY <1>2, <1>3, <1>4, <1>5, <1>6 DEF Held, Orphan
<1>8. TablesNumbered'
  BY <1>1, <1>2, <1>3 DEF TablesNumbered, Managers
<1> QED
  BY <1>7, <1>8

LEMMA HeldRemove == ASSUME IdInv, NEW i \in Ids, Remove(i) PROVE Held' /\ TablesNumbered'
<1> USE DEF IdInv
<1> DEFINE h == handles["gateway"]
           g == [h EXCEPT ![i] = None]
<1>1. i \in Known(h) /\ Cardinality(Known(h)) > MinWorkers
  BY DEF Remove, Removable, Size
<1>2. Numbered(g)
  BY <1>1, RemovedNumbered DEF Inv, TablesNumbered, Managers
<1>3. /\ handles'["gateway"] = g /\ handles'["pool"] = handles["pool"]
      /\ \A j \in Ids \ {i} : g[j] = h[j]
      /\ UNCHANGED <<up, life>>
  BY DEF Remove, Inv, TypeOK, Managers
<1>4. up["gateway"]
  BY <1>1, NoHandlesFits DEF TablesNumbered, Managers
<1> HIDE DEF g
<1>5. ASSUME NEW p \in procs', ~Orphan(p)
      PROVE  handles'[p.owner][p.id] = p.port
  <2>1. p \in procs /\ ~(p \in Own("gateway") /\ p.id = i)
    BY DEF Remove
  <2>2. /\ p.owner \in Managers /\ p.id \in Known(handles[p.owner])
        /\ handles[p.owner][p.id] = p.port
    BY <1>5, <2>1, HeldKnown
  <2>3. p.owner = "gateway" => p.id # i
    BY <1>5, <2>1 DEF Own
  <2> QED
    BY <1>3, <2>2, <2>3 DEF Managers, Known
<1>6. procs' \subseteq procs
  BY DEF Remove
<1>7. Held'
  BY <1>3, <1>5, <1>6 DEF Held, Orphan
<1>8. TablesNumbered'
  BY <1>2, <1>3, <1>4 DEF TablesNumbered, Managers
<1> QED
  BY <1>7, <1>8

LEMMA IdStep == IdInv /\ [Next]_vars => IdInv'
<1> SUFFICES ASSUME IdInv, [Next]_vars PROVE Held' /\ TablesNumbered'
  BY InvStep DEF IdInv
<1>1. CASE StartGateway
  <2>1. Held'
    BY <1>1 DEF StartGateway, IdInv, Held, Orphan
  <2>2. TablesNumbered'
    BY <1>1 DEF StartGateway, IdInv, TablesNumbered, Inv, TypeOK
  <2> QED
    BY <2>1, <2>2
<1>2. CASE PoolStops
  BY <1>2, HeldEnded DEF PoolStops, Managers
<1>3. ASSUME NEW m \in Managers, Dies(m)
      PROVE  Held' /\ TablesNumbered'
  BY <1>3, HeldEnded DEF Dies
<1>4. ASSUME NEW p \in procs, WorkerStep(p)
      PROVE  Held' /\ TablesNumbered'
  BY <1>4, HeldFewer, HeldInState
     DEF WorkerStep, Register, Bind, BindFails, Crash, Report
<1>5. CASE ScaleDown \/ DeleteEntry \/ ScaleEnds
  BY <1>5, HeldFewer DEF ScaleDown, DeleteEntry, ScaleEnds
<1>6. CASE UNCHANGED vars
  BY <1>6, HeldFewer DEF vars
<1> QED
  BY <1>1, <1>2, <1>3, <1>4, <1>5, <1>6, HeldStartPool, HeldScaleUp, HeldRemove DEF Next

\* OneServerPerId: as long as the pool is not started with more workers than
\* WORKER_MIN, ids below it come with the port of their number in both tables, so
\* two workers of one id meet at the port, unless one of them is an orphan.
THEOREM OneIdOnePort == Count <= MinWorkers => (Spec => []OneServerPerId)
<1> SUFFICES ASSUME Count <= MinWorkers PROVE Spec => []OneServerPerId
  OBVIOUS
<1>1. ASSUME IdInv,
             NEW p \in Serving, NEW q \in Serving, p.owner = "pool", q.owner = "gateway",
             ~Orphan(p), ~Orphan(q), p.id = q.id
      PROVE  p = q
  <2>1. p \in procs /\ q \in procs
    BY DEF Serving
  <2>2. /\ p.id \in Known(handles["pool"]) /\ handles["pool"][p.id] = p.port
        /\ q.id \in Known(handles["gateway"]) /\ handles["gateway"][q.id] = q.port
    BY <1>1, <2>1, HeldKnown DEF IdInv
  <2>3. p.id < Count /\ p.port = p.id
    BY <1>1, <2>2 DEF IdInv, TablesNumbered
  <2>4. q.id \in Nat /\ q.id < MinWorkers
    BY <1>1, <2>1, <2>2, <2>3, SizesAssumption DEF Ids, Known
  <2>5. q.port = q.id
    BY <1>1, <2>2, <2>4 DEF IdInv, TablesNumbered, Numbered
  <2> QED
    BY <1>1, <2>3, <2>5 DEF IdInv, Inv, PortsApart
<1>2. ASSUME IdInv,
             NEW p \in Serving, NEW q \in Serving, p.owner = q.owner,
             ~Orphan(p), ~Orphan(q), p.id = q.id
      PROVE  p = q
  <2>1. p.port = q.port
    BY <1>2, HeldKnown DEF IdInv, Serving
  <2> QED
    BY <1>2, <2>1 DEF IdInv, Inv, PortsApart
<1>3. ASSUME IdInv PROVE OneServerPerId
  <2>1. \A p \in Serving : p.owner \in {"pool", "gateway"}
    BY <1>3 DEF IdInv, Inv, TypeOK, Serving, Processes, Managers
  <2> QED
    BY <1>1, <1>2, <1>3, <2>1 DEF OneServerPerId
<1> QED
  BY <1>3, IdInit, IdStep, PTL DEF Spec

=============================================================================
