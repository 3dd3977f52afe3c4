------------------------- MODULE WorkerRegistryProofs -------------------------
(***************************************************************************)
(* Proofs about WorkerRegistry: its type invariant, and that the count of  *)
(* failed pings in an entry is never too high, for any number of workers   *)
(* and any threshold, as long as runs of the checkers do not overlap.      *)
(***************************************************************************)
EXTENDS WorkerRegistry, TLAPS

-----------------------------------------------------------------------------
(* Types *)

\* A checker remembers the entry of every worker it has still to visit, and is busy
\* with none but those.
Visiting ==
    \A c \in Checkers, w \in Workers :
        /\ w \in toCheck[c] => snap[c][w] \in Entries
        /\ stage[c][w] # "none" => w \in toCheck[c]

\* What a checker writes back is an entry.
LEMMA CheckedType ==
    ASSUME NEW e \in Entries, NEW ok \in BOOLEAN
    PROVE  Checked(e, ok) \in Entries
<1>1. Counted(e.fails) \in 0..Threshold
  BY ThresholdAssumption DEF Counted, Entries
<1>2. CASE ok
  BY <1>2, ThresholdAssumption DEF Checked, Entries
<1>3. CASE ~ok
  BY <1>1, <1>3 DEF Checked, Entries, OwnStatus
<1> QED
  BY <1>2, <1>3

\* What a worker writes is an entry without failures.
LEMMA WrittenType == \A s \in OwnStatus : Written(s) \in Entries /\ Written(s).fails = 0
  BY ThresholdAssumption DEF Written, Entries, OwnStatus

Typed == RegistryTypeOK /\ Visiting

LEMMA TypedInit == RegistryInit => Typed
  BY MaxLapsesAssumption, ThresholdAssumption DEF RegistryInit, Typed, RegistryTypeOK, Visiting

LEMMA TypedNext == Typed /\ [RegistryNext]_registryVars => Typed'
<1> SUFFICES ASSUME Typed, [RegistryNext]_registryVars
             PROVE  Typed'
  OBVIOUS
<1> USE DEF Typed, RegistryTypeOK, Visiting, OwnStatus
<1>1. ASSUME NEW w \in Workers, Start(w)
      PROVE  Typed'
  BY <1>1 DEF Start, checkerVars
<1>2. ASSUME NEW w \in Workers, NEW s \in OwnStatus, Compute(w, s)
      PROVE  Typed'
  BY <1>2 DEF Compute, checkerVars
<1>3. ASSUME NEW w \in Workers, NEW s \in OwnStatus, WriteEntry(w, s)
      PROVE  Typed'
  BY <1>3, WrittenType DEF WriteEntry, checkerVars
<1>4. ASSUME NEW w \in Workers, WriteKey(w)
      PROVE  Typed'
  BY <1>4 DEF WriteKey, checkerVars
<1>5. ASSUME NEW w \in Workers, Deregister(w) \/ DeregisterKey(w) \/ Exit(w)
      PROVE  Typed'
  BY ZenonT(60), <1>5 DEF Deregister, DeregisterKey, Exit, checkerVars
<1>6. ASSUME NEW w \in Workers, KeyExpires(w) \/ PoolRemoves(w)
      PROVE  Typed'
  <2>1. lapses' \in 0..MaxLapses
    BY <1>6, MaxLapsesAssumption DEF KeyExpires, PoolRemoves, Lapse
  <2> QED
    BY ZenonT(60), <1>6, <2>1 DEF KeyExpires, PoolRemoves, checkerVars, workerVars
<1>7. ASSUME NEW c \in Checkers, BeginCheck(c)
      PROVE  Typed'
  BY <1>7 DEF BeginCheck, workerVars
<1>8. ASSUME NEW c \in Checkers, NEW w \in Workers, Visit(c, w)
      PROVE  Typed'
  BY <1>8 DEF Visit, workerVars
<1>9. ASSUME NEW c \in Checkers, NEW w \in Workers, RemoveStale(c, w)
      PROVE  Typed'
  BY <1>9 DEF RemoveStale, Leave, workerVars
<1>10. ASSUME NEW c \in Checkers, NEW w \in Workers, PingAnswered(c, w) \/ PingFails(c, w)
       PROVE  Typed'
  <2>1. streak' \in [Workers -> 0..Threshold]
    BY <1>10, ThresholdAssumption DEF PingAnswered, PingFails, Counted
  <2>2. PICK g \in {"ok", "failed"} : stage' = [stage EXCEPT ![c][w] = g]
    BY <1>10 DEF PingAnswered, PingFails
  <2>3. UNCHANGED <<workerVars, entries, alive, snap, toCheck, lapses>> /\ stage[c][w] = "ping"
    BY <1>10 DEF PingAnswered, PingFails
  <2>4. w \in toCheck[c]
    BY <2>3
  <2> QED
    BY <2>1, <2>2, <2>3, <2>4 DEF workerVars
<1>11. ASSUME NEW c \in Checkers, NEW w \in Workers, WriteBack(c, w)
       PROVE  Typed'
  <2>1. Checked(snap[c][w], stage[c][w] = "ok") \in Entries
    BY <1>11, CheckedType DEF WriteBack
  <2> QED
    BY <1>11, <2>1 DEF WriteBack, Leave, workerVars
<1>12. CASE UNCHANGED registryVars
  BY <1>12 DEF registryVars, workerVars, checkerVars
<1> QED
  BY <1>1, <1>2, <1>3, <1>4, <1>5, <1>6, <1>7, <1>8, <1>9, <1>10, <1>11, <1>12
     DEF RegistryNext, Worker, Check

\* The variables keep their types.
THEOREM RegistryTypeCorrect == RegistrySpec => []RegistryTypeOK
<1>1. RegistrySpec => []Typed
  BY TypedInit, TypedNext, PTL DEF RegistrySpec
<1> QED
  BY <1>1, PTL DEF Typed

-----------------------------------------------------------------------------
(* Counts *)

\* Runs of the checkers do not overlap: a run has workers to visit only while no other
\* one has.
Alone == \A c, d \in Checkers : toCheck[c] # {} /\ toCheck[d] # {} => c = d

\* Counts are covered by failures in a row, in the hash and in what the checker read
\* and has not written back; only after an answer may they be higher, until the answer
\* is written back.
Covered ==
    /\ \A w \in Workers :
          entries[w] # NoEntry /\ (\A c \in Checkers : stage[c][w] # "ok")
              => entries[w].fails <= streak[w]
    /\ \A c \in Checkers : \A w \in toCheck[c] :
          /\ stage[c][w] \in {"none", "ping", "stale"} => snap[c][w].fails <= streak[w]
          /\ stage[c][w] = "failed" => Counted(snap[c][w].fails) <= streak[w]
                                       /\ snap[c][w].fails <= streak[w]

LEMMA CoveredInit == RegistryInit => Covered
  BY DEF RegistryInit, Covered

\* A step that changes neither the checker nor the counts of failures, and writes no
\* entry but one without failures, keeps them covered.
LEMMA CoveredByOthers ==
    ASSUME Typed, Covered, UNCHANGED <<checkerVars, streak>>,
           \A w \in Workers : entries'[w] = entries[w] \/ entries'[w] = NoEntry
                              \/ entries'[w].fails = 0
    PROVE  Covered'
  BY SMTT(40) DEF Covered, Typed, RegistryTypeOK, checkerVars

\* How a worker's own steps change the hash.
LEMMA WorkerSteps ==
    ASSUME Typed, NEW v \in Workers, Worker(v)
    PROVE  /\ UNCHANGED <<checkerVars, streak>>
           /\ \A w \in Workers : entries'[w] = entries[w] \/ entries'[w] = NoEntry
                                 \/ entries'[w].fails = 0
<1> USE DEF Typed, RegistryTypeOK
<1>1. ASSUME NEW s \in OwnStatus, WriteEntry(v, s)
      PROVE  /\ UNCHANGED <<checkerVars, streak>>
             /\ \A w \in Workers : entries'[w] = entries[w] \/ entries'[w].fails = 0
  BY <1>1, WrittenType DEF WriteEntry
<1> QED
  BY <1>1 DEF Worker, Start, Compute, WriteKey, Deregister, DeregisterKey, Exit,
             KeyExpires, PoolRemoves

LEMMA CountedAgrees ==
    ASSUME NEW m \in 0..Threshold, NEW n \in 0..Threshold, m <= n
    PROVE  Counted(m) <= Counted(n) /\ n <= Counted(n) /\ Counted(n) \in 0..Threshold
  BY ThresholdAssumption DEF Counted

LEMMA CoveredNext ==
    Alone /\ Alone' /\ Typed /\ Covered /\ [RegistryNext]_registryVars => Covered'
<1> SUFFICES ASSUME Alone, Alone', Typed, Covered, [RegistryNext]_registryVars
             PROVE  Covered'
  OBVIOUS
<1> USE DEF Typed, RegistryTypeOK, Visiting
<1>1. ASSUME NEW w \in Workers, Worker(w)
      PROVE  Covered'
  BY <1>1, WorkerSteps, CoveredByOthers
<1>2. ASSUME NEW c \in Checkers, BeginCheck(c)
      PROVE  Covered'
  <2>1. /\ toCheck[c] = {} /\ UNCHANGED <<entries, stage, streak>>
        /\ snap' = [snap EXCEPT ![c] = entries]
        /\ toCheck' = [toCheck EXCEPT ![c] = {w \in Workers : entries[w] # NoEntry}]
    BY <1>2 DEF BeginCheck
  <2>2. ASSUME NEW v \in Workers, entries[v] # NoEntry
        PROVE  entries[v].fails <= streak[v] /\ stage[c][v] = "none"
    <3>1. toCheck'[c] # {}
      BY <2>1, <2>2
    <3>2. \A d \in Checkers : d # c => toCheck[d] = {}
      BY <2>1, <3>1 DEF Alone
    <3>3. \A d \in Checkers : stage[d][v] = "none"
      BY <2>1, <3>2
    <3> QED
      BY <2>2, <3>3 DEF Covered
  <2>3. ASSUME NEW v \in toCheck'[c]
        PROVE  stage'[c][v] = "none" /\ snap'[c][v].fails <= streak'[v]
    BY <2>1, <2>2
  <2>4. ASSUME NEW d \in Checkers, d # c
        PROVE  toCheck'[d] = toCheck[d] /\ snap'[d] = snap[d]
    BY <2>1, <2>4
  <2> QED
    BY <2>1, <2>3, <2>4 DEF Covered
<1>3. ASSUME NEW c \in Checkers, NEW w \in Workers, Visit(c, w)
      PROVE  Covered'
  BY <1>3 DEF Visit, Covered
<1>4. ASSUME NEW c \in Checkers, NEW w \in Workers, RemoveStale(c, w)
      PROVE  Covered'
  BY <1>4 DEF RemoveStale, Leave, Covered
<1>5. ASSUME NEW c \in Checkers, NEW w \in Workers, PingAnswered(c, w)
      PROVE  Covered'
  <2>1. /\ streak' = [streak EXCEPT ![w] = 0]
        /\ stage' = [stage EXCEPT ![c][w] = "ok"]
        /\ UNCHANGED <<entries, snap, toCheck>>
        /\ w \in toCheck[c]
    BY <1>5 DEF PingAnswered
  <2>2. \A d \in Checkers : d # c => toCheck[d] = {}
    BY <2>1 DEF Alone
  <2> QED
    BY <2>1, <2>2 DEF Covered
<1>6. ASSUME NEW c \in Checkers, NEW w \in Workers, PingFails(c, w)
      PROVE  Covered'
  <2>1. w \in toCheck[c] /\ snap[c][w] \in Entries /\ snap[c][w].fails <= streak[w]
    BY <1>6 DEF PingFails, Covered
  <2>2. /\ Counted(snap[c][w].fails) <= Counted(streak[w])
        /\ streak[w] <= Counted(streak[w])
        /\ Counted(streak[w]) \in 0..Threshold
    BY <2>1, CountedAgrees DEF Entries
  <2>3. /\ streak' = [streak EXCEPT ![w] = Counted(streak[w])]
        /\ stage' = [stage EXCEPT ![c][w] = "failed"]
        /\ UNCHANGED <<entries, snap, toCheck>>
        /\ stage[c][w] = "ping"
    BY <1>6 DEF PingFails
  <2>4. ASSUME NEW v \in Workers, entries'[v] # NoEntry,
               \A d \in Checkers : stage'[d][v] # "ok"
        PROVE  entries'[v].fails <= streak'[v]
    <3>1. entries[v].fails <= streak[v]
      <4>1. \A d \in Checkers : stage[d][v] # "ok"
        BY <2>3, <2>4
      <4> QED
        BY <2>3, <2>4, <4>1 DEF Covered
    <3>2. streak[v] <= streak'[v] /\ streak'[v] \in 0..Threshold
      BY <2>2, <2>3, ThresholdAssumption
    <3> QED
      BY <2>3, <2>4, <3>1, <3>2, ThresholdAssumption DEF Entries
  <2>5. ASSUME NEW d \in Checkers, NEW v \in toCheck'[d]
        PROVE  /\ stage'[d][v] \in {"none", "ping", "stale"}
                      => snap'[d][v].fails <= streak'[v]
               /\ stage'[d][v] = "failed" => Counted(snap'[d][v].fails) <= streak'[v]
                                             /\ snap'[d][v].fails <= streak'[v]
    <3>1. d = c /\ v \in toCheck[c] /\ v \in Workers
      BY <2>1, <2>3, <2>5 DEF Alone
    <3>2. CASE v = w
      BY <2>1, <2>2, <2>3, <3>1, <3>2, ThresholdAssumption DEF Entries
    <3>3. CASE v # w
      BY <2>3, <3>1, <3>3 DEF Covered
    <3> QED
      BY <3>2, <3>3
  <2> QED
    BY <2>4, <2>5 DEF Covered
<1>7. ASSUME NEW c \in Checkers, NEW w \in Workers, WriteBack(c, w)
      PROVE  Covered'
  <2>1. /\ w \in toCheck[c] /\ snap[c][w] \in Entries
        /\ stage[c][w] = "failed" => Counted(snap[c][w].fails) <= streak[w]
    BY <1>7 DEF WriteBack, Covered
  <2>2. /\ entries' = [entries EXCEPT ![w] = Checked(snap[c][w], stage[c][w] = "ok")]
        /\ stage[c][w] \in {"ok", "failed"}
        /\ toCheck' = [toCheck EXCEPT ![c] = toCheck[c] \ {w}]
        /\ stage' = [stage EXCEPT ![c][w] = "none"]
        /\ snap' = [snap EXCEPT ![c][w] = NoEntry]
        /\ streak' = streak
    BY <1>7 DEF WriteBack, Leave
  <2>3. Checked(snap[c][w], stage[c][w] = "ok").fails <= streak[w]
    <3>1. CASE stage[c][w] = "ok"
      BY <2>1, <3>1, ThresholdAssumption DEF Checked, Entries
    <3>2. CASE stage[c][w] = "failed"
      BY <2>1, <3>2 DEF Checked
    <3> QED
      BY <2>2, <3>1, <3>2
  <2> QED
    BY <2>2, <2>3 DEF Covered
<1>8. CASE UNCHANGED registryVars
  BY <1>8 DEF registryVars, checkerVars, Covered
<1> QED
  BY <1>1, <1>2, <1>3, <1>4, <1>5, <1>6, <1>7, <1>8 DEF RegistryNext, Check

LEMMA CountStep ==
    ASSUME Typed, Covered, [RegistryNext]_registryVars
    PROVE  [\A w \in Workers : entries'[w] # entries[w] /\ entries'[w] # NoEntry
                                   => entries'[w].fails <= streak[w]]_registryVars
<1> USE DEF Typed, RegistryTypeOK, Visiting
<1>1. ASSUME NEW v \in Workers, Worker(v), NEW w \in Workers,
             entries'[w] # entries[w], entries'[w] # NoEntry
      PROVE  entries'[w].fails <= streak[w]
  BY <1>1, WorkerSteps, ThresholdAssumption
<1>2. ASSUME NEW c \in Checkers, NEW v \in Workers, WriteBack(c, v),
             NEW w \in Workers, entries'[w] # entries[w], entries'[w] # NoEntry
      PROVE  entries'[w].fails <= streak[w]
  <2>1. /\ w = v /\ entries'[v] = Checked(snap[c][v], stage[c][v] = "ok")
        /\ v \in toCheck[c] /\ snap[c][v] \in Entries
        /\ stage[c][v] \in {"ok", "failed"}
    BY <1>2 DEF WriteBack
  <2>2. CASE stage[c][v] = "ok"
    BY <2>1, <2>2, ThresholdAssumption DEF Checked, Entries
  <2>3. CASE stage[c][v] = "failed"
    BY <2>1, <2>3 DEF Checked, Covered
  <2> QED
    BY <2>1, <2>2, <2>3
<1>3. ASSUME NEW c \in Checkers, NEW v \in Workers,
             Visit(c, v) \/ RemoveStale(c, v) \/ PingAnswered(c, v) \/ PingFails(c, v),
             NEW w \in Workers, entries'[w] # entries[w]
      PROVE  entries'[w] = NoEntry
  BY <1>3 DEF Visit, RemoveStale, PingAnswered, PingFails
<1>4. ASSUME NEW c \in Checkers, BeginCheck(c)
      PROVE  entries' = entries
  BY <1>4 DEF BeginCheck
<1> QED
  BY <1>1, <1>2, <1>3, <1>4 DEF RegistryNext, Check

\* As long as runs of the checkers do not overlap (they do only when somebody starts
\* one by hand), no write gives an entry a count that failures in a row do not justify.
THEOREM CountsAreJustified == RegistrySpec /\ []Alone => FailsAreConsecutive
<1>1. RegistrySpec => []Typed
  BY TypedInit, TypedNext, PTL DEF RegistrySpec
<1>2. Alone /\ Alone' /\ Typed /\ Covered /\ [RegistryNext]_registryVars => Covered'
  BY CoveredNext
<1>3. RegistrySpec /\ []Alone => []Covered
  BY <1>1, <1>2, CoveredInit, PTL DEF RegistrySpec
<1>4. Typed /\ Covered /\ [RegistryNext]_registryVars
          => [\A w \in Workers : entries'[w] # entries[w] /\ entries'[w] # NoEntry
                                     => entries'[w].fails <= streak[w]]_registryVars
  BY CountStep
<1> QED
  BY <1>1, <1>3, <1>4, PTL DEF RegistrySpec, FailsAreConsecutive

=============================================================================
