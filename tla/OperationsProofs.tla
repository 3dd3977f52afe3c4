-------------------------- MODULE OperationsProofs ---------------------------
(***************************************************************************)
(* Proofs about the jobs and the operations on the team's data: that a     *)
(* user of CoEvo becomes one student, that a changed trigger is kept, that *)
(* an alert is raised, that an insight is stored once a day, how old a     *)
(* snapshot may be, in which ranges the figures stay, and that every tool  *)
(* call is answered, for any users, jobs, figures, processes and bounds.   *)
(***************************************************************************)
EXTENDS MCOperations, KnowledgeProofs, FiniteSetTheorems, TLAPS

-----------------------------------------------------------------------------
(* The synchronisation of students.  Each row belongs to the user whose    *)
(* link names it, so a user without a link has no row, and a transaction   *)
(* commits only while none of its users has a link.                        *)

StudentInv == StudentSyncTypeOK /\ OneStudentPerUser

\* As many places as users, each user in one of them: none is in two.
LEMMA OrderInjective ==
    ASSUME NEW S \in SUBSET CoevoUsers, NEW order \in [1..Cardinality(S) -> S],
           \A u \in S : \E n \in DOMAIN order : order[n] = u
    PROVE  /\ Cardinality(S) \in Nat
           /\ \A i, j \in 1..Cardinality(S) : order[i] = order[j] => i = j
<1>1. IsFiniteSet(S) /\ Cardinality(S) \in Nat
  BY StudentsAssumption, FS_Subset, FS_CardinalityType
<1>2. IsFiniteSet(1..Cardinality(S)) /\ Cardinality(1..Cardinality(S)) = Cardinality(S)
  BY <1>1, FS_Interval
<1>3. order \in Surjection(1..Cardinality(S), S)
  BY DEF Surjection
<1>4. order \in Injection(1..Cardinality(S), S)
  BY <1>2, <1>3, FS_SurjSameCardinalityImpliesInj
<1> QED
  BY <1>1, <1>4 DEF Injection, IsInjective

LEMMA CountBound ==
    ASSUME NEW S \in SUBSET CoevoUsers
    PROVE  Cardinality(S) \in 0..Cardinality(CoevoUsers)
  BY StudentsAssumption, FS_Subset, FS_CardinalityType

LEMMA StudentInvInit == StudentSyncInit => StudentInv
<1>1. Cardinality(CoevoUsers) \in Nat
  BY StudentsAssumption, FS_CardinalityType
<1> QED
  BY <1>1, StudentsAssumption
  DEF StudentSyncInit, StudentInv, StudentSyncTypeOK, OneStudentPerUser, NoLog, Logs

\* The rows and links that a run commits.
LEMMA WriteKeeps ==
    ASSUME StudentInv, NEW r \in SyncRuns, WriteStudents(r)
    PROVE  /\ students' \in Seq(CoevoUsers) /\ Len(students') <= MaxStudents
           /\ linked' \in [CoevoUsers -> 0..MaxStudents]
           /\ OneStudentPerUser'
<1> DEFINE S == missing[r]
<1>1. /\ students \in Seq(CoevoUsers) /\ linked \in [CoevoUsers -> 0..MaxStudents]
      /\ S \in SUBSET CoevoUsers /\ MaxStudents \in Nat
  BY StudentsAssumption DEF StudentInv, StudentSyncTypeOK
<1>2. PICK order \in [1..Cardinality(S) -> S] :
         /\ \A u \in S : \E n \in DOMAIN order : order[n] = u
         /\ students' = students \o order
         /\ linked' = [u \in CoevoUsers |->
                          IF u \in S THEN Len(students) + CHOOSE n \in DOMAIN order : order[n] = u
                          ELSE linked[u]]
  BY DEF WriteStudents
<1>3. /\ Len(students) + Cardinality(S) <= MaxStudents
      /\ \A u \in S : linked[u] = 0
  BY DEF WriteStudents, Unique
<1> HIDE DEF S
<1>4. /\ Cardinality(S) \in Nat
      /\ \A i, j \in 1..Cardinality(S) : order[i] = order[j] => i = j
  <2>1. S \in SUBSET CoevoUsers /\ order \in [1..Cardinality(S) -> S]
    BY <1>1
  <2>2. \A u \in S : \E n \in DOMAIN order : order[n] = u
    BY <1>2
  <2> QED
    BY <2>1, <2>2, OrderInjective
<1>5. order \in Seq(CoevoUsers) /\ Len(order) = Cardinality(S)
  <2>1. order \in [1..Cardinality(S) -> CoevoUsers]
    BY <1>1
  <2> QED
    BY <1>4, <2>1
<1>6. students' \in Seq(CoevoUsers) /\ Len(students') = Len(students) + Cardinality(S)
  <2>1. students \in Seq(CoevoUsers) /\ order \in Seq(CoevoUsers)
    BY <1>1, <1>5
  <2>2. /\ students \o order \in Seq(CoevoUsers)
        /\ Len(students \o order) = Len(students) + Len(order)
    BY <2>1
  <2> QED
    BY <1>2, <1>5, <2>2
<1>7. ASSUME NEW u \in S, NEW n \in 1..Cardinality(S), order[n] = u
      PROVE  linked'[u] = Len(students) + n
  <2>1. (CHOOSE m \in DOMAIN order : order[m] = u) = n
    BY <1>2, <1>4, <1>7
  <2> QED
    BY <1>1, <1>2, <2>1
<1>8. ASSUME NEW u \in CoevoUsers
      PROVE  linked'[u] \in 0..MaxStudents
  <2>1. CASE u \in S
    <3>1. PICK n \in 1..Cardinality(S) : order[n] = u
      BY <1>2, <2>1
    <3> QED
      BY <1>1, <1>3, <1>4, <1>7, <2>1, <3>1
  <2>2. CASE u \notin S
    BY <1>1, <1>2, <2>2
  <2> QED
    BY <2>1, <2>2
<1>9. linked' \in [CoevoUsers -> 0..MaxStudents]
  BY <1>2, <1>8
<1>10. ASSUME NEW n \in DOMAIN students'
       PROVE  linked'[students'[n]] = n
  <2>1. CASE n \in 1..Len(students)
    <3>1. students'[n] = students[n] /\ linked[students[n]] = n
      BY <1>1, <1>2, <1>5, <2>1 DEF StudentInv, OneStudentPerUser
    <3>2. students[n] \in CoevoUsers /\ students[n] \notin S
      BY <1>1, <1>3, <2>1, <3>1
    <3> QED
      BY <1>2, <3>1, <3>2
  <2>2. CASE n \notin 1..Len(students)
    <3>0. n \in 1..(Len(students) + Cardinality(S)) /\ Len(students) \in Nat
      BY <1>1, <1>6
    <3>1. n - Len(students) \in 1..Cardinality(S)
      BY <1>4, <2>2, <3>0
    <3>2. PICK m \in 1..Cardinality(S) : n = Len(students) + m
      BY <3>0, <3>1
    <3>3. students'[n] = order[m]
      BY <1>1, <1>2, <1>4, <1>5, <3>0, <3>2
    <3>4. order[m] \in S
      OBVIOUS
    <3> QED
      BY <1>7, <3>2, <3>3, <3>4
  <2> QED
    BY <2>1, <2>2
<1>11. OneStudentPerUser'
  BY <1>10 DEF OneStudentPerUser
<1> QED
  BY <1>3, <1>6, <1>9, <1>11

LEMMA StudentInvNext == StudentInv /\ [StudentSyncNext]_syncVars => StudentInv'
<1> SUFFICES ASSUME StudentInv, [StudentSyncNext]_syncVars
             PROVE  StudentInv'
  OBVIOUS
<1> USE DEF StudentInv, StudentSyncTypeOK, OneStudentPerUser
<1>1. ASSUME NEW u \in CoevoUsers, Enrol(u)
      PROVE  StudentInv'
  BY <1>1 DEF Enrol
<1>2. ASSUME NEW r \in SyncRuns, OpenLog(r)
      PROVE  StudentInv'
  <2>1. [status |-> "running", created |-> 0] \in Logs
    BY StudentsAssumption, FS_CardinalityType DEF Logs
  <2> QED
    BY <1>2, <2>1 DEF OpenLog
<1>3. ASSUME NEW r \in SyncRuns, ReadUsers(r) \/ LookForLinks(r) \/ SyncFails(r) \/ SyncDies(r)
      PROVE  StudentInv'
  BY <1>3 DEF ReadUsers, LookForLinks, SyncFails, SyncDies
<1>4. ASSUME NEW r \in SyncRuns, WriteStudents(r)
      PROVE  StudentInv'
  <2>1. /\ students' \in Seq(CoevoUsers) /\ Len(students') <= MaxStudents
        /\ linked' \in [CoevoUsers -> 0..MaxStudents]
        /\ OneStudentPerUser'
    BY <1>4, WriteKeeps
  <2>2. /\ syncing' = [syncing EXCEPT ![r] = "written"]
        /\ UNCHANGED <<enrolled, seen, missing, log>>
    BY <1>4 DEF WriteStudents
  <2> QED
    BY <2>1, <2>2
<1>5. ASSUME NEW r \in SyncRuns, CloseLog(r)
      PROVE  StudentInv'
  <2>1. Claimed(r) \in 0..Cardinality(CoevoUsers) /\ Cardinality(CoevoUsers) \in Nat
    BY CountBound, StudentsAssumption, FS_CardinalityType DEF Claimed
  <2>2. PICK n \in 0..Claimed(r) :
           log' = [log EXCEPT ![r] = [status |-> IF syncing[r] = "written"
                                                 THEN "completed" ELSE "failed",
                                      created |-> n]]
    BY <1>5 DEF CloseLog
  <2>3. n \in 0..Cardinality(CoevoUsers)
    BY <2>1
  <2>4. log' \in [SyncRuns -> Logs]
    BY <2>2, <2>3 DEF Logs
  <2> QED
    BY <1>5, <2>4 DEF CloseLog
<1>6. CASE UNCHANGED syncVars
  BY <1>6 DEF syncVars
<1> QED
  BY <1>1, <1>2, <1>3, <1>4, <1>5, <1>6 DEF StudentSyncNext

\* The state of sync_students has its types.
THEOREM StudentTypeCorrect == StudentSyncSpec => []StudentSyncTypeOK
<1>1. StudentSyncInit => StudentInv
  BY StudentInvInit
<1>2. StudentInv /\ [StudentSyncNext]_syncVars => StudentInv'
  BY StudentInvNext
<1>3. StudentInv => StudentSyncTypeOK
  BY DEF StudentInv
<1> QED
  BY <1>1, <1>2, <1>3, PTL DEF StudentSyncSpec

\* Whatever runs of sync_students overlap, fail or die, every user of the platform has at
\* most one row of claw_students, for any users, runs and rows.
THEOREM StudentsAreOne == StudentSyncSpec => []OneStudentPerUser
<1>1. StudentSyncInit => StudentInv
  BY StudentInvInit
<1>2. StudentInv /\ [StudentSyncNext]_syncVars => StudentInv'
  BY StudentInvNext
<1>3. StudentInv => OneStudentPerUser
  BY DEF StudentInv
<1> QED
  BY <1>1, <1>2, <1>3, PTL DEF StudentSyncSpec

-----------------------------------------------------------------------------
(* The triggers.  While a change is written, the file is as it was or is   *)
(* empty and the buffer holds it; the job's new trigger is the one that is *)
(* being written, the others are those that were accepted.                 *)

FileKept ==
    /\ yaml \in {accepted, Truncated}
    /\ writing # <<>> /\ yaml = Truncated => buffer = accepted

OnlyDaemonWrites == writing # <<>> => daemon

TriggersKept ==
    /\ writing # <<>> => trigger[writing[1]] = writing[2]
    /\ daemon => \A j \in Jobs \ failed :
          (writing # <<>> /\ writing[1] = j) \/ trigger[j] = accepted[j]

SchedulerInv == SchedulerTypeOK /\ FileKept /\ OnlyDaemonWrites /\ TriggersKept

LEMMA SchedulerInvInit == SchedulerInit => SchedulerInv
<1> SUFFICES ASSUME SchedulerInit
             PROVE  SchedulerInv
  OBVIOUS
<1>1. 0 \in 0..MaxChanges /\ 0 \in 0..MaxEnds
  BY SchedulerAssumption
<1>2. SchedulerTypeOK
  BY <1>1 DEF SchedulerInit, SchedulerTypeOK
<1> QED
  BY <1>2 DEF SchedulerInit, SchedulerInv, FileKept, OnlyDaemonWrites, TriggersKept

\* The steps that write agents.yaml
LEMMA WritingNext ==
    ASSUME SchedulerInv, OpenFile \/ Dump \/ WriteFails
    PROVE  SchedulerInv'
<1> USE SchedulerAssumption DEF SchedulerInv, SchedulerTypeOK, FileKept, OnlyDaemonWrites,
        TriggersKept, runVars, AllJobs
<1>0. /\ writing # <<>>
      /\ writing[1] \in AllJobs /\ writing[2] \in Crons
  BY DEF OpenFile, Dump, WriteFails
<1>1. CASE OpenFile
  BY <1>1 DEF OpenFile
<1>2. CASE WriteFails
  <2>1. ends' \in 0..MaxEnds
    BY <1>2 DEF WriteFails
  <2>2. writing' = <<>> /\ buffer' = Truncated
    BY <1>2 DEF WriteFails
  <2>3. failed' \subseteq Jobs
    BY <1>2 DEF WriteFails
  <2> QED
    BY <1>0, <1>2, <2>1, <2>2, <2>3 DEF WriteFails
<1>3. CASE Dump /\ writing[1] \in Jobs
  <2>1. /\ buffer = accepted /\ writing' = <<>> /\ buffer' = Truncated
        /\ yaml' = [buffer EXCEPT ![writing[1]] = writing[2]]
        /\ accepted' = [accepted EXCEPT ![writing[1]] = writing[2]]
        /\ failed' = failed \ {writing[1]}
    BY <1>0, <1>3 DEF Dump, Dumped
  <2>2. yaml' = accepted' /\ accepted' \in Files
    BY <1>0, <1>3, <2>1 DEF Files
  <2>3. ASSUME NEW j \in Jobs \ failed', daemon
        PROVE  trigger[j] = accepted'[j]
    <3>1. CASE j = writing[1]
      BY <1>0, <2>1, <3>1 DEF Files
    <3>2. CASE j # writing[1]
      BY <1>0, <2>1, <2>3, <3>2 DEF Files
    <3> QED
      BY <3>1, <3>2
  <2> QED
    BY <1>0, <1>3, <2>1, <2>2, <2>3 DEF Dump
<1>4. CASE Dump /\ writing[1] \notin Jobs
  <2>1. /\ yaml' = accepted /\ accepted' = accepted
        /\ writing' = <<>> /\ buffer' = Truncated
        /\ failed' = failed \ {writing[1]}
    BY <1>0, <1>4 DEF Dump, Dumped
  <2> QED
    BY <1>0, <1>4, <2>1 DEF Dump
<1> QED
  BY <1>1, <1>2, <1>3, <1>4

LEMMA SchedulerInvNext == SchedulerInv /\ [SchedulerNext]_schedulerVars => SchedulerInv'
<1> SUFFICES ASSUME SchedulerInv, [SchedulerNext]_schedulerVars
             PROVE  SchedulerInv'
  OBVIOUS
<1> USE SchedulerAssumption DEF SchedulerInv, SchedulerTypeOK, FileKept, OnlyDaemonWrites,
        TriggersKept, fileVars, runVars, AllJobs
<1>1. CASE StartDaemon
  <2>1. yaml = accepted /\ accepted \in [Jobs -> Crons] /\ writing = <<>>
    BY <1>1 DEF StartDaemon, Files
  <2>2. trigger' \in [AllJobs -> Crons \cup {BuiltIn}]
    BY <1>1, <2>1 DEF StartDaemon
  <2>3. \A j \in Jobs : trigger'[j] = accepted[j]
    BY <1>1, <2>1 DEF StartDaemon
  <2> QED
    BY <1>1, <2>1, <2>2, <2>3 DEF StartDaemon
<1>2. CASE OpenFile \/ Dump \/ WriteFails
  BY <1>2, WritingNext
<1>3. ASSUME NEW j \in AllJobs, NEW c \in Crons, Reschedule(j, c)
      PROVE  SchedulerInv'
  <2>1. /\ changes' \in 0..MaxChanges /\ paused' \subseteq AllJobs
        /\ trigger' = [trigger EXCEPT ![j] = c]
        /\ UNCHANGED <<yaml, buffer, daemon, running, byHand, accepted, ends>>
        /\ writing = <<>>
    BY <1>3 DEF Reschedule, Serves
  <2>2. trigger' \in [AllJobs -> Crons \cup {BuiltIn}]
    BY <2>1
  <2>3. CASE yaml = Truncated
    <3>1. failed' = failed \cup ({j} \cap Jobs) /\ writing' = <<>>
      BY <1>3, <2>1, <2>3 DEF Reschedule
    <3> QED
      BY <2>1, <2>2, <3>1
  <2>4. CASE yaml # Truncated
    <3>1. writing' = <<j, c>> /\ failed' = failed
      BY <1>3, <2>4 DEF Reschedule
    <3>2. writing' # <<>> /\ writing'[1] = j /\ writing'[2] = c /\ daemon
      BY <1>3, <3>1 DEF Reschedule, Serves
    <3> QED
      BY <2>1, <2>2, <2>4, <3>1, <3>2
  <2> QED
    BY <2>3, <2>4
<1>4. ASSUME NEW j \in AllJobs, Pause(j) \/ Resume(j)
      PROVE  SchedulerInv'
  BY <1>4 DEF Pause, Resume
<1>5. ASSUME NEW j \in AllJobs, Fire(j) \/ TriggerByHand(j) \/ RunEnds(j)
      PROVE  SchedulerInv'
  <2>1. running' \subseteq AllJobs \ Lambdas /\ byHand' \subseteq AllJobs
    BY <1>5 DEF Fire, Awaited, TriggerByHand, RunEnds
  <2>2. UNCHANGED <<fileVars, daemon, trigger, paused, accepted, failed, changes, ends>>
    BY <1>5 DEF Fire, TriggerByHand, RunEnds
  <2> QED
    BY <2>1, <2>2
<1>6. CASE DaemonEnds
  <2>1. ends' \in 0..MaxEnds
    BY <1>6 DEF DaemonEnds
  <2> QED
    BY <1>6, <2>1 DEF DaemonEnds
<1>7. CASE UNCHANGED schedulerVars
  BY <1>7 DEF schedulerVars
<1> QED
  BY <1>1, <1>2, <1>3, <1>4, <1>5, <1>6, <1>7 DEF SchedulerNext

\* The state of the scheduler has its types.
THEOREM SchedulerTypeCorrect == SchedulerSpec => []SchedulerTypeOK
<1>1. SchedulerInit => SchedulerInv
  BY SchedulerInvInit
<1>2. SchedulerInv /\ [SchedulerNext]_schedulerVars => SchedulerInv'
  BY SchedulerInvNext
<1>3. SchedulerInv => SchedulerTypeOK
  BY DEF SchedulerInv
<1> QED
  BY <1>1, <1>2, <1>3, PTL DEF SchedulerSpec

\* A trigger that was answered to be updated is the one of the running scheduler and of the
\* file it starts from, whatever ends, fails or is rescheduled between: for any jobs,
\* triggers and numbers of changes.
THEOREM ChangedTriggersKept == SchedulerSpec => []UpdateKept
<1>1. SchedulerInit => SchedulerInv
  BY SchedulerInvInit
<1>2. SchedulerInv /\ [SchedulerNext]_schedulerVars => SchedulerInv'
  BY SchedulerInvNext
<1>3. SchedulerInv => UpdateKept
  BY DEF SchedulerInv, FileKept, TriggersKept, UpdateKept
<1> QED
  BY <1>1, <1>2, <1>3, PTL DEF SchedulerSpec

-----------------------------------------------------------------------------
(* The snapshot of the team.  A text expires TTL after it was stored, and  *)
(* it is stored at most Limit after its data were read, because a request  *)
(* reads them after it came and is over within its limit.                  *)

SnapshotInv ==
    /\ SnapshotTypeOK
    /\ kept.data <= now /\ kept.until <= kept.data + TTL + Limit
    /\ \A a \in Asking :
          /\ underway[a] # "idle" => asked[a] <= now /\ now - asked[a] <= Limit
          /\ underway[a] = "lookup" => ~forced[a]
          /\ underway[a] = "store" => asked[a] <= data[a] /\ data[a] <= now
    /\ SnapshotFresh

LEMMA SnapshotInvInit == SnapshotInit => SnapshotInv
  BY SnapshotAssumption
  DEF SnapshotInit, SnapshotInv, SnapshotTypeOK, SnapshotFresh, Times

LEMMA SnapshotInvNext == SnapshotInv /\ [SnapshotNext]_snapshotVars => SnapshotInv'
<1> SUFFICES ASSUME SnapshotInv, [SnapshotNext]_snapshotVars PROVE SnapshotInv'
  OBVIOUS
<1> USE SnapshotAssumption DEF SnapshotInv, SnapshotTypeOK, SnapshotFresh, Times
<1>1. CASE Tick
  BY <1>1 DEF Tick
<1>2. ASSUME NEW a \in Asking, NEW refresh \in BOOLEAN, Ask(a, refresh) PROVE SnapshotInv'
  BY <1>2 DEF Ask, Reaches
<1>3. ASSUME NEW a \in Asking, Hit(a) PROVE SnapshotInv'
  BY <1>3 DEF Hit, Answered, Ends, Reaches
<1>4. ASSUME NEW a \in Asking, Miss(a) PROVE SnapshotInv'
  BY <1>4 DEF Miss, Reaches
<1>5. ASSUME NEW a \in Asking, Build(a) PROVE SnapshotInv'
  BY <1>5 DEF Build, Reaches
<1>6. ASSUME NEW a \in Asking, Store(a) PROVE SnapshotInv'
  BY <1>6 DEF Store, Stored, Answered, Ends, Reaches
<1>7. ASSUME NEW a \in Asking, Abandon(a) PROVE SnapshotInv'
  BY <1>7 DEF Abandon, Ends, Reaches
<1>8. CASE UNCHANGED snapshotVars
  BY <1>8 DEF snapshotVars
<1> QED
  BY <1>1, <1>2, <1>3, <1>4, <1>5, <1>6, <1>7, <1>8 DEF SnapshotNext

\* Requests, texts and times of the snapshot are what the code can make them.
THEOREM SnapshotTypeCorrect == SnapshotSpec => []SnapshotTypeOK
<1>1. SnapshotInv => SnapshotTypeOK
  BY DEF SnapshotInv
<1> QED
  BY SnapshotInvInit, SnapshotInvNext, <1>1, PTL DEF SnapshotSpec

\* The data that are served are at most as old as the TTL and the limit of a request
\* together, however requests overlap, and a forced refresh never gets older ones.
THEOREM SnapshotStaysFresh == SnapshotSpec => []SnapshotFresh
<1>1. SnapshotInv => SnapshotFresh
  BY DEF SnapshotInv
<1> QED
  BY SnapshotInvInit, SnapshotInvNext, <1>1, PTL DEF SnapshotSpec

-----------------------------------------------------------------------------
(* Alerts.  Two runs at once are an excuse; as long as there is neither    *)
(* one nor an alert, a run is about to compare, whose red score follows    *)
(* one that was not.                                                       *)

RiskInv ==
    /\ RiskTypeOK
    /\ \A r, o \in Computations :
          r # o /\ doing[r] # "idle" /\ doing[o] # "idle" => excused
    /\ \/ raised \/ excused
       \/ \E r \in Computations :
             /\ doing[r] = "compare" /\ IsRed(score[r])
             /\ WasRed /\ ~IsRed(Previous)

LEMMA RiskInvImplies == RiskInv => RedRaised
  BY DEF RiskInv, RedRaised

LEMMA RiskInvInit == RiskInit => RiskInv
<1> SUFFICES ASSUME RiskInit PROVE RiskInv
  OBVIOUS
<1>1. /\ rows \in Seq(Scores) /\ Len(rows) <= MaxRows
      /\ doing \in [Computations -> {"idle", "insert", "compare"}]
      /\ compares \in [Computations -> BOOLEAN]
      /\ score \in [Computations -> Scores]
  BY ScoresAssumption DEF RiskInit
<1>2. raised /\ raised \in BOOLEAN /\ excused \in BOOLEAN
  BY Zenon DEF RiskInit
<1>3. \A r \in Computations : doing[r] = "idle"
  BY DEF RiskInit
<1> QED
  BY <1>1, <1>2, <1>3, Zenon DEF RiskInv, RiskTypeOK

LEMMA RiskInvNext == RiskInv /\ [RiskNext]_riskVars => RiskInv'
<1> SUFFICES ASSUME RiskInv, [RiskNext]_riskVars PROVE RiskInv'
  OBVIOUS
<1> USE ScoresAssumption DEF RiskInv, RiskTypeOK, Goes
<1>1. ASSUME NEW r \in Computations, NEW s \in Scores, NEW a \in BOOLEAN, ComputeRisk(r, s, a)
      PROVE  RiskInv'
<2> USE <1>1 DEF ComputeRisk
<2>1. RiskTypeOK'
  OBVIOUS
<2>2. \A q, o \in Computations :
         q # o /\ doing'[q] # "idle" /\ doing'[o] # "idle" => excused'
  OBVIOUS
<2>3. (\E q \in Computations :
             /\ doing[q] = "compare" /\ IsRed(score[q])
             /\ WasRed /\ ~IsRed(Previous)) => excused'
  BY DEF WasRed, Previous
<2>4. raised' \/ excused'
  BY <2>3, Zenon
<2> QED
  BY <2>1, <2>2, <2>4, Zenon
<1>2. ASSUME NEW r \in Computations, Insert(r) PROVE RiskInv'
<2> DEFINE OthersIdle == \A o \in Computations \ {r} : doing[o] = "idle"
<2>1. /\ rows' \in Seq(Scores) /\ Len(rows') <= MaxRows
      /\ doing' \in [Computations -> {"idle", "insert", "compare"}]
      /\ UNCHANGED <<compares, score>>
      /\ doing'[r] = IF compares[r] THEN "compare" ELSE "idle"
      /\ \A o \in Computations \ {r} : doing'[o] = doing[o]
  BY <1>2 DEF Insert
<2>2. raised' \in BOOLEAN /\ excused' \in BOOLEAN
  BY <1>2, Zenon DEF Insert
<2>3. /\ IsRed(score[r]) => raised' = (WasRed /\ raised)
      /\ ~IsRed(score[r]) => raised'
      /\ OthersIdle => excused' = (IsRed(score[r]) /\ (~compares[r] \/ (WasRed /\ excused)))
      /\ ~OthersIdle => excused'
  BY <1>2, Zenon DEF Insert
<2>4. \A q, o \in Computations :
         q # o /\ doing'[q] # "idle" /\ doing'[o] # "idle" => excused'
  BY <2>1, <2>3, Zenon
<2>5. rows' # <<>> /\ rows'[Len(rows')] = score[r] /\ (~WasRed => ~IsRed(Previous'))
  BY <1>2 DEF Insert, WasRed, Previous, IsRed, Level
<2>6. IsRed(score[r]) => WasRed'
  BY <2>5 DEF WasRed
<2>7. OthersIdle => raised \/ excused
  BY <1>2, Zenon DEF Insert
<2>8. \/ raised' \/ excused'
      \/ doing'[r] = "compare" /\ IsRed(score'[r]) /\ WasRed' /\ ~IsRed(Previous')
  BY <2>1, <2>3, <2>5, <2>6, <2>7, Zenon
<2> QED
  BY <2>1, <2>2, <2>4, <2>8, Zenon
<1>3. ASSUME NEW r \in Computations, InsertFails(r) PROVE RiskInv'
<2> USE <1>3 DEF InsertFails
<2>1. RiskTypeOK'
  OBVIOUS
<2>2. \A q, o \in Computations :
         q # o /\ doing'[q] # "idle" /\ doing'[o] # "idle" => excused'
  OBVIOUS
<2>3. raised \/ excused => raised' \/ excused'
  BY Zenon
<2>4. ASSUME NEW q \in Computations, doing[q] = "compare", IsRed(score[q]), WasRed, ~IsRed(Previous)
      PROVE  doing'[q] = "compare" /\ IsRed(score'[q]) /\ WasRed' /\ ~IsRed(Previous)'
  BY <2>4 DEF WasRed, Previous
<2> QED
  BY <2>1, <2>2, <2>3, <2>4, Zenon
<1>4. ASSUME NEW r \in Computations, Compare(r) PROVE RiskInv'
<2> USE <1>4
<2>1. PICK previous \in {Previous, 0} :
         raised' = (raised \/ (IsRed(score[r]) /\ WasRed /\ Alarming(score[r], previous)))
  BY DEF Compare
<2>2. /\ UNCHANGED <<rows, compares, score, excused>>
      /\ doing' \in [Computations -> {"idle", "insert", "compare"}]
      /\ doing[r] = "compare"
      /\ doing'[r] = "idle" /\ \A o \in Computations \ {r} : doing'[o] = doing[o]
  BY DEF Compare
<2>3. raised' \in BOOLEAN
  BY <2>1, Zenon
<2>4. \A q, o \in Computations :
         q # o /\ doing'[q] # "idle" /\ doing'[o] # "idle" => excused'
  BY <2>2, Zenon
<2>5. ~IsRed(0)
  BY DEF IsRed, Level
<2>6. ASSUME ~raised, ~excused PROVE raised'
  <3>1. IsRed(score[r]) /\ WasRed /\ ~IsRed(Previous)
    BY <2>2, <2>6, Zenon
  <3> QED
    BY <2>1, <2>5, <3>1, Zenon DEF Alarming
<2>7. raised => raised'
  BY <2>1, Zenon
<2> QED
  BY <2>2, <2>3, <2>4, <2>6, <2>7, Zenon
<1>5. ASSUME NEW r \in Computations, RunFails(r) PROVE RiskInv'
  BY <1>5 DEF RunFails, WasRed, Previous
<1>6. CASE UNCHANGED riskVars
  BY <1>6 DEF riskVars, WasRed, Previous
<1> QED
  BY <1>1, <1>2, <1>3, <1>4, <1>5, <1>6 DEF RiskNext

\* Scores, alerts and runs are what the code can make them.
THEOREM RiskTypeCorrect == RiskSpec => []RiskTypeOK
<1>1. RiskInv => RiskTypeOK
  BY DEF RiskInv
<1> QED
  BY RiskInvInit, RiskInvNext, <1>1, PTL DEF RiskSpec

\* A student whose scores have turned red has had an alert when the runs rest, unless
\* one of the excuses holds: for any scores up to 100 and any number of rows.
THEOREM RedAlwaysRaised == RiskSpec => []RedRaised
<1>1. RiskInv => RedRaised
  BY RiskInvImplies
<1> QED
  BY RiskInvInit, RiskInvNext, <1>1, PTL DEF RiskSpec

-----------------------------------------------------------------------------
(* One insight a day.  Rows of a subject that only one scan saves are none *)
(* later than the day for which the scan looks, and when it has found none *)
(* of that day either, the row it inserts is the only one of its day.      *)

UnderwayOK ==
    \A s \in Scans : reached[s] # "text" => topics[s] # <<>> /\ today[s] <= date

NoFutureRows == \A i \in 1..lastRow : insights[i].day <= date

OneSaver ==
    \A s, o \in Scans : \A u \in Subjects :
        s # o /\ Saving(s, u) /\ Saving(o, u) => u \in crossed

NothingLater ==
    \A s \in Scans : \A i \in 1..lastRow :
        Saving(s, insights[i].subject) /\ insights[i].subject \notin crossed
        => /\ insights[i].day <= today[s]
           /\ reached[s] = "save" /\ insights[i].day = today[s] => i = sameDay[s]

FoundRowFits ==
    \A s \in Scans : reached[s] = "save" /\ sameDay[s] # NoRow =>
        /\ sameDay[s] \in 1..lastRow
        /\ insights[sameDay[s]].subject = Head(topics[s])
        /\ Head(topics[s]) \notin crossed => insights[sameDay[s]].day = today[s]

InsightsInv ==
    /\ InsightsTypeOK
    /\ UnderwayOK /\ NoFutureRows /\ OneSaver /\ NothingLater /\ FoundRowFits
    /\ OneInsightADay

LEMMA CoursesAreSeqs == Courses \subseteq Seq(Subjects)
<1>1. ASSUME NEW o \in OrdersOf(Subjects \ {CrossProject}) PROVE o \in Seq(Subjects)
  <2> DEFINE n == Cardinality(Subjects \ {CrossProject})
  <2>1. n \in Nat
    BY InsightsAssumption, FS_CardinalityType, FS_Subset
  <2>2. o \in [1..n -> Subjects \ {CrossProject}]
    BY <1>1 DEF OrdersOf
  <2> HIDE DEF n
  <2> QED
    BY <2>1, <2>2
<1>2. <<>> \in Seq(Subjects) /\ CrossProject \in Subjects
  BY InsightsAssumption
<1>3. ASSUME NEW c \in Courses PROVE c \in Seq(Subjects)
  <2>1. CASE \E o \in {<<>>} \cup OrdersOf(Subjects \ {CrossProject}) : c = Append(o, CrossProject)
    <3>1. PICK o \in {<<>>} \cup OrdersOf(Subjects \ {CrossProject}) : c = Append(o, CrossProject)
      BY <2>1
    <3>2. o \in Seq(Subjects)
      BY <1>1, <1>2
    <3> QED
      BY <1>2, <3>1, <3>2
  <2>2. CASE \E t \in Subjects : c = <<t>>
    BY <2>2
  <2> QED
    BY <1>3, <2>1, <2>2, Zenon DEF Courses
<1> QED
  BY <1>3

LEMMA InsightsInvInit == InsightsInit => InsightsInv
  BY InsightsAssumption
  DEF InsightsInit, InsightsInv, InsightsTypeOK, OneInsightADay, Saving, NoRow, Texts,
      UnderwayOK, NoFutureRows, OneSaver, NothingLater, FoundRowFits

\* A scan that goes on is not saving, and disturbs nothing.
LEMMA GoingOnKeeps ==
    ASSUME InsightsInv, NEW s \in Scans, NEW left \in Seq(Subjects), GoOnWith(s, left),
           UNCHANGED <<insights, date, lastRow, crossed>>
    PROVE  InsightsInv'
<1>1. InsightsTypeOK'
  BY InsightsAssumption DEF InsightsInv, InsightsTypeOK, GoOnWith, Texts, NoRow
<1>2. reached'[s] = "text" /\ \A o \in Scans \ {s} :
         /\ reached'[o] = reached[o] /\ topics'[o] = topics[o]
         /\ today'[o] = today[o] /\ sameDay'[o] = sameDay[o]
  BY DEF InsightsInv, InsightsTypeOK, GoOnWith
<1>3. UnderwayOK'
  BY <1>2 DEF InsightsInv, UnderwayOK
<1>4. NoFutureRows' /\ OneInsightADay'
  BY DEF InsightsInv, NoFutureRows, OneInsightADay
<1>5. OneSaver'
  BY <1>2 DEF InsightsInv, OneSaver, Saving
<1>6. NothingLater'
  BY <1>2 DEF InsightsInv, NothingLater, Saving
<1>7. FoundRowFits'
  BY <1>2 DEF InsightsInv, FoundRowFits, NoRow
<1> QED
  BY <1>1, <1>3, <1>4, <1>5, <1>6, <1>7 DEF InsightsInv

LEMMA ObtainKeeps ==
    ASSUME InsightsInv, NEW s \in Scans, NEW t \in Texts, t # "nothing", Obtain(s, t)
    PROVE  InsightsInv'
<1> DEFINE u == Head(topics[s])
<1>1. /\ topics[s] # <<>> /\ u \in Subjects
      /\ answer' = [answer EXCEPT ![s] = t]
      /\ reached' = [reached EXCEPT ![s] = "select"]
      /\ today' = [today EXCEPT ![s] = date]
      /\ UNCHANGED <<topics, sameDay, insights, date, lastRow>>
  BY DEF Obtain, InsightsInv, InsightsTypeOK
<1>2. /\ crossed' = crossed \cup {v \in {u} : t # "nothing" /\ \E o \in Scans \ {s} : Saving(o, v)}
      /\ crossed' \subseteq Subjects
  BY <1>1 DEF Obtain, InsightsInv, InsightsTypeOK
<1>3. InsightsTypeOK'
  BY <1>1, <1>2 DEF InsightsInv, InsightsTypeOK
<1>4. /\ reached'[s] = "select" /\ today'[s] = date
      /\ \A o \in Scans \ {s} : reached'[o] = reached[o] /\ today'[o] = today[o]
  BY <1>1 DEF InsightsInv, InsightsTypeOK
<1>5. /\ crossed \subseteq crossed'
      /\ \A o \in Scans \ {s} : Saving(o, u) => u \in crossed'
  BY <1>2
<1>6. UnderwayOK'
  BY <1>1, <1>4 DEF InsightsInv, InsightsTypeOK, UnderwayOK
<1>7. NoFutureRows' /\ OneInsightADay'
  BY <1>1, <1>5 DEF InsightsInv, NoFutureRows, OneInsightADay
<1>8. OneSaver'
  BY <1>1, <1>4, <1>5 DEF InsightsInv, OneSaver, Saving
<1>9. NothingLater'
  BY <1>1, <1>4, <1>5 DEF InsightsInv, NothingLater, Saving, NoFutureRows
<1>10. FoundRowFits'
  BY <1>1, <1>4, <1>5 DEF InsightsInv, FoundRowFits, NoRow
<1> QED
  BY <1>3, <1>6, <1>7, <1>8, <1>9, <1>10 DEF InsightsInv

LEMMA SelectKeeps ==
    ASSUME InsightsInv, NEW s \in Scans, SelectToday(s)
    PROVE  InsightsInv'
<1> DEFINE u == Head(topics[s])
<1> DEFINE ofToday == FoundToday(u, today[s])
<1>1. PICK i \in IF ofToday = {} THEN {NoRow} ELSE ofToday : sameDay' = [sameDay EXCEPT ![s] = i]
  BY DEF SelectToday
<1>2. i \in 0..MaxRowId
  BY <1>1, InsightsAssumption DEF FoundToday, InsightsInv, InsightsTypeOK, NoRow
<1>3. InsightsTypeOK'
  BY <1>1, <1>2 DEF SelectToday, InsightsInv, InsightsTypeOK
<1>4. /\ reached[s] = "select" /\ reached'[s] = "save" /\ sameDay'[s] = i
      /\ UNCHANGED <<insights, topics, answer, today, date, lastRow, crossed>>
      /\ \A o \in Scans \ {s} : reached'[o] = reached[o] /\ sameDay'[o] = sameDay[o]
  BY <1>1 DEF SelectToday, InsightsInv, InsightsTypeOK
<1>5. /\ i # NoRow => i \in ofToday
      /\ i = NoRow => ofToday = {}
  BY <1>1 DEF FoundToday, NoRow, InsightsInv, InsightsTypeOK
<1>6. ASSUME NEW j \in 1..lastRow, insights[j].subject = u, u \notin crossed,
             insights[j].day = today[s]
      PROVE  j = i
  <2>1. j \in ofToday
    BY <1>6 DEF FoundToday
  <2> QED
    BY <1>5, <1>6, <2>1 DEF FoundToday, InsightsInv, OneInsightADay
<1>7. ASSUME i # NoRow
      PROVE  i \in 1..lastRow /\ insights[i].subject = u /\ insights[i].day = today[s]
  BY <1>5, <1>7 DEF FoundToday
<1> HIDE DEF ofToday
<1>8. UnderwayOK' /\ NoFutureRows' /\ OneInsightADay'
  BY <1>4 DEF InsightsInv, UnderwayOK, NoFutureRows, OneInsightADay
<1>9. OneSaver'
  BY <1>4 DEF InsightsInv, OneSaver, Saving
<1>10. NothingLater'
  BY <1>4, <1>6 DEF InsightsInv, NothingLater, Saving
<1>11. FoundRowFits'
  BY <1>4, <1>7 DEF InsightsInv, FoundRowFits
<1> QED
  BY <1>3, <1>8, <1>9, <1>10, <1>11 DEF InsightsInv

LEMMA SaveKeeps ==
    ASSUME InsightsInv, NEW s \in Scans, SaveInsight(s)
    PROVE  InsightsInv'
<1> DEFINE u == Head(topics[s])
<1> DEFINE stored == [subject |-> u, text |-> answer[s], day |-> date]
<1> USE InsightsAssumption DEF NoRow
<1>1. /\ reached[s] = "save" /\ topics[s] # <<>> /\ topics[s] \in Seq(Subjects)
      /\ u \in Subjects /\ Tail(topics[s]) \in Seq(Subjects)
      /\ stored \in [subject : Subjects, text : Texts, day : 0..LastDay]
      /\ today[s] <= date
  BY DEF SaveInsight, InsightsInv, InsightsTypeOK, UnderwayOK
<1>2. PICK i \in 1..MaxRowId :
         /\ insights' = [insights EXCEPT ![i] = stored]
         /\ \/ sameDay[s] = i /\ i \in 1..lastRow /\ UNCHANGED lastRow
            \/ sameDay[s] = NoRow /\ i = lastRow + 1 /\ lastRow' = i
  <2>1. CASE sameDay[s] # NoRow
    BY <1>1, <2>1 DEF SaveInsight, InsightsInv, InsightsTypeOK, FoundRowFits
  <2>2. CASE sameDay[s] = NoRow
    <3>1. lastRow + 1 \in 1..MaxRowId
      BY <2>2 DEF SaveInsight, InsightsInv, InsightsTypeOK
    <3> QED
      BY <2>2, <3>1 DEF SaveInsight
  <2> QED
    BY <2>1, <2>2
<1>3. UNCHANGED <<date, crossed>> /\ GoOnWith(s, Tail(topics[s]))
  BY DEF SaveInsight, Over
<1>4. InsightsTypeOK'
  BY SMTT(60), <1>1, <1>2, <1>3 DEF InsightsInv, InsightsTypeOK, GoOnWith, Texts
<1>5. reached'[s] = "text" /\ \A o \in Scans \ {s} :
         /\ reached'[o] = reached[o] /\ topics'[o] = topics[o]
         /\ today'[o] = today[o] /\ sameDay'[o] = sameDay[o]
  BY <1>3 DEF GoOnWith, InsightsInv, InsightsTypeOK
<1>6. /\ insights'[i].subject = u /\ insights'[i].day = date
      /\ \A j \in 1..lastRow' : j # i => j \in 1..lastRow /\ insights'[j] = insights[j]
      /\ 1..lastRow \subseteq 1..lastRow'
      /\ i \in 1..lastRow'
      /\ i \in 1..lastRow => insights[i].subject = u
  BY <1>1, <1>2 DEF InsightsInv, InsightsTypeOK, FoundRowFits
<1>7. ASSUME NEW j \in 1..lastRow, j # i, insights[j].subject = u, u \notin crossed
      PROVE  insights[j].day # date
  <2>1. Saving(s, u)
    BY <1>1 DEF Saving
  <2>2. insights[j].day <= today[s] /\ (insights[j].day = today[s] => j = sameDay[s])
    BY <1>1, <1>7, <2>1 DEF InsightsInv, NothingLater
  <2>3. sameDay[s] # j
    BY <1>2, <1>7
  <2> QED
    BY <1>1, <2>2, <2>3 DEF InsightsInv, InsightsTypeOK
<1>8. ASSUME NEW o \in Scans \ {s}, reached[o] # "text", Head(topics[o]) = u PROVE u \in crossed
  BY <1>1, <1>8 DEF InsightsInv, OneSaver, Saving
<1>9. UnderwayOK'
  BY <1>3, <1>5 DEF InsightsInv, UnderwayOK
<1>10. NoFutureRows'
  BY <1>3, <1>6 DEF InsightsInv, InsightsTypeOK, NoFutureRows
<1>11. OneInsightADay'
  BY <1>3, <1>6, <1>7 DEF InsightsInv, OneInsightADay
<1>12. OneSaver'
  BY <1>3, <1>5 DEF InsightsInv, OneSaver, Saving
<1>13. NothingLater'
  BY <1>3, <1>5, <1>6, <1>8 DEF InsightsInv, NothingLater, Saving
<1>14. FoundRowFits'
  BY <1>3, <1>5, <1>6, <1>8 DEF InsightsInv, FoundRowFits
<1> QED
  BY <1>4, <1>9, <1>10, <1>11, <1>12, <1>13, <1>14 DEF InsightsInv

LEMMA InsightsInvNext == InsightsInv /\ [InsightsNext]_insightVars => InsightsInv'
<1> SUFFICES ASSUME InsightsInv, [InsightsNext]_insightVars PROVE InsightsInv'
  OBVIOUS
<1>1. CASE Midnight
  <2> USE <1>1 DEF Midnight
  <2>1. InsightsTypeOK'
    BY InsightsAssumption DEF InsightsInv, InsightsTypeOK
  <2>2. /\ date \in Nat /\ date' = date + 1
        /\ \A s \in Scans : today[s] \in Nat
        /\ \A i \in 1..lastRow : insights[i].day \in Nat
    BY InsightsAssumption DEF InsightsInv, InsightsTypeOK
  <2>3. UnderwayOK'
    BY <2>2 DEF InsightsInv, UnderwayOK
  <2>4. NoFutureRows'
    BY <2>2 DEF InsightsInv, NoFutureRows
  <2>5. OneSaver' /\ NothingLater' /\ FoundRowFits' /\ OneInsightADay'
    BY DEF InsightsInv, OneSaver, NothingLater, FoundRowFits, OneInsightADay, Saving
  <2> QED
    BY <2>1, <2>3, <2>4, <2>5 DEF InsightsInv
<1>2. ASSUME NEW s \in Scans, NEW course \in Courses, BeginScan(s, course) PROVE InsightsInv'
  <2>1. /\ reached[s] = "text" /\ course \in Seq(Subjects)
        /\ topics' = [topics EXCEPT ![s] = course]
        /\ UNCHANGED <<insights, reached, answer, today, sameDay, date, lastRow, crossed>>
    BY <1>2, CoursesAreSeqs DEF BeginScan, InsightsInv, InsightsTypeOK, UnderwayOK
  <2>2. InsightsTypeOK'
    BY <2>1 DEF InsightsInv, InsightsTypeOK
  <2>3. \A o \in Scans \ {s} : topics'[o] = topics[o]
    BY <2>1 DEF InsightsInv, InsightsTypeOK
  <2>4. UnderwayOK' /\ NoFutureRows' /\ OneInsightADay'
    BY <2>1, <2>3 DEF InsightsInv, UnderwayOK, NoFutureRows, OneInsightADay
  <2>5. OneSaver' /\ NothingLater' /\ FoundRowFits'
    BY <2>1, <2>3 DEF InsightsInv, OneSaver, NothingLater, FoundRowFits, Saving
  <2> QED
    BY <2>2, <2>4, <2>5 DEF InsightsInv
<1>3. ASSUME NEW s \in Scans, topics[s] # <<>> PROVE Tail(topics[s]) \in Seq(Subjects)
  BY <1>3 DEF InsightsInv, InsightsTypeOK
<1>4. ASSUME NEW s \in Scans, NEW t \in Texts, Obtain(s, t) PROVE InsightsInv'
  <2>1. CASE t = "nothing"
    <3>1. Over(s) /\ topics[s] # <<>> /\ UNCHANGED <<insights, date, lastRow, crossed>>
      BY <1>4, <2>1 DEF Obtain
    <3> QED
      BY <1>3, <3>1, GoingOnKeeps DEF Over
  <2> QED
    BY <1>4, <2>1, ObtainKeeps
<1>5. ASSUME NEW s \in Scans, SelectToday(s) PROVE InsightsInv'
  BY <1>5, SelectKeeps
<1>6. ASSUME NEW s \in Scans, SaveInsight(s) PROVE InsightsInv'
  BY <1>6, SaveKeeps
<1>7. ASSUME NEW s \in Scans, SubjectFails(s) PROVE InsightsInv'
  BY <1>3, <1>7, GoingOnKeeps DEF SubjectFails, Over
<1>8. ASSUME NEW s \in Scans, ScanEnds(s) PROVE InsightsInv'
  <2>1. <<>> \in Seq(Subjects)
    OBVIOUS
  <2> QED
    BY <1>8, <2>1, GoingOnKeeps, Zenon DEF ScanEnds
<1>9. CASE UNCHANGED insightVars
  BY <1>9 DEF insightVars, InsightsInv, InsightsTypeOK, Saving, OneInsightADay,
      UnderwayOK, NoFutureRows, OneSaver, NothingLater, FoundRowFits
<1> QED
  BY <1>1, <1>2, <1>4, <1>5, <1>6, <1>7, <1>8, <1>9 DEF InsightsNext

\* Rows, days and scans are what the code can make them.
THEOREM InsightsTypeCorrect == InsightsSpec => []InsightsTypeOK
<1>1. InsightsInv => InsightsTypeOK
  BY DEF InsightsInv
<1> QED
  BY InsightsInvInit, InsightsInvNext, <1>1, PTL DEF InsightsSpec

\* A subject has one insight a day unless two scans saved it together, for any finite
\* set of subjects and any number of scans and days.
THEOREM OneInsightOfADay == InsightsSpec => []OneInsightADay
<1>1. InsightsInv => OneInsightADay
  BY DEF InsightsInv
<1> QED
  BY InsightsInvInit, InsightsInvNext, <1>1, PTL DEF InsightsSpec

-----------------------------------------------------------------------------
(* Figures.  What is counted within something else stays within it, and    *)
(* that is what keeps the rates between 0 and Full.                        *)

StaysWithin ==
    /\ \A f \in Figures[subject] \cap DOMAIN Within : counts[f] <= counts[Within[f]]
    /\ subject = "student" => counts["compared"] = 0 \/ counts["compared"] < counts["pre"]
    /\ subject = "activity" => counts["submitted"] + counts["summarized"] <= counts["created"]

CountsOK ==
    /\ subject \in Measured
    /\ counts \in [Figures[subject] -> 0..MaxFigure[subject]]
    /\ StaysWithin

\* A score is a number of hundredths up to Full.
Score(x) == x \in Nat /\ x <= Full

LEMMA FullIs == Full \in Nat /\ Full = 10000
  BY SMT DEF Full

LEMMA FullMinus ==
    ASSUME NEW x, x \in Nat /\ x <= Full
    PROVE  Full - x \in 0..Full
<1>1. Full \in Nat
  BY FullIs
<1> QED
  BY <1>1

LEMMA ScoreIn == ASSUME NEW x, Score(x) PROVE x \in 0..Full
<1>1. Full \in Nat
  BY FullIs
<1> QED
  BY <1>1, SMT DEF Score

\* Min caps a figure at Full, and Max keeps a divisor from being 0.
LEMMA Capped ==
    ASSUME NEW n \in Nat
    PROVE  Score(Min({n, Full})) /\ (n <= Full => Min({n, Full}) = n)
<1>1. ASSUME NEW m \in Nat, NEW bound \in Nat
      PROVE  /\ Min({m, bound}) \in Nat /\ Min({m, bound}) <= bound
             /\ m <= bound => Min({m, bound}) = m
  BY SMT DEF Min
<1>2. Full \in Nat
  BY FullIs
<1> QED
  BY <1>1, <1>2, Zenon DEF Score

LEMMA AtLeastOne ==
    ASSUME NEW n \in Nat
    PROVE  Max({n, 1}) \in Nat /\ Max({n, 1}) > 0 /\ n <= Max({n, 1})
<1>1. Max({n, 1}) = IF n <= 1 THEN 1 ELSE n
  BY DEF Max
<1> QED
  BY <1>1

\* A part of something is at most all of it.
LEMMA PartBound ==
    ASSUME NEW n \in Nat, NEW total \in Nat, total > 0
    PROVE  Part(n, total) \in Nat /\ (n <= total => Score(Part(n, total)))
<1> DEFINE q == (n * Full) \div total
<1>1. n * Full \in Nat /\ Full \in Nat
  BY FullIs
<1>2. q \in Nat /\ q * total <= n * Full
  BY <1>1, SMT
<1>3. Part(n, total) = q
  BY DEF Part
<1> HIDE DEF q
<1>4. ASSUME n <= total, q > Full PROVE FALSE
  <2>1. q * total >= (Full + 1) * total
    BY <1>1, <1>2, <1>4, SMT
  <2>2. n * Full <= total * Full
    BY <1>1, <1>4, SMT
  <2>3. (Full + 1) * total > total * Full
    BY <1>1, SMT
  <2>4. (Full + 1) * total \in Nat /\ total * Full \in Nat /\ q * total \in Nat
    BY <1>1, <1>2, SMT
  <2> QED
    BY <1>1, <1>2, <2>1, <2>2, <2>3, <2>4, SMT
<1> QED
  BY <1>1, <1>2, <1>3, <1>4, SMT DEF Score

\* Any number may be capped at Full.
LEMMA CappedBelow ==
    ASSUME NEW n \in Int
    PROVE  /\ Min({n, Full}) \in Int /\ Min({n, Full}) <= Full
           /\ Min({n, Full}) <= n
           /\ n >= 0 => Min({n, Full}) >= 0
<1>1. ASSUME NEW m \in Int, NEW bound \in Nat
      PROVE  /\ Min({m, bound}) \in Int /\ Min({m, bound}) <= bound
             /\ Min({m, bound}) <= m
             /\ m >= 0 => Min({m, bound}) >= 0
  BY SMT DEF Min
<1>2. Full \in Nat
  BY FullIs
<1> QED
  BY <1>1, <1>2, Zenon

LEMMA PartOfAny ==
    ASSUME NEW n \in Int, NEW total \in Nat, total > 0
    PROVE  Part(n, total) \in Int /\ (n >= 0 => Part(n, total) >= 0)
<1>1. n * Full \in Int /\ (n >= 0 => n * Full >= 0)
  BY FullIs, SMT
<1> DEFINE x == n * Full
<1> HIDE DEF x
<1>2. x \div total \in Int /\ (x >= 0 => x \div total >= 0)
  BY <1>1, SMT DEF x
<1> QED
  BY <1>1, <1>2 DEF x, Part

\* The most that a mood counts which is not below -100, and answers it holds for.
TwiceFull == 2 * Full
Bounded(j) == j.sentiment >= -100 \/ j.trend = "declining"

LEMMA TwiceFullIs == TwiceFull = 20000 /\ Full <= TwiceFull /\ TwiceFull \in Nat
  BY FullIs, SMT DEF TwiceFull

\* The weighted sum of the five signals: blockers may be negative, the gap to the goals
\* and the mood have no upper bound.  Red begins above RedFrom.
SumOfFive(b, g, c, d, e) == (30 * b + 25 * g + 20 * c + 15 * d + 10 * e) \div 100
RedFrom == 60 * 100

LEMMA WeightedSum ==
    ASSUME NEW b \in Int, NEW g \in Nat, NEW c, NEW d \in Nat, NEW e, Score(c), Score(e)
    PROVE  /\ SumOfFive(b, g, c, d, e) \in Int
           /\ b >= 0 => SumOfFive(b, g, c, d, e) >= 0
           /\ b = 0 /\ g = 0 /\ d <= TwiceFull => SumOfFive(b, g, c, d, e) <= RedFrom
<1> DEFINE x == 30 * b + 25 * g + 20 * c + 15 * d + 10 * e
<1>1. /\ x \in Int /\ (b >= 0 => x >= 0)
      /\ b = 0 /\ g = 0 /\ d <= TwiceFull => x <= 600000
  BY FullIs, TwiceFullIs, SMT DEF Score
<1> HIDE DEF x
<1>2. /\ x \div 100 \in Int /\ (x >= 0 => x \div 100 >= 0)
      /\ x <= 600000 => x \div 100 <= 6000
  BY <1>1, SMT
<1>3. RedFrom = 6000
  BY SMT DEF RedFrom
<1> QED
  BY <1>1, <1>2, <1>3 DEF x, SumOfFive

\* What is lacking of 100 is not negative, and more than 100 only of less than 0.
LEMMA Shortfalls ==
    ASSUME NEW p \in Int
    PROVE  /\ Shortfall(p) \in Nat
           /\ p >= 0 => Shortfall(p) <= Full
           /\ p >= -100 => Shortfall(p) <= TwiceFull
<1>1. ASSUME NEW x \in Int PROVE Max({0, x}) = IF x <= 0 THEN 0 ELSE x
  BY DEF Max
<1>2. Full - 100 * p \in Int
  BY FullIs, SMT
<1>3. Shortfall(p) = IF Full - 100 * p <= 0 THEN 0 ELSE Full - 100 * p
  BY <1>1, <1>2, Zenon DEF Shortfall
<1> QED
  BY <1>3, FullIs, TwiceFullIs, SMT

LEMMA Stretched ==
    ASSUME NEW low \in Nat
    PROVE  /\ (low * 13) \div 10 \in Nat /\ (low * 7) \div 10 \in Nat
           /\ (low * 7) \div 10 <= low
  BY SMT

LEMMA HealthNotNegative ==
    ASSUME NEW a \in Nat, NEW b \in Nat, NEW c \in Nat, NEW d \in Nat
    PROVE  (40 * a + 25 * b + 20 * c + 15 * d) \div 100 \in Nat
  BY SMT

LEMMA MeanOfFour ==
    ASSUME NEW a, NEW b, NEW c, NEW d, Score(a), Score(b), Score(c), Score(d)
    PROVE  /\ Score((25 * a + 30 * b + 25 * c + 20 * d) \div 100)
           /\ Score((40 * a + 25 * b + 20 * c + 15 * d) \div 100)
<1> DEFINE x == 25 * a + 30 * b + 25 * c + 20 * d
           y == 40 * a + 25 * b + 20 * c + 15 * d
<1>1. x \in Nat /\ x <= 100 * Full /\ Full \in Nat
  BY FullIs, SMT DEF Score
<1>2. y \in Nat /\ y <= 100 * Full
  BY FullIs, SMT DEF Score
<1> HIDE DEF x, y
<1>3. x \div 100 \in Nat /\ x \div 100 <= Full
  BY <1>1, SMT
<1>4. y \div 100 \in Nat /\ y \div 100 <= Full
  BY <1>1, <1>2, SMT
<1> QED
  BY <1>3, <1>4 DEF Score, x, y

LEMMA WithinFigures ==
    ASSUME NEW s \in Measured, NEW f \in Figures[s] \cap DOMAIN Within
    PROVE  Within[f] \in Figures[s] /\ Within[f] # f
<1>1. CASE s = "student"
  BY <1>1 DEF Figures, Within
<1>2. CASE s = "project"
  BY <1>2 DEF Figures, Within
<1>3. CASE s = "team"
  BY <1>3 DEF Figures, Within
<1>4. CASE s = "tasks"
  BY <1>4 DEF Figures, Within
<1>5. CASE s = "activity"
  BY <1>5 DEF Figures, Within
<1> QED
  BY <1>1, <1>2, <1>3, <1>4, <1>5 DEF Measured, Figures

LEMMA CountsInit == IndicatorsInit => CountsOK
<1> SUFFICES ASSUME IndicatorsInit PROVE CountsOK
  OBVIOUS
<1>1. subject \in Measured /\ MaxFigure[subject] \in Nat
  BY FiguresAssumption DEF IndicatorsInit, Measured, Figures
<1>2. \A f \in Figures[subject] : counts[f] = 0
  BY DEF IndicatorsInit
<1>3. \A f \in Figures[subject] \cap DOMAIN Within : Within[f] \in Figures[subject]
  BY <1>1, WithinFigures
<1> QED
  BY <1>1, <1>2, <1>3 DEF IndicatorsInit, CountsOK, StaysWithin, Figures

LEMMA GrowKeeps ==
    ASSUME CountsOK, NEW f \in UNION {Figures[s] : s \in Measured}, Grow(f)
    PROVE  CountsOK'
<1>1. /\ f \in Figures[subject] /\ subject' = subject /\ subject \in Measured
      /\ MaxFigure[subject] \in Nat
      /\ counts \in [Figures[subject] -> 0..MaxFigure[subject]]
      /\ counts' = [counts EXCEPT ![f] = @ + 1] /\ counts[f] < MaxFigure[subject]
  BY FiguresAssumption DEF CountsOK, Grow, Measured, Figures
<1>2. counts' \in [Figures[subject] -> 0..MaxFigure[subject]]
  BY <1>1
<1>3. /\ \A g \in Figures[subject] : counts[g] \in Nat /\ counts'[g] \in Nat
      /\ \A g \in Figures[subject] : g # f => counts'[g] = counts[g]
      /\ counts'[f] = counts[f] + 1
  BY <1>1, <1>2
<1>4. \A g \in Figures[subject] \cap DOMAIN Within : Within[g] \in Figures[subject] /\ Within[g] # g
  BY <1>1, WithinFigures
<1>5. \A g \in Figures[subject] \cap DOMAIN Within : counts'[g] <= counts'[Within[g]]
  <2> SUFFICES ASSUME NEW g \in Figures[subject] \cap DOMAIN Within
               PROVE  counts'[g] <= counts'[Within[g]]
    OBVIOUS
  <2>1. counts[g] <= counts[Within[g]]
    BY DEF CountsOK, StaysWithin
  <2>2. f = g => counts[g] < counts[Within[g]]
    BY DEF Grow
  <2> QED
    BY <1>3, <1>4, <2>1, <2>2
<1>6. subject = "student" => counts'["compared"] = 0 \/ counts'["compared"] < counts'["pre"]
  BY <1>1, <1>3 DEF CountsOK, StaysWithin, Grow, Figures
<1>7. subject = "activity" => counts'["submitted"] + counts'["summarized"] <= counts'["created"]
  BY <1>1, <1>3 DEF CountsOK, StaysWithin, Grow, Figures
<1> QED
  BY <1>1, <1>2, <1>5, <1>6, <1>7 DEF CountsOK, StaysWithin

LEMMA CountsNext == CountsOK /\ [IndicatorsNext]_indicatorVars => CountsOK'
<1> SUFFICES ASSUME CountsOK, [IndicatorsNext]_indicatorVars PROVE CountsOK'
  OBVIOUS
<1>1. CASE IndicatorsNext
  BY <1>1, GrowKeeps DEF IndicatorsNext
<1>2. CASE UNCHANGED indicatorVars
  BY <1>2 DEF indicatorVars, CountsOK, StaysWithin
<1> QED
  BY <1>1, <1>2

\* The signals of a student, and when they are silent.
LEMMA Signals ==
    ASSUME CountsOK, subject = "student", NEW j \in Judgements
    PROVE  /\ Blockers(counts, j.recurring, j.total) \in Int
           /\ j.recurring >= 0 => Blockers(counts, j.recurring, j.total) >= 0
           /\ GoalGap(counts, j.rate) \in Nat
           /\ Score(Disengaged(counts))
           /\ Mood(counts, j.sentiment, j.trend) \in Nat
           /\ Bounded(j) => Mood(counts, j.sentiment, j.trend) <= TwiceFull
           /\ Score(Concern(counts))
           /\ counts.pre < 2 => /\ Blockers(counts, j.recurring, j.total) = 0
                                /\ GoalGap(counts, j.rate) = 0
<1>1. /\ counts.attended \in Nat /\ counts.handedIn \in Nat /\ counts.pre \in Nat
      /\ counts.blocked \in Nat /\ counts.compared \in Nat /\ counts.written \in Nat
      /\ counts.concerns \in Nat
  BY FiguresAssumption DEF CountsOK, Figures
<1>2. counts.handedIn <= counts.attended /\ counts.blocked <= counts.pre
  BY DEF CountsOK, StaysWithin, Figures, Within
<1>3. /\ j.recurring \in Int /\ j.total \in Int /\ j.rate \in Int /\ j.sentiment \in Int
      /\ j.trend \in {"improving", "stable", "declining"}
  BY FiguresAssumption DEF Judgements
<1>4. Score(0)
  BY FullIs DEF Score
<1>5. /\ Blockers(counts, j.recurring, j.total) \in Int
      /\ j.recurring >= 0 => Blockers(counts, j.recurring, j.total) >= 0
  <2> DEFINE n == Part(j.recurring, Max({j.total, 1}))
  <2>1. Max({j.total, 1}) \in Nat /\ Max({j.total, 1}) > 0
    <3>1. ASSUME NEW m \in Int PROVE Max({m, 1}) = IF m <= 1 THEN 1 ELSE m
      BY DEF Max
    <3>2. Max({j.total, 1}) = IF j.total <= 1 THEN 1 ELSE j.total
      BY <1>3, <3>1, Zenon
    <3> QED
      BY <1>3, <3>2, SMT
  <2>2. n \in Int /\ (j.recurring >= 0 => n >= 0)
    BY <1>3, <2>1, PartOfAny, Zenon
  <2>3. Min({n, Full}) \in Int /\ (n >= 0 => Min({n, Full}) >= 0)
    BY <2>2, CappedBelow, Zenon
  <2>4. CASE counts.blocked < 2
    <3>1. Blockers(counts, j.recurring, j.total) = 0
      BY <2>4, Zenon DEF Blockers
    <3> QED
      BY <3>1, SMT
  <2>5. CASE ~(counts.blocked < 2)
    <3>1. Blockers(counts, j.recurring, j.total) = Min({n, Full})
      BY <2>5, Zenon DEF Blockers
    <3> HIDE DEF n
    <3> QED
      BY <2>2, <2>3, <3>1, Zenon
  <2> QED
    BY <2>4, <2>5
<1>6. GoalGap(counts, j.rate) \in Nat
  <2>1. Shortfall(j.rate) \in Nat /\ 0 \in Nat
    BY <1>3, Shortfalls
  <2> QED
    BY <2>1, Zenon DEF GoalGap
<1>7. Score(Disengaged(counts))
  <2>1. CASE counts.attended = 0
    BY <1>4, <2>1, Zenon DEF Disengaged
  <2>2. CASE counts.attended # 0
    <3>1. /\ counts.attended - counts.handedIn \in Nat /\ counts.attended > 0
          /\ counts.attended - counts.handedIn <= counts.attended
      BY <1>1, <1>2, <2>2, SMT
    <3>2. Score(Part(counts.attended - counts.handedIn, counts.attended))
      BY <1>1, <3>1, PartBound, Zenon
    <3> QED
      BY <2>2, <3>2, Zenon DEF Disengaged
  <2> QED
    BY <2>1, <2>2
<1>8. /\ Mood(counts, j.sentiment, j.trend) \in Nat
      /\ Bounded(j) => Mood(counts, j.sentiment, j.trend) <= TwiceFull
  <2> DEFINE low == Shortfall(j.sentiment)
  <2>1. low \in Nat /\ (j.sentiment >= -100 => low <= TwiceFull)
    BY <1>3, Shortfalls
  <2> HIDE DEF low
  <2>2. Score(Min({(low * 13) \div 10, Full})) /\ (low * 7) \div 10 \in Nat
        /\ (low * 7) \div 10 <= low
    <3>1. /\ (low * 13) \div 10 \in Nat /\ (low * 7) \div 10 \in Nat
          /\ (low * 7) \div 10 <= low
      BY <2>1, Stretched
    <3> QED
      BY <3>1, Capped, Zenon
  <2>3. CASE counts.written = 0
    <3>1. Mood(counts, j.sentiment, j.trend) = 0
      BY <2>3, SMT DEF Mood
    <3> QED
      BY <3>1, TwiceFullIs, SMT
  <2>4. CASE counts.written # 0
    <3>1. counts.written > 0
      BY <1>1, <2>4, SMT
    <3>2. CASE j.trend = "declining"
      <4>1. Mood(counts, j.sentiment, j.trend) = Min({(low * 13) \div 10, Full})
        BY <2>4, <3>1, <3>2, Zenon DEF Mood, low
      <4>2. ASSUME NEW x, Score(x) PROVE x \in Nat /\ x <= TwiceFull
        BY <4>2, FullIs, TwiceFullIs, SMT DEF Score
      <4> QED
        BY <2>2, <4>1, <4>2, Zenon
    <3>3. CASE j.trend = "improving"
      <4>1. Mood(counts, j.sentiment, j.trend) = (low * 7) \div 10
        BY <2>4, <3>1, <3>3, SMT DEF Mood, low
      <4> QED
        BY <2>1, <2>2, <3>3, <4>1, TwiceFullIs, SMT DEF Bounded
    <3>4. CASE j.trend = "stable"
      <4>1. Mood(counts, j.sentiment, j.trend) = low
        BY <2>4, <3>1, <3>4, SMT DEF Mood, low
      <4> QED
        BY <2>1, <3>4, <4>1, SMT DEF Bounded
    <3> QED
      BY <1>3, <3>2, <3>3, <3>4, Zenon
  <2> QED
    BY <2>3, <2>4
<1>9. Score(Concern(counts))
  <2>1. counts.concerns * 25 * 100 \in Nat
    BY <1>1, SMT
  <2> QED
    BY <2>1, Capped, Zenon DEF Concern
<1>10. counts.pre < 2 => /\ Blockers(counts, j.recurring, j.total) = 0
                         /\ GoalGap(counts, j.rate) = 0
  <2> SUFFICES ASSUME counts.pre < 2
               PROVE  /\ Blockers(counts, j.recurring, j.total) = 0
                      /\ GoalGap(counts, j.rate) = 0
    OBVIOUS
  <2>1. counts.blocked < 2
    BY <1>1, <1>2, SMT
  <2> QED
    BY <2>1, Zenon DEF Blockers, GoalGap
<1> QED
  BY <1>5, <1>6, <1>7, <1>8, <1>9, <1>10, Zenon

LEMMA OverallBound ==
    ASSUME CountsOK, subject = "student", NEW j \in Judgements
    PROVE  /\ Overall(counts, j) \in Int /\ Overall(counts, j) <= 1000
           /\ j.recurring >= 0 => Overall(counts, j) >= 0
           /\ counts.pre < 2 /\ Bounded(j) => Overall(counts, j) <= 600
<1> DEFINE b == Blockers(counts, j.recurring, j.total)
           g == GoalGap(counts, j.rate)
           d == Disengaged(counts)
           m == Mood(counts, j.sentiment, j.trend)
           c == Concern(counts)
<1>1. /\ b \in Int /\ g \in Nat /\ Score(d) /\ m \in Nat /\ Score(c)
      /\ j.recurring >= 0 => b >= 0
      /\ Bounded(j) => m <= TwiceFull
      /\ counts.pre < 2 => b = 0 /\ g = 0
  BY Signals, Zenon
<1>2. Weighed(counts, j) = SumOfFive(b, g, d, m, c)
  BY DEF Weighed, SumOfFive
<1> HIDE DEF b, g, d, m, c
<1> DEFINE w == SumOfFive(b, g, d, m, c)
<1>3. w \in Int /\ (b >= 0 => w >= 0) /\ (b = 0 /\ g = 0 /\ m <= TwiceFull => w <= RedFrom)
  BY <1>1, WeightedSum, Zenon
<1>4. Overall(counts, j) = (Min({w, Full}) + 5) \div 10
  BY <1>2, Zenon DEF Overall
<1> HIDE DEF w
<1> DEFINE k == Min({w, Full})
<1>5. k \in Int /\ k <= Full /\ k <= w /\ (w >= 0 => k >= 0)
  BY <1>3, CappedBelow, Zenon
<1> HIDE DEF k
<1>6. (k + 5) \div 10 \in Int /\ (k + 5) \div 10 <= 1000
  BY <1>5, FullIs, SMT
<1>7. k >= 0 => (k + 5) \div 10 >= 0
  BY <1>5, SMT
<1>8. k <= 6000 => (k + 5) \div 10 <= 600
  BY <1>5, SMT
<1>9. counts.pre < 2 /\ Bounded(j) => k <= 6000
  BY <1>1, <1>3, <1>5, SMT DEF RedFrom
<1>10. j.recurring >= 0 => k >= 0
  BY <1>1, <1>3, <1>5, SMT
<1>11. Overall(counts, j) = (k + 5) \div 10
  BY <1>4, Zenon DEF k
<1> QED
  BY <1>6, <1>7, <1>8, <1>9, <1>10, <1>11, SMT

LEMMA InnovationBound ==
    ASSUME CountsOK, subject = "project"
    PROVE  Innovation(counts) \in 0..Full
<1>1. /\ counts.members \in Nat /\ counts.meetings \in Nat /\ counts.collabs \in Nat
      /\ counts.asked \in Nat /\ counts.tasked \in Nat /\ counts.clusters \in Nat
      /\ counts.tasked <= counts.asked
  BY FiguresAssumption DEF CountsOK, StaysWithin, Figures, Within
<1>2. Max({counts.members, 1}) \in Nat /\ Max({counts.members, 1}) > 0
  BY <1>1, AtLeastOne, Zenon
<1>3. ASSUME NEW n \in Nat PROVE Score(Min({n \div Max({counts.members, 1}), Full}))
  <2>1. n \div Max({counts.members, 1}) \in Nat
    BY <1>2, SMT
  <2> QED
    BY <2>1, Capped, Zenon
<1>4. counts.meetings * 10 * 100 \in Nat /\ counts.collabs * 20 * 100 \in Nat
  BY <1>1, SMT
<1>5. Score(Velocity(counts)) /\ Score(Density(counts))
  BY <1>3, <1>4, Zenon DEF Velocity, Density
<1>6. Score(Resolution(counts))
  <2>1. CASE counts.asked = 0
    <3>1. Score(Full \div 2)
      BY FullIs, SMT DEF Score
    <3> QED
      BY <2>1, <3>1, Zenon DEF Resolution
  <2>2. CASE counts.asked # 0
    <3>1. counts.asked > 0
      BY <1>1, <2>2, SMT
    <3>2. Score(Part(counts.tasked, counts.asked))
      BY <1>1, <3>1, PartBound, Zenon
    <3> QED
      BY <2>2, <3>2, Zenon DEF Resolution
  <2> QED
    BY <2>1, <2>2
<1>7. Score(Breadth(counts))
  <2>1. counts.clusters * 20 * 100 \in Nat
    BY <1>1, SMT
  <2> QED
    BY <2>1, Capped, Zenon DEF Breadth
<1>8. Score(Innovation(counts))
  BY <1>5, <1>6, <1>7, MeanOfFour, ZenonT(40) DEF Innovation
<1> QED
  BY <1>8, ScoreIn, Zenon

LEMMA HealthBound ==
    ASSUME CountsOK, subject = "team", NEW a \in Replies
    PROVE  /\ Health(counts, a) >= 0
           /\ a >= 0 /\ counts.reports <= counts.meetings => Health(counts, a) <= Full
<1>1. /\ counts.scored \in Nat /\ counts.meetings \in Nat /\ counts.reports \in Nat
      /\ counts.actions \in Nat /\ counts.done \in Nat /\ counts.done <= counts.actions
  BY FiguresAssumption DEF CountsOK, StaysWithin, Figures, Within
<1>2. a \in Int
  BY FiguresAssumption
<1>3. Score(Full \div 2) /\ Score(70 * 100)
  BY FullIs, SMT DEF Score
<1>4. RiskHealth(counts, a) \in Nat /\ (a >= 0 => Score(RiskHealth(counts, a)))
  <2>1. /\ Shortfall(a) \in Nat /\ (a >= 0 => Score(Shortfall(a)))
        /\ Full \div 2 \in Nat
    BY <1>2, <1>3, Shortfalls DEF Score
  <2> QED
    BY <1>3, <2>1, Zenon DEF RiskHealth
<1>5. /\ Engagement(counts) \in Nat
      /\ counts.reports <= counts.meetings => Score(Engagement(counts))
  <2>1. CASE counts.meetings = 0
    <3>1. Engagement(counts) = 70 * 100
      BY <2>1, SMT DEF Engagement
    <3> QED
      BY <1>3, <3>1, Zenon DEF Score
  <2>2. CASE counts.meetings # 0
    <3>1. counts.meetings > 0
      BY <1>1, <2>2, SMT
    <3>2. /\ Part(counts.reports, counts.meetings) \in Nat
          /\ counts.reports <= counts.meetings => Score(Part(counts.reports, counts.meetings))
      BY <1>1, <3>1, PartBound, Zenon
    <3> QED
      BY <2>2, <3>2, Zenon DEF Engagement
  <2> QED
    BY <2>1, <2>2
<1>6. Score(Resolved(counts))
  <2>1. CASE counts.actions = 0
    BY <1>3, <2>1, Zenon DEF Resolved
  <2>2. CASE counts.actions # 0
    <3>1. counts.actions > 0
      BY <1>1, <2>2, SMT
    <3>2. Score(Part(counts.done, counts.actions))
      BY <1>1, <3>1, PartBound, Zenon
    <3> QED
      BY <2>2, <3>2, Zenon DEF Resolved
  <2> QED
    BY <2>1, <2>2
<1>7. Score(Collaboration)
  BY <1>3, Zenon DEF Collaboration
<1>8. Health(counts, a) \in Nat
  <2>1. Resolved(counts) \in Nat /\ Collaboration \in Nat
    BY <1>6, <1>7 DEF Score
  <2> QED
    BY <1>4, <1>5, <2>1, HealthNotNegative, Zenon DEF Health
<1>9. ASSUME a >= 0, counts.reports <= counts.meetings PROVE Score(Health(counts, a))
  <2>1. Score(RiskHealth(counts, a)) /\ Score(Engagement(counts))
    BY <1>4, <1>5, <1>9
  <2> QED
    BY <1>6, <1>7, <2>1, MeanOfFour, Zenon DEF Health
<1> QED
  BY <1>8, <1>9 DEF Score

LEMMA RateBounds ==
    ASSUME CountsOK
    PROVE  /\ subject = "tasks" => SuccessRate(counts) \in 0..Full
           /\ subject = "activity" => {SubmissionRate(counts), EngagementRate(counts),
                                       AssessmentCoverage(counts)} \subseteq 0..Full
<1>1. ASSUME NEW n \in Nat, NEW t \in Nat, n <= t
      PROVE  /\ Score(Part(n, Max({t, 1})))
             /\ t # 0 => Score(Part(n, t))
  <2>1. Max({t, 1}) \in Nat /\ Max({t, 1}) > 0 /\ t <= Max({t, 1})
    BY AtLeastOne, Zenon
  <2>2. n <= Max({t, 1})
    BY <1>1, <2>1, SMT
  <2>3. Score(Part(n, Max({t, 1})))
    BY <2>1, <2>2, PartBound, Zenon
  <2>4. t # 0 => t > 0
    BY SMT
  <2>5. t # 0 => Score(Part(n, t))
    BY <1>1, <2>4, PartBound, Zenon
  <2> QED
    BY <2>3, <2>5
<1>2. Score(0)
  BY FullIs DEF Score
<1>3. ASSUME subject = "tasks" PROVE SuccessRate(counts) \in 0..Full
  <2>1. counts.failed \in Nat /\ counts.all \in Nat /\ counts.failed <= counts.all
    BY <1>3, FiguresAssumption DEF CountsOK, StaysWithin, Figures, Within
  <2> DEFINE p == Part(counts.failed, Max({counts.all, 1}))
  <2>2. Score(p)
    BY <1>1, <2>1, Zenon
  <2>3. SuccessRate(counts) = Full - p
    BY DEF SuccessRate
  <2> HIDE DEF p
  <2>4. p \in Nat /\ p <= Full
    BY <2>2 DEF Score
  <2>5. Full - p \in 0..Full
    BY <2>4, FullMinus, Zenon
  <2> QED
    BY <2>3, <2>5
<1>4. ASSUME subject = "activity"
      PROVE  {SubmissionRate(counts), EngagementRate(counts), AssessmentCoverage(counts)}
                \subseteq 0..Full
  <2>1. /\ counts.created \in Nat /\ counts.submitted \in Nat /\ counts.summarized \in Nat
        /\ counts.held \in Nat /\ counts.before \in Nat /\ counts.enrolled \in Nat
        /\ counts.assessed \in Nat
        /\ counts.before <= counts.held /\ counts.assessed <= counts.enrolled
    BY <1>4, FiguresAssumption DEF CountsOK, StaysWithin, Figures, Within
  <2>2. counts.submitted + counts.summarized <= counts.created
    BY <1>4 DEF CountsOK, StaysWithin
  <2>3. counts.submitted + counts.summarized \in Nat
    BY <2>1, SMT
  <2>4. Score(SubmissionRate(counts))
    BY <1>1, <2>1, <2>2, <2>3, Zenon DEF SubmissionRate
  <2>5. Score(EngagementRate(counts))
    BY <1>1, <1>2, <2>1, Zenon DEF EngagementRate
  <2>6. Score(AssessmentCoverage(counts))
    BY <1>1, <1>2, <2>1, Zenon DEF AssessmentCoverage
  <2>7. /\ SubmissionRate(counts) \in 0..Full /\ EngagementRate(counts) \in 0..Full
        /\ AssessmentCoverage(counts) \in 0..Full
    BY <2>4, <2>5, <2>6, ScoreIn, Zenon
  <2> QED
    BY <2>7, Zenon
<1> QED
  BY <1>3, <1>4

LEMMA CountsImply == CountsOK => IndicatorsTypeOK /\ SilentNeverRed
<1> SUFFICES ASSUME CountsOK PROVE IndicatorsTypeOK /\ SilentNeverRed
  OBVIOUS
<1>1. IndicatorsTypeOK
  <2>1. subject \in {"student", "project", "team", "tasks", "activity"}
    BY DEF CountsOK, Measured, Figures
  <2>2. subject \in Measured /\ counts \in [Figures[subject] -> 0..MaxFigure[subject]]
    BY DEF CountsOK
  <2>3. subject = "student" =>
            \A j \in Judgements : /\ Overall(counts, j) <= 1000
                                  /\ j.recurring >= 0 => Overall(counts, j) >= 0
    BY OverallBound
  <2>4. subject = "project" => Innovation(counts) \in 0..Full
    BY InnovationBound
  <2>5. subject = "team" => \A a \in Replies :
            /\ Health(counts, a) >= 0
            /\ a >= 0 /\ counts.reports <= counts.meetings => Health(counts, a) <= Full
    BY HealthBound
  <2>6. /\ subject = "tasks" => SuccessRate(counts) \in 0..Full
        /\ subject = "activity" => {SubmissionRate(counts), EngagementRate(counts),
                                    AssessmentCoverage(counts)} \subseteq 0..Full
    BY RateBounds
  <2>7. CASE subject = "student"
    BY <2>2, <2>3, <2>7 DEF IndicatorsTypeOK
  <2>8. CASE subject = "project"
    BY <2>2, <2>4, <2>8 DEF IndicatorsTypeOK
  <2>9. CASE subject = "team"
    BY <2>2, <2>5, <2>9 DEF IndicatorsTypeOK
  <2>10. CASE subject = "tasks"
    BY <2>2, <2>6, <2>10 DEF IndicatorsTypeOK
  <2>11. CASE subject = "activity"
    BY <2>2, <2>6, <2>11 DEF IndicatorsTypeOK
  <2> QED
    BY <2>1, <2>7, <2>8, <2>9, <2>10, <2>11
<1>2. SilentNeverRed
  <2> SUFFICES ASSUME subject = "student", counts.pre < 2, NEW j \in Judgements,
                      j.sentiment >= -100 \/ j.trend = "declining"
               PROVE  RiskLevel(Overall(counts, j)) # "red"
    BY DEF SilentNeverRed
  <2>1. Overall(counts, j) \in Int /\ Overall(counts, j) <= 600
    BY OverallBound DEF Bounded
  <2> QED
    BY <2>1 DEF RiskLevel
<1> QED
  BY <1>1, <1>2

\* All figures and rates stay in their ranges, for any counts that the tables can have and
\* any numbers that a model answers: no formula divides by zero, the rates and the index
\* stay within 0..100 (in hundredths), and the scores that use an answer keep the one bound
\* that the code gives them, and the other one when the answer has the sign it should have.
THEOREM IndicatorsTypeCorrect == IndicatorsSpec => []IndicatorsTypeOK
<1>1. CountsOK => IndicatorsTypeOK
  BY CountsImply
<1> QED
  BY CountsInit, CountsNext, <1>1, PTL DEF IndicatorsSpec

\* Whoever has fewer than two reports is never red, for any counts and judgements but a
\* mood below -100 that does not decline.
THEOREM SilenceNeverRed == IndicatorsSpec => []SilentNeverRed
<1>1. CountsOK => SilentNeverRed
  BY CountsImply
<1> QED
  BY CountsInit, CountsNext, <1>1, PTL DEF IndicatorsSpec

-----------------------------------------------------------------------------
(* Execution of a task.  While tools run, the calls without an answer are  *)
(* the tail of the newest reply that asked for some; the answers there     *)
(* are stand right behind their message, in the order of its calls.        *)

CallRecords == [id : Nat \X Nat, tool : Tools]
Messages ==
    {[by |-> "user"]}
      \cup [by : {"model"}, calls : Seq(CallRecords)]
      \cup [by : {"tool"}, call : Nat \X Nat, result : {"value", "error"}]

ExecutionTyped ==
    /\ phase \in {"register", "load", "team", "knowledge", "asking", "tool",
                  "synthesizing", "finishing", "failing", "returned"}
    /\ said \in Seq(Messages) /\ wanted \in Seq(CallRecords)
    /\ iteration \in 0..MaxToolIterations
    /\ bar \in 0..100
    /\ summary \in {"none", "text", "empty", "unfinished"}
    /\ status \in {"running", "completed", "failed", "timeout"}

PhaseFits ==
    /\ (phase # "returned") <=> (status = "running")
    /\ phase = "tool" => wanted # <<>>
    /\ phase \notin {"tool", "returned"} => wanted = <<>>
    /\ phase \in {"synthesizing", "finishing"} \/ status = "completed" => summary # "none"

\* The reply that asked at place i, by its number, and what it asked for.
ByModel == {i \in DOMAIN said : said[i].by = "model"}
ByTool == {i \in DOMAIN said : said[i].by = "tool"}
RoundOf(i) == said[i].calls[1].id[1]

CallsNamed ==
    \A i \in ByModel :
        /\ Len(said[i].calls) > 0 /\ RoundOf(i) \in 1..iteration
        /\ \A j \in 1..Len(said[i].calls) : said[i].calls[j].id = <<RoundOf(i), j>>
RoundsDiffer == \A i, k \in ByModel : RoundOf(i) = RoundOf(k) => i = k

ToolsAnswer ==
    \A p \in ByTool : \E i \in ByModel : \E j \in 1..Len(said[i].calls) :
        p = i + j /\ said[p].call = <<RoundOf(i), j>>

HasAnswer(i, j) == i + j \in ByTool /\ said[i + j].call = <<RoundOf(i), j>>
AllAnswered ==
    phase \in {"asking", "tool"} =>
        \A i \in ByModel : \A j \in 1..Len(said[i].calls) :
            HasAnswer(i, j) \/ (phase = "tool" /\ RoundOf(i) = iteration /\ i + j > Len(said))

TailWanted ==
    phase = "tool" =>
        \E i \in ByModel :
            /\ RoundOf(i) = iteration
            /\ Len(wanted) = i + Len(said[i].calls) - Len(said)
            /\ \A m \in 1..Len(wanted) : wanted[m] = said[i].calls[Len(said) - i + m]

ExecutionInv ==
    /\ ExecutionTyped /\ PhaseFits /\ CallsNamed /\ RoundsDiffer
    /\ ToolsAnswer /\ AllAnswered /\ TailWanted

LEMMA MessageOf ==
    ASSUME NEW m \in Messages
    PROVE  /\ m.by \in {"user", "model", "tool"}
           /\ m.by = "model" => m.calls \in Seq(CallRecords)
           /\ m.by = "tool" => m.call \in Nat \X Nat
  BY DEF Messages

LEMMA ModelsCalls ==
    ASSUME ExecutionTyped, NEW i \in ByModel
    PROVE  /\ i \in Nat /\ i >= 1 /\ i <= Len(said)
           /\ said[i].calls \in Seq(CallRecords)
           /\ Len(said) \in Nat /\ Len(said[i].calls) \in Nat
<1>1. i \in DOMAIN said /\ said[i] \in Messages /\ said[i].by = "model"
  BY DEF ExecutionTyped, ByModel
<1>2. said[i].calls \in Seq(CallRecords)
  BY <1>1, MessageOf, Zenon
<1> QED
  BY <1>1, <1>2 DEF ExecutionTyped

LEMMA ExecutionInvImplies == ExecutionInv => ExecutionTypeOK /\ CallsAnswered
<1> SUFFICES ASSUME ExecutionInv PROVE ExecutionTypeOK /\ CallsAnswered
  OBVIOUS
<1>1. ExecutionTypeOK
  BY DEF ExecutionInv, ExecutionTyped, PhaseFits, ExecutionTypeOK
<1>2. CallsAnswered
  <2> SUFFICES ASSUME phase = "asking", NEW i \in DOMAIN said, said[i].by = "model",
                      NEW j \in DOMAIN said[i].calls
               PROVE  AnswersTo(said[i].calls[j]) = {i + j}
    BY DEF CallsAnswered
  <2>1. i \in ByModel
    BY DEF ByModel
  <2>2. j \in 1..Len(said[i].calls)
    BY <2>1, ModelsCalls DEF ExecutionInv
  <2>3. said[i].calls[j].id = <<RoundOf(i), j>>
    BY <2>1, <2>2 DEF ExecutionInv, CallsNamed
  <2>4. i + j \in DOMAIN said /\ said[i + j].by = "tool" /\ said[i + j].call = <<RoundOf(i), j>>
    BY <2>1, <2>2 DEF ExecutionInv, AllAnswered, HasAnswer, ByTool
  <2>5. ASSUME NEW p \in DOMAIN said, said[p].by = "tool", said[p].call = <<RoundOf(i), j>>
        PROVE  p = i + j
    <3>0. PICK k \in ByModel : \E l \in 1..Len(said[k].calls) :
               p = k + l /\ said[p].call = <<RoundOf(k), l>>
      BY <2>5 DEF ExecutionInv, ToolsAnswer, ByTool
    <3>1. PICK l \in 1..Len(said[k].calls) : p = k + l /\ said[p].call = <<RoundOf(k), l>>
      BY <3>0
    <3>2. RoundOf(k) = RoundOf(i) /\ l = j
      BY <2>5, <3>1
    <3>3. k = i
      BY <2>1, <3>2 DEF ExecutionInv, RoundsDiffer
    <3> QED
      BY <3>1, <3>2, <3>3
  <2> QED
    BY <2>3, <2>4, <2>5 DEF AnswersTo
<1> QED
  BY <1>1, <1>2

LEMMA ExecutionInvInit == ExecutionInit => ExecutionInv
<1> SUFFICES ASSUME ExecutionInit PROVE ExecutionInv
  OBVIOUS
<1>1. DOMAIN said = {} /\ phase = "register"
  BY DEF ExecutionInit
<1>2. ExecutionTyped
  BY IterationsAssumption DEF ExecutionInit, ExecutionTyped
<1>3. PhaseFits
  BY DEF ExecutionInit, PhaseFits
<1>4. ByModel = {} /\ ByTool = {}
  BY <1>1 DEF ByModel, ByTool
<1> QED
  BY <1>1, <1>2, <1>3, <1>4
  DEF ExecutionInv, CallsNamed, RoundsDiffer, ToolsAnswer, AllAnswered, TailWanted

\* A step that leaves the conversation alone and does not go to the model or a tool.
LEMMA TalkUnchanged ==
    ASSUME ExecutionInv, UNCHANGED <<said, wanted, iteration>>,
           phase' \notin {"asking", "tool"} \/ UNCHANGED phase
    PROVE  (CallsNamed /\ RoundsDiffer /\ ToolsAnswer /\ AllAnswered /\ TailWanted)'
<1>1. ByModel' = ByModel /\ ByTool' = ByTool /\ (\A i : RoundOf(i)' = RoundOf(i))
  BY DEF ByModel, ByTool, RoundOf
<1>2. (CallsNamed /\ RoundsDiffer /\ ToolsAnswer)'
  BY <1>1 DEF ExecutionInv, CallsNamed, RoundsDiffer, ToolsAnswer, ByModel, ByTool, RoundOf
<1>3. AllAnswered' /\ TailWanted'
  <2>1. CASE phase' \notin {"asking", "tool"}
    BY <2>1 DEF AllAnswered, TailWanted
  <2>2. CASE UNCHANGED phase
    BY <2>2 DEF ExecutionInv, AllAnswered, TailWanted, HasAnswer, ByModel, ByTool, RoundOf
  <2> QED
    BY <2>1, <2>2
<1> QED
  BY <1>2, <1>3

LEMMA AddsKnowledgeKeeps == ASSUME ExecutionInv, AddsKnowledge PROVE ExecutionInv'
<1>1. /\ said' = <<[by |-> "user"]>> /\ phase' = "asking" /\ phase = "knowledge"
      /\ wanted' = wanted /\ iteration' = iteration
  BY DEF AddsKnowledge
<1>2. ExecutionTyped'
  <2>1. [by |-> "user"] \in Messages
    BY DEF Messages
  <2>2. said' \in Seq(Messages)
    BY <1>1, <2>1
  <2> QED
    BY <2>2 DEF ExecutionInv, ExecutionTyped, AddsKnowledge
<1>3. PhaseFits'
  BY DEF ExecutionInv, PhaseFits, AddsKnowledge
<1>4. ByModel' = {} /\ ByTool' = {}
  BY <1>1 DEF ByModel, ByTool
<1> QED
  BY <1>1, <1>2, <1>3, <1>4
  DEF ExecutionInv, CallsNamed, RoundsDiffer, ToolsAnswer, AllAnswered, TailWanted

LEMMA NamedCalls ==
    ASSUME ExecutionTyped, NEW c \in Calls \ {<<>>}
    PROVE  /\ Named(c) \in Seq(CallRecords) /\ Len(Named(c)) \in Nat /\ Len(Named(c)) > 0
           /\ \A j \in 1..Len(Named(c)) : Named(c)[j].id = <<iteration + 1, j>>
<1>1. PICK n \in 0..MaxCalls : c \in [1..n -> Tools]
  BY DEF Calls
<1>2. n \in Nat /\ iteration + 1 \in Nat
  BY IterationsAssumption DEF ExecutionTyped
<1>3. n # 0
  <2>1. ASSUME n = 0 PROVE c = <<>>
    BY <1>1, <2>1
  <2> QED
    BY <2>1
<1>4. \A j \in 1..n : [id |-> <<iteration + 1, j>>, tool |-> c[j]] \in CallRecords
  BY <1>1, <1>2 DEF CallRecords
<1>5. Named(c) = [j \in 1..n |-> [id |-> <<iteration + 1, j>>, tool |-> c[j]]]
  BY <1>1 DEF Named
<1>6. Named(c) \in [1..n -> CallRecords]
  BY <1>4, <1>5
<1>7. Named(c) \in Seq(CallRecords) /\ Len(Named(c)) = n
  BY <1>2, <1>6
<1> QED
  BY <1>2, <1>3, <1>5, <1>7

\* A message more at the end.
LEMMA OneMore ==
    ASSUME ExecutionTyped, NEW m \in Messages, said' = Append(said, m)
    PROVE  /\ said' \in Seq(Messages) /\ Len(said') = Len(said) + 1 /\ Len(said) \in Nat
           /\ said'[Len(said) + 1] = m
           /\ \A p \in DOMAIN said : p \in DOMAIN said' /\ said'[p] = said[p] /\ p <= Len(said)
           /\ \A p \in DOMAIN said' : p \in DOMAIN said \/ p = Len(said) + 1
           /\ Len(said) + 1 \in DOMAIN said' /\ Len(said) + 1 \notin DOMAIN said
  BY DEF ExecutionTyped

LEMMA RoundsKept ==
    ASSUME ExecutionTyped, NEW m \in Messages, said' = Append(said, m)
    PROVE  /\ \A i \in ByModel : i \in ByModel' /\ said'[i] = said[i] /\ RoundOf(i)' = RoundOf(i)
           /\ \A i \in ByTool : i \in ByTool' /\ said'[i] = said[i]
           /\ \A i \in ByModel' : i \in ByModel \/ (i = Len(said) + 1 /\ m.by = "model")
           /\ \A i \in ByTool' : i \in ByTool \/ (i = Len(said) + 1 /\ m.by = "tool")
           /\ m.by = "model" => Len(said) + 1 \in ByModel'
           /\ m.by = "tool" => Len(said) + 1 \in ByTool'
<1> USE OneMore
<1>1. \A i \in ByModel : i \in ByModel' /\ said'[i] = said[i] /\ RoundOf(i)' = RoundOf(i)
  BY DEF ByModel, RoundOf
<1>2. \A i \in ByTool : i \in ByTool' /\ said'[i] = said[i]
  BY DEF ByTool
<1>3. \A i \in ByModel' : i \in ByModel \/ (i = Len(said) + 1 /\ m.by = "model")
  BY DEF ByModel
<1>4. \A i \in ByTool' : i \in ByTool \/ (i = Len(said) + 1 /\ m.by = "tool")
  BY DEF ByTool
<1>5. m.by = "model" => Len(said) + 1 \in ByModel'
  BY DEF ByModel
<1>6. m.by = "tool" => Len(said) + 1 \in ByTool'
  BY DEF ByTool
<1> QED
  BY <1>1, <1>2, <1>3, <1>4, <1>5, <1>6

LEMMA AsksForToolsKeeps == ASSUME ExecutionInv, AsksForTools PROVE ExecutionInv'
<1>1. PICK c \in Calls \ {<<>>} :
          wanted' = Named(c) /\ said' = Append(said, [by |-> "model", calls |-> Named(c)])
  BY DEF AsksForTools
<1> DEFINE new == Named(c)
           m == [by |-> "model", calls |-> new]
<1>0. PICK last : last = Len(said) + 1
  OBVIOUS
<1>2. /\ phase = "asking" /\ phase' = "tool" /\ iteration < MaxToolIterations
      /\ iteration' = iteration + 1 /\ wanted' = new /\ said' = Append(said, m)
  BY <1>1 DEF AsksForTools
<1>3. /\ new \in Seq(CallRecords) /\ Len(new) \in Nat /\ Len(new) > 0
      /\ \A j \in 1..Len(new) : new[j].id = <<iteration + 1, j>>
  BY NamedCalls DEF ExecutionInv
<1> HIDE DEF new
<1>4. m \in Messages /\ m.by = "model" /\ m.calls = new
  BY <1>3 DEF Messages
<1> HIDE DEF m
<1>5. iteration \in Nat /\ iteration' \in 0..MaxToolIterations /\ iteration' \in Nat
  BY <1>2, IterationsAssumption DEF ExecutionInv, ExecutionTyped
<1>6. /\ said' \in Seq(Messages) /\ Len(said') = last /\ Len(said) \in Nat /\ said'[last] = m
  BY <1>0, <1>2, <1>4, OneMore DEF ExecutionInv
<1>7. ExecutionTyped'
  <2>1. bar' \in 0..100
    BY <1>5 DEF AsksForTools, ToolBar
  <2> QED
    BY <1>2, <1>3, <1>5, <1>6, <2>1 DEF ExecutionInv, ExecutionTyped, AsksForTools
<1>8. PhaseFits'
  BY <1>2, <1>3 DEF ExecutionInv, PhaseFits, AsksForTools
<1>9. /\ \A i \in ByModel : i \in ByModel' /\ said'[i] = said[i] /\ RoundOf(i)' = RoundOf(i)
      /\ \A i \in ByTool : i \in ByTool' /\ said'[i] = said[i]
      /\ \A i \in ByModel' : i \in ByModel \/ i = last
      /\ \A i \in ByTool' : i \in ByTool
      /\ last \in ByModel'
  BY <1>0, <1>2, <1>4, RoundsKept DEF ExecutionInv
<1>10. RoundOf(last)' = iteration + 1 /\ said'[last].calls = new
  BY <1>3, <1>4, <1>6 DEF RoundOf
<1>11. CallsNamed'
  <2> SUFFICES ASSUME NEW i \in ByModel'
               PROVE  /\ Len(said'[i].calls) > 0 /\ RoundOf(i)' \in 1..iteration'
                      /\ \A j \in 1..Len(said'[i].calls) : said'[i].calls[j].id = <<RoundOf(i)', j>>
    BY DEF CallsNamed
  <2>1. CASE i \in ByModel
    <3>1. /\ Len(said[i].calls) > 0 /\ RoundOf(i) \in 1..iteration
          /\ \A j \in 1..Len(said[i].calls) : said[i].calls[j].id = <<RoundOf(i), j>>
      BY <2>1 DEF ExecutionInv, CallsNamed
    <3>2. RoundOf(i)' \in 1..iteration'
      BY <1>2, <1>5, <1>9, <2>1, <3>1
    <3> QED
      BY <1>9, <2>1, <3>1, <3>2
  <2>2. CASE i = last
    <3>1. RoundOf(i)' = iteration' /\ iteration' \in 1..iteration'
      BY <1>2, <1>5, <1>10, <2>2
    <3> QED
      BY <1>2, <1>3, <1>10, <2>2, <3>1
  <2> QED
    BY <1>9, <2>1, <2>2
<1>12. RoundsDiffer'
  <2> SUFFICES ASSUME NEW i \in ByModel', NEW k \in ByModel', RoundOf(i)' = RoundOf(k)'
               PROVE  i = k
    BY DEF RoundsDiffer
  <2>1. ASSUME NEW n \in ByModel PROVE RoundOf(n)' # iteration + 1
    BY <1>5, <1>9 DEF ExecutionInv, CallsNamed
  <2>2. CASE i \in ByModel /\ k \in ByModel
    BY <1>9, <2>2 DEF ExecutionInv, RoundsDiffer
  <2> QED
    BY <1>9, <1>10, <2>1, <2>2
<1>13. ToolsAnswer'
  <2> SUFFICES ASSUME NEW p \in ByTool'
               PROVE  \E i \in ByModel' : \E j \in 1..Len(said'[i].calls) :
                          p = i + j /\ said'[p].call = <<RoundOf(i)', j>>
    BY DEF ToolsAnswer
  <2>1. p \in ByTool /\ said'[p] = said[p]
    BY <1>9
  <2>2. PICK i \in ByModel : \E j \in 1..Len(said[i].calls) :
             p = i + j /\ said[p].call = <<RoundOf(i), j>>
    BY <2>1 DEF ExecutionInv, ToolsAnswer
  <2> QED
    BY <1>9, <2>1, <2>2
<1>14. AllAnswered'
  <2> SUFFICES ASSUME NEW i \in ByModel', NEW j \in 1..Len(said'[i].calls)
               PROVE  HasAnswer(i, j)' \/ (RoundOf(i)' = iteration' /\ i + j > Len(said'))
    BY <1>2 DEF AllAnswered
  <2>1. CASE i \in ByModel
    <3>1. said'[i] = said[i] /\ RoundOf(i)' = RoundOf(i)
      BY <1>9, <2>1
    <3>2. HasAnswer(i, j)
      BY <1>2, <2>1, <3>1 DEF ExecutionInv, AllAnswered
    <3> QED
      BY <1>9, <2>1, <3>1, <3>2 DEF HasAnswer
  <2>2. CASE i = last
    BY <1>2, <1>3, <1>6, <1>10, <2>2
  <2> QED
    BY <1>9, <2>1, <2>2
<1>15. TailWanted'
  <2>1. Len(wanted') = last + Len(said'[last].calls) - Len(said')
    BY <1>2, <1>3, <1>6, <1>10
  <2>2. \A k \in 1..Len(wanted') : wanted'[k] = said'[last].calls[Len(said') - last + k]
    BY <1>2, <1>3, <1>6, <1>10
  <2> QED
    BY <1>2, <1>9, <1>10, <2>1, <2>2 DEF TailWanted
<1> QED
  BY <1>7, <1>8, <1>11, <1>12, <1>13, <1>14, <1>15 DEF ExecutionInv

LEMMA RunsToolKeeps == ASSUME ExecutionInv, RunsTool PROVE ExecutionInv'
<1>1. PICK result \in {"value", "error"} : said' = said \o ToolMessages(Head(wanted), result)
  BY DEF RunsTool, ResultsOf
<1> DEFINE m == [by |-> "tool", call |-> Head(wanted).id, result |-> result]
<1>0. PICK last : last = Len(said) + 1
  OBVIOUS
<1>2. /\ phase = "tool" /\ wanted \in Seq(CallRecords) /\ wanted # <<>>
      /\ said \in Seq(Messages) /\ iteration' = iteration
      /\ wanted' = Tail(wanted) /\ phase' = IF wanted' = <<>> THEN "asking" ELSE "tool"
  BY DEF RunsTool, ExecutionInv, ExecutionTyped, PhaseFits
<1>3. /\ Head(wanted) = wanted[1] /\ wanted[1] \in CallRecords
      /\ Len(wanted) \in Nat /\ Len(wanted) >= 1
  BY <1>2
<1>4. m \in Messages /\ m.by = "tool" /\ m.call = wanted[1].id
  <2>1. Head(wanted).id \in Nat \X Nat
    BY <1>3 DEF CallRecords
  <2>2. m \in Messages
    BY <1>1, <2>1 DEF Messages
  <2> QED
    BY <1>3, <2>2
<1>5. said' = Append(said, m)
  <2>1. said' = said \o <<m>>
    BY <1>1 DEF ToolMessages
  <2> HIDE DEF m
  <2> QED
    BY <1>2, <1>4, <2>1
<1> HIDE DEF m
<1>6. /\ said' \in Seq(Messages) /\ Len(said') = last /\ Len(said) \in Nat /\ said'[last] = m
      /\ last = Len(said) + 1
  BY <1>0, <1>4, <1>5, OneMore DEF ExecutionInv
<1>7. /\ wanted' \in Seq(CallRecords) /\ Len(wanted') = Len(wanted) - 1
      /\ \A k \in 1..Len(wanted') : wanted'[k] = wanted[k + 1]
      /\ Len(wanted') # 0 => wanted' # <<>>
  <2>1. wanted' \in Seq(CallRecords) /\ Len(wanted') = Len(wanted) - 1
    BY <1>2, <1>3
  <2>2. \A k \in 1..Len(wanted') : wanted'[k] = wanted[k + 1]
    BY <1>2, <1>3, <2>1
  <2>3. Len(wanted') # 0 => wanted' # <<>>
    OBVIOUS
  <2> QED
    BY <2>1, <2>2, <2>3
<1>8. ExecutionTyped'
  BY <1>2, <1>6, <1>7 DEF ExecutionInv, ExecutionTyped, RunsTool
<1>9. PhaseFits'
  BY <1>2 DEF ExecutionInv, PhaseFits, RunsTool
<1>10. /\ \A i \in ByModel : i \in ByModel' /\ said'[i] = said[i] /\ RoundOf(i)' = RoundOf(i)
       /\ \A i \in ByTool : i \in ByTool' /\ said'[i] = said[i]
       /\ \A i \in ByModel' : i \in ByModel
       /\ \A i \in ByTool' : i \in ByTool \/ i = last
       /\ last \in ByTool'
  BY <1>0, <1>4, <1>5, RoundsKept DEF ExecutionInv
\* The message whose tools run.
<1>11. PICK i0 \in ByModel :
          /\ RoundOf(i0) = iteration
          /\ Len(wanted) = i0 + Len(said[i0].calls) - Len(said)
          /\ \A k \in 1..Len(wanted) : wanted[k] = said[i0].calls[Len(said) - i0 + k]
  BY <1>2 DEF ExecutionInv, TailWanted
<1>0a. PICK n, place : n = Len(said[i0].calls) /\ place = Len(said) - i0 + 1
  OBVIOUS
<1>12. /\ i0 \in Nat /\ i0 <= Len(said) /\ n \in Nat /\ place \in 1..n
       /\ i0 + place = last /\ wanted[1] = said[i0].calls[place]
       /\ Len(wanted) = n - place + 1
  <2>1. i0 \in Nat /\ i0 <= Len(said) /\ n \in Nat
    BY <1>11, <1>0a, ModelsCalls DEF ExecutionInv
  <2>2. i0 + place = last /\ Len(wanted) = n - place + 1 /\ place \in 1..n
    BY <1>3, <1>6, <1>11, <1>0a, <2>1
  <2>3. 1 \in 1..Len(wanted) /\ Len(said) - i0 + 1 = place
    BY <1>3, <1>0a
  <2>4. wanted[1] = said[i0].calls[place]
    BY <1>11, <2>3
  <2> QED
    BY <2>1, <2>2, <2>4
<1>13. said'[last].call = <<RoundOf(i0), place>>
  BY <1>4, <1>6, <1>11, <1>12, <1>0a DEF ExecutionInv, CallsNamed
<1>14. CallsNamed'
  BY <1>2, <1>10 DEF ExecutionInv, CallsNamed
<1>15. RoundsDiffer'
  BY <1>10 DEF ExecutionInv, RoundsDiffer
<1>16. ToolsAnswer'
  <2> SUFFICES ASSUME NEW p \in ByTool'
               PROVE  \E i \in ByModel' : \E j \in 1..Len(said'[i].calls) :
                          p = i + j /\ said'[p].call = <<RoundOf(i)', j>>
    BY DEF ToolsAnswer
  <2>1. CASE p \in ByTool
    <3>1. PICK i \in ByModel : \E j \in 1..Len(said[i].calls) :
               p = i + j /\ said[p].call = <<RoundOf(i), j>>
      BY <2>1 DEF ExecutionInv, ToolsAnswer
    <3> QED
      BY <1>10, <2>1, <3>1
  <2>2. CASE p = last
    BY <1>10, <1>12, <1>13, <1>0a, <2>2
  <2> QED
    BY <1>10, <2>1, <2>2
<1>17. AllAnswered'
  <2> SUFFICES ASSUME NEW i \in ByModel', NEW j \in 1..Len(said'[i].calls)
               PROVE  \/ HasAnswer(i, j)'
                      \/ phase' = "tool" /\ RoundOf(i)' = iteration' /\ i + j > Len(said')
    BY DEF AllAnswered
  <2>1. i \in ByModel /\ said'[i] = said[i] /\ RoundOf(i)' = RoundOf(i)
    BY <1>10
  <2>2. CASE HasAnswer(i, j)
    BY <1>10, <2>1, <2>2 DEF HasAnswer
  <2>3. CASE RoundOf(i) = iteration /\ i + j > Len(said)
    <3>1. i = i0
      BY <1>11, <2>1, <2>3 DEF ExecutionInv, RoundsDiffer
    <3>2. j \in Nat /\ j <= n
      BY <1>12, <1>0a, <2>1, <3>1
    <3>3. CASE i + j = last
      <4>1. j = place
        BY <1>12, <3>1, <3>2, <3>3
      <4> QED
        BY <1>10, <1>13, <2>1, <3>1, <3>3, <4>1 DEF HasAnswer
    <3>4. CASE i + j # last
      <4>1. i + j > last
        <5>1. i \in Nat /\ j \in Nat /\ Len(said) \in Nat
          BY <1>6, <1>12, <3>1, <3>2
        <5> QED
          BY <1>6, <2>3, <3>4, <5>1
      <4>2. Len(wanted') # 0
        BY <1>7, <1>12, <3>1, <3>2, <4>1
      <4>3. phase' = "tool"
        BY <1>2, <1>7, <4>2
      <4> QED
        BY <1>2, <1>6, <2>1, <2>3, <4>1, <4>3
    <3> QED
      BY <3>3, <3>4
  <2>4. HasAnswer(i, j) \/ (RoundOf(i) = iteration /\ i + j > Len(said))
    BY <1>2, <2>1 DEF ExecutionInv, AllAnswered
  <2> QED
    BY <2>2, <2>3, <2>4
<1>18. TailWanted'
  <2>1. i0 \in ByModel' /\ RoundOf(i0)' = iteration' /\ said'[i0] = said[i0]
    BY <1>2, <1>10, <1>11
  <2>2. Len(wanted') = i0 + Len(said'[i0].calls) - Len(said')
    BY <1>6, <1>7, <1>11, <1>12, <2>1
  <2>3. ASSUME NEW k \in 1..Len(wanted')
        PROVE  wanted'[k] = said'[i0].calls[Len(said') - i0 + k]
    <3>1. k + 1 \in 1..Len(wanted) /\ wanted'[k] = wanted[k + 1]
      BY <1>3, <1>7
    <3>2. Len(said) - i0 + (k + 1) = Len(said') - i0 + k
      BY <1>6, <1>12
    <3> QED
      BY <1>11, <2>1, <3>1, <3>2
  <2> QED
    BY <2>1, <2>2, <2>3 DEF TailWanted
<1> QED
  BY <1>8, <1>9, <1>14, <1>15, <1>16, <1>17, <1>18 DEF ExecutionInv

LEMMA ExecutionInvNext == ExecutionInv /\ [ExecutionNext]_executionVars => ExecutionInv'
<1> SUFFICES ASSUME ExecutionInv, [ExecutionNext]_executionVars PROVE ExecutionInv'
  OBVIOUS
<1>1. CASE AsksForTools
  BY <1>1, AsksForToolsKeeps
<1>2. CASE RunsTool
  BY <1>2, RunsToolKeeps
<1>3. CASE AddsKnowledge
  BY <1>3, AddsKnowledgeKeeps
<1> DEFINE Other == \/ Fails \/ Registers \/ LoadsSkill \/ AddsTeam
                    \/ Concludes \/ Finishes \/ HandsOver \/ RunsOut
                    \/ UNCHANGED executionVars
<1>4. CASE Other
  <2>1. /\ UNCHANGED <<said, wanted, iteration>>
        /\ phase' \notin {"asking", "tool"} \/ UNCHANGED phase
    BY <1>4 DEF Fails, Registers, LoadsSkill, AddsTeam, Concludes, Finishes, HandsOver,
                RunsOut, conversationVars, executionVars
  <2>2. ExecutionTyped'
    <3>1. /\ said' \in Seq(Messages) /\ wanted' \in Seq(CallRecords)
          /\ iteration' \in 0..MaxToolIterations
      BY <2>1 DEF ExecutionInv, ExecutionTyped
    <3>2. /\ phase' \in {"register", "load", "team", "knowledge", "asking", "tool",
                          "synthesizing", "finishing", "failing", "returned"}
          /\ bar' = bar \/ bar' \in {0, 5, 15, 17, 88, 100}
          /\ summary' \in {"none", "text", "empty", "unfinished"}
          /\ status' \in {"running", "completed", "failed", "timeout"}
      BY <1>4 DEF ExecutionInv, ExecutionTyped, Fails, Registers, LoadsSkill, AddsTeam,
                  Concludes, Finishes, HandsOver, RunsOut, executionVars
    <3>3. bar' \in 0..100
      <4>1. bar \in 0..100
        BY DEF ExecutionInv, ExecutionTyped
      <4>2. CASE bar' = bar
        BY <4>1, <4>2
      <4>3. CASE bar' \in {0, 5, 15, 17, 88, 100}
        BY <4>3, SMT
      <4> QED
        BY <3>2, <4>2, <4>3
    <3> QED
      BY <3>1, <3>2, <3>3 DEF ExecutionTyped
  <2>3. PhaseFits'
    BY <1>4, <2>1 DEF ExecutionInv, ExecutionTyped, PhaseFits, Fails, Registers, LoadsSkill,
                      AddsTeam, Concludes, Finishes, HandsOver, RunsOut, executionVars,
                      conversationVars
  <2> QED
    BY <2>1, <2>2, <2>3, TalkUnchanged DEF ExecutionInv
<1> QED
  BY <1>1, <1>2, <1>3, <1>4 DEF ExecutionNext

\* Phases, iterations and summaries are what the code can make them; tools run exactly
\* while calls wait for their answers.
THEOREM ExecutionTypeCorrect == ExecutionSpec => []ExecutionTypeOK
<1>1. ExecutionInv => ExecutionTypeOK
  BY ExecutionInvImplies
<1> QED
  BY ExecutionInvInit, ExecutionInvNext, <1>1, PTL DEF ExecutionSpec

\* Whenever the model is called, every call it made has one answer, in order, for any
\* tools, number of calls in a reply and number of iterations (tool_executor.py).
THEOREM EveryCallAnswered == ExecutionSpec => []CallsAnswered
<1>1. ExecutionInv => CallsAnswered
  BY ExecutionInvImplies
<1> QED
  BY ExecutionInvInit, ExecutionInvNext, <1>1, PTL DEF ExecutionSpec

-----------------------------------------------------------------------------
(* The combined run.  Whatever part runs, the others stutter, so every     *)
(* behaviour of the run is one of each module's specification.             *)

AllVars == <<part, schedulerVars, storeVars, memoryVars, retrievalVars, riskVars, insightVars,
             snapshotVars, indicatorVars, syncVars, coevoGraphVars, answerVars, executionVars>>

LEMMA PartsStep ==
    ASSUME [OperationsNext]_AllVars
    PROVE  /\ [SchedulerNext]_schedulerVars /\ [StoreNext]_storeVars
           /\ [MemoryNext]_memoryVars /\ [RetrievalNext]_retrievalVars
           /\ [RiskNext]_riskVars /\ [InsightsNext]_insightVars
           /\ [SnapshotNext]_snapshotVars /\ [IndicatorsNext]_indicatorVars
           /\ [StudentSyncNext]_syncVars /\ [CoevoGraphNext]_coevoGraphVars
           /\ [AnswersNext]_answerVars /\ [ExecutionNext]_executionVars
<1>1. CASE OperationsNext
  <2>1. ASSUME NEW p, Rest(p)
        PROVE  /\ p # "scheduler" => UNCHANGED schedulerVars
               /\ p # "graph" => UNCHANGED storeVars
               /\ p # "session" => UNCHANGED memoryVars
               /\ p # "retrieval" => UNCHANGED retrievalVars
               /\ p # "risk" => UNCHANGED riskVars
               /\ p # "insights" => UNCHANGED insightVars
               /\ p # "snapshot" => UNCHANGED snapshotVars
               /\ p # "indicators" => UNCHANGED indicatorVars
               /\ p # "students" => UNCHANGED syncVars
               /\ p # "coevo" => UNCHANGED coevoGraphVars
               /\ p # "agent" => UNCHANGED answerVars
               /\ p # "execution" => UNCHANGED executionVars
    BY <2>1, Zenon DEF Rest
  <2> QED
    BY <1>1, <2>1, Zenon DEF OperationsNext
<1>2. CASE UNCHANGED AllVars
  BY <1>2, Zenon DEF AllVars
<1> QED
  BY <1>1, <1>2, Zenon

\* The combined run does what each of the modules allows, and nothing else.
THEOREM OperationsImplements ==
    OperationsSpec =>
        /\ SchedulerSpec /\ StoreSpec /\ MemorySpec /\ RetrievalSpec /\ RiskSpec /\ InsightsSpec
        /\ SnapshotSpec /\ IndicatorsSpec /\ StudentSyncSpec /\ CoevoGraphSpec /\ AnswersSpec
        /\ ExecutionSpec
<1>1. OperationsInit =>
          /\ SchedulerInit /\ StoreInit /\ MemoryInit /\ RetrievalInit /\ RiskInit /\ InsightsInit
          /\ SnapshotInit /\ IndicatorsInit /\ StudentSyncInit /\ CoevoGraphInit /\ AnswersInit
          /\ ExecutionInit
  BY Zenon DEF OperationsInit
<1>2. OperationsSpec => OperationsInit /\ [][OperationsNext]_AllVars
  BY DEF OperationsSpec, AllVars
<1> QED
  BY <1>1, <1>2, PartsStep, PTL
  DEF SchedulerSpec, StoreSpec, MemorySpec, RetrievalSpec, RiskSpec, InsightsSpec, SnapshotSpec,
      IndicatorsSpec, StudentSyncSpec, CoevoGraphSpec, AnswersSpec, ExecutionSpec

\* The variables of every part keep their types.
THEOREM OperationsTypeCorrect == OperationsSpec => []OperationsTypesOK
<1>1. /\ SchedulerTypeOK /\ StoreTypeOK /\ MemoryTypeOK /\ RetrievalTypeOK /\ RiskTypeOK
      /\ InsightsTypeOK /\ SnapshotTypeOK /\ IndicatorsTypeOK /\ StudentSyncTypeOK
      /\ CoevoGraphTypeOK /\ AnswersTypeOK /\ ExecutionTypeOK
      => OperationsTypesOK
  BY Zenon DEF OperationsTypesOK
<1> QED
  BY <1>1, OperationsImplements, SchedulerTypeCorrect, StoreTypeCorrect, MemoryTypeCorrect,
     RetrievalTypeCorrect, RiskTypeCorrect, InsightsTypeCorrect, SnapshotTypeCorrect,
     IndicatorsTypeCorrect, StudentTypeCorrect, CoevoGraphTypeCorrect, AnswersTypeCorrect,
     ExecutionTypeCorrect, PTL

=============================================================================
