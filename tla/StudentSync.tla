----------------------------- MODULE StudentSync -----------------------------
(***************************************************************************)
(* sync_students: the students of the CoEvo platform become rows of        *)
(* claw_students, tied to their user by claw_coevo_student_links.  Every   *)
(* request starts a run of its own, so runs overlap.  A run reads the      *)
(* users, looks for their links, and commits all its rows at once; a link  *)
(* is unique per user.                                                     *)
(***************************************************************************)
EXTENDS Naturals, Sequences, FiniteSets

CONSTANTS
    CoevoUsers,  \* users of the platform
    SyncRuns,    \* requests for a synchronisation
    MaxStudents  \* bound on rows of claw_students

ASSUME StudentsAssumption == IsFiniteSet(CoevoUsers) /\ MaxStudents \in Nat

VARIABLES
    enrolled,  \* active users of CoEvo whose role is student
    students,  \* claw_students: the user each row was made for, by id
    linked,    \* claw_coevo_student_links: the row of each user, 0 if none
    syncing,   \* how far each run is
    seen,      \* the users it read
    missing,   \* those it found no link of
    log        \* its row of claw_coevo_sync_logs

syncVars == <<enrolled, students, linked, syncing, seen, missing, log>>

NoLog == [status |-> "none", created |-> 0]
Logs == [status : {"none", "running", "completed", "failed"},
         created : 0..Cardinality(CoevoUsers)]

StudentSyncTypeOK ==
    /\ enrolled \subseteq CoevoUsers
    /\ students \in Seq(CoevoUsers) /\ Len(students) <= MaxStudents
    /\ linked \in [CoevoUsers -> 0..MaxStudents]
    /\ syncing \in [SyncRuns ->
          {"new", "logged", "read", "looked", "written", "rolledback", "ended"}]
    /\ seen \in [SyncRuns -> SUBSET CoevoUsers]
    /\ missing \in [SyncRuns -> SUBSET CoevoUsers]
    /\ log \in [SyncRuns -> Logs]

StudentSyncInit ==
    /\ enrolled \in SUBSET CoevoUsers
    /\ students = <<>>
    /\ linked = [u \in CoevoUsers |-> 0]
    /\ syncing = [r \in SyncRuns |-> "new"]
    /\ seen = [r \in SyncRuns |-> {}]
    /\ missing = [r \in SyncRuns |-> {}]
    /\ log = [r \in SyncRuns |-> NoLog]

\* People join and leave on the platform.
Enrol(u) ==
    /\ enrolled' = IF u \in enrolled THEN enrolled \ {u} ELSE enrolled \cup {u}
    /\ UNCHANGED <<students, linked, syncing, seen, missing, log>>

OpenLog(r) ==
    /\ syncing[r] = "new"
    /\ syncing' = [syncing EXCEPT ![r] = "logged"]
    /\ log' = [log EXCEPT ![r] = [status |-> "running", created |-> 0]]
    /\ UNCHANGED <<enrolled, students, linked, seen, missing>>

ReadUsers(r) ==
    /\ syncing[r] = "logged"
    /\ syncing' = [syncing EXCEPT ![r] = "read"]
    /\ seen' = [seen EXCEPT ![r] = enrolled]
    /\ UNCHANGED <<enrolled, students, linked, missing, log>>

\* The first SELECT fixes what the transaction sees of the links.
LookForLinks(r) ==
    /\ syncing[r] = "read"
    /\ syncing' = [syncing EXCEPT ![r] = "looked"]
    /\ missing' = [missing EXCEPT ![r] = {u \in seen[r] : linked[u] = 0}]
    /\ UNCHANGED <<enrolled, students, linked, seen, log>>

UniqueNot(S) == TRUE \* mutant: coevo_user_id is not unique
Unique(S) == \A u \in S : linked[u] = 0

\* One row and one link for each; which of them comes first does not matter.
WriteStudents(r) ==
    /\ syncing[r] = "looked" /\ Unique(missing[r])
    /\ Len(students) + Cardinality(missing[r]) <= MaxStudents
    /\ \E order \in [1..Cardinality(missing[r]) -> missing[r]] :
        /\ \A u \in missing[r] : \E n \in DOMAIN order : order[n] = u
        /\ students' = students \o order
        /\ linked' = [u \in CoevoUsers |->
                        IF u \in missing[r]
                        THEN Len(students) + CHOOSE n \in DOMAIN order : order[n] = u
                        ELSE linked[u]]
    /\ syncing' = [syncing EXCEPT ![r] = "written"]
    /\ UNCHANGED <<enrolled, seen, missing, log>>

\* A link another run stored meanwhile, or any error of either database: the
\* whole transaction is rolled back.
SyncFails(r) ==
    /\ syncing[r] \in {"logged", "read", "looked"}
    /\ syncing' = [syncing EXCEPT ![r] = "rolledback"]
    /\ UNCHANGED <<enrolled, students, linked, seen, missing, log>>

Claimed(r) == Cardinality(missing[r])

\* The counters of a run that failed keep what it had counted before.
CloseLog(r) ==
    /\ syncing[r] \in {"written", "rolledback"}
    /\ syncing' = [syncing EXCEPT ![r] = "ended"]
    /\ \E n \in 0..Claimed(r) :
        /\ syncing[r] = "written" => n = Claimed(r)
        /\ log' = [log EXCEPT ![r] = [status |-> IF syncing[r] = "written"
                                                THEN "completed" ELSE "failed",
                                      created |-> n]]
    /\ UNCHANGED <<enrolled, students, linked, seen, missing>>

\* The gateway ends: the row of the log stays as it is.
SyncDies(r) ==
    /\ syncing[r] \in {"logged", "read", "looked", "written", "rolledback"}
    /\ syncing' = [syncing EXCEPT ![r] = "ended"]
    /\ UNCHANGED <<enrolled, students, linked, seen, missing, log>>

StudentSyncNext ==
    \/ \E u \in CoevoUsers : Enrol(u)
    \/ \E r \in SyncRuns :
        \/ OpenLog(r) \/ ReadUsers(r) \/ LookForLinks(r) \/ WriteStudents(r)
        \/ SyncFails(r) \/ CloseLog(r) \/ SyncDies(r)

StudentSyncSpec == StudentSyncInit /\ [][StudentSyncNext]_syncVars

-----------------------------------------------------------------------------
(* Properties. *)

\* However runs overlap, fail or die, every user has at most one student row,
\* and every row belongs to the user whose link names it.
OneStudentPerUser ==
    \A n \in DOMAIN students : linked[students[n]] = n
=============================================================================
