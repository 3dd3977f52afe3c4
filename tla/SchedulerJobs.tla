---------------------------- MODULE SchedulerJobs ----------------------------
(***************************************************************************)
(* The scheduler process: its jobs with their triggers, agents.yaml from   *)
(* which it builds them and into which a changed trigger is written, pause *)
(* and resume, runs that come due and runs by hand.  The process may end   *)
(* at any point, also between the truncation of agents.yaml and the        *)
(* writing of its new content, and is then started again.  What a run does *)
(* is in the modules of the components it calls.                           *)
(***************************************************************************)
EXTENDS Naturals, Sequences, FiniteSets

CONSTANTS
    Jobs,       \* the jobs of agents.yaml
    Internals,  \* the jobs that build_scheduler adds: checks and the maintainer
    Lambdas,    \* jobs whose function is a lambda that returns a coroutine
    Crons,
    BuiltIn,    \* the triggers of the internal jobs
    Truncated,  \* agents.yaml is empty
    MaxChanges, \* bound on changes of triggers
    MaxEnds     \* bound on ends of the process and on failing writes

AllJobs == Jobs \cup Internals
Files == [Jobs -> Crons]

ASSUME SchedulerAssumption ==
    /\ Jobs \cap Internals = {} /\ Lambdas \subseteq AllJobs
    /\ BuiltIn \notin Crons /\ Truncated \notin Files
    /\ MaxChanges \in Nat /\ MaxEnds \in Nat

VARIABLES
    yaml,     \* the triggers in agents.yaml
    daemon,   \* whether the scheduler runs
    trigger,  \* the triggers of its jobs
    paused,
    writing,  \* <<job, cron>> while a change is written, else <<>>
    buffer,   \* what it read before it truncated the file
    running,  \* jobs that run because they came due: one instance each
    byHand,   \* jobs that run because of POST /trigger
    accepted, \* history: the triggers in the answers that said "updated", else the first
    failed,   \* history: jobs with a trigger that could not be written
    changes, ends

fileVars == <<yaml, writing, buffer>>
runVars == <<running, byHand>>
schedulerVars == <<fileVars, daemon, trigger, paused, runVars, accepted, failed, changes, ends>>

SchedulerTypeOK ==
    /\ yaml \in Files \cup {Truncated} /\ buffer \in Files \cup {Truncated}
    /\ daemon \in BOOLEAN
    /\ trigger \in [AllJobs -> Crons \cup {BuiltIn}]
    /\ paused \subseteq AllJobs
    /\ writing \in {<<>>} \cup (AllJobs \X Crons)
    /\ running \subseteq AllJobs \ Lambdas /\ byHand \subseteq AllJobs
    /\ accepted \in Files
    /\ failed \subseteq Jobs
    /\ changes \in 0..MaxChanges /\ ends \in 0..MaxEnds

SchedulerInit ==
    /\ yaml \in Files
    /\ daemon = FALSE
    /\ trigger = [j \in AllJobs |-> BuiltIn]
    /\ paused = {} /\ writing = <<>> /\ buffer = Truncated
    /\ running = {} /\ byHand = {}
    /\ accepted = yaml
    /\ failed = {}
    /\ changes = 0 /\ ends = 0

-----------------------------------------------------------------------------

\* build_scheduler; an empty agents.yaml makes it fail, and the process ends again.
StartDaemon ==
    /\ ~daemon /\ yaml # Truncated
    /\ daemon' = TRUE
    /\ trigger' = [j \in AllJobs |-> IF j \in Jobs THEN yaml[j] ELSE BuiltIn]
    /\ paused' = {} /\ failed' = {}
    /\ UNCHANGED <<fileVars, runVars, accepted, changes, ends>>

\* The process serves a request, or starts a run: update_job_cron has no await.
Serves == daemon /\ writing = <<>>

\* update_job_cron, PUT /jobs/{id}: the job is rescheduled, which also resumes it.
Reschedule(j, c) ==
    /\ Serves
    /\ changes < MaxChanges /\ changes' = changes + 1
    /\ trigger' = [trigger EXCEPT ![j] = c]
    /\ paused' = paused \ {j}
    /\ IF yaml = Truncated
       THEN failed' = failed \cup ({j} \cap Jobs) /\ UNCHANGED writing
       ELSE writing' = <<j, c>> /\ UNCHANGED failed
    /\ UNCHANGED <<yaml, buffer, daemon, runVars, accepted, ends>>

\* _persist_cron_update: open(config_path, "w")
OpenFile ==
    /\ writing # <<>> /\ yaml # Truncated
    /\ buffer' = yaml
    /\ yaml' = Truncated
    /\ UNCHANGED <<daemon, trigger, paused, writing, runVars, accepted, failed, changes, ends>>

DumpedUnchanged(j, c) == buffer \* mutant: the job is not found in the file
\* An internal job is not in the file.
Dumped(j, c) == IF j \in Jobs THEN [buffer EXCEPT ![j] = c] ELSE buffer

\* yaml.dump, and the answer
Dump ==
    /\ writing # <<>> /\ yaml = Truncated
    /\ yaml' = Dumped(writing[1], writing[2])
    /\ accepted' = IF writing[1] \in Jobs
                   THEN [accepted EXCEPT ![writing[1]] = writing[2]] ELSE accepted
    /\ failed' = failed \ {writing[1]}
    /\ writing' = <<>> /\ buffer' = Truncated
    /\ UNCHANGED <<daemon, trigger, paused, runVars, changes, ends>>

\* open or dump raises: the answer is an error, the new trigger stays.
WriteFails ==
    /\ writing # <<>>
    /\ ends < MaxEnds /\ ends' = ends + 1
    /\ failed' = failed \cup ({writing[1]} \cap Jobs)
    /\ writing' = <<>> /\ buffer' = Truncated
    /\ UNCHANGED <<yaml, daemon, trigger, paused, runVars, accepted, changes>>

Pause(j) ==
    /\ Serves
    /\ paused' = paused \cup {j}
    /\ UNCHANGED <<fileVars, daemon, trigger, runVars, accepted, failed, changes, ends>>

Resume(j) ==
    /\ Serves
    /\ paused' = paused \ {j}
    /\ UNCHANGED <<fileVars, daemon, trigger, runVars, accepted, failed, changes, ends>>

\* The executor awaits a coroutine function; a lambda it calls in a thread, and drops the
\* coroutine that the lambda returns.
Awaited(j) == j \notin Lambdas

\* A job comes due; one that still runs is skipped (max_instances).
Fire(j) ==
    /\ Serves
    /\ j \notin paused \cup running
    /\ running' = IF Awaited(j) THEN running \cup {j} ELSE running
    /\ UNCHANGED <<fileVars, daemon, trigger, paused, byHand, accepted, failed, changes, ends>>

\* trigger_job: the function is called, whether it runs or not, and awaited.
TriggerByHand(j) ==
    /\ Serves
    /\ byHand' = byHand \cup {j}
    /\ UNCHANGED <<fileVars, daemon, trigger, paused, running, accepted, failed, changes, ends>>

\* run_skill_job and the functions of the internal jobs return, whatever happened in them.
RunEnds(j) ==
    /\ Serves
    /\ \/ running' = running \ {j} /\ running' # running /\ UNCHANGED byHand
       \/ byHand' = byHand \ {j} /\ byHand' # byHand /\ UNCHANGED running
    /\ UNCHANGED <<fileVars, daemon, trigger, paused, accepted, failed, changes, ends>>

DaemonEnds ==
    /\ daemon /\ ends < MaxEnds /\ ends' = ends + 1
    /\ daemon' = FALSE
    /\ running' = {} /\ byHand' = {} /\ paused' = {}
    /\ writing' = <<>> /\ buffer' = Truncated
    /\ UNCHANGED <<yaml, trigger, accepted, failed, changes>>

SchedulerNext ==
    \/ StartDaemon \/ OpenFile \/ Dump \/ WriteFails \/ DaemonEnds
    \/ \E j \in AllJobs :
          \/ \E c \in Crons : Reschedule(j, c)
          \/ Pause(j) \/ Resume(j) \/ Fire(j) \/ TriggerByHand(j) \/ RunEnds(j)

\* What the process does without being asked
SchedulerProgress == StartDaemon \/ OpenFile \/ Dump

SchedulerSpec == SchedulerInit /\ [][SchedulerNext]_schedulerVars

\* A job that is not paused comes due again and again, and its runs end (timeout_sec).
SchedulerFairSpec ==
    /\ SchedulerSpec
    /\ WF_schedulerVars(SchedulerProgress)
    /\ \A j \in AllJobs : SF_schedulerVars(Fire(j)) /\ WF_schedulerVars(RunEnds(j))

-----------------------------------------------------------------------------
(* Properties *)

\* What a request was told is "updated" holds, in the running scheduler and after any
\* restart (system.py:225, "Changes are persisted to agents.yaml"), unless a later change
\* of the job failed or was cut short; an internal job is not asked for.
UpdateKept ==
    writing = <<>> =>
        /\ daemon => \A j \in Jobs \ failed : trigger[j] = accepted[j]
        /\ yaml \in {accepted, Truncated}

\* A job that is not paused runs again and again, as long as the scheduler runs: also the
\* maintainer, every 15 minutes (scheduler.py:106, jobs.py:373).
MaintainerRuns == \A j \in Lambdas : []<>(j \in running \cup paused \/ ~daemon)

=============================================================================
