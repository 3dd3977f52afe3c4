---------------------------- MODULE MCOperations ----------------------------
(* Instances of the modules about jobs, knowledge and the team's data for  *)
(* TLC: what no step of theirs may do.  They share no state, so one of     *)
(* them runs in each behaviour and the others stay as they began.          *)
EXTENDS SchedulerJobs, KnowledgeStore, SessionMemory, Retrieval, RiskAlerts,
        Insights, TeamSnapshot, Indicators, StudentSync, CoevoGraph,
        AgentAnswers, Execution, TLC

CONSTANTS k1, k2, n1, n2, n3, s1, r1, r2, p1, g1, m1, ann, bob, cy, px,
          lw, lv, lm, ld, lz, t1, t2, a1, a2, x1, x2

VARIABLE part

Parts == {"scheduler", "graph", "session", "retrieval", "risk", "insights",
          "snapshot", "indicators", "students", "coevo", "agent", "execution"}

\* The parts have many initial states, of which the others see one.
OperationsInit ==
    /\ part \in Parts
    /\ SchedulerInit /\ (part # "scheduler" => yaml = CHOOSE f \in Files : TRUE)
    /\ RetrievalInit /\ (part # "retrieval" => links = <<>>)
    /\ IndicatorsInit /\ (part # "indicators" => subject = "tasks")
    /\ StudentSyncInit /\ (part # "students" => enrolled = {})
    /\ ExecutionInit /\ (part # "execution" => skill = DefaultSkill)
    /\ StoreInit /\ MemoryInit /\ RiskInit /\ InsightsInit /\ SnapshotInit
    /\ CoevoGraphInit /\ AnswersInit

\* Every part but p stands still.
Rest(p) ==
    /\ IF p = "scheduler" THEN TRUE ELSE UNCHANGED schedulerVars
    /\ IF p = "graph" THEN TRUE ELSE UNCHANGED storeVars
    /\ IF p = "session" THEN TRUE ELSE UNCHANGED memoryVars
    /\ IF p = "retrieval" THEN TRUE ELSE UNCHANGED retrievalVars
    /\ IF p = "risk" THEN TRUE ELSE UNCHANGED riskVars
    /\ IF p = "insights" THEN TRUE ELSE UNCHANGED insightVars
    /\ IF p = "snapshot" THEN TRUE ELSE UNCHANGED snapshotVars
    /\ IF p = "indicators" THEN TRUE ELSE UNCHANGED indicatorVars
    /\ IF p = "students" THEN TRUE ELSE UNCHANGED syncVars
    /\ IF p = "coevo" THEN TRUE ELSE UNCHANGED coevoGraphVars
    /\ IF p = "agent" THEN TRUE ELSE UNCHANGED answerVars
    /\ IF p = "execution" THEN TRUE ELSE UNCHANGED executionVars
    /\ UNCHANGED part

OperationsNext ==
    \/ part = "scheduler" /\ SchedulerNext /\ Rest("scheduler")
    \/ part = "graph" /\ StoreNext /\ Rest("graph")
    \/ part = "session" /\ MemoryNext /\ Rest("session")
    \/ part = "retrieval" /\ RetrievalNext /\ Rest("retrieval")
    \/ part = "risk" /\ RiskNext /\ Rest("risk")
    \/ part = "insights" /\ InsightsNext /\ Rest("insights")
    \/ part = "snapshot" /\ SnapshotNext /\ Rest("snapshot")
    \/ part = "indicators" /\ IndicatorsNext /\ Rest("indicators")
    \/ part = "students" /\ StudentSyncNext /\ Rest("students")
    \/ part = "coevo" /\ CoevoGraphNext /\ Rest("coevo")
    \/ part = "agent" /\ AnswersNext /\ Rest("agent")
    \/ part = "execution" /\ ExecutionNext /\ Rest("execution")

OperationsSpec ==
    OperationsInit /\
    [][OperationsNext]_<<part, schedulerVars, storeVars, memoryVars,
                         retrievalVars, riskVars, insightVars, snapshotVars, indicatorVars,
                         syncVars, coevoGraphVars, answerVars,
                         executionVars>>

\* The type invariants
OperationsTypesOK ==
    /\ part = "scheduler" => SchedulerTypeOK
    /\ part = "graph" => StoreTypeOK
    /\ part = "session" => MemoryTypeOK
    /\ part = "retrieval" => RetrievalTypeOK
    /\ part = "risk" => RiskTypeOK
    /\ part = "insights" => InsightsTypeOK
    /\ part = "snapshot" => SnapshotTypeOK
    /\ part = "indicators" => IndicatorsTypeOK
    /\ part = "students" => StudentSyncTypeOK
    /\ part = "coevo" => CoevoGraphTypeOK
    /\ part = "agent" => AnswersTypeOK
    /\ part = "execution" => ExecutionTypeOK

-----------------------------------------------------------------------------
(* Values of the constants *)

\* A writer stores one node, or two and an edge from the second to the first.
OneOrTwo == {<<k1>>, <<k2, k1>>}

\* Two nodes of one type, which a query may find, and a summary of the same type
TypesOf == (n1 :> "student" @@ n2 :> "student" @@ n3 :> "project" @@ s1 :> "student")
Sizes == (n1 :> 3 @@ n2 :> 4 @@ n3 :> 3 @@ s1 :> 2)

\* Enough for the formulas to reach most of their caps
UpTo == [student |-> 3, project |-> 6, team |-> 2, tasks |-> 3, activity |-> 3]

\* What was asked for, and what was not: -100 is as low as a mood may go.
AnyNumber == {-200, -100, 0, 100}

\* Ann's two reports share a node.
PersonOf == [r \in CoevoRows |-> ann]
ProjectOf == [r \in CoevoRows |-> px]
NameOf == (r1 :> "weekly" @@ r2 :> "weekly" @@ p1 :> "survey" @@
           m1 :> "per_person_summary")
PartnersOf == (g1 :> {bob, cy})
RelevanceOf == (m1 :> 1)

\* A short name that longer ones begin with, and two that only look like one
Roster == {<<lw, lv>>, <<lw, lv, lm>>, <<lw, lv, ld>>}
Misspelt == {<<lw, lz>>, <<lz, lm>>}
ShownNames == [n \in Roster |-> IF n = <<lw, lv>> THEN <<lz, lm>> ELSE n]

\* A text may fit two rules; one rule names a skill that is not installed, and of the
\* tools of the other one cannot be imported.
Routing == <<[patterns |-> {a1}, skill |-> "talk"], [patterns |-> {a2}, skill |-> "gone"]>>
DeclaredBy == [talk |-> {}, pi |-> {t1, t2}]
LoadedBy == [talk |-> {}, pi |-> {t1}]

\* Runs of one operation are interchangeable, and so are the two reports.
RunsSymmetry == Permutations({x1, x2}) \cup Permutations({r1, r2})

=============================================================================
