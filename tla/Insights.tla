------------------------------- MODULE Insights -------------------------------
(***************************************************************************)
(* claw_pi_agent_insights: a scan goes through its subjects, the topics of *)
(* the global research and at last the collaboration across projects,      *)
(* obtains a text for each, and saves it: it replaces what the subject got *)
(* on the same day.  Scans of the scheduler, of the weekly job, which has  *)
(* one subject, and of POST /scan-global-research may overlap; a day may   *)
(* end between any two steps.                                              *)
(***************************************************************************)
EXTENDS Naturals, Sequences, FiniteSets

CONSTANTS
    Scans,
    Subjects,  \* topics, and CrossProject
    CrossProject,
    LastDay,   \* bound on the days
    MaxRowId   \* bound on the rows

ASSUME InsightsAssumption ==
    /\ IsFiniteSet(Subjects) /\ CrossProject \in Subjects
    /\ LastDay \in Nat \ {0} /\ MaxRowId \in Nat

Texts == {"nothing", "papers", "insight", "error"}
NoRow == 0

VARIABLES
    insights,  \* the rows: id |-> [subject, text, day]; day 0 before they exist
    topics,    \* the subjects each scan has not come to
    reached,   \* what it does with the first of them
    answer,    \* the text it obtained
    today,     \* the day it looks for
    sameDay,   \* the row it found
    date,      \* the day
    lastRow,
    crossed    \* history: subjects that two scans saved at a time

insightVars == <<insights, topics, reached, answer, today, sameDay, date, lastRow, crossed>>

InsightsTypeOK ==
    /\ insights \in [1..MaxRowId -> [subject : Subjects, text : Texts, day : 0..LastDay]]
    /\ \A s \in Scans : topics[s] \in Seq(Subjects)
    /\ reached \in [Scans -> {"text", "select", "save"}]
    /\ answer \in [Scans -> Texts]
    /\ today \in [Scans -> 1..LastDay]
    /\ sameDay \in [Scans -> 0..MaxRowId]
    /\ date \in 1..LastDay /\ lastRow \in 0..MaxRowId
    /\ crossed \subseteq Subjects

InsightsInit ==
    /\ insights = [i \in 1..MaxRowId |->
                     [subject |-> CrossProject, text |-> "nothing", day |-> 0]]
    /\ topics = [s \in Scans |-> <<>>]
    /\ reached = [s \in Scans |-> "text"]
    /\ answer = [s \in Scans |-> "nothing"]
    /\ today = [s \in Scans |-> 1]
    /\ sameDay = [s \in Scans |-> NoRow]
    /\ date = 1 /\ lastRow = 0
    /\ crossed = {}

-----------------------------------------------------------------------------

OrdersOf(set) == {s \in [1..Cardinality(set) -> set] : {s[n] : n \in DOMAIN s} = set}

\* scan_global_research goes through all topics and then the projects, or, when a request
\* names one, through that topic only; _run_cross_project_analyze has the projects.
Courses == {Append(o, CrossProject) : o \in {<<>>} \cup OrdersOf(Subjects \ {CrossProject})}
             \cup {<<t>> : t \in Subjects}

BeginScan(s, course) ==
    /\ topics[s] = <<>>
    /\ topics' = [topics EXCEPT ![s] = course]
    /\ UNCHANGED <<insights, reached, answer, today, sameDay, date, lastRow, crossed>>

GoOnWith(s, left) ==
    /\ topics' = [topics EXCEPT ![s] = left]
    /\ reached' = [reached EXCEPT ![s] = "text"]
    /\ answer' = [answer EXCEPT ![s] = "nothing"]
    /\ today' = [today EXCEPT ![s] = 1]
    /\ sameDay' = [sameDay EXCEPT ![s] = NoRow]

\* The next subject
Over(s) == GoOnWith(s, Tail(topics[s]))

Saving(s, subject) == reached[s] # "text" /\ Head(topics[s]) = subject

\* A topic without papers is passed over.  A model that fails leaves the list of papers;
\* one that answers may do so with nothing.
TopicTexts(papers) == IF papers THEN {"insight", "papers", "nothing"} ELSE {"nothing"}
\* Without projects, or an answer, there is nothing; an error is a text like another.
ProjectTexts == {"insight", "error", "nothing"}
TextsOf(subject) ==
    IF subject = CrossProject THEN ProjectTexts ELSE UNION {TopicTexts(p) : p \in BOOLEAN}

\* _save_insight asks for the day first.
Obtain(s, t) ==
    /\ topics[s] # <<>> /\ reached[s] = "text"
    /\ t \in TextsOf(Head(topics[s]))
    /\ IF t = "nothing" THEN Over(s)
       ELSE /\ answer' = [answer EXCEPT ![s] = t]
            /\ reached' = [reached EXCEPT ![s] = "select"]
            /\ today' = [today EXCEPT ![s] = date]
            /\ UNCHANGED <<topics, sameDay>>
    /\ crossed' = crossed \cup
          {u \in {Head(topics[s])} : t # "nothing" /\ \E o \in Scans \ {s} : Saving(o, u)}
    /\ UNCHANGED <<insights, date, lastRow>>

FoundAnyDay(subject, day) == {i \in 1..lastRow : FALSE} \* mutant: no row of the day is found
FoundToday(subject, day) ==
    {i \in 1..lastRow : insights[i].subject = subject /\ insights[i].day = day}

\* _save_insight: SELECT ... WHERE DATE(created_at) = :d LIMIT 1
SelectToday(s) ==
    /\ topics[s] # <<>> /\ reached[s] = "select"
    /\ LET rows == FoundToday(Head(topics[s]), today[s])
       IN \E i \in IF rows = {} THEN {NoRow} ELSE rows : sameDay' = [sameDay EXCEPT ![s] = i]
    /\ reached' = [reached EXCEPT ![s] = "save"]
    /\ UNCHANGED <<insights, topics, answer, today, date, lastRow, crossed>>

\* UPDATE, or INSERT; the row has the time of this moment.
SaveInsight(s) ==
    /\ reached[s] = "save"
    /\ LET row == [subject |-> Head(topics[s]), text |-> answer[s], day |-> date] IN
       \/ /\ sameDay[s] # NoRow
          /\ insights' = [insights EXCEPT ![sameDay[s]] = row]
          /\ UNCHANGED lastRow
       \/ /\ sameDay[s] = NoRow /\ lastRow < MaxRowId
          /\ lastRow' = lastRow + 1
          /\ insights' = [insights EXCEPT ![lastRow'] = row]
    /\ Over(s)
    /\ UNCHANGED <<date, crossed>>

\* The topic, or the write, fails: the scan goes on with the next.
SubjectFails(s) ==
    /\ topics[s] # <<>>
    /\ Over(s)
    /\ UNCHANGED <<insights, date, lastRow, crossed>>

\* The process of the scan ends.
ScanEnds(s) ==
    /\ topics[s] # <<>>
    /\ GoOnWith(s, <<>>)
    /\ UNCHANGED <<insights, date, lastRow, crossed>>

Midnight ==
    /\ date < LastDay /\ date' = date + 1
    /\ UNCHANGED <<insights, topics, reached, answer, today, sameDay, lastRow, crossed>>

InsightsNext ==
    \/ Midnight
    \/ \E s \in Scans :
          \/ \E course \in Courses : BeginScan(s, course)
          \/ \E t \in Texts : Obtain(s, t)
          \/ SelectToday(s) \/ SaveInsight(s) \/ SubjectFails(s) \/ ScanEnds(s)

InsightsSpec == InsightsInit /\ [][InsightsNext]_insightVars

-----------------------------------------------------------------------------
(* Properties *)

\* A subject has one insight a day (global_research_monitor.py:11, "running twice on a day
\* updates and does not insert again"), whatever fails and whenever the day ends, unless
\* two scans saved the subject at the same time.
OneInsightADay ==
    \A i, j \in 1..lastRow :
        /\ insights[i].subject = insights[j].subject /\ insights[i].day = insights[j].day
        /\ insights[i].subject \notin crossed
        => i = j

=============================================================================
