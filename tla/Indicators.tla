----------------------------- MODULE Indicators -----------------------------
(***************************************************************************)
(* The figures the system computes of what others count: the risk score of *)
(* a student, the innovation index of a project, the health of the team,   *)
(* the success rate of the tasks, and the rates of meetings and reports.   *)
(* The counts grow as people work; where a model is asked, its answer is a *)
(* parameter.  The prompts ask for numbers from 0 to 100 and for counts,   *)
(* but the reply is used as it was parsed: any number may come.  (If it is *)
(* no number, or no answer comes, a default stands in or the student is    *)
(* left out of this run.)                                                  *)
(*                                                                         *)
(* Scores are in hundredths of a point, so Full is 100 points; fractions   *)
(* below are cut off.                                                      *)
(***************************************************************************)
EXTENDS Integers, FiniteSets, FiniteSetsExt

CONSTANTS
    MaxFigure, \* bound on the counts of each subject
    Replies    \* numbers a model may answer with, whatever it was asked for

ASSUME FiguresAssumption ==
    /\ MaxFigure \in [{"student", "project", "team", "tasks", "activity"} -> Nat]
    /\ Replies \subseteq Int

VARIABLES
    subject, \* whose figures are looked at
    counts   \* the counts they are computed from, by name

indicatorVars == <<subject, counts>>

Full == 100 * 100
Part(n, total) == (n * Full) \div total

\* Names of the counts of each subject.
Figures == [
    student |-> {"attended", "handedIn",      \* meetings, and those with a report
                 "pre", "blocked", "compared",\* reports before a meeting: all, with
                                              \* blockers, with the plan before them
                 "written", "concerns"},      \* own words; teachers' phrases of concern
    project |-> {"members", "meetings", "collabs", "asked", "tasked", "clusters"},
    team    |-> {"scored", "meetings", "reports", "actions", "done"},
    tasks   |-> {"all", "failed", "completed"},
    activity |-> {"created", "submitted", "summarized", \* reports by their status
                  "held", "before",           \* meetings, and one member's reports before
                  "enrolled", "assessed"} ]   \* members, and those with scores
Measured == DOMAIN Figures

\* What is counted within something else.
Within == [handedIn |-> "attended", blocked |-> "pre", compared |-> "pre",
           tasked |-> "asked", done |-> "actions", failed |-> "all",
           completed |-> "all", submitted |-> "created", summarized |-> "created",
           before |-> "held", assessed |-> "enrolled"]

IndicatorsInit ==
    /\ subject \in Measured
    /\ counts = [f \in Figures[subject] |-> 0]

Grow(f) ==
    /\ f \in Figures[subject] /\ counts[f] < MaxFigure[subject]
    /\ f \in DOMAIN Within => counts[f] < counts[Within[f]]
    /\ f = "compared" => counts[f] + 1 < counts["pre"]
    /\ subject = "tasks" /\ f # "all" => counts["failed"] + counts["completed"] < counts["all"]
    /\ f \in {"submitted", "summarized"} =>
          counts["submitted"] + counts["summarized"] < counts["created"]
    /\ counts' = [counts EXCEPT ![f] = @ + 1]
    /\ UNCHANGED subject

IndicatorsNext == \E f \in UNION {Figures[s] : s \in Measured} : Grow(f)
IndicatorsSpec == IndicatorsInit /\ [][IndicatorsNext]_indicatorVars

-----------------------------------------------------------------------------
(* The risk engine: five signals, their weights and the level.             *)

\* max(0, 100 - p)
Shortfall(p) == Max({0, Full - 100 * p})

\* With fewer than two reports a signal is 0, not unknown.
Blockers(c, recurring, total) ==
    IF c.blocked < 2 THEN 0 ELSE Min({Part(recurring, Max({total, 1})), Full})

GoalGap(c, rate) ==
    IF c.pre < 2 \/ c.compared = 0 THEN 0 ELSE Shortfall(rate)

Disengaged(c) ==
    IF c.attended = 0 THEN 0 ELSE Part(c.attended - c.handedIn, c.attended)

Mood(c, sentiment, trend) ==
    LET low == Shortfall(sentiment)
    IN  CASE c.written = 0 -> 0
          [] c.written > 0 /\ trend = "declining" -> Min({(low * 13) \div 10, Full})
          [] c.written > 0 /\ trend = "improving" -> (low * 7) \div 10
          [] c.written > 0 /\ trend \notin {"declining", "improving"} -> low

Concern(c) == Min({c.concerns * 25 * 100, Full})

\* A model's answer about a student.  Any other trend is taken for a stable one.
Judgements == [recurring : Replies, total : Replies, rate : Replies,
               sentiment : Replies, trend : {"improving", "stable", "declining"}]

WeighedByDefault(c, j) == \* mutant: a missing signal counts half
    (30 * (IF c.blocked < 2 THEN Full \div 2 ELSE Blockers(c, j.recurring, j.total))
      + 25 * (IF c.compared = 0 THEN Full \div 2 ELSE GoalGap(c, j.rate))
      + 20 * Disengaged(c) + 15 * Mood(c, j.sentiment, j.trend) + 10 * Concern(c)) \div 100
Weighed(c, j) ==
    (30 * Blockers(c, j.recurring, j.total) + 25 * GoalGap(c, j.rate)
      + 20 * Disengaged(c) + 15 * Mood(c, j.sentiment, j.trend) + 10 * Concern(c)) \div 100

\* One decimal is kept: the overall score is in tenths.
Overall(c, j) == (Min({Weighed(c, j), Full}) + 5) \div 10
RiskLevel(tenths) ==
    IF tenths <= 300 THEN "green" ELSE IF tenths <= 600 THEN "yellow" ELSE "red"

-----------------------------------------------------------------------------
(* The innovation index of a project.                                      *)

Velocity(c) == Min({(c.meetings * 10 * 100) \div Max({c.members, 1}), Full})
Density(c) == Min({(c.collabs * 20 * 100) \div Max({c.members, 1}), Full})
Resolution(c) == IF c.asked = 0 THEN Full \div 2 ELSE Part(c.tasked, c.asked)
Breadth(c) == Min({c.clusters * 20 * 100, Full})

Innovation(c) ==
    (25 * Velocity(c) + 30 * Density(c) + 25 * Resolution(c) + 20 * Breadth(c)) \div 100

-----------------------------------------------------------------------------
(* The health of the team: average is the mean of the latest scores, which *)
(* are up to 100 but may be negative.                                      *)

RiskHealth(c, average) == IF c.scored = 0 THEN Full \div 2 ELSE Shortfall(average)
\* Reports of everybody over meetings of anybody: two reports of one meeting
\* make more than all.
Engagement(c) == IF c.meetings = 0 THEN 70 * 100 ELSE Part(c.reports, c.meetings)
Resolved(c) == IF c.actions = 0 THEN Full \div 2 ELSE Part(c.done, c.actions)
\* The query names a table that the CoEvo database does not have, and its failure is
\* answered with a half.
Collaboration == Full \div 2

Health(c, average) ==
    (40 * RiskHealth(c, average) + 25 * Engagement(c) + 20 * Resolved(c)
      + 15 * Collaboration) \div 100

-----------------------------------------------------------------------------
(* The Evolver's report.  Tasks that timed out or still wait did not fail. *)

SuccessRate(c) == Full - Part(c.failed, Max({c.all, 1}))

-----------------------------------------------------------------------------
(* The Evolver's other figure, and two of the analytics pages.             *)

SubmissionRate(c) == Part(c.submitted + c.summarized, Max({c.created, 1}))
EngagementRate(c) == IF c.held = 0 THEN 0 ELSE Part(c.before, c.held)
AssessmentCoverage(c) == IF c.enrolled = 0 THEN 0 ELSE Part(c.assessed, c.enrolled)

-----------------------------------------------------------------------------
(* Properties. *)

\* The counts are numbers.  Whatever is counted, the innovation index and all rates
\* stay between 0 and 100.  Whatever a model answers, the overall risk stays below 100,
\* and above 0 unless the model counted less than no recurring blockers; the health of a
\* team is not negative, and at most 100 if it hands in at most one report a meeting and
\* its students' mean risk is not negative.
IndicatorsTypeOK ==
    /\ subject \in Measured
    /\ counts \in [Figures[subject] -> 0..MaxFigure[subject]]
    /\ CASE subject = "student" ->
               \A j \in Judgements : /\ Overall(counts, j) <= 1000
                                     /\ j.recurring >= 0 => Overall(counts, j) >= 0
         [] subject = "project" -> Innovation(counts) \in 0..Full
         [] subject = "team" ->
               \A a \in Replies :
                  /\ Health(counts, a) >= 0
                  /\ a >= 0 /\ counts.reports <= counts.meetings => Health(counts, a) <= Full
         [] subject = "tasks" -> SuccessRate(counts) \in 0..Full
         [] subject = "activity" -> {SubmissionRate(counts), EngagementRate(counts),
                                     AssessmentCoverage(counts)} \subseteq 0..Full

\* A student of whom there are fewer than two reports is never red, however many
\* meetings passed without one, whatever the teachers wrote and whatever number a model
\* answers, but a mood below -100 (on a scale from 0) that does not decline: only that
\* signal has no upper bound.
SilentNeverRed ==
    subject = "student" /\ counts.pre < 2 =>
        \A j \in Judgements :
            j.sentiment >= -100 \/ j.trend = "declining" =>
                RiskLevel(Overall(counts, j)) # "red"
=============================================================================
