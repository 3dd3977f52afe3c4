------------------------------ MODULE RiskAlerts ------------------------------
(***************************************************************************)
(* The risk scores of one student: a run computes a score, inserts a row,  *)
(* and compares the score with the row before the newest to decide whether *)
(* the PI is to be alerted.  Runs of the scheduler and of POST             *)
(* /risk/compute compare; the one that an agent action makes only stores.  *)
(* Students do not affect each other.  How a score comes about is in       *)
(* Indicators.                                                             *)
(*                                                                         *)
(* An alert that is raised goes to Feishu and DingTalk, whose modules this *)
(* revision no longer has: the import fails, and nobody gets the alert.    *)
(* The model ends where it is raised.                                      *)
(***************************************************************************)
EXTENDS Integers, Sequences

CONSTANTS
    Computations, \* runs
    Scores,       \* overall_score, rounded
    MaxRows       \* bound on the rows

ASSUME ScoresAssumption ==
    Scores \subseteq {n \in Int : n <= 100} /\ 0 \in Scores /\ MaxRows \in Nat

VARIABLES
    rows,      \* claw_student_risk_scores, in the order of computed_at
    doing,     \* where each run is
    compares,  \* whether the run goes on to send_risk_alerts
    score,     \* the score it computed
    raised,    \* history: an alert was raised for the present row of red scores, if any
    excused    \* history: why it may not have been: see RedRaised

riskVars == <<rows, doing, compares, score, raised, excused>>

RiskTypeOK ==
    /\ rows \in Seq(Scores) /\ Len(rows) <= MaxRows
    /\ doing \in [Computations -> {"idle", "insert", "compare"}]
    /\ compares \in [Computations -> BOOLEAN]
    /\ score \in [Computations -> Scores]
    /\ raised \in BOOLEAN /\ excused \in BOOLEAN

RiskInit ==
    /\ rows = <<>>
    /\ doing = [r \in Computations |-> "idle"]
    /\ compares = [r \in Computations |-> FALSE]
    /\ score = [r \in Computations |-> 0]
    /\ raised = TRUE /\ excused = FALSE

-----------------------------------------------------------------------------

Level(s) == IF s <= 30 THEN "green" ELSE IF s <= 60 THEN "yellow" ELSE "red"
IsRed(s) == Level(s) = "red"

Goes(r, stage) == doing' = [doing EXCEPT ![r] = stage]

\* compute_student_risk
ComputeRisk(r, s, alerting) ==
    /\ doing[r] = "idle" /\ Len(rows) < MaxRows
    /\ Goes(r, "insert")
    /\ score' = [score EXCEPT ![r] = s]
    /\ compares' = [compares EXCEPT ![r] = alerting]
    /\ excused' = (excused \/ \E o \in Computations \ {r} : doing[o] # "idle")
    /\ UNCHANGED <<rows, raised>>

WasRed == rows # <<>> /\ IsRed(rows[Len(rows)])

\* A row of red scores begins, goes on, or there is none.
Insert(r) ==
    /\ doing[r] = "insert" /\ Len(rows) < MaxRows
    /\ rows' = Append(rows, score[r])
    /\ raised' = IF IsRed(score[r]) THEN WasRed /\ raised ELSE TRUE
    /\ excused' = IF \A o \in Computations \ {r} : doing[o] = "idle"
                  THEN IsRed(score[r]) /\ (~compares[r] \/ (WasRed /\ excused)) ELSE TRUE
    /\ Goes(r, IF compares[r] THEN "compare" ELSE "idle")
    /\ UNCHANGED <<compares, score>>

\* Only logged; the score is among the results all the same.
InsertFails(r) ==
    /\ doing[r] = "insert"
    /\ Goes(r, IF compares[r] THEN "compare" ELSE "idle")
    /\ UNCHANGED <<rows, compares, score, raised, excused>>

PreviousNewest == IF rows = <<>> THEN 0 ELSE rows[Len(rows)] \* mutant: OFFSET 0
\* ORDER BY computed_at DESC LIMIT 1 OFFSET 1
Previous == IF Len(rows) < 2 THEN 0 ELSE rows[Len(rows) - 1]

Alarming(s, previous) == (IsRed(s) /\ ~IsRed(previous)) \/ s - previous > 15

\* send_risk_alerts; without an answer of the database the score before counts as 0.
Compare(r) ==
    /\ doing[r] = "compare"
    /\ \E previous \in {Previous, 0} :
          raised' = (raised \/ (IsRed(score[r]) /\ WasRed /\ Alarming(score[r], previous)))
    /\ Goes(r, "idle")
    /\ UNCHANGED <<rows, compares, score, excused>>

\* The process ends, or compute_all_risks fails: send_risk_alerts is never called.
RunFails(r) ==
    /\ doing[r] # "idle"
    /\ excused' = (excused \/ (WasRed /\ ~raised))
    /\ Goes(r, "idle")
    /\ UNCHANGED <<rows, compares, score, raised>>

RiskNext ==
    \E r \in Computations :
        \/ \E s \in Scores, a \in BOOLEAN : ComputeRisk(r, s, a)
        \/ Insert(r) \/ InsertFails(r) \/ Compare(r) \/ RunFails(r)

RiskSpec == RiskInit /\ [][RiskNext]_riskVars

-----------------------------------------------------------------------------
(* Properties *)

\* When a student's scores have turned red, an alert was raised (risk_alerts.py:4), unless
\* the first of these scores was stored by a run that does not compare, runs overlapped, or
\* the run failed after it stored the score: no later run makes up for it.
RedRaised == (\A r \in Computations : doing[r] = "idle") => raised \/ excused

=============================================================================
