------------------------------ MODULE CoevoSync ------------------------------
(***************************************************************************)
(* The incremental synchronisation of one source of the CoEvo database     *)
(* (reports, plans, collaborations or memories) into the knowledge graph.  *)
(* A run reads the watermark, selects at most Limit rows changed after it, *)
(* stores them one by one, and at the end moves the watermark to the       *)
(* newest change it stored.  The scheduler, the Librarian and the API      *)
(* start runs; nothing keeps them apart.                                   *)
(*                                                                         *)
(* Every row has a node of its own here; a version of a row is known by    *)
(* its updated_at, since a row changes at most once a second.              *)
(***************************************************************************)
EXTENDS Naturals, FiniteSets

CONSTANTS
    Rows,      \* rows of the source
    Rank,      \* what the SELECT orders by before updated_at: relevance of memories
    Empties,   \* rows that may be without text worth storing: reports and memories
    Ties,      \* two rows may change in the same second
    Sessions,  \* runs that may be active at the same time
    Limit,     \* BATCH_LIMIT
    Lookback,  \* DEFAULT_LOOKBACK_DAYS
    MaxTime,   \* bound on the clock
    MaxFaults, \* bound on failures and on resets of the watermark
    NoMark     \* no watermark

ASSUME NumbersAssumption ==
    /\ Limit \in Nat \ {0} /\ Lookback \in Nat \ {0}
    /\ MaxTime \in Nat /\ MaxFaults \in Nat
ASSUME RankAssumption == Rank \in [Rows -> Nat]
ASSUME ChangesAssumption == Empties \subseteq Rows /\ Ties \in BOOLEAN
ASSUME NoMarkAssumption == NoMark \notin Nat

VARIABLES
    now,       \* the clock, in seconds
    upd,       \* updated_at of each row, 0 before it exists
    text,      \* the row has text
    node,      \* the version of the row that the graph holds, 0 for none
    wm,        \* the watermark in Redis
    pc,        \* where each run is
    since,     \* the watermark it read
    batch,     \* the versions it selected and has not handled yet
    latest,    \* latest_ts, 0 for None
    forgiven,  \* history: the oldest change that runs without a watermark look at
    faults

sourceVars == <<now, upd, text>>
runVars    == <<pc, since, batch, latest>>
coevoVars == <<sourceVars, node, wm, runVars, forgiven, faults>>

Times == 0..MaxTime
Versions == [row : Rows, at : Times, text : BOOLEAN]

CoevoTypeOK ==
    /\ now \in 1..(MaxTime + 1)
    /\ upd \in [Rows -> Times]
    /\ text \in [Rows -> BOOLEAN]
    /\ node \in [Rows -> Times]
    /\ wm \in Times \cup {NoMark}
    /\ pc \in [Sessions -> {"idle", "select", "store", "save"}]
    /\ since \in [Sessions -> Times]
    /\ batch \in [Sessions -> SUBSET Versions]
    /\ latest \in [Sessions -> Times]
    /\ forgiven \in Times
    /\ faults \in 0..MaxFaults

CoevoInit ==
    /\ now = 1
    /\ upd = [r \in Rows |-> 0]
    /\ text = [r \in Rows |-> FALSE]
    /\ node = [r \in Rows |-> 0]
    /\ wm = NoMark
    /\ pc = [s \in Sessions |-> "idle"]
    /\ since = [s \in Sessions |-> 0]
    /\ batch = [s \in Sessions |-> {}]
    /\ latest = [s \in Sessions |-> 0]
    /\ forgiven = 0
    /\ faults = 0

-----------------------------------------------------------------------------
(* The CoEvo database *)

Tick ==
    /\ now <= MaxTime
    /\ now' = now + 1
    /\ UNCHANGED <<upd, text, node, wm, runVars, forgiven, faults>>

Change(r, hasText) ==
    /\ now <= MaxTime
    /\ hasText \/ r \in Empties
    /\ upd[r] # now
    /\ Ties \/ \A q \in Rows : upd[q] # now
    /\ upd' = [upd EXCEPT ![r] = now]
    /\ text' = [text EXCEPT ![r] = hasText]
    /\ UNCHANGED <<now, node, wm, runVars, forgiven, faults>>

-----------------------------------------------------------------------------
(* A run *)

Fault == faults < MaxFaults /\ faults' = faults + 1

Fallback == IF now > Lookback THEN now - Lookback ELSE 0

Later(a, b) == IF a < b THEN b ELSE a

BeginRun(s, from) ==
    /\ pc[s] = "idle"
    /\ pc' = [pc EXCEPT ![s] = "select"]
    /\ since' = [since EXCEPT ![s] = from]
    /\ latest' = [latest EXCEPT ![s] = 0]
    /\ UNCHANGED <<sourceVars, node, wm, batch>>

\* _get_watermark
ReadWatermark(s) ==
    /\ wm # NoMark
    /\ BeginRun(s, wm)
    /\ UNCHANGED <<forgiven, faults>>

NoWatermark(s) ==
    /\ wm = NoMark
    /\ BeginRun(s, Fallback)
    /\ forgiven' = Later(forgiven, Fallback)
    /\ UNCHANGED faults

\* An error of Redis counts as "no watermark".
ReadFails(s) ==
    /\ wm # NoMark
    /\ BeginRun(s, Fallback)
    /\ forgiven' = Later(forgiven, Fallback)
    /\ Fault

Candidates(s) ==
    {v \in Versions : v.at = upd[v.row] /\ v.text = text[v.row] /\ v.at > since[s]}

Before(v, u) ==
    Rank[v.row] > Rank[u.row] \/ (Rank[v.row] = Rank[u.row] /\ v.at < u.at)

SelectedAny(s, rows) == \* mutant: no ORDER BY
    /\ rows \subseteq Candidates(s)
    /\ Cardinality(rows) <= Limit
    /\ rows = Candidates(s) \/ Cardinality(rows) = Limit
\* ORDER BY ... LIMIT
Selected(s, rows) ==
    /\ rows \subseteq Candidates(s)
    /\ Cardinality(rows) <= Limit
    /\ rows = Candidates(s) \/ Cardinality(rows) = Limit
    /\ \A v \in rows, u \in Candidates(s) \ rows : ~Before(u, v)

Select(s) ==
    /\ pc[s] = "select"
    /\ pc' = [pc EXCEPT ![s] = "store"]
    /\ \E rows \in SUBSET Candidates(s) :
          Selected(s, rows) /\ batch' = [batch EXCEPT ![s] = rows]
    /\ UNCHANGED <<sourceVars, node, wm, since, latest, forgiven, faults>>

SelectFails(s) ==
    /\ pc[s] = "select"
    /\ pc' = [pc EXCEPT ![s] = "save"]
    /\ Fault
    /\ UNCHANGED <<sourceVars, node, wm, since, batch, latest, forgiven>>

First(s, v) == v \in batch[s] /\ \A u \in batch[s] : ~Before(u, v)

AdvancedRow(s, v) == Later(latest[s], v.at + 1) \* mutant: one second too far
Advanced(s, v) == Later(latest[s], v.at)

\* A row without text is passed over, and does not advance latest_ts.
Skip(s, v) ==
    /\ pc[s] = "store"
    /\ First(s, v) /\ ~v.text
    /\ batch' = [batch EXCEPT ![s] = @ \ {v}]
    /\ UNCHANGED <<sourceVars, node, wm, pc, since, latest, forgiven, faults>>

\* The row's node, the node it is linked to, and the edge.
Store(s, v) ==
    /\ pc[s] = "store"
    /\ First(s, v) /\ v.text
    /\ node' = [node EXCEPT ![v.row] = v.at]
    /\ batch' = [batch EXCEPT ![s] = @ \ {v}]
    /\ latest' = [latest EXCEPT ![s] = Advanced(s, v)]
    /\ UNCHANGED <<sourceVars, wm, pc, since, forgiven, faults>>

\* One of them fails, before or after the row's own node is stored: the loop ends,
\* and the watermark will move to the last row that was stored completely.
StoreFails(s, v) ==
    /\ pc[s] = "store"
    /\ First(s, v) /\ v.text
    /\ node' \in {node, [node EXCEPT ![v.row] = v.at]}
    /\ batch' = [batch EXCEPT ![s] = {}]
    /\ pc' = [pc EXCEPT ![s] = "save"]
    /\ Fault
    /\ UNCHANGED <<sourceVars, wm, since, latest, forgiven>>

LoopEnds(s) ==
    /\ pc[s] = "store" /\ batch[s] = {}
    /\ pc' = [pc EXCEPT ![s] = "save"]
    /\ UNCHANGED <<sourceVars, node, wm, since, batch, latest, forgiven, faults>>

\* _set_watermark, over whatever another run has written meanwhile.
Save(s) ==
    /\ pc[s] = "save"
    /\ pc' = [pc EXCEPT ![s] = "idle"]
    /\ wm' = IF latest[s] = 0 THEN wm ELSE latest[s]
    /\ UNCHANGED <<sourceVars, node, since, batch, latest, forgiven, faults>>

\* Only logged.
SaveFails(s) ==
    /\ pc[s] = "save" /\ latest[s] # 0
    /\ pc' = [pc EXCEPT ![s] = "idle"]
    /\ Fault
    /\ UNCHANGED <<sourceVars, node, wm, since, batch, latest, forgiven>>

\* The process that runs it ends.
RunDies(s) ==
    /\ pc[s] # "idle"
    /\ pc' = [pc EXCEPT ![s] = "idle"]
    /\ batch' = [batch EXCEPT ![s] = {}]
    /\ Fault
    /\ UNCHANGED <<sourceVars, node, wm, since, latest, forgiven>>

\* DELETE /coevo/sync/watermarks, or 90 days without a run that stored anything.
ResetWatermark ==
    /\ wm # NoMark
    /\ wm' = NoMark
    /\ Fault
    /\ UNCHANGED <<sourceVars, node, runVars, forgiven>>

-----------------------------------------------------------------------------

\* One turn of a run that goes well.
Advance(s) ==
    \/ ReadWatermark(s) \/ NoWatermark(s) \/ Select(s) \/ LoopEnds(s) \/ Save(s)
    \/ \E v \in batch[s] : Skip(s, v) \/ Store(s, v)

Fail(s) ==
    \/ ReadFails(s) \/ SelectFails(s) \/ SaveFails(s) \/ RunDies(s)
    \/ \E v \in batch[s] : StoreFails(s, v)

CoevoNext ==
    \/ Tick
    \/ \E r \in Rows, hasText \in BOOLEAN : Change(r, hasText)
    \/ \E s \in Sessions : Advance(s) \/ Fail(s)
    \/ ResetWatermark

CoevoSpec == CoevoInit /\ [][CoevoNext]_coevoVars

\* The job runs every four hours, and a run goes on.
CoevoFairSpec == CoevoSpec /\ \A s \in Sessions : WF_coevoVars(Advance(s))

-----------------------------------------------------------------------------
(* Properties *)

\* The watermark never passes a change that is not in the graph: whatever failed, was
\* repeated or reset, a row with text whose last change lies behind the watermark is
\* stored in its last version (coevo_knowledge_sync.py:14-16: only changes after the
\* watermark will ever be fetched).
NothingSkipped ==
    wm # NoMark => \A r \in Rows :
        text[r] /\ forgiven < upd[r] /\ upd[r] <= wm => node[r] = upd[r]

\* What is left of it when runs overlap: a row with text behind the watermark is in the
\* graph, though a slower run may have stored an older version of it last.
NoneMissing ==
    wm # NoMark => \A r \in Rows :
        text[r] /\ forgiven < upd[r] /\ upd[r] <= wm => node[r] # 0

\* To readers of the graph, the synchronisation is a copy of the source that lags
\* behind: it never goes back to an older version of a row, whatever failed or changed
\* meanwhile, and every change arrives, unless the row changes again or a run without
\* a watermark found it too old.
Copy == INSTANCE SourceCopy WITH version <- upd, worded <- text, copy <- node, mark <- wm
ImplementsCopy == Copy!FairSpec

=============================================================================
