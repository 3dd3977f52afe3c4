------------------------------ MODULE Librarian ------------------------------
(***************************************************************************)
(* The Librarian's first phase: a run takes the newest Batch completed     *)
(* conversations that are not marked, lets the LLM extract facts from each,*)
(* stores them, and at the end marks the conversations.  The scheduler and *)
(* POST /jobs/{id}/trigger start runs, and nothing keeps them apart.       *)
(* claw_task_log may have the column of the marks or not: the docs list it *)
(* and no migration creates it.  Whenever the query for unmarked ones      *)
(* raises, for that or any other reason, a run takes the newest Batch      *)
(* conversations whatever became of them.  How facts become nodes and      *)
(* edges is in KnowledgeStore; the second phase is CoevoSync.              *)
(***************************************************************************)
EXTENDS Naturals, FiniteSets

CONSTANTS
    Conversations, \* 1..n: ids in the order of created_at
    Runs,
    Batch,         \* BATCH_SIZE
    MaxStops,      \* bound on runs that end half-way and on failures of the statements
    MaxCount       \* where the history of extractions stops counting

ASSUME LibrarianAssumption ==
    /\ Conversations \subseteq Nat /\ IsFiniteSet(Conversations)
    /\ Batch \in Nat \ {0} /\ MaxStops \in Nat /\ MaxCount \in Nat \ {0, 1}

VARIABLES
    hasColumn,  \* claw_task_log.librarian_processed exists
    completed,  \* conversations whose task is completed, with an answer
    marked,     \* librarian_processed
    libPhase,   \* where each run is
    pairs,      \* the conversations it fetched and has not looked at
    processed,  \* processed_ids
    extracted,  \* history: how often facts of a conversation were stored
    unclear,    \* history: conversations the LLM gave nothing for, or that are too short
    again,      \* history: conversations in two runs at once, in one that stopped, or
                \* taken once more by one whose query failed
    stops

libRunVars == <<libPhase, pairs, processed>>
libVars == <<hasColumn, completed, marked, libRunVars, extracted, unclear, again, stops>>

LibTypeOK ==
    /\ hasColumn \in BOOLEAN
    /\ completed \subseteq Conversations
    /\ marked \subseteq Conversations
    /\ libPhase \in [Runs -> {"idle", "extract", "mark"}]
    /\ pairs \in [Runs -> SUBSET Conversations]
    /\ processed \in [Runs -> SUBSET Conversations]
    /\ extracted \in [Conversations -> 0..MaxCount]
    /\ unclear \subseteq Conversations
    /\ again \subseteq Conversations
    /\ stops \in 0..MaxStops

LibInit ==
    /\ hasColumn \in BOOLEAN
    /\ completed = {}
    /\ marked = {}
    /\ libPhase = [r \in Runs |-> "idle"]
    /\ pairs = [r \in Runs |-> {}]
    /\ processed = [r \in Runs |-> {}]
    /\ extracted = [c \in Conversations |-> 0]
    /\ unclear = {}
    /\ again = {}
    /\ stops = 0

-----------------------------------------------------------------------------

\* A worker stores the answer of the next conversation, in the order of created_at.
Complete(c) ==
    /\ c \notin completed
    /\ completed' = completed \cup {c}
    /\ UNCHANGED <<hasColumn, marked, libRunVars, extracted, unclear, again, stops>>

CandidatesUnmarked == completed \* mutant: the marks are not looked at
\* The WHERE of the query
ToProcess == completed \ marked

\* ORDER BY created_at DESC LIMIT :batch
Fetched(cs, found) ==
    /\ cs \subseteq found
    /\ Cardinality(cs) <= Batch
    /\ cs = found \/ Cardinality(cs) = Batch
    /\ \A c \in cs, o \in found \ cs : c > o

Elsewhere(r) == UNION {pairs[o] \cup processed[o] : o \in Runs \ {r}}

\* A run takes some of what a query found; without conversations it is over.
Take(r, found, known) ==
    /\ libPhase[r] = "idle"
    /\ found # {}
    /\ \E cs \in SUBSET found :
          /\ Fetched(cs, found)
          /\ pairs' = [pairs EXCEPT ![r] = cs]
          /\ again' = again \cup (cs \cap (Elsewhere(r) \cup known))
    /\ libPhase' = [libPhase EXCEPT ![r] = "extract"]
    /\ UNCHANGED <<hasColumn, completed, marked, processed, extracted, unclear>>

Fetch(r) == hasColumn /\ Take(r, ToProcess, {}) /\ UNCHANGED stops

\* The query raises: always without the column, else once in a while.  The one it falls
\* back to knows no marks.  (If that fails as well, the run has no conversations.)
FallBack(r) ==
    /\ Take(r, completed, marked)
    /\ IF hasColumn THEN stops < MaxStops /\ stops' = stops + 1 ELSE UNCHANGED stops

Newest(c, cs) == c \in cs /\ \A o \in cs : o <= c

\* The next conversation of the loop is done with, whatever the LLM said.
Goes(r, c) ==
    /\ libPhase[r] = "extract" /\ Newest(c, pairs[r])
    /\ pairs' = [pairs EXCEPT ![r] = @ \ {c}]
    /\ processed' = [processed EXCEPT ![r] = @ \cup {c}]
    /\ UNCHANGED <<hasColumn, completed, marked, libPhase, again, stops>>

\* Facts are stored; the failure of a single write is passed over.
Extract(r, c) ==
    /\ Goes(r, c)
    /\ extracted' = [extracted EXCEPT ![c] = IF @ < MaxCount THEN @ + 1 ELSE @]
    /\ UNCHANGED unclear

\* A short answer, no facts, no JSON, or no LLM
ExtractsNothing(r, c) ==
    /\ Goes(r, c)
    /\ unclear' = unclear \cup {c}
    /\ UNCHANGED extracted

LoopDone(r) ==
    /\ libPhase[r] = "extract" /\ pairs[r] = {}
    /\ libPhase' = [libPhase EXCEPT ![r] = "mark"]
    /\ UNCHANGED <<hasColumn, completed, marked, pairs, processed, extracted, unclear, again,
                   stops>>

LibIdle(r) ==
    /\ libPhase' = [libPhase EXCEPT ![r] = "idle"]
    /\ pairs' = [pairs EXCEPT ![r] = {}]
    /\ processed' = [processed EXCEPT ![r] = {}]

\* _mark_processed: without the column the UPDATE fails, silently.
Mark(r) ==
    /\ libPhase[r] = "mark"
    /\ marked' = IF hasColumn THEN marked \cup processed[r] ELSE marked
    /\ LibIdle(r)
    /\ UNCHANGED <<hasColumn, completed, extracted, unclear, again, stops>>

\* The gateway ends, or the UPDATE fails: nothing of the run is marked.
RunStops(r) ==
    /\ libPhase[r] # "idle"
    /\ stops < MaxStops /\ stops' = stops + 1
    /\ again' = again \cup processed[r]
    /\ LibIdle(r)
    /\ UNCHANGED <<hasColumn, completed, marked, extracted, unclear>>

LibAdvance(r) ==
    \/ Fetch(r) \/ LoopDone(r) \/ Mark(r)
    \/ \E c \in Conversations : Extract(r, c) \/ ExtractsNothing(r, c)

LibNext ==
    \/ \E c \in Conversations : Complete(c)
    \/ \E r \in Runs : LibAdvance(r) \/ FallBack(r) \/ RunStops(r)

LibSpec == LibInit /\ [][LibNext]_libVars

-----------------------------------------------------------------------------
(* Properties *)

\* With the column, the knowledge of a conversation is extracted once
\* (docs/architecture.md:288, "marked, so that it is not repeated"), unless two runs had
\* the conversation at the same time, a run ended before it marked it, or the query failed
\* and its substitute found the conversation among the newest although it was marked.
ExtractedOnce ==
    hasColumn => \A c \in Conversations \ again : extracted[c] <= 1

\* With the column, every completed conversation is looked at, also one that is older
\* than a batch.
NoneForgotten ==
    \A c \in Conversations : hasColumn /\ c \in completed ~> extracted[c] > 0 \/ c \in unclear

=============================================================================
