----------------------------- MODULE CoevoGraph -----------------------------
(***************************************************************************)
(* What the synchronisation with CoEvo leaves in the knowledge graph, all  *)
(* four sources of one run after the other.  Rows do not have a node each: *)
(* a node is found by its type, entity and title, and the title of a       *)
(* meeting report has the meeting's name only, that of a recommendation    *)
(* nothing but the name of who asked for it.  Rows that share a node       *)
(* replace each other's text.                                              *)
(*                                                                         *)
(* A run that finds no watermark, or cannot read it, starts a month back:  *)
(* it may pass over what is older, or store again what is behind the       *)
(* watermark, an older row over a newer one of the same node.              *)
(*                                                                         *)
(* Runs that overlap are in CoevoSync; rows here change at different       *)
(* seconds, which is its finding.                                          *)
(***************************************************************************)
EXTENDS Naturals, FiniteSets, Sequences, SequencesExt

CONSTANTS
    Reports, Plans, Recommendations, Memories, \* the rows of the four tables
    Person,      \* the user of each row, NoPerson in some memories
    Project,     \* the project of each row
    Name,        \* of the meeting, of the plan, or the type of the memory
    Partners,    \* the partners that a recommendation names
    Relevance,   \* of each memory
    Listed,      \* projects that the preloaded map has: the active ones
    NoPerson,
    BatchLimit,  \* BATCH_LIMIT
    Lookback,    \* DEFAULT_LOOKBACK_DAYS
    LastTime,    \* bound on the clock
    MaxErrors    \* bound on failures

VARIABLES
    clock,
    changed,   \* updated_at of each row, 0 before it exists
    blank,     \* rows without text worth storing
    carried,   \* the change whose text each node holds, 0 if there is no such node
    related,   \* the edges
    mark,      \* the watermark of each source, 0 for none
    stage,     \* the source that the run is at
    names,     \* the projects whose name the run could load
    selected,  \* it has selected the source's rows
    since,     \* those that changed after this
    fetched,   \* those it has not stored yet, in the versions it found
    newest,    \* latest_ts, 0 for None
    missed,    \* history: rows that were too old for a run that had no watermark
    wentBack,  \* history: how far back in each source a run went that has not ended well
    errors

coevoRunVars == <<stage, names, selected, since, fetched, newest>>
historyVars == <<missed, wentBack>>
coevoGraphVars ==
    <<clock, changed, blank, carried, related, mark, coevoRunVars, historyVars, errors>>

CoevoRows == Reports \cup Plans \cup Recommendations \cup Memories
Sources == <<"reports", "plans", "collabs", "memories">>
Seconds == 0..LastTime
Never == LastTime + 1

RowsOf == [reports |-> Reports, plans |-> Plans,
           collabs |-> Recommendations, memories |-> Memories]

ASSUME TablesAssumption ==
    /\ \A s, t \in DOMAIN RowsOf : s # t => RowsOf[s] \cap RowsOf[t] = {}
    /\ LastTime \in Nat /\ MaxErrors \in Nat /\ Lookback \in Nat \ {0}

-----------------------------------------------------------------------------
(* The node of a row, and what it is related to *)

GraphNode(type, entity, title) == [type |-> type, entity |-> entity, title |-> title]

ReportNode(r) == GraphNode("person", Person[r], <<"report", Name[r]>>)
PlanNode(r) == GraphNode("research", r, <<"plan", Name[r], Project[r]>>)
RecommendationNode(r) == GraphNode("person", Person[r], <<"recommendations">>)

AboutPersons == {"per_person_summary", "teacher_feedback"}

MemoryNode(r) ==
    IF Name[r] \in AboutPersons /\ Person[r] # NoPerson
    THEN GraphNode("person", Person[r], <<Name[r], Project[r]>>)
    ELSE GraphNode(IF Name[r] \in AboutPersons THEN "person" ELSE "project",
                   Project[r], <<Name[r]>>)

OwnNode(r) ==
    CASE r \in Reports -> ReportNode(r)
      [] r \in Plans -> PlanNode(r)
      [] r \in Recommendations -> RecommendationNode(r)
      [] OTHER -> MemoryNode(r)

\* A project is known by its name, or by its number when the map does not have it.
ProjectNode(p, named) ==
    GraphNode("project", IF named THEN p ELSE <<"number", p>>, <<"project">>)

PartnerNode(u) == GraphNode("person", u, <<"name">>)

Edge(from, to, relation) == [from |-> from, to |-> to, relation |-> relation]

\* "member_of", "has_research_plan" and "recommended_collaborator"; memories have none.
ReportEdges(r) == {Edge(ReportNode(r), ProjectNode(Project[r], Project[r] \in names), "member_of")}
PlanEdges(r) == {Edge(ProjectNode(Project[r], TRUE), PlanNode(r), "has_research_plan")}
RecommendationEdges(r) ==
    {Edge(RecommendationNode(r), PartnerNode(u), "recommended_collaborator") : u \in Partners[r]}

OwnEdges(r) ==
    CASE r \in Reports -> ReportEdges(r)
      [] r \in Plans -> PlanEdges(r)
      [] r \in Recommendations -> RecommendationEdges(r)
      [] OTHER -> {}

-----------------------------------------------------------------------------

CoevoGraphTypeOK ==
    /\ clock \in 1..(LastTime + 1)
    /\ changed \in [CoevoRows -> Seconds]
    /\ blank \subseteq Reports \cup Memories
    /\ carried \in [{OwnNode(r) : r \in CoevoRows} -> Seconds]
    /\ \A e \in related :
          e.relation \in {"member_of", "has_research_plan", "recommended_collaborator"}
    /\ mark \in [Range(Sources) -> Seconds]
    /\ stage \in 0..Len(Sources)
    /\ names \in {{}, Listed}
    /\ selected \in BOOLEAN
    /\ since \in Seconds
    /\ fetched \subseteq [row : CoevoRows, at : Seconds, blank : BOOLEAN]
    /\ newest \in Seconds
    /\ missed \subseteq CoevoRows
    /\ wentBack \in [Range(Sources) -> 0..Never]
    /\ errors \in 0..MaxErrors

CoevoGraphInit ==
    /\ clock = 1
    /\ changed = [r \in CoevoRows |-> 0]
    /\ blank = {}
    /\ carried = [n \in {OwnNode(r) : r \in CoevoRows} |-> 0]
    /\ related = {}
    /\ mark = [s \in Range(Sources) |-> 0]
    /\ stage = 0
    /\ names = {}
    /\ selected = FALSE
    /\ since = 0
    /\ fetched = {}
    /\ newest = 0
    /\ missed = {}
    /\ wentBack = [s \in Range(Sources) |-> Never]
    /\ errors = 0

\* The platform writes one row in a second.
ChangeRow(r, isBlank) ==
    /\ clock <= LastTime
    /\ isBlank => r \in Reports \cup Memories
    /\ changed' = [changed EXCEPT ![r] = clock]
    /\ blank' = IF isBlank THEN blank \cup {r} ELSE blank \ {r}
    /\ clock' = clock + 1
    /\ missed' = missed \ {r}
    /\ UNCHANGED <<carried, related, mark, coevoRunVars, wentBack, errors>>

\* It expires after 90 days without a run that stored a row, or is deleted by hand.
MarkGone(s) ==
    /\ mark[s] # 0
    /\ mark' = [mark EXCEPT ![s] = 0]
    /\ UNCHANGED <<clock, changed, blank, carried, related, coevoRunVars, historyVars, errors>>

-----------------------------------------------------------------------------
(* A run *)

Error == errors < MaxErrors /\ errors' = errors + 1

\* The user map is loaded as well, and used by nobody.
BeginSync ==
    /\ stage = 0
    /\ stage' = 1
    /\ \/ names' = Listed /\ UNCHANGED errors
       \/ names' = {} /\ Error \* only logged
    /\ UNCHANGED <<clock, changed, blank, carried, related, mark, selected, since, fetched, newest,
                   historyVars>>

Source == Sources[stage]

Fallback == IF clock > Lookback THEN clock - Lookback ELSE 0

\* The watermark, or the last 30 days: without one, and if it cannot be read or parsed.
ReadMark(start) ==
    \/ mark[Source] # 0 /\ start = mark[Source] /\ UNCHANGED errors
    \/ mark[Source] = 0 /\ start = Fallback /\ UNCHANGED errors
    \/ mark[Source] # 0 /\ start = Fallback /\ Error

\* The versions that the SELECT finds
Eligible(start) ==
    {[row |-> r, at |-> changed[r], blank |-> r \in blank] :
        r \in {q \in RowsOf[Source] : changed[q] > start}}

SoonerUnordered(v, u) == v.row \in Memories /\ Relevance[v.row] > Relevance[u.row] \* mutant
\* Memories come by relevance, and by time only if that is equal; all others by time.
Sooner(v, u) ==
    IF v.row \in Memories /\ Relevance[v.row] # Relevance[u.row]
    THEN Relevance[v.row] > Relevance[u.row]
    ELSE v.at < u.at

Select(found, all) ==
    /\ found \subseteq all /\ Cardinality(found) <= BatchLimit
    /\ found = all \/ Cardinality(found) = BatchLimit
    /\ \A v \in found, u \in all \ found : ~Sooner(u, v)

FetchRows ==
    /\ stage # 0 /\ ~selected
    /\ selected' = TRUE
    /\ \E start \in Seconds :
          /\ ReadMark(start)
          /\ since' = start
          /\ \E found \in SUBSET Eligible(start) :
                Select(found, Eligible(start)) /\ fetched' = found
          /\ missed' = missed \cup {r \in RowsOf[Source] : changed[r] \in (mark[Source] + 1)..start}
          /\ wentBack' = IF start < mark[Source] /\ start < wentBack[Source]
                         THEN [wentBack EXCEPT ![Source] = start] ELSE wentBack
    /\ UNCHANGED <<clock, changed, blank, carried, related, mark, stage, names, newest>>

FetchFails ==
    /\ stage # 0 /\ ~selected
    /\ selected' = TRUE
    /\ Error
    /\ UNCHANGED <<clock, changed, blank, carried, related, mark, stage, names, since, fetched,
                   newest, historyVars>>

NextRow(v) == v \in fetched /\ \A u \in fetched : ~Sooner(u, v)

PassOver(v) ==
    /\ NextRow(v) /\ v.blank
    /\ fetched' = fetched \ {v}
    /\ UNCHANGED <<clock, changed, blank, carried, related, mark, stage, names, selected, since,
                   newest, historyVars, errors>>

StoreRow(v) ==
    /\ NextRow(v) /\ ~v.blank
    /\ carried' = [carried EXCEPT ![OwnNode(v.row)] = v.at]
    /\ related' = related \cup OwnEdges(v.row)
    /\ newest' = IF newest < v.at THEN v.at ELSE newest
    /\ fetched' = fetched \ {v}
    /\ UNCHANGED <<clock, changed, blank, mark, stage, names, selected, since, historyVars, errors>>

FailedAfterCounted(v) == v.at \* mutant: the row that failed counts as stored
FailedAfter(v) == newest

\* One of its writes fails: before the node, or between the node and its last edge.
\* The loop over the source's rows ends.
StoreRowFails(v) ==
    /\ NextRow(v) /\ ~v.blank
    /\ \/ UNCHANGED <<carried, related>>
       \/ /\ carried' = [carried EXCEPT ![OwnNode(v.row)] = v.at]
          /\ \E done \in SUBSET OwnEdges(v.row) :
                done # OwnEdges(v.row) /\ related' = related \cup done
    /\ newest' = FailedAfter(v)
    /\ fetched' = {}
    /\ Error
    /\ UNCHANGED <<clock, changed, blank, mark, stage, names, selected, since, historyVars>>

WriteMark ==
    /\ mark' = [mark EXCEPT ![Source] = newest]
    /\ wentBack' = IF since <= wentBack[Source] THEN [wentBack EXCEPT ![Source] = Never]
                   ELSE wentBack
    /\ UNCHANGED errors

\* The watermark, if a row was stored, and on to the next source.  A write of it that
\* fails is only logged.
SourceDone ==
    /\ selected /\ fetched = {}
    /\ IF newest = 0 THEN UNCHANGED <<mark, wentBack, errors>>
       ELSE WriteMark \/ (Error /\ UNCHANGED <<mark, wentBack>>)
    /\ stage' = (stage + 1) % (Len(Sources) + 1)
    /\ selected' = FALSE
    /\ since' = 0 /\ newest' = 0
    /\ UNCHANGED <<clock, changed, blank, carried, related, names, fetched, missed>>

\* The process ends.
SyncStops ==
    /\ stage # 0
    /\ stage' = 0 /\ selected' = FALSE /\ since' = 0 /\ fetched' = {} /\ newest' = 0
    /\ UNCHANGED <<clock, changed, blank, carried, related, mark, names, historyVars, errors>>

CoevoGraphNext ==
    \/ \E r \in CoevoRows, isBlank \in BOOLEAN : ChangeRow(r, isBlank)
    \/ \E s \in Range(Sources) : MarkGone(s)
    \/ BeginSync \/ FetchRows \/ FetchFails \/ SourceDone \/ SyncStops
    \/ \E v \in fetched : PassOver(v) \/ StoreRow(v) \/ StoreRowFails(v)

CoevoGraphSpec == CoevoGraphInit /\ [][CoevoGraphNext]_coevoGraphVars

-----------------------------------------------------------------------------

\* Rows behind the watermark of a source, but those that were too old for a run that
\* had to start without one, until they change again.
Passed(s) == {r \in RowsOf[s] \ (blank \cup missed) : changed[r] \in 1..mark[s]}

\* Of rows that share a node the graph shows the newest, whatever failed in between:
\* no text that the synchronisation has passed is covered by an older one.  A run that
\* could not read the watermark and went back behind it takes that promise away from the
\* rows it reads again, until a run that started there or earlier has written a
\* watermark.  (Memories, which are read by relevance, are not promised it.)
NewestShown ==
    \A s \in Range(Sources) \ {"memories"} : \A r \in Passed(s) :
        changed[r] <= wentBack[s] => carried[OwnNode(r)] >= changed[r]

\* Every row the synchronisation has passed is related to its project and partners, a
\* report to its project's name or, if a run could not load the names, to its number.
RelationsShown ==
    /\ \A r \in Passed("reports") : \E named \in BOOLEAN :
          Edge(ReportNode(r), ProjectNode(Project[r], named), "member_of") \in related
    /\ \A r \in Passed("plans") : PlanEdges(r) \subseteq related
    /\ \A r \in Passed("collabs") : RecommendationEdges(r) \subseteq related

=============================================================================
