------------------------------ MODULE Retrieval ------------------------------
(***************************************************************************)
(* One retrieval from the knowledge graph: the semantic search gives some  *)
(* nodes, the first of them are expanded along the edges, round by round,  *)
(* summaries are added when little was found, and the result is laid out   *)
(* as text of a limited length.  What matches a query, and the weights,    *)
(* importances and scores that order rows and nodes, are left open: a      *)
(* LIMIT keeps any rows.  The graph does not change meanwhile.             *)
(***************************************************************************)
EXTENDS Naturals, Sequences, FiniteSets

CONSTANTS
    Nodes,
    Summaries,  \* of the entities that the query names
    Types,      \* entity types
    TypeOf,     \* [Nodes \cup Summaries -> Types]
    SizeOf,     \* lengths of the entries, in the unit of MaxChars
    K,          \* how many nodes the semantic search may return
    TopNodes,   \* how many of them are expanded
    Depth,      \* rounds of get_neighbors
    MaxNodes,   \* _GRAPH_EXPAND_LIMIT
    MaxChars,   \* _MAX_CONTEXT_CHARS
    MinSnippet, \* less than this is not worth a cut entry
    Ellipsis    \* what "..." adds to a cut entry

Section == 1    \* the length of a section's header, and of the title

ASSUME RetrievalAssumption ==
    /\ TypeOf \in [Nodes \cup Summaries -> Types]
    /\ SizeOf \in [Nodes \cup Summaries -> Nat]
    /\ IsFiniteSet(Nodes) /\ IsFiniteSet(Summaries)
    /\ K \in Nat /\ TopNodes \in Nat /\ Depth \in Nat
    /\ MaxNodes \in Nat /\ MaxChars \in Nat \ {0} /\ MinSnippet \in Nat /\ Ellipsis \in Nat

VARIABLES
    links,     \* the edges: <<from, to>> |-> whether they lead both ways
    at,        \* where the retrieval is
    collected, \* the nodes found so far, in order
    roots,     \* the nodes to expand
    visited, frontier, results, rounds, \* of the get_neighbors that runs
    cut,       \* a round returned as many rows as its LIMIT
    waiting,   \* the nodes to lay out, best first
    group,     \* the type whose section is being written
    sections,  \* the types that were looked at
    used,      \* used_chars
    chars,     \* the length of the text
    shown      \* the nodes in it

searchVars == <<visited, frontier, results, rounds, cut>>
layoutVars == <<waiting, group, sections, used, chars, shown>>
retrievalVars == <<links, at, collected, roots, searchVars, layoutVars>>

NoType == "no type"
InSeq(s) == {s[n] : n \in DOMAIN s}
Pick(s, n) == IF Len(s) <= n THEN s ELSE SubSeq(s, 1, n)
Orders(set) == {s \in [1..Cardinality(set) -> set] : InSeq(s) = set}

RetrievalTypeOK ==
    /\ at \in {"search", "expand", "round", "layout", "group", "done"}
    /\ collected \in Seq(Nodes) /\ roots \in Seq(Nodes)
    /\ waiting \in Seq(Nodes \cup Summaries) /\ shown \subseteq Nodes \cup Summaries
    /\ \A s \in {visited, frontier, results} : s \subseteq Nodes
    /\ rounds \in 0..Depth /\ cut \in BOOLEAN
    /\ group \in Types \cup {NoType} /\ sections \subseteq Types
    /\ used \in 0..MaxChars /\ chars \in Nat

RetrievalInit ==
    /\ \E e \in SUBSET {p \in Nodes \X Nodes : p[1] # p[2]} : links \in [e -> BOOLEAN]
    /\ at = "search"
    /\ collected = <<>> /\ roots = <<>> /\ waiting = <<>>
    /\ visited = {} /\ frontier = {} /\ results = {} /\ shown = {}
    /\ rounds = 0 /\ cut = FALSE
    /\ group = NoType /\ sections = {} /\ used = Section /\ chars = Section

-----------------------------------------------------------------------------

\* semantic_search: at most k nodes, each once.
Search ==
    /\ at = "search"
    /\ \E set \in {s \in SUBSET Nodes : Cardinality(s) <= K} : collected' \in Orders(set)
    /\ roots' = Pick(collected', TopNodes)
    /\ at' = "expand"
    /\ UNCHANGED <<links, searchVars, layoutVars>>

BeginExpand ==
    /\ at = "expand" /\ roots # <<>>
    /\ visited' = {Head(roots)} /\ frontier' = {Head(roots)}
    /\ results' = {} /\ rounds' = 0 /\ cut' = FALSE
    /\ at' = "round"
    /\ UNCHANGED <<links, collected, roots, layoutVars>>

\* Along an edge, or back along one both ways
Step(a, b) == <<a, b>> \in DOMAIN links \/ (<<b, a>> \in DOMAIN links /\ links[<<b, a>>])

RowsBothWays(set) == \* mutant: every edge is followed both ways
    {row \in Nodes \X Nodes :
        row[1] \in set /\ (row \in DOMAIN links \/ <<row[2], row[1]>> \in DOMAIN links)}
\* The rows of the join: from, to
RowsFrom(set) ==
    {row \in Nodes \X Nodes : row[1] \in set /\ Step(row[1], row[2])}

MoreRounds == rounds < Depth /\ frontier # {} /\ Cardinality(results) < MaxNodes

LimitLeft == MaxNodes - Cardinality(results)

\* One round of get_neighbors: LIMIT counts the rows that lead back, too.
Round ==
    /\ at = "round" /\ MoreRounds
    /\ \E rows \in SUBSET RowsFrom(frontier) :
          /\ Cardinality(rows) <= LimitLeft
          /\ rows = RowsFrom(frontier) \/ Cardinality(rows) = LimitLeft
          /\ LET new == {row[2] : row \in rows} \ visited
             IN /\ frontier' = new
                /\ visited' = visited \cup new
                /\ results' = results \cup new
          /\ cut' = (cut \/ rows # RowsFrom(frontier))
    /\ rounds' = rounds + 1
    /\ UNCHANGED <<links, at, collected, roots, layoutVars>>

\* The new neighbours are collected.
EndExpand ==
    /\ at = "round" /\ ~MoreRounds
    /\ \E s \in Orders(results \ InSeq(collected)) : collected' = collected \o s
    /\ roots' = Tail(roots)
    /\ at' = "expand"
    /\ UNCHANGED <<links, searchVars, layoutVars>>

\* Summaries are added when little was found, and all is sorted; nothing found gives an
\* empty text.  The graph is not read again.
BeginLayout ==
    /\ at = "expand" /\ roots = <<>>
    /\ \E extra \in IF Len(collected) < K \div 2 THEN SUBSET Summaries ELSE {{}} :
          waiting' \in Orders(InSeq(collected) \cup extra)
    /\ at' = IF waiting' = <<>> THEN "done" ELSE "layout"
    /\ links' = <<>>
    /\ UNCHANGED <<collected, roots, searchVars, group, sections, used, chars, shown>>

Left == {n \in DOMAIN waiting : TypeOf[waiting[n]] \notin sections}

HeaderFitsAlways == TRUE \* mutant: the header is not counted before it is written
HeaderFits == used + Section <= MaxChars

\* The section of the next type; without room for its header the text ends.
BeginSection ==
    /\ at = "layout" /\ Left # {}
    /\ IF ~HeaderFits
       THEN /\ at' = "done"
            /\ UNCHANGED <<group, used, chars, sections>>
       ELSE /\ at' = "group"
            /\ group' = TypeOf[waiting[CHOOSE n \in Left : \A m \in Left : n <= m]]
            /\ sections' = sections \cup {group'}
            /\ used' = used + Section
            /\ chars' = chars + Section
    /\ UNCHANGED <<links, collected, roots, searchVars, waiting, shown>>

OfGroup == {n \in DOMAIN waiting : TypeOf[waiting[n]] = group /\ waiting[n] \notin shown}
NextOf == waiting[CHOOSE n \in OfGroup : \A m \in OfGroup : n <= m]

ShowEntry ==
    /\ at = "group" /\ OfGroup # {}
    /\ used + SizeOf[NextOf] <= MaxChars
    /\ used' = used + SizeOf[NextOf]
    /\ chars' = chars + SizeOf[NextOf]
    /\ shown' = shown \cup {NextOf}
    /\ UNCHANGED <<links, at, collected, roots, searchVars, waiting, group, sections>>

\* An entry without room is cut, or left out; it ends its section.  What is left of a cut
\* entry fills the room and "..." is added; used_chars does not count it.
CutEntry ==
    /\ at = "group" /\ OfGroup # {}
    /\ used + SizeOf[NextOf] > MaxChars
    /\ IF MaxChars - used > MinSnippet
       THEN /\ chars' = chars + (MaxChars - used) + Ellipsis
            /\ shown' = shown \cup {NextOf}
       ELSE UNCHANGED <<chars, shown>>
    /\ at' = "layout"
    /\ UNCHANGED <<links, collected, roots, searchVars, waiting, group, sections, used>>

EndSection ==
    /\ at = "group" /\ OfGroup = {}
    /\ at' = "layout"
    /\ UNCHANGED <<links, collected, roots, searchVars, layoutVars>>

EndLayout ==
    /\ at = "layout" /\ Left = {}
    /\ at' = "done"
    /\ UNCHANGED <<links, collected, roots, searchVars, layoutVars>>

RetrievalNext ==
    \/ Search \/ BeginExpand \/ Round \/ EndExpand
    \/ BeginLayout \/ BeginSection \/ ShowEntry \/ CutEntry \/ EndSection \/ EndLayout

RetrievalSpec == RetrievalInit /\ [][RetrievalNext]_retrievalVars

-----------------------------------------------------------------------------
(* Properties *)

\* The nodes within d steps of a node
Ball[d \in Nat] ==
    [n \in Nodes |-> IF d = 0 THEN {n}
                     ELSE Ball[d - 1][n]
                            \cup {b \in Nodes : \E a \in Ball[d - 1][n] : Step(a, b)}]

\* get_neighbors finds nodes within the rounds it made, at most MaxNodes, and all of
\* them when no LIMIT cut a round short.
NeighborsFound ==
    at = "round" =>
        LET near == Ball[rounds][Head(roots)] \ {Head(roots)}
        IN /\ results \subseteq near
           /\ Cardinality(results) <= MaxNodes
           /\ ~cut => results = near

=============================================================================
