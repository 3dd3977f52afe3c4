---------------------------- MODULE KnowledgeStore ----------------------------
(***************************************************************************)
(* The knowledge graph: the tables claw_knowledge_nodes, which has no      *)
(* unique key, and claw_knowledge_edges, which has no foreign key.  Writers*)
(* (POST /nodes, the Librarian, the overflow of the session memory, the    *)
(* CoEvo synchronisation) look a node up and then insert or update it, one *)
(* after the other, and at last add an edge between two of them; DELETE    *)
(* removes a node with its edges.  A node is known by its key, the entity  *)
(* and title that upsert_node looks for; what is stored in it, and         *)
(* touch_node, which counts accesses, are left out.                        *)
(***************************************************************************)
EXTENDS Naturals, Sequences, FiniteSets

CONSTANTS
    Writers,
    Keys,      \* (entity_type, entity_id, title)
    Programs,  \* what a writer upserts: one key, or two and the edge between them
    MaxNode,   \* bound on the ids
    NoKey      \* no row

NodeIds == 1..MaxNode
NoNode == 0

ASSUME ProgramsAssumption ==
    \A p \in Programs : p \in Seq(Keys) /\ Len(p) \in 1..2
ASSUME NoKeyAssumption == NoKey \notin Keys /\ MaxNode \in Nat

VARIABLES
    nodes,     \* the rows: id |-> key
    lastId,    \* AUTO_INCREMENT
    edges,     \* the rows <<from, to>>; unique, for one relation
    step,      \* where each writer is
    pending,   \* the keys it has not upserted yet
    found,     \* the id that it looked up, NoNode for none
    held,      \* the ids that upsert_node returned to it
    raced,     \* history: keys looked up in vain while another writer was inserting them
    orphans    \* history: nodes deleted while a writer held their id

graphVars == <<nodes, lastId, edges>>
writerVars == <<step, pending, found, held>>
storeVars == <<graphVars, writerVars, raced, orphans>>

StoreTypeOK ==
    /\ nodes \in [NodeIds -> Keys \cup {NoKey}]
    /\ lastId \in 0..MaxNode
    /\ edges \subseteq NodeIds \X NodeIds
    /\ step \in [Writers -> {"idle", "select", "write", "link"}]
    /\ pending \in [Writers -> Seq(Keys)]
    /\ found \in [Writers -> NodeIds \cup {NoNode}]
    /\ held \in [Writers -> Seq(NodeIds)]
    /\ raced \subseteq Keys
    /\ orphans \subseteq NodeIds

StoreInit ==
    /\ nodes = [i \in NodeIds |-> NoKey]
    /\ lastId = 0
    /\ edges = {}
    /\ step = [w \in Writers |-> "idle"]
    /\ pending = [w \in Writers |-> <<>>]
    /\ found = [w \in Writers |-> NoNode]
    /\ held = [w \in Writers |-> <<>>]
    /\ raced = {}
    /\ orphans = {}

-----------------------------------------------------------------------------

Rests(w) ==
    /\ step' = [step EXCEPT ![w] = "idle"]
    /\ pending' = [pending EXCEPT ![w] = <<>>]
    /\ found' = [found EXCEPT ![w] = NoNode]
    /\ held' = [held EXCEPT ![w] = <<>>]

StartWrite(w, p) ==
    /\ step[w] = "idle"
    /\ step' = [step EXCEPT ![w] = "select"]
    /\ pending' = [pending EXCEPT ![w] = p]
    /\ UNCHANGED <<graphVars, found, held, raced, orphans>>

MatchesByEntity(k) == {} \* mutant: the SELECT never finds the row
\* The rows of the key, and NoNode if there is none.
Matches(k) == {i \in NodeIds : nodes[i] = k}

Inserting(w, k) == step[w] = "write" /\ found[w] = NoNode /\ Head(pending[w]) = k

\* upsert_node: SELECT ... LIMIT 1
LookUp(w) ==
    /\ step[w] = "select"
    /\ \E i \in IF Matches(Head(pending[w])) = {} THEN {NoNode} ELSE Matches(Head(pending[w])) :
          /\ found' = [found EXCEPT ![w] = i]
          /\ raced' = IF i = NoNode /\ \E v \in Writers : Inserting(v, Head(pending[w]))
                      THEN raced \cup {Head(pending[w])} ELSE raced
    /\ step' = [step EXCEPT ![w] = "write"]
    /\ UNCHANGED <<graphVars, pending, held, orphans>>

\* upsert_node returns i: the writer goes on with its next key, or with the edge.
Returns(w, i) ==
    IF Len(pending[w]) = 1 /\ held[w] = <<>> THEN Rests(w)
    ELSE /\ held' = [held EXCEPT ![w] = Append(@, i)]
         /\ pending' = [pending EXCEPT ![w] = Tail(@)]
         /\ found' = [found EXCEPT ![w] = NoNode]
         /\ step' = [step EXCEPT ![w] =
               IF Len(pending[w]) > 1 THEN "select" ELSE "link"]

\* UPDATE ... WHERE id: it succeeds also when the row is gone.
UpdateNode(w) ==
    /\ step[w] = "write" /\ found[w] # NoNode
    /\ Returns(w, found[w])
    /\ UNCHANGED <<graphVars, raced, orphans>>

InsertNode(w) ==
    /\ step[w] = "write" /\ found[w] = NoNode
    /\ lastId < MaxNode
    /\ lastId' = lastId + 1
    /\ nodes' = [nodes EXCEPT ![lastId'] = Head(pending[w])]
    /\ Returns(w, lastId')
    /\ UNCHANGED <<edges, raced, orphans>>

\* upsert_node raises: the Librarian goes on with the next key, the others give up.
UpsertFails(w) ==
    /\ step[w] \in {"select", "write"}
    /\ \/ /\ Len(pending[w]) > 1
          /\ pending' = [pending EXCEPT ![w] = Tail(@)]
          /\ step' = [step EXCEPT ![w] = "select"]
          /\ found' = [found EXCEPT ![w] = NoNode]
          /\ UNCHANGED held
       \/ Rests(w)
    /\ UNCHANGED <<graphVars, raced, orphans>>

\* add_edge: INSERT ... ON DUPLICATE KEY UPDATE; the ends are not looked at.
AddEdge(w) ==
    /\ step[w] = "link"
    /\ edges' = edges \cup {<<held[w][1], held[w][2]>>}
    /\ Rests(w)
    /\ UNCHANGED <<nodes, lastId, raced, orphans>>

\* The process ends, or add_edge fails.
WriterEnds(w) ==
    /\ step[w] \in {"write", "link"}
    /\ Rests(w)
    /\ UNCHANGED <<graphVars, raced, orphans>>

EdgesFrom(i) == {e \in edges : e[1] = i} \* mutant: only the edges that start there
EdgesOf(i) == {e \in edges : i \in {e[1], e[2]}}

Holds(w, i) == found[w] = i \/ \E n \in DOMAIN held[w] : held[w][n] = i

\* delete_node: the node and its edges in one transaction.
DeleteNode(i) ==
    /\ nodes[i] # NoKey
    /\ nodes' = [nodes EXCEPT ![i] = NoKey]
    /\ edges' = edges \ EdgesOf(i)
    /\ orphans' = IF \E w \in Writers : Holds(w, i) THEN orphans \cup {i} ELSE orphans
    /\ UNCHANGED <<lastId, writerVars, raced>>

StoreNext ==
    \/ \E w \in Writers :
          \/ \E p \in Programs : StartWrite(w, p)
          \/ LookUp(w) \/ UpdateNode(w) \/ InsertNode(w) \/ UpsertFails(w)
          \/ AddEdge(w) \/ WriterEnds(w)
    \/ \E i \in NodeIds : DeleteNode(i)

StoreSpec == StoreInit /\ [][StoreNext]_storeVars

-----------------------------------------------------------------------------
(* Properties *)

\* One node per entity and title (store.py:7, "updated, not inserted again"), as long as
\* no two writers looked for it in vain at the same time: a failure half-way, an update
\* of a row that is gone, or a deletion between two upserts makes no second node.
OneNodePerKey ==
    \A i, j \in NodeIds :
        nodes[i] = nodes[j] /\ nodes[i] \in Keys \ raced => i = j

\* An edge leads to nodes that exist; only a node deleted under the hands of a writer that
\* had its id may be missing.
EdgesHaveEnds ==
    \A e \in edges : \A i \in {e[1], e[2]} : nodes[i] # NoKey \/ i \in orphans

\* Seen by readers: nodes keep their keys, ids are not used again, edges go with their
\* ends, and what a writer does that fails half-way, or too late, changes nothing else.
Keyed == INSTANCE KeyedGraph WITH
    Ids <- NodeIds, keyOf <- nodes, newest <- lastId, links <- edges, doubled <- raced,
    severed <- orphans
ImplementsKeyed == Keyed!Spec

=============================================================================
