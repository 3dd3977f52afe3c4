----------------------------- MODULE KeyedGraph -----------------------------
(***************************************************************************)
(* What the knowledge store promises to those who read it: nodes that keep *)
(* their key and their id for life, a second node of a key only when two   *)
(* writers add it together, and edges that go when one of their ends goes. *)
(***************************************************************************)
EXTENDS Naturals

CONSTANTS
    Ids,
    Keys,
    NoKey     \* no node

VARIABLES
    keyOf,    \* the key of each node
    newest,   \* the last id that was given out
    links,    \* the edges
    doubled,  \* keys that may have several nodes
    severed   \* nodes that edges may lead to although they are gone

vars == <<keyOf, newest, links, doubled, severed>>

Init ==
    /\ keyOf = [i \in Ids |-> NoKey]
    /\ newest = 0
    /\ links = {}
    /\ doubled = {}
    /\ severed = {}

Reachable(i) == keyOf[i] # NoKey \/ i \in severed

\* A key that has no node gets one, under an id that no node ever had.
Add(k) ==
    /\ k \in doubled \/ \A i \in Ids : keyOf[i] # k
    /\ newest + 1 \in Ids /\ newest' = newest + 1
    /\ keyOf' = [keyOf EXCEPT ![newest'] = k]
    /\ UNCHANGED <<links, doubled, severed>>

Link(i, j) ==
    /\ Reachable(i) /\ Reachable(j)
    /\ links' = links \cup {<<i, j>>}
    /\ UNCHANGED <<keyOf, newest, doubled, severed>>

\* Somebody may hold the id of a node that is removed.
Remove(i) ==
    /\ keyOf[i] # NoKey
    /\ keyOf' = [keyOf EXCEPT ![i] = NoKey]
    /\ links' = {e \in links : e[1] # i /\ e[2] # i}
    /\ severed' \in {severed, severed \cup {i}}
    /\ UNCHANGED <<newest, doubled>>

\* Two writers have found that the key has no node.
Collide(k) == doubled' = doubled \cup {k} /\ UNCHANGED <<keyOf, newest, links, severed>>

Next ==
    \/ \E k \in Keys : Add(k) \/ Collide(k)
    \/ \E i, j \in Ids : Link(i, j)
    \/ \E i \in Ids : Remove(i)

Spec == Init /\ [][Next]_vars

=============================================================================
