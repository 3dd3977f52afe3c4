--------------------------- MODULE KnowledgeProofs ---------------------------
(***************************************************************************)
(* Proofs about what is known: that the knowledge graph has one node of a  *)
(* key and no edge without its ends, that what a session has pinned is     *)
(* kept, that the newest version of a CoEvo row is shown with its          *)
(* relations, what a search along the edges finds, and who is found under  *)
(* a name that was confirmed, for any keys, processes, graphs, names and   *)
(* bounds.                                                                 *)
(***************************************************************************)
EXTENDS KnowledgeStore, SessionMemory, CoevoGraph, Retrieval, AgentAnswers,
        FiniteSetTheorems, TLAPS

-----------------------------------------------------------------------------
(* Induction over the naturals, for sets, and what that gives of a         *)
(* function which is defined by recursion.                                 *)

LEMMA LeastOf ==
    ASSUME NEW T, T \subseteq Nat, T # {}
    PROVE  \E x \in T : \A y \in T : x <= y
<1> DEFINE R == OpToRel(<, Nat)
<1>1. IsWellFoundedOn(R, Nat)
  BY NatLessThanWellFounded, Zenon
<1>2. PICK x \in T : \A y \in T : ~(<<y, x>> \in R)
  <2> HIDE DEF R
  <2> QED
    BY <1>1, WFMin, Zenon
<1>3. ASSUME NEW y \in T, y < x PROVE FALSE
  BY <1>2, <1>3, Zenon DEF OpToRel
<1> HIDE DEF R
<1>4. \A y \in T : x <= y
  BY <1>3
<1> QED
  BY <1>4

LEMMA SetInduction ==
    ASSUME NEW S, 0 \in S, \A n \in Nat : n \in S => n + 1 \in S
    PROVE  Nat \subseteq S
<1> SUFFICES ASSUME Nat \ S # {} PROVE FALSE
  OBVIOUS
<1>1. PICK x \in Nat \ S : \A y \in Nat \ S : x <= y
  BY LeastOf
<1>2. x # 0 /\ x - 1 \in Nat /\ x - 1 \in S
  BY <1>1
<1> QED
  BY <1>1, <1>2

\* The first place of a nonempty set of places.
LEMMA FirstPlace ==
    ASSUME NEW P, P \subseteq Nat, P # {}
    PROVE  (CHOOSE n \in P : \A m \in P : n <= m) \in P
<1>1. \E n \in P : \A m \in P : n <= m
  BY LeastOf
<1> QED
  BY <1>1, Zenon

-----------------------------------------------------------------------------
(* The knowledge graph.  A writer that is about to insert a key that is    *)
(* not in `raced' is the only one, and no row has the key; the ids that a  *)
(* writer holds are of rows that exist, or were deleted meanwhile.         *)

\* How far the program of a writer is: pending and held keys
Place(w) ==
    /\ step[w] \in {"select", "write"} =>
          \/ Len(pending[w]) \in {1, 2} /\ Len(held[w]) = 0
          \/ Len(pending[w]) = 1 /\ Len(held[w]) = 1
    /\ step[w] = "link" => Len(held[w]) = 2
    /\ step[w] \in {"idle", "select"} => found[w] = NoNode
    /\ step[w] = "idle" => held[w] = <<>>

ProgramsKept == \A w \in Writers : Place(w)

RowStored(i) == nodes[i] # NoKey \/ i \in orphans
StoredThen(i) == nodes'[i] # NoKey \/ i \in orphans'

HeldStored ==
    \A w \in Writers :
        /\ found[w] # NoNode => RowStored(found[w])
        /\ \A n \in DOMAIN held[w] : RowStored(held[w][n])

NewKeyAlone ==
    \A w \in Writers : \A k \in Keys \ raced :
        Inserting(w, k) =>
            /\ \A i \in NodeIds : nodes[i] # k
            /\ \A v \in Writers : Inserting(v, k) => v = w

StoreInv ==
    /\ StoreTypeOK /\ ProgramsKept /\ HeldStored /\ NewKeyAlone
    /\ OneNodePerKey /\ EdgesHaveEnds

\* The state of the writers is used through these facts only.
LEMMA WriterFacts ==
    ASSUME StoreInv, NEW w \in Writers
    PROVE  /\ pending[w] \in Seq(Keys) /\ held[w] \in Seq(NodeIds)
           /\ found[w] \in NodeIds \cup {NoNode}
           /\ step[w] \in {"select", "write"} =>
                 /\ Len(pending[w]) >= 1 /\ Head(pending[w]) \in Keys
                 /\ Tail(pending[w]) \in Seq(Keys)
                 /\ Len(Tail(pending[w])) = Len(pending[w]) - 1
                 /\ Head(pending[w]) # NoKey
<1>1. /\ pending[w] \in Seq(Keys) /\ held[w] \in Seq(NodeIds)
      /\ found[w] \in NodeIds \cup {NoNode}
  BY DEF StoreInv, StoreTypeOK
<1>2. ASSUME step[w] \in {"select", "write"}
      PROVE  Len(pending[w]) >= 1
  <2>1. Place(w)
    BY DEF StoreInv, ProgramsKept
  <2> QED
    BY <1>2, <2>1 DEF Place
<1>3. ASSUME step[w] \in {"select", "write"}
      PROVE  /\ Head(pending[w]) \in Keys
             /\ Tail(pending[w]) \in Seq(Keys)
             /\ Len(Tail(pending[w])) = Len(pending[w]) - 1
  <2>1. pending[w] # <<>>
    BY <1>1, <1>2, <1>3
  <2> QED
    BY <1>1, <2>1
<1> QED
  BY <1>1, <1>2, <1>3, NoKeyAssumption

\* The writer is where it was, or goes on.
WriterTypes ==
    /\ step \in [Writers -> {"idle", "select", "write", "link"}]
    /\ pending \in [Writers -> Seq(Keys)]
    /\ found \in [Writers -> NodeIds \cup {NoNode}]
    /\ held \in [Writers -> Seq(NodeIds)]

\* What Rests and Returns leave of one writer: the others stay, and it inserts nothing.
LEMMA RestsKeeps ==
    ASSUME StoreInv, NEW w \in Writers, Rests(w)
    PROVE  /\ WriterTypes' /\ ProgramsKept'
           /\ step'[w] = "idle" /\ found'[w] = NoNode /\ held'[w] = <<>>
           /\ \A v \in Writers \ {w} :
                 /\ step'[v] = step[v] /\ pending'[v] = pending[v]
                 /\ found'[v] = found[v] /\ held'[v] = held[v]
<1>1. WriterTypes
  BY DEF StoreInv, StoreTypeOK, WriterTypes
<1>2. WriterTypes'
  BY <1>1 DEF Rests, WriterTypes
<1>3. /\ step'[w] = "idle" /\ found'[w] = NoNode /\ held'[w] = <<>>
      /\ \A v \in Writers \ {w} :
            /\ step'[v] = step[v] /\ pending'[v] = pending[v]
            /\ found'[v] = found[v] /\ held'[v] = held[v]
  BY <1>1 DEF Rests, WriterTypes
<1>4. ProgramsKept'
  BY <1>3 DEF StoreInv, ProgramsKept, Place
<1> QED
  BY <1>2, <1>3, <1>4

LEMMA ReturnsKeeps ==
    ASSUME StoreInv, NEW w \in Writers, NEW i \in NodeIds, step[w] = "write", Returns(w, i)
    PROVE  /\ WriterTypes' /\ ProgramsKept'
           /\ step'[w] # "write" /\ found'[w] = NoNode
           /\ \A n \in DOMAIN held'[w] :
                 held'[w][n] = i \/ \E m \in DOMAIN held[w] : held'[w][n] = held[w][m]
           /\ \A v \in Writers \ {w} :
                 /\ step'[v] = step[v] /\ pending'[v] = pending[v]
                 /\ found'[v] = found[v] /\ held'[v] = held[v]
<1>1. CASE Len(pending[w]) = 1 /\ held[w] = <<>>
  <2>1. Rests(w)
    BY <1>1 DEF Returns
  <2> QED
    BY <2>1, RestsKeeps
<1>2. CASE ~(Len(pending[w]) = 1 /\ held[w] = <<>>)
  <2>1. /\ held' = [held EXCEPT ![w] = Append(@, i)]
        /\ pending' = [pending EXCEPT ![w] = Tail(@)]
        /\ found' = [found EXCEPT ![w] = NoNode]
        /\ step' = [step EXCEPT ![w] = IF Len(pending[w]) > 1 THEN "select" ELSE "link"]
    BY <1>2 DEF Returns
  <2>2. WriterTypes
    BY DEF StoreInv, StoreTypeOK, WriterTypes
  <2>3. /\ held'[w] = Append(held[w], i) /\ pending'[w] = Tail(pending[w])
        /\ found'[w] = NoNode
        /\ step'[w] = IF Len(pending[w]) > 1 THEN "select" ELSE "link"
        /\ \A v \in Writers \ {w} :
              /\ step'[v] = step[v] /\ pending'[v] = pending[v]
              /\ found'[v] = found[v] /\ held'[v] = held[v]
    BY <2>1, <2>2 DEF WriterTypes
  <2>4. /\ Append(held[w], i) \in Seq(NodeIds)
        /\ Len(Append(held[w], i)) = Len(held[w]) + 1
        /\ \A n \in DOMAIN Append(held[w], i) :
              Append(held[w], i)[n] = i
              \/ \E m \in DOMAIN held[w] : Append(held[w], i)[n] = held[w][m]
    <3>1. held[w] \in Seq(NodeIds)
      BY WriterFacts
    <3> QED
      BY <3>1
  <2>5. /\ Tail(pending[w]) \in Seq(Keys)
        /\ Len(Tail(pending[w])) = Len(pending[w]) - 1
    BY WriterFacts
  <2>6. WriterTypes'
    BY <2>1, <2>2, <2>4, <2>5 DEF WriterTypes
  <2>7. \/ Len(pending[w]) = 2 /\ Len(held[w]) = 0
        \/ Len(pending[w]) = 1 /\ Len(held[w]) = 1
    <3>1. held[w] \in Seq(NodeIds)
      BY WriterFacts
    <3>2. Place(w)
      BY DEF StoreInv, ProgramsKept
    <3>3. \/ Len(pending[w]) \in {1, 2} /\ Len(held[w]) = 0
          \/ Len(pending[w]) = 1 /\ Len(held[w]) = 1
      BY <3>2 DEF Place
    <3>4. Len(held[w]) = 0 => held[w] = <<>>
      BY <3>1
    <3>5. CASE Len(held[w]) = 0
      <4>1. Len(pending[w]) # 1
        BY <1>2, <3>4, <3>5
      <4>2. Len(pending[w]) = 1 \/ Len(pending[w]) = 2
        BY <3>3
      <4> QED
        BY <3>5, <4>1, <4>2
    <3>6. CASE Len(held[w]) # 0
      BY <3>3, <3>6
    <3> QED
      BY <3>5, <3>6
  <2>8. Place(w)'
    <3>1. Len(held'[w]) = Len(held[w]) + 1 /\ Len(pending'[w]) = Len(pending[w]) - 1
      BY <2>3, <2>4, <2>5
    <3>2. CASE Len(pending[w]) = 2 /\ Len(held[w]) = 0
      <4>1. step'[w] = "select" /\ Len(pending'[w]) = 1 /\ Len(held'[w]) = 1
        BY <2>3, <3>1, <3>2
      <4> QED
        BY <2>3, <4>1 DEF Place
    <3>3. CASE Len(pending[w]) = 1 /\ Len(held[w]) = 1
      <4>1. step'[w] = "link" /\ Len(held'[w]) = 2
        BY <2>3, <3>1, <3>3
      <4> QED
        BY <2>3, <4>1 DEF Place
    <3> QED
      BY <2>7, <3>2, <3>3
  <2>9. ProgramsKept'
    BY ZenonT(60), <2>3, <2>8 DEF StoreInv, ProgramsKept, Place
  <2> QED
    BY <2>3, <2>4, <2>6, <2>9
<1> QED
  BY <1>1, <1>2

LEMMA StoreInvInit == StoreInit => StoreInv
<1> SUFFICES ASSUME StoreInit
             PROVE  StoreInv
  OBVIOUS
<1>1. StoreTypeOK
  BY NoKeyAssumption DEF StoreInit, StoreTypeOK
<1>2. ProgramsKept /\ HeldStored
  BY DEF StoreInit, ProgramsKept, Place, HeldStored
<1>3. NewKeyAlone /\ OneNodePerKey /\ EdgesHaveEnds
  BY NoKeyAssumption DEF StoreInit, NewKeyAlone, Inserting, OneNodePerKey, EdgesHaveEnds
<1> QED
  BY <1>1, <1>2, <1>3 DEF StoreInv

\* A step of one writer that changes no row and no history, leaves the others, and after
\* which it inserts nothing it did not insert before, keeps what is said of the rows.
LEMMA StoreSame ==
    ASSUME StoreInv, NEW w \in Writers,
           UNCHANGED <<nodes, raced, orphans>>,
           \A v \in Writers \ {w} :
              /\ step'[v] = step[v] /\ pending'[v] = pending[v]
              /\ found'[v] = found[v] /\ held'[v] = held[v],
           step'[w] # "write",
           found'[w] # NoNode => found'[w] = found[w],
           \A n \in DOMAIN held'[w] : RowStored(held'[w][n])
    PROVE  HeldStored' /\ NewKeyAlone' /\ OneNodePerKey'
<1>1. HeldStored /\ NewKeyAlone /\ OneNodePerKey
  BY DEF StoreInv
<1>2. HeldStored'
  BY <1>1 DEF HeldStored, RowStored
<1>3. \A v \in Writers, k \in Keys : Inserting(v, k)' => v # w /\ Inserting(v, k)
  BY DEF Inserting
<1>4. NewKeyAlone'
  BY <1>1, <1>3 DEF NewKeyAlone
<1>5. OneNodePerKey'
  BY <1>1 DEF OneNodePerKey
<1> QED
  BY <1>2, <1>4, <1>5

LEMMA RestsInv ==
    ASSUME StoreInv, NEW w \in Writers, Rests(w), UNCHANGED <<graphVars, raced, orphans>>
    PROVE  StoreInv'
<1>1. StoreTypeOK'
  BY RestsKeeps DEF StoreInv, StoreTypeOK, WriterTypes, graphVars
<1>2. HeldStored' /\ NewKeyAlone' /\ OneNodePerKey'
  BY RestsKeeps, StoreSame DEF graphVars
<1>3. EdgesHaveEnds'
  BY DEF StoreInv, EdgesHaveEnds, graphVars
<1> QED
  BY <1>1, <1>2, <1>3, RestsKeeps DEF StoreInv

LEMMA StartInv ==
    ASSUME StoreInv, NEW w \in Writers, NEW p \in Programs, StartWrite(w, p)
    PROVE  StoreInv'
<1>1. /\ step[w] = "idle" /\ p \in Seq(Keys) /\ Len(p) \in {1, 2}
      /\ held[w] = <<>> /\ found[w] = NoNode
  BY ProgramsAssumption DEF StartWrite, StoreInv, ProgramsKept, Place
<1>2. /\ step' = [step EXCEPT ![w] = "select"]
      /\ pending' = [pending EXCEPT ![w] = p]
      /\ UNCHANGED <<graphVars, found, held, raced, orphans>>
  BY DEF StartWrite
<1>3. StoreTypeOK'
  BY <1>1, <1>2 DEF StoreInv, StoreTypeOK, graphVars
<1>4. /\ step'[w] = "select" /\ pending'[w] = p
      /\ \A v \in Writers \ {w} : step'[v] = step[v] /\ pending'[v] = pending[v]
  BY <1>2 DEF StoreInv, StoreTypeOK
<1>5. ProgramsKept'
  BY <1>1, <1>2, <1>4 DEF StoreInv, ProgramsKept, Place
<1>6. \A n \in DOMAIN held'[w] : RowStored(held'[w][n])
  BY <1>1, <1>2
<1>7. HeldStored' /\ NewKeyAlone' /\ OneNodePerKey'
  BY <1>1, <1>2, <1>4, <1>6, StoreSame DEF graphVars
<1>8. EdgesHaveEnds'
  BY <1>2 DEF StoreInv, EdgesHaveEnds, graphVars
<1> QED
  BY <1>3, <1>5, <1>7, <1>8 DEF StoreInv

\* A writer that looks a key up finds a row of it, or there is none; if another one is
\* about to insert it, `raced' notes it.
LEMMA LookUpInv ==
    ASSUME StoreInv, NEW w \in Writers, LookUp(w)
    PROVE  StoreInv'
<1> DEFINE k == Head(pending[w])
<1>1. PICK i \in IF Matches(k) = {} THEN {NoNode} ELSE Matches(k) :
         /\ found' = [found EXCEPT ![w] = i]
         /\ raced' = IF i = NoNode /\ \E v \in Writers : Inserting(v, k)
                     THEN raced \cup {k} ELSE raced
  BY DEF LookUp
<1>2. /\ step[w] = "select" /\ step' = [step EXCEPT ![w] = "write"]
      /\ UNCHANGED <<graphVars, pending, held, orphans>>
  BY DEF LookUp
<1>3. k \in Keys /\ k # NoKey
  BY <1>2, WriterFacts
<1>4. \/ i = NoNode /\ \A n \in NodeIds : nodes[n] # k
      \/ i \in NodeIds /\ i # NoNode /\ nodes[i] = k
  BY DEF Matches, NodeIds, NoNode
<1>5. StoreTypeOK'
  BY <1>1, <1>2, <1>3, <1>4 DEF StoreInv, StoreTypeOK, graphVars
<1>6. /\ step'[w] = "write" /\ found'[w] = i
      /\ \A v \in Writers \ {w} : step'[v] = step[v] /\ found'[v] = found[v]
  BY <1>1, <1>2 DEF StoreInv, StoreTypeOK
<1>7. ProgramsKept'
  <2>1. \A v \in Writers : Place(v)
    BY DEF StoreInv, ProgramsKept
  <2>2. Place(w)'
    BY <1>2, <1>6, <2>1 DEF Place
  <2>3. \A v \in Writers \ {w} : Place(v)'
    BY <1>2, <1>6, <2>1 DEF Place
  <2> QED
    BY <2>2, <2>3 DEF ProgramsKept
<1>8. HeldStored'
  <2>1. HeldStored
    BY DEF StoreInv
  <2> QED
    BY <1>2, <1>3, <1>4, <1>6, <2>1 DEF HeldStored, RowStored, graphVars
<1>9. NewKeyAlone'
  <2> SUFFICES ASSUME NEW v \in Writers, NEW l \in Keys \ raced', Inserting(v, l)'
               PROVE  /\ \A n \in NodeIds : nodes'[n] # l
                      /\ \A u \in Writers : Inserting(u, l)' => u = v
    BY DEF NewKeyAlone
  <2>0. /\ NewKeyAlone /\ nodes' = nodes /\ l \in Keys \ raced
        /\ \A u \in Writers \ {w} : Inserting(u, l)' => Inserting(u, l)
        /\ Inserting(w, l)' => i = NoNode /\ l = k
    BY <1>1, <1>2, <1>6 DEF StoreInv, graphVars, Inserting
  <2>1. CASE Inserting(w, l)'
    <3>1. \A u \in Writers : ~Inserting(u, k)
      BY <1>1, <2>0, <2>1
    <3> QED
      BY <1>4, <2>0, <2>1, <3>1
  <2>2. CASE ~Inserting(w, l)'
    BY <2>0, <2>2 DEF NewKeyAlone
  <2> QED
    BY <2>1, <2>2
<1>10. OneNodePerKey' /\ EdgesHaveEnds'
  BY <1>1, <1>2 DEF StoreInv, OneNodePerKey, EdgesHaveEnds, graphVars
<1> QED
  BY <1>5, <1>7, <1>8, <1>9, <1>10 DEF StoreInv

LEMMA UpdateInv ==
    ASSUME StoreInv, NEW w \in Writers, UpdateNode(w)
    PROVE  StoreInv'
<1> DEFINE i == found[w]
<1>1. /\ step[w] = "write" /\ Returns(w, i)
      /\ UNCHANGED <<nodes, lastId, edges, raced, orphans>>
  BY DEF UpdateNode, graphVars
<1>2. i \in NodeIds /\ i # NoNode
  BY WriterFacts DEF UpdateNode
<1> HIDE DEF i
<1>3. /\ WriterTypes' /\ ProgramsKept'
      /\ step'[w] # "write" /\ found'[w] = NoNode
      /\ \A n \in DOMAIN held'[w] :
            held'[w][n] = i \/ \E m \in DOMAIN held[w] : held'[w][n] = held[w][m]
      /\ \A v \in Writers \ {w} :
            /\ step'[v] = step[v] /\ pending'[v] = pending[v]
            /\ found'[v] = found[v] /\ held'[v] = held[v]
  BY <1>1, <1>2, ReturnsKeeps
<1>4. StoreTypeOK'
  BY <1>1, <1>3 DEF StoreInv, StoreTypeOK, WriterTypes
<1>5. RowStored(i) /\ \A m \in DOMAIN held[w] : RowStored(held[w][m])
  BY <1>2 DEF StoreInv, HeldStored, i
<1>6. \A n \in DOMAIN held'[w] : RowStored(held'[w][n])
  BY <1>3, <1>5
<1>7. HeldStored' /\ NewKeyAlone' /\ OneNodePerKey'
  BY <1>1, <1>3, <1>6, StoreSame
<1>8. EdgesHaveEnds'
  BY <1>1 DEF StoreInv, EdgesHaveEnds
<1> QED
  BY <1>3, <1>4, <1>7, <1>8 DEF StoreInv

LEMMA InsertInv ==
    ASSUME StoreInv, NEW w \in Writers, InsertNode(w)
    PROVE  StoreInv'
<1> DEFINE i == lastId + 1
           k == Head(pending[w])
<1>1. /\ step[w] = "write" /\ found[w] = NoNode
      /\ lastId' = i /\ Returns(w, i)
      /\ nodes' = [nodes EXCEPT ![i] = k]
      /\ UNCHANGED <<edges, raced, orphans>>
  BY DEF InsertNode
<1>2. i \in NodeIds /\ i \in 0..MaxNode
  BY NoKeyAssumption DEF InsertNode, StoreInv, StoreTypeOK, NodeIds
<1>3. k \in Keys /\ k # NoKey /\ Inserting(w, k)
  BY <1>1, WriterFacts DEF Inserting
<1> HIDE DEF i, k
<1>4. /\ WriterTypes' /\ ProgramsKept'
      /\ step'[w] # "write" /\ found'[w] = NoNode
      /\ \A n \in DOMAIN held'[w] :
            held'[w][n] = i \/ \E m \in DOMAIN held[w] : held'[w][n] = held[w][m]
      /\ \A v \in Writers \ {w} :
            /\ step'[v] = step[v] /\ pending'[v] = pending[v]
            /\ found'[v] = found[v] /\ held'[v] = held[v]
  BY <1>1, <1>2, ReturnsKeeps
<1>5. /\ nodes'[i] = k
      /\ \A n \in NodeIds \ {i} : nodes'[n] = nodes[n]
      /\ nodes' \in [NodeIds -> Keys \cup {NoKey}]
  BY <1>1, <1>2, <1>3 DEF StoreInv, StoreTypeOK
<1>6. StoreTypeOK'
  BY <1>1, <1>2, <1>4, <1>5 DEF StoreInv, StoreTypeOK, WriterTypes
<1>7. \A n \in NodeIds : RowStored(n) => StoredThen(n)
  BY <1>1, <1>3, <1>5 DEF RowStored, StoredThen
<1>8. StoredThen(i)
  BY <1>3, <1>5 DEF StoredThen
<1>9. HeldStored'
  <2>1. \A v \in Writers : /\ found[v] # NoNode => found[v] \in NodeIds /\ RowStored(found[v])
                           /\ \A n \in DOMAIN held[v] :
                                 held[v][n] \in NodeIds /\ RowStored(held[v][n])
    <3> SUFFICES ASSUME NEW v \in Writers
                 PROVE  /\ found[v] # NoNode => found[v] \in NodeIds /\ RowStored(found[v])
                        /\ \A n \in DOMAIN held[v] : held[v][n] \in NodeIds /\ RowStored(held[v][n])
      OBVIOUS
    <3>1. held[v] \in Seq(NodeIds) /\ found[v] \in NodeIds \cup {NoNode}
      BY WriterFacts
    <3> QED
      BY <3>1 DEF StoreInv, HeldStored
  <2>2. ASSUME NEW v \in Writers \ {w}
        PROVE  /\ found'[v] # NoNode => StoredThen(found'[v])
               /\ \A n \in DOMAIN held'[v] : StoredThen(held'[v][n])
    BY <1>4, <1>7, <2>1
  <2>3. /\ found'[w] = NoNode
        /\ \A n \in DOMAIN held'[w] : StoredThen(held'[w][n])
    BY <1>4, <1>7, <1>8, <2>1
  <2> QED
    BY <2>2, <2>3 DEF HeldStored, RowStored, StoredThen
<1>10. ASSUME k \notin raced
       PROVE  /\ \A n \in NodeIds : nodes[n] # k
              /\ \A v \in Writers \ {w} : ~Inserting(v, k)
  BY <1>3, <1>10 DEF StoreInv, NewKeyAlone
<1>11. NewKeyAlone'
  <2> SUFFICES ASSUME NEW v \in Writers, NEW l \in Keys \ raced', Inserting(v, l)'
               PROVE  /\ \A n \in NodeIds : nodes'[n] # l
                      /\ \A u \in Writers : Inserting(u, l)' => u = v
    BY DEF NewKeyAlone
  <2>1. \A u \in Writers : Inserting(u, l)' => u # w /\ Inserting(u, l)
    BY <1>4 DEF Inserting
  <2>2. l # k
    BY <1>1, <1>10, <2>1
  <2>3. /\ \A n \in NodeIds : nodes[n] # l
        /\ \A u \in Writers : Inserting(u, l) => u = v
    BY <1>1, <2>1 DEF StoreInv, NewKeyAlone
  <2> QED
    BY <1>5, <2>1, <2>2, <2>3
<1>12. OneNodePerKey'
  BY <1>1, <1>2, <1>5, <1>10 DEF StoreInv, OneNodePerKey
<1>13. EdgesHaveEnds'
  BY <1>1, <1>3, <1>5 DEF StoreInv, StoreTypeOK, EdgesHaveEnds
<1> QED
  BY <1>4, <1>6, <1>9, <1>11, <1>12, <1>13 DEF StoreInv

LEMMA FailsInv ==
    ASSUME StoreInv, NEW w \in Writers, UpsertFails(w)
    PROVE  StoreInv'
<1>1. step[w] \in {"select", "write"} /\ UNCHANGED <<graphVars, raced, orphans>>
  BY DEF UpsertFails
<1>2. CASE Rests(w)
  BY <1>1, <1>2, RestsInv
<1>3. CASE /\ Len(pending[w]) > 1
           /\ pending' = [pending EXCEPT ![w] = Tail(@)]
           /\ step' = [step EXCEPT ![w] = "select"]
           /\ found' = [found EXCEPT ![w] = NoNode]
           /\ UNCHANGED held
  <2>1. /\ Tail(pending[w]) \in Seq(Keys)
        /\ Len(Tail(pending[w])) = Len(pending[w]) - 1
    BY <1>1, WriterFacts
  <2>2. StoreTypeOK'
    BY <1>1, <1>3, <2>1 DEF StoreInv, StoreTypeOK, graphVars
  <2>3. /\ step'[w] = "select" /\ pending'[w] = Tail(pending[w])
        /\ found'[w] = NoNode /\ held'[w] = held[w]
        /\ \A v \in Writers \ {w} :
              /\ step'[v] = step[v] /\ pending'[v] = pending[v]
              /\ found'[v] = found[v] /\ held'[v] = held[v]
    BY <1>3 DEF StoreInv, StoreTypeOK
  <2>4. Len(pending[w]) = 2 /\ Len(held[w]) = 0
    <3>1. Place(w)
      BY DEF StoreInv, ProgramsKept
    <3>2. \/ Len(pending[w]) \in {1, 2} /\ Len(held[w]) = 0
          \/ Len(pending[w]) = 1 /\ Len(held[w]) = 1
      BY <1>1, <3>1 DEF Place
    <3>3. Len(pending[w]) # 1
      <4>1. Len(pending[w]) > 1
        BY <1>3
      <4>2. Len(pending[w]) \in Nat
        BY WriterFacts
      <4>3. \A n \in Nat : n > 1 => n # 1
        OBVIOUS
      <4> QED
        BY <4>1, <4>2, <4>3, Zenon
    <3>4. Len(pending[w]) \in {1, 2} /\ Len(held[w]) = 0
      BY <3>2, <3>3, Zenon
    <3>5. Len(pending[w]) = 1 \/ Len(pending[w]) = 2
      BY <3>4
    <3> QED
      BY <3>3, <3>4, <3>5, Zenon
  <2>5. Place(w)'
    <3>1. Len(pending'[w]) = 1 /\ Len(held'[w]) = 0
      BY <2>1, <2>3, <2>4
    <3> QED
      BY <2>3, <3>1 DEF Place
  <2>6. ProgramsKept'
    BY ZenonT(60), <2>3, <2>5 DEF StoreInv, ProgramsKept, Place
  <2>7. \A n \in DOMAIN held'[w] : RowStored(held'[w][n])
    BY <2>3 DEF StoreInv, HeldStored
  <2>8. HeldStored' /\ NewKeyAlone' /\ OneNodePerKey'
    BY <1>1, <2>3, <2>7, StoreSame DEF graphVars
  <2>9. EdgesHaveEnds'
    BY <1>1 DEF StoreInv, EdgesHaveEnds, graphVars
  <2> QED
    BY <2>2, <2>6, <2>8, <2>9 DEF StoreInv
<1> QED
  BY <1>2, <1>3 DEF UpsertFails

\* The two ids that a writer links are of nodes, or of nodes deleted meanwhile.
LEMMA LinkedStored ==
    ASSUME StoreInv, NEW w \in Writers, step[w] = "link"
    PROVE  /\ held[w][1] \in NodeIds /\ RowStored(held[w][1])
           /\ held[w][2] \in NodeIds /\ RowStored(held[w][2])
<1>1. Place(w)
  BY DEF StoreInv, ProgramsKept
<1>2. Len(held[w]) = 2
  BY <1>1 DEF Place
<1>3. held[w] \in Seq(NodeIds)
  BY WriterFacts
<1>4. 1 \in DOMAIN held[w] /\ 2 \in DOMAIN held[w]
  BY <1>2, <1>3
<1> QED
  BY <1>2, <1>3, <1>4 DEF StoreInv, HeldStored

LEMMA EdgeInv ==
    ASSUME StoreInv, NEW w \in Writers, AddEdge(w)
    PROVE  StoreInv'
<1>1. /\ step[w] = "link" /\ Rests(w)
      /\ edges' = edges \cup {<<held[w][1], held[w][2]>>}
      /\ UNCHANGED <<nodes, lastId, raced, orphans>>
  BY DEF AddEdge
<1>2. /\ held[w][1] \in NodeIds /\ RowStored(held[w][1])
      /\ held[w][2] \in NodeIds /\ RowStored(held[w][2])
  BY <1>1, LinkedStored
<1>3. edges' \subseteq NodeIds \X NodeIds
  BY <1>1, <1>2 DEF StoreInv, StoreTypeOK
<1>4. StoreTypeOK'
  BY <1>1, <1>3, RestsKeeps DEF StoreInv, StoreTypeOK, WriterTypes
<1>5. HeldStored' /\ NewKeyAlone' /\ OneNodePerKey'
  BY <1>1, RestsKeeps, StoreSame
<1>6. ASSUME NEW e \in edges', NEW i \in {e[1], e[2]}
      PROVE  nodes'[i] # NoKey \/ i \in orphans'
  <2>1. CASE e \in edges
    BY <1>1, <2>1 DEF StoreInv, EdgesHaveEnds
  <2>2. CASE e = <<held[w][1], held[w][2]>>
    BY <1>1, <1>2, <2>2 DEF RowStored
  <2> QED
    BY <1>1, <2>1, <2>2
<1>7. EdgesHaveEnds'
  BY <1>6 DEF EdgesHaveEnds
<1> QED
  BY <1>1, <1>4, <1>5, <1>7, RestsKeeps DEF StoreInv

LEMMA DeleteInv ==
    ASSUME StoreInv, NEW i \in NodeIds, DeleteNode(i)
    PROVE  StoreInv'
<1>1. /\ nodes' = [nodes EXCEPT ![i] = NoKey]
      /\ edges' = edges \ EdgesOf(i)
      /\ orphans' = IF \E w \in Writers : Holds(w, i) THEN orphans \cup {i} ELSE orphans
      /\ UNCHANGED <<lastId, step, pending, found, held, raced>>
  BY DEF DeleteNode, writerVars
<1>2. /\ nodes' \in [NodeIds -> Keys \cup {NoKey}] /\ nodes'[i] = NoKey
      /\ \A n \in NodeIds \ {i} : nodes'[n] = nodes[n]
  BY <1>1 DEF StoreInv, StoreTypeOK
<1>3. StoreTypeOK'
  BY <1>1, <1>2 DEF StoreInv, StoreTypeOK
<1>4. ProgramsKept'
  BY <1>1 DEF StoreInv, ProgramsKept, Place
<1>5. ASSUME NEW w \in Writers, NEW n \in NodeIds, Holds(w, n), RowStored(n)
      PROVE  RowStored(n)'
  BY <1>1, <1>2, <1>5 DEF RowStored
<1>6. HeldStored'
  <2> SUFFICES ASSUME NEW w \in Writers
               PROVE  /\ found[w] # NoNode => RowStored(found[w])'
                      /\ \A n \in DOMAIN held[w] : RowStored(held[w][n])'
    BY <1>1 DEF HeldStored, RowStored
  <2>1. held[w] \in Seq(NodeIds) /\ found[w] \in NodeIds \cup {NoNode}
    BY WriterFacts
  <2>2. HeldStored
    BY DEF StoreInv
  <2>3. found[w] # NoNode => RowStored(found[w])'
    <3>1. found[w] # NoNode => found[w] \in NodeIds /\ Holds(w, found[w]) /\ RowStored(found[w])
      BY <2>1, <2>2 DEF HeldStored, Holds
    <3> QED
      BY <1>1, <1>2, <3>1 DEF RowStored
  <2>4. ASSUME NEW n \in DOMAIN held[w]
        PROVE  RowStored(held[w][n])'
    <3>1. held[w][n] \in NodeIds /\ Holds(w, held[w][n]) /\ RowStored(held[w][n])
      BY <2>1, <2>2 DEF HeldStored, Holds
    <3> QED
      BY <1>1, <1>2, <3>1 DEF RowStored
  <2> QED
    BY <2>3, <2>4
<1>7. NewKeyAlone'
  <2>1. \A v \in Writers, k \in Keys : Inserting(v, k)' <=> Inserting(v, k)
    BY <1>1 DEF Inserting
  <2>2. \A n \in NodeIds, k \in Keys : nodes[n] # k => nodes'[n] # k
    BY <1>2, NoKeyAssumption
  <2> QED
    BY <1>1, <2>1, <2>2 DEF StoreInv, NewKeyAlone
<1>8. OneNodePerKey'
  BY <1>1, <1>2, NoKeyAssumption DEF StoreInv, OneNodePerKey
<1>9. EdgesHaveEnds'
  <2> SUFFICES ASSUME NEW e \in edges', NEW n \in {e[1], e[2]}
               PROVE  nodes'[n] # NoKey \/ n \in orphans'
    BY DEF EdgesHaveEnds
  <2>1. e \in edges /\ n # i
    BY <1>1 DEF EdgesOf
  <2>2. n \in NodeIds
    BY <2>1 DEF StoreInv, StoreTypeOK
  <2>3. nodes[n] # NoKey \/ n \in orphans
    BY <2>1 DEF StoreInv, EdgesHaveEnds
  <2> QED
    BY <1>1, <1>2, <2>1, <2>2, <2>3
<1> QED
  BY <1>3, <1>4, <1>6, <1>7, <1>8, <1>9 DEF StoreInv

LEMMA StoreInvNext == StoreInv /\ [StoreNext]_storeVars => StoreInv'
<1> SUFFICES ASSUME StoreInv, [StoreNext]_storeVars
             PROVE  StoreInv'
  OBVIOUS
<1>1. ASSUME NEW w \in Writers, WriterEnds(w)
      PROVE  StoreInv'
  BY <1>1, RestsInv DEF WriterEnds
<1>2. ASSUME NEW w \in Writers, NEW p \in Programs, StartWrite(w, p)
      PROVE  StoreInv'
  BY <1>2, StartInv
<1>3. ASSUME NEW w \in Writers,
             LookUp(w) \/ UpdateNode(w) \/ InsertNode(w) \/ UpsertFails(w) \/ AddEdge(w)
      PROVE  StoreInv'
  BY <1>3, LookUpInv, UpdateInv, InsertInv, FailsInv, EdgeInv
<1>4. ASSUME NEW i \in NodeIds, DeleteNode(i)
      PROVE  StoreInv'
  BY <1>4, DeleteInv
<1>5. CASE UNCHANGED storeVars
  BY <1>5
  DEF storeVars, graphVars, writerVars, StoreInv, StoreTypeOK, ProgramsKept, Place, HeldStored,
      RowStored, NewKeyAlone, Inserting, OneNodePerKey, EdgesHaveEnds
<1> QED
  BY <1>1, <1>2, <1>3, <1>4, <1>5 DEF StoreNext

\* The state of the knowledge graph and its writers has its types.
THEOREM StoreTypeCorrect == StoreSpec => []StoreTypeOK
<1>1. StoreInit => StoreInv
  BY StoreInvInit
<1>2. StoreInv /\ [StoreNext]_storeVars => StoreInv'
  BY StoreInvNext
<1>3. StoreInv => StoreTypeOK
  BY DEF StoreInv
<1> QED
  BY <1>1, <1>2, <1>3, PTL DEF StoreSpec

\* However writers fail, end or work on rows that are deleted under their hands, upsert_node
\* leaves one node of each key outside `raced', for any writers, keys and programs.
THEOREM GraphHasOneNodePerKey == StoreSpec => []OneNodePerKey
<1>1. StoreInit => StoreInv
  BY StoreInvInit
<1>2. StoreInv /\ [StoreNext]_storeVars => StoreInv'
  BY StoreInvNext
<1>3. StoreInv => OneNodePerKey
  BY DEF StoreInv
<1> QED
  BY <1>1, <1>2, <1>3, PTL DEF StoreSpec

\* Every edge leads between nodes that exist, or were deleted while a writer had their ids:
\* delete_node leaves no edge behind, and add_edge no other.
THEOREM GraphEdgesHaveEnds == StoreSpec => []EdgesHaveEnds
<1>1. StoreInit => StoreInv
  BY StoreInvInit
<1>2. StoreInv /\ [StoreNext]_storeVars => StoreInv'
  BY StoreInvNext
<1>3. StoreInv => EdgesHaveEnds
  BY DEF StoreInv
<1> QED
  BY <1>1, <1>2, <1>3, PTL DEF StoreSpec

LEMMA KeyedAdd ==
    ASSUME StoreInv, NEW w \in Writers, InsertNode(w)
    PROVE  \E k \in Keys : Keyed!Add(k)
<1> DEFINE k == Head(pending[w])
<1>1. /\ Inserting(w, k)
      /\ lastId < MaxNode /\ lastId' = lastId + 1
      /\ nodes' = [nodes EXCEPT ![lastId'] = k]
      /\ UNCHANGED <<edges, raced, orphans>>
  BY DEF InsertNode, Inserting
<1>2. k \in Keys
  BY <1>1, WriterFacts DEF Inserting
<1> HIDE DEF k
<1>3. lastId + 1 \in NodeIds
  BY <1>1, NoKeyAssumption DEF StoreInv, StoreTypeOK, NodeIds
<1>4. k \in raced \/ \A i \in NodeIds : nodes[i] # k
  BY <1>1, <1>2 DEF StoreInv, NewKeyAlone
<1> QED
  BY <1>1, <1>2, <1>3, <1>4 DEF Keyed!Add

LEMMA KeyedLink ==
    ASSUME StoreInv, NEW w \in Writers, AddEdge(w)
    PROVE  \E i, j \in NodeIds : Keyed!Link(i, j)
<1>1. /\ step[w] = "link"
      /\ edges' = edges \cup {<<held[w][1], held[w][2]>>}
      /\ UNCHANGED <<nodes, lastId, raced, orphans>>
  BY DEF AddEdge
<1>2. Keyed!Link(held[w][1], held[w][2])
  BY <1>1, LinkedStored DEF RowStored, Keyed!Link, Keyed!Reachable
<1> QED
  BY <1>1, <1>2, LinkedStored

LEMMA KeyedRemove ==
    ASSUME StoreInv, NEW i \in NodeIds, DeleteNode(i)
    PROVE  Keyed!Remove(i)
<1>1. edges \ EdgesOf(i) = {e \in edges : e[1] # i /\ e[2] # i}
  BY DEF EdgesOf
<1> QED
  BY <1>1 DEF DeleteNode, Keyed!Remove

LEMMA KeyedCollide ==
    ASSUME StoreInv, NEW w \in Writers, LookUp(w)
    PROVE  (\E k \in Keys : Keyed!Collide(k)) \/ UNCHANGED Keyed!vars
<1> DEFINE k == Head(pending[w])
<1>1. k \in Keys
  BY WriterFacts DEF LookUp
<1>2. /\ raced' = raced \cup {k} \/ raced' = raced
      /\ UNCHANGED <<nodes, lastId, edges, orphans>>
  BY DEF LookUp, graphVars
<1> QED
  BY <1>1, <1>2 DEF Keyed!Collide, Keyed!vars

LEMMA KeyedStep ==
    ASSUME StoreInv, [StoreNext]_storeVars
    PROVE  [Keyed!Next]_(Keyed!vars)
<1>1. ASSUME NEW w \in Writers, UpdateNode(w) \/ UpsertFails(w) \/ WriterEnds(w)
      PROVE  UNCHANGED Keyed!vars
  BY <1>1 DEF UpdateNode, UpsertFails, WriterEnds, graphVars, Keyed!vars
<1>2. ASSUME NEW w \in Writers, NEW p \in Programs, StartWrite(w, p)
      PROVE  UNCHANGED Keyed!vars
  BY <1>2 DEF StartWrite, graphVars, Keyed!vars
<1>3. CASE UNCHANGED storeVars
  BY <1>3 DEF storeVars, graphVars, Keyed!vars
<1>4. ASSUME NEW w \in Writers, LookUp(w) \/ InsertNode(w) \/ AddEdge(w)
      PROVE  [Keyed!Next]_(Keyed!vars)
  BY <1>4, KeyedCollide, KeyedAdd, KeyedLink DEF Keyed!Next
<1>5. ASSUME NEW i \in NodeIds, DeleteNode(i)
      PROVE  Keyed!Next
  BY <1>5, KeyedRemove DEF Keyed!Next
<1> QED
  BY <1>1, <1>2, <1>3, <1>4, <1>5 DEF StoreNext

\* The store is a graph with keys: however writers overlap, fail and end, and whatever is
\* deleted under their hands (store.py:57-264), each of their statements adds a node under a
\* new id, adds an edge, removes a node with its edges, or changes neither.
THEOREM StoreIsKeyed == StoreSpec => ImplementsKeyed
<1>1. StoreInit => StoreInv /\ Keyed!Init
  BY StoreInvInit DEF StoreInit, Keyed!Init
<1>2. StoreInv /\ [StoreNext]_storeVars => StoreInv' /\ [Keyed!Next]_(Keyed!vars)
  BY StoreInvNext, KeyedStep
<1> QED
  BY <1>1, <1>2, PTL DEF StoreSpec, ImplementsKeyed, Keyed!Spec

-----------------------------------------------------------------------------
(* The working memory of a session.  While nothing has disturbed it, a     *)
(* request that writes is alone, its copy of what is pinned is the one     *)
(* that the row has, and only such a request, between MySQL and Redis, may *)
(* find another in Redis.                                                  *)

Writing(r) == progress[r] \in {"compress", "save", "refresh"}

\* Requests that only read may overlap.
WritersAlone ==
    \A r, o \in Requests :
        r # o /\ progress[r] # "idle" /\ progress[o] # "idle" => request[r].kind = "get"

OnlyWritersWrite == \A r \in Requests : Writing(r) => request[r].kind # "get"

RowIsPinned == (IF row = NoSession THEN {} ELSE row.pinned) = pins

CacheIsPinned ==
    cached # NoSession =>
        cached.pinned = pins \/ \E r \in Requests : progress[r] = "refresh"

CopyIsPinned ==
    \A r \in Requests :
        /\ progress[r] \in {"fill", "refresh"} => copy[r].pinned = pins
        /\ progress[r] \in {"compress", "save"} => copy[r].pinned = PinnedBy(request[r])

MemoryInv ==
    /\ MemoryTypeOK
    /\ OnlyWritersWrite
    /\ ~disturbed => WritersAlone /\ RowIsPinned /\ CacheIsPinned /\ CopyIsPinned

LEMMA MemoryInvImplies == MemoryInv => PinnedKept
  BY DEF MemoryInv, PinnedKept, RowIsPinned

\* The synchronous part of a request keeps a session a session.
LEMMA AppliedType ==
    ASSUME NEW s \in Copies, NEW q \in Kinds, q.kind # "get"
    PROVE  /\ Applied(s, q) \in Copies
           /\ s.pinned = pins => Applied(s, q).pinned = PinnedBy(q)
<1>1. CASE q.kind = "add"
  <2>1. /\ q.fact \in Facts /\ q.pin \in BOOLEAN
        /\ s.working \in Seq(Facts) /\ s.pinned \in SUBSET Facts
    BY <1>1 DEF Kinds, Copies
  <2>2. Append(s.working, q.fact) \in Seq(Facts)
    BY <2>1
  <2> QED
    BY <1>1, <2>1, <2>2 DEF Copies, Applied, Added, PinnedBy
<1>2. CASE q.kind = "clear"
  <2>1. q.keep \in BOOLEAN /\ s.pinned \in SUBSET Facts /\ <<>> \in Seq(Facts)
    BY <1>2 DEF Kinds, Copies
  <2> QED
    BY <1>2, <2>1 DEF Copies, Applied, Cleared, PinnedBy
<1> QED
  BY <1>1, <1>2 DEF Kinds

LEMMA LatestType ==
    ASSUME NEW facts \in Seq(Facts)
    PROVE  /\ Latest(facts) \in Seq(Facts)
           /\ Members(Overflow(facts)) \subseteq Facts
  BY FactsMaxAssumption DEF Latest, Members, Overflow

LEMMA MemoryInvInit == MemoryInit => MemoryInv
<1> SUFFICES ASSUME MemoryInit PROVE MemoryInv
  OBVIOUS
<1>1. Empty \in Copies /\ [kind |-> "get"] \in Kinds
  BY DEF Empty, Copies, Kinds
<1>2. MemoryTypeOK
  <2>1. disturbed \in BOOLEAN
    BY Zenon DEF MemoryInit
  <2>2. begun \in 0..MaxBegun
    BY FactsMaxAssumption DEF MemoryInit
  <2> QED
    BY <1>1, <2>1, <2>2 DEF MemoryInit, MemoryTypeOK
<1>3. OnlyWritersWrite /\ WritersAlone /\ CopyIsPinned
  BY DEF MemoryInit, OnlyWritersWrite, Writing, WritersAlone, CopyIsPinned
<1>4. RowIsPinned /\ CacheIsPinned
  BY DEF MemoryInit, RowIsPinned, CacheIsPinned
<1> QED
  BY <1>2, <1>3, <1>4 DEF MemoryInv

\* A request that is over.
LEMMA EndKeeps ==
    ASSUME MemoryInv, NEW r \in Requests, EndRequest(r)
    PROVE  /\ progress' \in [Requests ->
                 {"idle", "cache", "load", "fill", "compress", "save", "refresh"}]
           /\ request' \in [Requests -> Kinds]
           /\ copy' \in [Requests -> Copies]
           /\ progress'[r] = "idle"
           /\ \A o \in Requests \ {r} :
                 progress'[o] = progress[o] /\ request'[o] = request[o] /\ copy'[o] = copy[o]
  BY DEF MemoryInv, MemoryTypeOK, EndRequest, Kinds, Copies, Empty

LEMMA EndCopies ==
    ASSUME MemoryInv, CopyIsPinned, NEW r \in Requests, EndRequest(r), UNCHANGED pins
    PROVE  CopyIsPinned'
<1>1. ASSUME NEW o \in Requests
      PROVE  /\ progress'[o] \in {"fill", "refresh"} => copy'[o].pinned = pins'
             /\ progress'[o] \in {"compress", "save"} => copy'[o].pinned = PinnedBy(request[o])'
  <2>1. CASE o = r
    <3>1. progress'[o] = "idle"
      BY <2>1, EndKeeps
    <3> QED
      BY <3>1
  <2>2. CASE o # r
    <3>1. progress'[o] = progress[o] /\ request'[o] = request[o] /\ copy'[o] = copy[o]
      BY <2>2, EndKeeps
    <3> QED
      BY <3>1 DEF CopyIsPinned, PinnedBy
  <2> QED
    BY <2>1, <2>2
<1> QED
  BY <1>1 DEF CopyIsPinned

\* get_session has returned s, which holds what is pinned unless something was disturbed.
LEMMA GotKeeps ==
    ASSUME MemoryInv, NEW r \in Requests, NEW s \in Copies, Got(r, s),
           progress[r] \in {"cache", "fill"},
           ~disturbed => s.pinned = pins,
           cached' \in {cached, s},
           UNCHANGED <<row, archive, pins, disturbed, begun>>
    PROVE  MemoryInv'
<1>1. cached' \in Copies \cup {NoSession}
  BY DEF MemoryInv, MemoryTypeOK
<1>2. CASE request[r].kind = "get"
  <2>1. EndRequest(r)
    BY <1>2 DEF Got
  <2>2. MemoryTypeOK'
    BY <1>1, <2>1, EndKeeps DEF MemoryInv, MemoryTypeOK
  <2>3. OnlyWritersWrite'
    BY <2>1, EndKeeps DEF MemoryInv, OnlyWritersWrite, Writing
  <2>4. ASSUME ~disturbed PROVE WritersAlone' /\ RowIsPinned' /\ CacheIsPinned' /\ CopyIsPinned'
    <3>1. RowIsPinned'
      BY <2>4 DEF MemoryInv, RowIsPinned
    <3>2. WritersAlone'
      BY <2>1, <2>4, EndKeeps DEF MemoryInv, WritersAlone
    <3>3. CacheIsPinned'
      BY <2>1, <2>4, EndKeeps DEF MemoryInv, CacheIsPinned
    <3>4. CopyIsPinned'
      BY <2>1, <2>4, EndCopies DEF MemoryInv
    <3> QED
      BY <3>1, <3>2, <3>3, <3>4
  <2> QED
    BY <2>2, <2>3, <2>4 DEF MemoryInv
<1>3. CASE request[r].kind # "get"
  <2> DEFINE c == Applied(s, request[r])
  <2>1. request[r] \in Kinds /\ c \in Copies /\ (s.pinned = pins => c.pinned = PinnedBy(request[r]))
    BY <1>3, AppliedType DEF MemoryInv, MemoryTypeOK
  <2> HIDE DEF c
  <2>2. /\ copy' = [copy EXCEPT ![r] = c]
        /\ progress'[r] \in {"compress", "save"}
        /\ progress' \in [Requests ->
              {"idle", "cache", "load", "fill", "compress", "save", "refresh"}]
        /\ \A o \in Requests \ {r} : progress'[o] = progress[o]
        /\ UNCHANGED request
    BY <1>3 DEF Got, MemoryInv, MemoryTypeOK, c
  <2>3. /\ copy' \in [Requests -> Copies] /\ copy'[r] = c
        /\ \A o \in Requests \ {r} : copy'[o] = copy[o]
    BY <2>1, <2>2 DEF MemoryInv, MemoryTypeOK
  <2>4. MemoryTypeOK'
    BY <1>1, <2>2, <2>3 DEF MemoryInv, MemoryTypeOK
  <2>5. OnlyWritersWrite'
    BY <1>3, <2>2 DEF MemoryInv, OnlyWritersWrite, Writing
  <2>6. ASSUME ~disturbed PROVE WritersAlone' /\ RowIsPinned' /\ CacheIsPinned' /\ CopyIsPinned'
    <3>1. WritersAlone' /\ RowIsPinned'
      BY <2>2, <2>6 DEF MemoryInv, WritersAlone, RowIsPinned
    <3>2. CacheIsPinned'
      BY <2>2, <2>6 DEF MemoryInv, CacheIsPinned
    <3>3. CopyIsPinned'
      BY <2>1, <2>2, <2>3, <2>6 DEF MemoryInv, CopyIsPinned, PinnedBy
    <3> QED
      BY <3>1, <3>2, <3>3
  <2> QED
    BY <2>4, <2>5, <2>6 DEF MemoryInv
<1> QED
  BY <1>2, <1>3

LEMMA BeginRequestKeeps ==
    ASSUME MemoryInv, NEW r \in Requests, NEW q \in Kinds, BeginRequest(r, q)
    PROVE  MemoryInv'
<1> DEFINE overlaps == \E o \in Requests \ {r} :
          progress[o] # "idle" /\ (q.kind # "get" \/ request[o].kind # "get")
<1>1. /\ progress[r] = "idle" /\ progress'[r] = "cache" /\ request'[r] = q
      /\ progress' \in [Requests ->
            {"idle", "cache", "load", "fill", "compress", "save", "refresh"}]
      /\ request' \in [Requests -> Kinds]
      /\ begun' \in 0..MaxBegun
      /\ \A o \in Requests \ {r} : progress'[o] = progress[o] /\ request'[o] = request[o]
      /\ UNCHANGED <<row, cached, copy, archive, pins>>
  BY FactsMaxAssumption DEF BeginRequest, MemoryInv, MemoryTypeOK
<1>2. disturbed' = (disturbed \/ overlaps)
  BY Zenon DEF BeginRequest
<1>3. disturbed' \in BOOLEAN
  BY <1>2, Zenon
<1>4. MemoryTypeOK'
  BY <1>1, <1>3 DEF MemoryInv, MemoryTypeOK
<1>5. OnlyWritersWrite'
  BY <1>1 DEF MemoryInv, OnlyWritersWrite, Writing
<1>6. ASSUME ~disturbed' PROVE WritersAlone' /\ RowIsPinned' /\ CacheIsPinned' /\ CopyIsPinned'
  <2>1. ~disturbed /\ ~overlaps
    BY <1>2, <1>6, Zenon
  <2>2. WritersAlone'
    BY <1>1, <2>1 DEF MemoryInv, WritersAlone
  <2>3. RowIsPinned' /\ CacheIsPinned'
    BY <1>1, <2>1 DEF MemoryInv, RowIsPinned, CacheIsPinned
  <2>4. CopyIsPinned'
    BY <1>1, <2>1 DEF MemoryInv, CopyIsPinned, PinnedBy
  <2> QED
    BY <2>2, <2>3, <2>4
<1> QED
  BY <1>4, <1>5, <1>6 DEF MemoryInv

LEMMA SaveRowKeeps ==
    ASSUME MemoryInv, NEW r \in Requests, SaveRow(r)
    PROVE  MemoryInv'
<1> DEFINE c == [copy[r] EXCEPT !.working = Latest(@)]
<1>1. c \in Copies /\ c.pinned = copy[r].pinned
  BY LatestType DEF MemoryInv, MemoryTypeOK, Copies
<1> HIDE DEF c
<1>2. /\ progress[r] = "save" /\ progress' = [progress EXCEPT ![r] = "refresh"]
      /\ copy' = [copy EXCEPT ![r] = c]
      /\ row' = c /\ copy'[r] = c
      /\ pins' = PinnedBy(request[r])
      /\ UNCHANGED <<cached, request, archive, disturbed, begun>>
  BY DEF SaveRow, MemoryInv, MemoryTypeOK, c
<1>3. request[r].kind # "get" /\ request[r] \in Kinds
  BY <1>2 DEF MemoryInv, MemoryTypeOK, OnlyWritersWrite, Writing
<1>4. pins' \subseteq Facts
  BY <1>2, <1>3 DEF PinnedBy, Kinds, MemoryInv, MemoryTypeOK
<1>5. MemoryTypeOK'
  BY <1>1, <1>2, <1>4 DEF MemoryInv, MemoryTypeOK
<1>6. OnlyWritersWrite'
  BY <1>2, <1>3 DEF MemoryInv, MemoryTypeOK, OnlyWritersWrite, Writing
<1>7. ASSUME ~disturbed PROVE WritersAlone' /\ RowIsPinned' /\ CacheIsPinned' /\ CopyIsPinned'
  <2>1. \A o \in Requests \ {r} : progress'[o] = "idle"
    BY <1>2, <1>3, <1>7 DEF MemoryInv, MemoryTypeOK, WritersAlone
  <2>2. progress'[r] = "refresh"
    BY <1>2 DEF MemoryInv, MemoryTypeOK
  <2>3. WritersAlone'
    BY <2>1 DEF WritersAlone
  <2>4. c.pinned = pins'
    BY <1>1, <1>2, <1>7 DEF MemoryInv, CopyIsPinned
  <2>5. RowIsPinned'
    BY <1>1, <1>2, <2>4, NoSessionAssumption DEF RowIsPinned
  <2>6. CacheIsPinned'
    BY <2>2 DEF CacheIsPinned
  <2>7. CopyIsPinned'
    BY <1>2, <2>1, <2>2, <2>4 DEF CopyIsPinned
  <2> QED
    BY <2>3, <2>5, <2>6, <2>7
<1> QED
  BY <1>2, <1>5, <1>6, <1>7 DEF MemoryInv

LEMMA RefreshCacheKeeps ==
    ASSUME MemoryInv, NEW r \in Requests, RefreshCache(r)
    PROVE  MemoryInv'
<1>1. /\ progress[r] = "refresh" /\ cached' = copy[r] /\ EndRequest(r)
      /\ UNCHANGED <<row, archive, pins, disturbed, begun>>
  BY DEF RefreshCache, Refreshed
<1>2. MemoryTypeOK'
  BY <1>1, EndKeeps DEF MemoryInv, MemoryTypeOK
<1>3. OnlyWritersWrite'
  BY <1>1, EndKeeps DEF MemoryInv, OnlyWritersWrite, Writing
<1>4. ASSUME ~disturbed PROVE WritersAlone' /\ RowIsPinned' /\ CacheIsPinned' /\ CopyIsPinned'
  <2>1. request[r].kind # "get" /\ copy[r].pinned = pins
    BY <1>1, <1>4 DEF MemoryInv, OnlyWritersWrite, Writing, CopyIsPinned
  <2>2. \A o \in Requests : progress'[o] = "idle"
    BY <1>1, <1>4, <2>1, EndKeeps DEF MemoryInv, WritersAlone
  <2>3. RowIsPinned'
    BY <1>1, <1>4 DEF MemoryInv, RowIsPinned
  <2> QED
    BY <1>1, <2>1, <2>2, <2>3 DEF WritersAlone, CacheIsPinned, CopyIsPinned
<1> QED
  BY <1>1, <1>2, <1>3, <1>4 DEF MemoryInv

LEMMA RequestStopsKeeps ==
    ASSUME MemoryInv, NEW r \in Requests, RequestStops(r)
    PROVE  MemoryInv'
<1>1. /\ progress[r] # "idle" /\ EndRequest(r)
      /\ UNCHANGED <<row, cached, archive, pins, begun>>
  BY DEF RequestStops
<1>2. disturbed' = (disturbed \/ (progress[r] = "refresh" /\ cached # NoSession))
  BY Zenon DEF RequestStops
<1>3. disturbed' \in BOOLEAN
  BY <1>2, Zenon
<1>4. MemoryTypeOK'
  BY <1>1, <1>3, EndKeeps DEF MemoryInv, MemoryTypeOK
<1>5. OnlyWritersWrite'
  BY <1>1, EndKeeps DEF MemoryInv, OnlyWritersWrite, Writing
<1>6. ASSUME ~disturbed' PROVE WritersAlone' /\ RowIsPinned' /\ CacheIsPinned' /\ CopyIsPinned'
  <2>1. ~disturbed /\ (progress[r] # "refresh" \/ cached = NoSession)
    BY <1>2, <1>6, Zenon
  <2>2. WritersAlone /\ RowIsPinned /\ CacheIsPinned /\ CopyIsPinned
    BY <2>1 DEF MemoryInv
  <2>3. RowIsPinned'
    BY <1>1, <2>2 DEF RowIsPinned
  <2>4. WritersAlone'
    BY <1>1, <2>2, EndKeeps DEF WritersAlone
  <2>5. CacheIsPinned'
    BY <1>1, <2>1, <2>2, EndKeeps DEF CacheIsPinned
  <2>6. CopyIsPinned'
    BY <1>1, <2>2, EndCopies
  <2> QED
    BY <2>3, <2>4, <2>5, <2>6
<1> QED
  BY <1>4, <1>5, <1>6 DEF MemoryInv

LEMMA MemoryInvNext == MemoryInv /\ [MemoryNext]_memoryVars => MemoryInv'
<1> SUFFICES ASSUME MemoryInv, [MemoryNext]_memoryVars PROVE MemoryInv'
  OBVIOUS
<1> USE DEF MemoryInv, MemoryTypeOK
<1>1. ASSUME NEW r \in Requests, NEW q \in Kinds, BeginRequest(r, q) PROVE MemoryInv'
  BY <1>1, BeginRequestKeeps
<1>2. ASSUME NEW r \in Requests, CacheHit(r) PROVE MemoryInv'
  <2>1. cached \in Copies /\ progress[r] = "cache" /\ Got(r, cached)
        /\ UNCHANGED <<row, cached, archive, pins, disturbed, begun>>
    BY <1>2 DEF CacheHit
  <2>2. ~disturbed => cached.pinned = pins
    BY <1>2 DEF CacheHit, CacheIsPinned, WritersAlone, OnlyWritersWrite, Writing
  <2> QED
    BY <2>1, <2>2, GotKeeps
<1>3. ASSUME NEW r \in Requests, CacheMiss(r) PROVE MemoryInv'
  BY <1>3 DEF CacheMiss, OnlyWritersWrite, Writing, WritersAlone, RowIsPinned,
     CacheIsPinned, CopyIsPinned, PinnedBy
<1>4. ASSUME NEW r \in Requests, LoadRow(r) PROVE MemoryInv'
  <2> DEFINE c == IF row = NoSession THEN Empty ELSE row
  <2>1. c \in Copies /\ (RowIsPinned => c.pinned = pins)
    BY DEF Empty, Copies, RowIsPinned
  <2> HIDE DEF c
  <2>2. /\ progress' = [progress EXCEPT ![r] = "fill"] /\ copy' = [copy EXCEPT ![r] = c]
        /\ UNCHANGED <<row, cached, request, archive, pins, disturbed, begun>>
        /\ progress[r] = "load"
    BY <1>4 DEF LoadRow, c
  <2> QED
    BY <2>1, <2>2 DEF OnlyWritersWrite, Writing, WritersAlone, RowIsPinned,
       CacheIsPinned, CopyIsPinned, PinnedBy
<1>5. ASSUME NEW r \in Requests, FillCache(r) PROVE MemoryInv'
  <2>1. /\ copy[r] \in Copies /\ progress[r] = "fill" /\ Got(r, copy[r])
        /\ cached' \in {cached, copy[r]}
        /\ UNCHANGED <<row, archive, pins, disturbed, begun>>
    BY <1>5 DEF FillCache
  <2>2. ~disturbed => copy[r].pinned = pins
    BY <2>1 DEF CopyIsPinned
  <2> QED
    BY <2>1, <2>2, GotKeeps
<1>6. ASSUME NEW r \in Requests, Compress(r) PROVE MemoryInv'
  <2> DEFINE c == [copy[r] EXCEPT !.working = Latest(@)]
  <2>1. c \in Copies /\ c.pinned = copy[r].pinned
    BY LatestType DEF Copies
  <2> HIDE DEF c
  <2>2. /\ progress[r] = "compress"
        /\ progress' = [progress EXCEPT ![r] = "save"] /\ copy' = [copy EXCEPT ![r] = c]
        /\ UNCHANGED <<row, cached, request, pins, disturbed, begun>>
    BY <1>6 DEF Compress, c
  <2>3. archive' \subseteq Facts
    BY <1>6, LatestType DEF Compress, Copies
  <2> QED
    BY <2>1, <2>2, <2>3 DEF OnlyWritersWrite, Writing, WritersAlone, RowIsPinned,
       CacheIsPinned, CopyIsPinned, PinnedBy
<1>7. ASSUME NEW r \in Requests, CompressFails(r) PROVE MemoryInv'
  BY <1>7 DEF CompressFails, OnlyWritersWrite, Writing, WritersAlone, RowIsPinned,
     CacheIsPinned, CopyIsPinned, PinnedBy
<1>8. ASSUME NEW r \in Requests, SaveRow(r) PROVE MemoryInv'
  BY <1>8, SaveRowKeeps
<1>9. ASSUME NEW r \in Requests, RefreshCache(r) PROVE MemoryInv'
  BY <1>9, RefreshCacheKeeps
<1>10. ASSUME NEW r \in Requests, RequestStops(r) PROVE MemoryInv'
  BY <1>10, RequestStopsKeeps
<1>11. CASE Expire
  BY <1>11 DEF Expire, requestVars, OnlyWritersWrite, Writing, WritersAlone, RowIsPinned,
     CacheIsPinned, CopyIsPinned, PinnedBy
<1>12. CASE UNCHANGED memoryVars
  BY <1>12 DEF memoryVars, requestVars, OnlyWritersWrite, Writing, WritersAlone, RowIsPinned,
     CacheIsPinned, CopyIsPinned, PinnedBy
<1> QED
  BY <1>1, <1>2, <1>3, <1>4, <1>5, <1>6, <1>7, <1>8, <1>9, <1>10, <1>11, <1>12 DEF MemoryNext

\* The pins, rows and requests of a session are what the code can make them.
THEOREM MemoryTypeCorrect == MemorySpec => []MemoryTypeOK
<1>1. MemoryInv => MemoryTypeOK
  BY DEF MemoryInv
<1> QED
  BY MemoryInvInit, MemoryInvNext, <1>1, PTL DEF MemorySpec

\* What a request has pinned is in the row, and a copy in Redis that is read has it too:
\* MySQL is written before Redis, and merging keeps what is pinned (memory.py).
THEOREM PinnedFactsKept == MemorySpec => []PinnedKept
<1>1. MemoryInv => PinnedKept
  BY MemoryInvImplies
<1> QED
  BY MemoryInvInit, MemoryInvNext, <1>1, PTL DEF MemorySpec

-----------------------------------------------------------------------------
(* The CoEvo graph.  The rows a run has fetched are read in the order of   *)
(* their changes, and nothing changes in the past: so what is stored grows *)
(* from where the run started, without a gap.  A node only gets newer, but *)
(* for the rows after the point that a run went back to.                   *)

GraphRowVersions == [row : CoevoRows, at : Seconds, blank : BOOLEAN]
InTime == {"reports", "plans", "collabs"}

EdgesShown(r) ==
    /\ r \in Reports => \E named \in BOOLEAN :
          Edge(ReportNode(r), ProjectNode(Project[r], named), "member_of") \in related
    /\ r \in Plans => PlanEdges(r) \subseteq related
    /\ r \in Recommendations => RecommendationEdges(r) \subseteq related
Shown(r) == carried[OwnNode(r)] >= changed[r] /\ EdgesShown(r)
Kept(r, s) ==
    /\ EdgesShown(r)
    /\ changed[r] <= wentBack[s] => carried[OwnNode(r)] >= changed[r]

NoFuture ==
    /\ \A r \in CoevoRows : changed[r] < clock
    /\ \A s \in Range(Sources) : mark[s] < clock
    /\ newest < clock /\ since < clock
    /\ \A v \in fetched : v.at < clock
OneInASecond == \A r, q \in CoevoRows : changed[r] = changed[q] /\ changed[r] # 0 => r = q
NothingLeft ==
    /\ ~selected => fetched = {} /\ newest = 0 /\ since = 0
    /\ stage = 0 => ~selected
OfTheSource == stage # 0 => \A v \in fetched : v.row \in RowsOf[Source]
Ahead ==
    stage \in 1..3 => \A v \in fetched :
        /\ since < v.at /\ newest < v.at
        /\ \A r \in CoevoRows : changed[r] = v.at => r = v.row
        /\ \A u \in fetched : u.at = v.at => u = v
Gapless ==
    stage \in 1..3 => \A v \in fetched : \A r \in RowsOf[Source] \ blank :
        since < changed[r] /\ newest < changed[r] /\ changed[r] < v.at =>
            [row |-> r, at |-> changed[r], blank |-> FALSE] \in fetched
StoredShown ==
    stage \in 1..3 => \A r \in RowsOf[Source] \ blank :
        since < changed[r] /\ changed[r] <= newest => Shown(r)
BehindShown ==
    stage \in 1..3 => \A r \in RowsOf[Source] \ (blank \cup missed) :
        changed[r] # 0 /\ changed[r] <= since => Kept(r, Source)
RewindNoted ==
    stage \in 1..3 /\ fetched # {} => mark[Source] <= since \/ wentBack[Source] <= since
PassedShown ==
    \A s \in InTime : \A r \in RowsOf[s] \ (blank \cup missed) :
        changed[r] # 0 /\ changed[r] <= mark[s] => Kept(r, s)

CoevoGraphInv ==
    /\ CoevoGraphTypeOK /\ NoFuture /\ OneInASecond /\ NothingLeft /\ OfTheSource
    /\ Ahead /\ Gapless /\ StoredShown /\ BehindShown /\ RewindNoted /\ PassedShown

LEMMA SourceNames ==
    /\ Range(Sources) = {"reports", "plans", "collabs", "memories"}
    /\ stage \in 1..4 => Source \in Range(Sources)
    /\ stage \in 1..3 => Source \in InTime
    /\ Len(Sources) = 4
<1>1. DOMAIN Sources = 1..4 /\ Len(Sources) = 4
  BY DEF Sources
<1>2. /\ Sources[1] = "reports" /\ Sources[2] = "plans"
      /\ Sources[3] = "collabs" /\ Sources[4] = "memories"
  BY DEF Sources
<1>3. Range(Sources) = {Sources[1], Sources[2], Sources[3], Sources[4]}
  BY <1>1 DEF Range
<1> QED
  BY <1>1, <1>2, <1>3 DEF Source, InTime

LEMMA TablesOfRows ==
    /\ DOMAIN RowsOf = Range(Sources)
    /\ \A s \in Range(Sources) : RowsOf[s] \subseteq CoevoRows
    /\ RowsOf["reports"] = Reports /\ RowsOf["plans"] = Plans
    /\ RowsOf["collabs"] = Recommendations /\ RowsOf["memories"] = Memories
    /\ \A s, t \in Range(Sources) : s # t => RowsOf[s] \cap RowsOf[t] = {}
<1>1. DOMAIN RowsOf = Range(Sources)
  BY SourceNames DEF RowsOf
<1>2. /\ RowsOf["reports"] = Reports /\ RowsOf["plans"] = Plans
      /\ RowsOf["collabs"] = Recommendations /\ RowsOf["memories"] = Memories
  BY DEF RowsOf
<1>3. \A s \in Range(Sources) : RowsOf[s] \subseteq CoevoRows
  BY <1>2, SourceNames DEF CoevoRows
<1> QED
  BY <1>1, <1>2, <1>3, TablesAssumption

\* Rows of different tables never share a node.
LEMMA NodesApart ==
    ASSUME NEW s \in InTime, NEW t \in Range(Sources), s # t,
           NEW r \in RowsOf[s], NEW q \in RowsOf[t]
    PROVE  OwnNode(r) # OwnNode(q)
<1>1. \A a : a \in Reports => OwnNode(a) = ReportNode(a)
  BY TablesOfRows, SourceNames DEF OwnNode
<1>2. \A a : a \in Plans => OwnNode(a) = PlanNode(a)
  BY TablesOfRows, SourceNames DEF OwnNode
<1>3. \A a : a \in Recommendations => OwnNode(a) = RecommendationNode(a)
  BY TablesOfRows, SourceNames DEF OwnNode
<1>4. \A a : a \in Memories => OwnNode(a) = MemoryNode(a)
  BY TablesOfRows, SourceNames DEF OwnNode
<1>5. \A a : /\ ReportNode(a).type = "person" /\ ReportNode(a).title[1] = "report"
             /\ PlanNode(a).type = "research"
             /\ RecommendationNode(a).type = "person"
             /\ RecommendationNode(a).title[1] = "recommendations"
  BY DEF ReportNode, PlanNode, RecommendationNode, GraphNode
<1>6. \A a : \/ MemoryNode(a).type = "project"
             \/ MemoryNode(a).type = "person" /\ MemoryNode(a).title[1] \in AboutPersons
  <2> SUFFICES ASSUME NEW a
               PROVE  \/ MemoryNode(a).type = "project"
                      \/ MemoryNode(a).type = "person" /\ MemoryNode(a).title[1] \in AboutPersons
    OBVIOUS
  <2>1. CASE Name[a] \in AboutPersons /\ Person[a] # NoPerson
    BY <2>1 DEF MemoryNode, GraphNode
  <2>2. CASE Name[a] \in AboutPersons /\ Person[a] = NoPerson
    BY <2>2 DEF MemoryNode, GraphNode
  <2>3. CASE Name[a] \notin AboutPersons
    BY <2>3 DEF MemoryNode, GraphNode
  <2> QED
    BY <2>1, <2>2, <2>3
<1>7. "report" \notin AboutPersons /\ "recommendations" \notin AboutPersons
  BY DEF AboutPersons
<1>8. t \in {"reports", "plans", "collabs", "memories"} /\ s \in {"reports", "plans", "collabs"}
  BY SourceNames DEF InTime
<1>9. CASE s = "reports"
  BY <1>1, <1>2, <1>3, <1>4, <1>5, <1>6, <1>7, <1>8, <1>9, TablesOfRows
<1>10. CASE s = "plans"
  BY <1>1, <1>2, <1>3, <1>4, <1>5, <1>6, <1>7, <1>8, <1>10, TablesOfRows
<1>11. CASE s = "collabs"
  BY <1>1, <1>2, <1>3, <1>4, <1>5, <1>6, <1>7, <1>8, <1>11, TablesOfRows
<1> QED
  BY <1>8, <1>9, <1>10, <1>11

LEMMA EdgesStored ==
    ASSUME NEW r \in CoevoRows, OwnEdges(r) \subseteq related', UNCHANGED names
    PROVE  EdgesShown(r)'
<1>1. CASE r \in Reports
  <2>1. ReportEdges(r) \subseteq related'
    BY <1>1, TablesOfRows, SourceNames DEF OwnEdges
  <2>2. (Project[r] \in names) \in BOOLEAN
    OBVIOUS
  <2>3. Edge(ReportNode(r), ProjectNode(Project[r], Project[r] \in names), "member_of") \in related'
    BY <2>1 DEF ReportEdges
  <2>4. r \notin Plans /\ r \notin Recommendations
    BY <1>1, TablesOfRows, SourceNames
  <2>5. \E named \in BOOLEAN :
            Edge(ReportNode(r), ProjectNode(Project[r], named), "member_of") \in related'
    BY <2>2, <2>3, Zenon
  <2> QED
    BY <2>4, <2>5 DEF EdgesShown
<1>2. CASE r \in Plans
  <2>1. r \notin Reports /\ r \notin Recommendations
    BY <1>2, TablesOfRows, SourceNames
  <2> QED
    BY <1>2, <2>1 DEF EdgesShown, OwnEdges
<1>3. CASE r \in Recommendations
  <2>1. r \notin Reports /\ r \notin Plans
    BY <1>3, TablesOfRows, SourceNames
  <2> QED
    BY <1>3, <2>1 DEF EdgesShown, OwnEdges
<1>4. CASE r \notin Reports \cup Plans \cup Recommendations
  BY <1>4 DEF EdgesShown
<1> QED
  BY <1>1, <1>2, <1>3, <1>4

LEMMA EdgesStay ==
    ASSUME NEW r, EdgesShown(r), related \subseteq related'
    PROVE  EdgesShown(r)'
  BY Zenon DEF EdgesShown

\* A newer text, or one of another node, hides nothing.
LEMMA ShownStays ==
    ASSUME CoevoGraphTypeOK, NEW r \in CoevoRows, NEW v \in fetched, Shown(r),
           OwnNode(r) = OwnNode(v.row) => changed[r] <= v.at,
           carried' = [carried EXCEPT ![OwnNode(v.row)] = v.at] \/ carried' = carried,
           related \subseteq related', UNCHANGED changed
    PROVE  Shown(r)'
<1>1. EdgesShown(r)'
  BY EdgesStay DEF Shown
<1>2. OwnNode(r) \in DOMAIN carried
  BY DEF CoevoGraphTypeOK
<1>3. carried'[OwnNode(r)] >= changed[r]
  BY <1>2 DEF Shown
<1> QED
  BY <1>1, <1>3 DEF Shown

LEMMA KeptStays ==
    ASSUME CoevoGraphTypeOK, NEW s, NEW r \in CoevoRows, NEW v \in fetched, Kept(r, s),
           OwnNode(r) = OwnNode(v.row) /\ changed[r] <= wentBack[s] => changed[r] <= v.at,
           carried' = [carried EXCEPT ![OwnNode(v.row)] = v.at] \/ carried' = carried,
           related \subseteq related', UNCHANGED <<changed, wentBack>>
    PROVE  Kept(r, s)'
<1>1. EdgesShown(r)'
  BY EdgesStay DEF Kept
<1>2. OwnNode(r) \in DOMAIN carried
  BY DEF CoevoGraphTypeOK
<1>3. changed[r] <= wentBack[s] => carried'[OwnNode(r)] >= changed[r]
  BY <1>2 DEF Kept
<1> QED
  BY <1>1, <1>3 DEF Kept

LEMMA CoevoGraphInvImplies == CoevoGraphInv => NewestShown /\ RelationsShown
<1> SUFFICES ASSUME CoevoGraphInv PROVE NewestShown /\ RelationsShown
  OBVIOUS
<1>1. ASSUME NEW s \in InTime, NEW r \in Passed(s) PROVE Kept(r, s)
  <2>1. r \in RowsOf[s] \ (blank \cup missed) /\ changed[r] \in 1..mark[s]
    BY DEF Passed
  <2>2. changed[r] # 0 /\ changed[r] <= mark[s]
    BY <2>1
  <2> QED
    BY <2>1, <2>2 DEF CoevoGraphInv, PassedShown
<1>2. NewestShown
  BY <1>1, SourceNames DEF NewestShown, InTime, Kept
<1>3. \A r \in Passed("reports") : r \in Reports /\ EdgesShown(r)
  BY <1>1, TablesOfRows DEF InTime, Kept, Passed
<1>4. \A r \in Passed("plans") : r \in Plans /\ EdgesShown(r)
  BY <1>1, TablesOfRows DEF InTime, Kept, Passed
<1>5. \A r \in Passed("collabs") : r \in Recommendations /\ EdgesShown(r)
  BY <1>1, TablesOfRows DEF InTime, Kept, Passed
<1> QED
  BY <1>2, <1>3, <1>4, <1>5 DEF RelationsShown, EdgesShown

LEMMA CoevoGraphInvInit == CoevoGraphInit => CoevoGraphInv
<1> SUFFICES ASSUME CoevoGraphInit PROVE CoevoGraphInv
  OBVIOUS
<1>1. CoevoGraphTypeOK
  <2>1. 0 \in Seconds /\ 1 \in 1..(LastTime + 1) /\ 0 \in 0..MaxErrors
    BY TablesAssumption DEF Seconds
  <2>2. /\ changed \in [CoevoRows -> Seconds]
        /\ carried \in [{OwnNode(r) : r \in CoevoRows} -> Seconds]
        /\ mark \in [Range(Sources) -> Seconds]
    BY <2>1 DEF CoevoGraphInit
  <2>4. wentBack \in [Range(Sources) -> 0..Never]
    <3>1. Never \in 0..Never
      BY TablesAssumption DEF Never
    <3> QED
      BY <3>1 DEF CoevoGraphInit
  <2>3. stage \in 0..Len(Sources)
    BY SourceNames DEF CoevoGraphInit
  <2> QED
    BY <2>1, <2>2, <2>3, <2>4 DEF CoevoGraphInit, CoevoGraphTypeOK
<1>2. NoFuture /\ OneInASecond /\ NothingLeft
  BY DEF CoevoGraphInit, NoFuture, OneInASecond, NothingLeft
<1>3. OfTheSource /\ Ahead /\ Gapless /\ StoredShown /\ BehindShown /\ RewindNoted
  BY DEF CoevoGraphInit, OfTheSource, Ahead, Gapless, StoredShown, BehindShown, RewindNoted
<1>4. PassedShown
  BY TablesOfRows, SourceNames DEF CoevoGraphInit, PassedShown, InTime
<1> QED
  BY <1>1, <1>2, <1>3, <1>4 DEF CoevoGraphInv


-----------------------------------------------------------------------------
(* One lemma for each action. *)

LEMMA ChangeRowKeeps ==
    ASSUME CoevoGraphInv, NEW r \in CoevoRows, NEW isBlank \in BOOLEAN, ChangeRow(r, isBlank)
    PROVE  CoevoGraphInv'
<1>1. /\ clock \in 1..LastTime /\ clock \in Seconds /\ clock \in Nat /\ clock' = clock + 1
      /\ changed \in [CoevoRows -> Seconds] /\ changed' = [changed EXCEPT ![r] = clock]
      /\ blank' = blank \cup {r} \/ blank' = blank \ {r}
      /\ isBlank => r \in Reports \cup Memories
      /\ missed' = missed \ {r}
      /\ UNCHANGED <<carried, related, mark, stage, names, selected, since, fetched, newest,
                     wentBack, errors>>
  BY TablesAssumption DEF CoevoGraphInv, CoevoGraphTypeOK, ChangeRow, Seconds, coevoRunVars
<1>2. /\ changed'[r] = clock
      /\ \A q \in CoevoRows : q # r => changed'[q] = changed[q]
      /\ \A q \in CoevoRows : changed[q] \in Nat
  BY <1>1 DEF Seconds
<1>3. CoevoGraphTypeOK'
  <2>1. changed' \in [CoevoRows -> Seconds] /\ clock' \in 1..(LastTime + 1)
    BY <1>1, TablesAssumption
  <2>2. blank' \subseteq Reports \cup Memories
    BY DEF CoevoGraphInv, CoevoGraphTypeOK, ChangeRow
  <2> QED
    BY <1>1, <2>1, <2>2 DEF CoevoGraphInv, CoevoGraphTypeOK
<1>4. \A v \in fetched : v.at \in Nat /\ v.at < clock
  BY DEF CoevoGraphInv, CoevoGraphTypeOK, NoFuture, Seconds
<1>5. newest \in Nat /\ newest < clock /\ since \in Nat /\ since < clock
  BY DEF CoevoGraphInv, CoevoGraphTypeOK, NoFuture, Seconds
<1>6. \A s \in Range(Sources) : mark[s] \in Nat /\ mark[s] < clock
  BY DEF CoevoGraphInv, CoevoGraphTypeOK, NoFuture, Seconds
<1>7. \A q \in CoevoRows : changed[q] < clock
  BY DEF CoevoGraphInv, NoFuture
<1>8. NoFuture'
  BY <1>1, <1>2, <1>4, <1>5, <1>6, <1>7 DEF NoFuture
<1>9. OneInASecond'
  BY <1>1, <1>2, <1>7 DEF CoevoGraphInv, OneInASecond
<1>10. NothingLeft'
  BY <1>1 DEF CoevoGraphInv, NothingLeft
<1>11. Source' = Source
  BY <1>1 DEF Source
<1>12. OfTheSource'
  BY <1>1, <1>11 DEF CoevoGraphInv, OfTheSource
<1>13. stage \in 1..3 => Source \in Range(Sources) /\ RowsOf[Source] \subseteq CoevoRows
  BY SourceNames, TablesOfRows DEF InTime
<1>14. Ahead'
  BY <1>1, <1>2, <1>4, <1>11 DEF CoevoGraphInv, Ahead
<1>15. ASSUME NEW q \in CoevoRows, q # r
       PROVE  /\ q \notin blank' => q \notin blank
              /\ q \notin missed' => q \notin missed
  BY <1>1, <1>15
<1>16. Gapless'
  <2> SUFFICES ASSUME stage \in 1..3, NEW v \in fetched, NEW q \in RowsOf[Source] \ blank',
                      since < changed'[q], newest < changed'[q], changed'[q] < v.at
               PROVE  [row |-> q, at |-> changed'[q], blank |-> FALSE] \in fetched
    BY <1>1, <1>11 DEF Gapless
  <2>1. q \in CoevoRows /\ q # r
    BY <1>1, <1>2, <1>4, <1>13
  <2> QED
    BY <1>2, <1>15, <2>1 DEF CoevoGraphInv, Gapless
<1>17. ASSUME NEW q \in CoevoRows, q # r
       PROVE  /\ Shown(q) => Shown(q)'
              /\ \A s : Kept(q, s) => Kept(q, s)'
  <2>1. changed'[q] = changed[q] /\ (EdgesShown(q) => EdgesShown(q)')
    BY <1>1, <1>2, <1>17 DEF EdgesShown
  <2>2. ASSUME NEW s, Kept(q, s) PROVE Kept(q, s)'
    BY <1>1, <2>1, <2>2 DEF Kept
  <2> QED
    BY <1>1, <2>1, <2>2 DEF Shown
<1>18. StoredShown'
  <2> SUFFICES ASSUME stage \in 1..3, NEW q \in RowsOf[Source] \ blank',
                      since < changed'[q], changed'[q] <= newest
               PROVE  Shown(q)'
    BY <1>1, <1>11 DEF StoredShown
  <2>1. q \in CoevoRows /\ q # r
    BY <1>1, <1>2, <1>5, <1>13
  <2> QED
    BY <1>2, <1>15, <1>17, <2>1 DEF CoevoGraphInv, StoredShown
<1>19. PassedShown'
  <2> SUFFICES ASSUME NEW s \in InTime, NEW q \in RowsOf[s] \ (blank' \cup missed'),
                      changed'[q] # 0, changed'[q] <= mark[s]
               PROVE  Kept(q, s)'
    BY <1>1 DEF PassedShown
  <2>1. s \in Range(Sources) /\ q \in CoevoRows
    BY SourceNames, TablesOfRows DEF InTime
  <2>2. q # r
    BY <1>1, <1>2, <1>6, <2>1
  <2> QED
    BY <1>2, <1>15, <1>17, <2>1, <2>2 DEF CoevoGraphInv, PassedShown
<1>20. BehindShown'
  <2> SUFFICES ASSUME stage \in 1..3, NEW q \in RowsOf[Source] \ (blank' \cup missed'),
                      changed'[q] # 0, changed'[q] <= since
               PROVE  Kept(q, Source)'
    BY <1>1, <1>11 DEF BehindShown
  <2>1. q \in CoevoRows /\ q # r
    BY <1>1, <1>2, <1>5, <1>13
  <2>2. Kept(q, Source)
    BY <1>2, <1>15, <2>1 DEF CoevoGraphInv, BehindShown
  <2> QED
    BY <1>11, <1>17, <2>1, <2>2 DEF Kept
<1>21. RewindNoted'
  BY <1>1, <1>11 DEF CoevoGraphInv, RewindNoted
<1> QED
  BY <1>3, <1>8, <1>9, <1>10, <1>12, <1>14, <1>16, <1>18, <1>19, <1>20, <1>21 DEF CoevoGraphInv

\* Steps that write neither the graph nor a row nor a mark.
LEMMA GraphKept ==
    ASSUME CoevoGraphInv,
           UNCHANGED <<clock, changed, blank, carried, related, mark, missed, wentBack>>
    PROVE  /\ PassedShown' /\ OneInASecond'
           /\ \A r : Shown(r) => Shown(r)'
           /\ \A r, s : Kept(r, s) => Kept(r, s)'
<1>1. ASSUME NEW r, Shown(r) PROVE Shown(r)'
  BY <1>1, Zenon DEF Shown, EdgesShown
<1>2. ASSUME NEW r, NEW s, Kept(r, s) PROVE Kept(r, s)'
  BY <1>2, Zenon DEF Kept, EdgesShown
<1>3. PassedShown'
  BY <1>2 DEF CoevoGraphInv, PassedShown
<1>4. OneInASecond'
  BY DEF CoevoGraphInv, OneInASecond
<1> QED
  BY <1>1, <1>2, <1>3, <1>4

LEMMA MarkGoneKeeps ==
    ASSUME CoevoGraphInv, NEW t \in Range(Sources), MarkGone(t) PROVE CoevoGraphInv'
<1>1. /\ mark' = [mark EXCEPT ![t] = 0]
      /\ UNCHANGED <<clock, changed, blank, carried, related, stage, names, selected, since,
                     fetched, newest, missed, wentBack, errors>>
      /\ Source' = Source
  BY DEF MarkGone, coevoRunVars, historyVars, Source
<1>2. 0 \in Seconds /\ mark \in [Range(Sources) -> Seconds]
  BY TablesAssumption DEF CoevoGraphInv, CoevoGraphTypeOK, Seconds
<1>3. \A s \in Range(Sources) : /\ mark'[s] = mark[s] \/ mark'[s] = 0
                                /\ mark[s] \in Nat
  BY <1>1, <1>2 DEF Seconds
<1>4. CoevoGraphTypeOK'
  BY <1>1, <1>2 DEF CoevoGraphInv, CoevoGraphTypeOK
<1>5. /\ clock \in Nat /\ clock > 0 /\ since \in Nat
      /\ \A q \in CoevoRows : changed[q] \in Nat
  BY TablesAssumption DEF CoevoGraphInv, CoevoGraphTypeOK, Seconds
<1>6. NoFuture' /\ OneInASecond' /\ NothingLeft'
  BY <1>1, <1>3, <1>5 DEF CoevoGraphInv, NoFuture, OneInASecond, NothingLeft
<1>7. OfTheSource' /\ Ahead' /\ Gapless'
  BY <1>1 DEF CoevoGraphInv, OfTheSource, Ahead, Gapless
<1>8. /\ \A r : Shown(r) => Shown(r)'
      /\ \A r, s : Kept(r, s) => Kept(r, s)'
  <2>1. ASSUME NEW r, Shown(r) PROVE Shown(r)'
    BY <1>1, <2>1, Zenon DEF Shown, EdgesShown
  <2>2. ASSUME NEW r, NEW s, Kept(r, s) PROVE Kept(r, s)'
    BY <1>1, <2>2, Zenon DEF Kept, EdgesShown
  <2> QED
    BY <2>1, <2>2
<1>9. StoredShown'
  BY <1>1, <1>8 DEF CoevoGraphInv, StoredShown
<1>10. BehindShown'
  <2> SUFFICES ASSUME stage \in 1..3, NEW q \in RowsOf[Source] \ (blank \cup missed),
                      changed[q] # 0, changed[q] <= since
               PROVE  Kept(q, Source)'
    BY <1>1 DEF BehindShown
  <2>1. Kept(q, Source)
    BY DEF CoevoGraphInv, BehindShown
  <2> QED
    BY <1>1, <2>1, Zenon DEF Kept, EdgesShown
<1>11. RewindNoted'
  <2> SUFFICES ASSUME stage \in 1..3, fetched # {}
               PROVE  mark'[Source] <= since \/ wentBack[Source] <= since
    BY <1>1 DEF RewindNoted
  <2>1. Source \in Range(Sources)
    BY SourceNames
  <2> QED
    BY <1>3, <1>5, <2>1 DEF CoevoGraphInv, RewindNoted
<1>12. PassedShown'
  <2> SUFFICES ASSUME NEW s \in InTime, NEW q \in RowsOf[s] \ (blank \cup missed),
                      changed[q] # 0, changed[q] <= mark'[s]
               PROVE  Kept(q, s)'
    BY <1>1 DEF PassedShown
  <2>1. s \in Range(Sources) /\ q \in CoevoRows
    BY SourceNames, TablesOfRows DEF InTime
  <2>2. changed[q] <= mark[s]
    BY <1>3, <1>5, <2>1
  <2> QED
    BY <1>8, <2>2 DEF CoevoGraphInv, PassedShown
<1> QED
  BY <1>4, <1>6, <1>7, <1>9, <1>10, <1>11, <1>12 DEF CoevoGraphInv

LEMMA BeginSyncKeeps == ASSUME CoevoGraphInv, BeginSync PROVE CoevoGraphInv'
<1>1. /\ stage = 0 /\ stage' = 1 /\ names' \in {{}, Listed}
      /\ UNCHANGED <<clock, changed, blank, carried, related, mark, selected, since, fetched,
                     newest, missed, wentBack>>
      /\ fetched = {} /\ newest = 0 /\ since = 0 /\ ~selected
      /\ errors' \in 0..MaxErrors
  BY TablesAssumption DEF CoevoGraphInv, NothingLeft, BeginSync, Error, CoevoGraphTypeOK,
     historyVars
<1>2. CoevoGraphTypeOK'
  BY <1>1, SourceNames DEF CoevoGraphInv, CoevoGraphTypeOK
<1>3. PassedShown' /\ OneInASecond'
  BY <1>1, GraphKept
<1>4. NoFuture' /\ NothingLeft'
  BY <1>1 DEF CoevoGraphInv, NoFuture, NothingLeft
<1>5. OfTheSource' /\ Ahead' /\ Gapless'
  BY <1>1 DEF OfTheSource, Ahead, Gapless
<1>6. StoredShown' /\ BehindShown' /\ RewindNoted'
  <2>1. Source' \in Range(Sources) /\ RowsOf[Source'] \subseteq CoevoRows
    BY <1>1, SourceNames, TablesOfRows DEF Source, Sources
  <2>2. \A r \in CoevoRows : changed[r] \in Nat
    BY DEF CoevoGraphInv, CoevoGraphTypeOK, Seconds
  <2>3. RewindNoted'
    BY <1>1 DEF RewindNoted
  <2>4. StoredShown'
    BY <1>1, <2>1, <2>2 DEF StoredShown
  <2>5. BehindShown'
    BY <1>1, <2>1, <2>2 DEF BehindShown
  <2> QED
    BY <2>3, <2>4, <2>5
<1> QED
  BY <1>2, <1>3, <1>4, <1>5, <1>6 DEF CoevoGraphInv

LEMMA EdgeRelations ==
    ASSUME NEW r \in CoevoRows, NEW e \in OwnEdges(r)
    PROVE  e.relation \in {"member_of", "has_research_plan", "recommended_collaborator"}
<1>1. \A d \in ReportEdges(r) : d.relation = "member_of"
  BY DEF ReportEdges, Edge
<1>2. \A d \in PlanEdges(r) : d.relation = "has_research_plan"
  BY DEF PlanEdges, Edge
<1>3. \A d \in RecommendationEdges(r) : d.relation = "recommended_collaborator"
  BY DEF RecommendationEdges, Edge
<1> QED
  BY <1>1, <1>2, <1>3, TablesOfRows, SourceNames DEF OwnEdges

LEMMA FetchFailsKeeps == ASSUME CoevoGraphInv, FetchFails PROVE CoevoGraphInv'
<1>1. /\ stage # 0 /\ ~selected /\ selected' = TRUE /\ fetched' = {} /\ newest = 0 /\ since = 0
      /\ errors' \in 0..MaxErrors
      /\ UNCHANGED <<clock, changed, blank, carried, related, mark, stage, names, since, newest,
                     missed, wentBack>>
  BY TablesAssumption DEF CoevoGraphInv, NothingLeft, FetchFails, Error, CoevoGraphTypeOK,
     historyVars
<1>2. CoevoGraphTypeOK'
  BY <1>1 DEF CoevoGraphInv, CoevoGraphTypeOK
<1>3. PassedShown' /\ OneInASecond'
  BY <1>1, GraphKept
<1>4. NoFuture' /\ NothingLeft'
  BY <1>1 DEF CoevoGraphInv, NoFuture, NothingLeft
<1>5. OfTheSource' /\ Ahead' /\ Gapless' /\ RewindNoted'
  BY <1>1 DEF OfTheSource, Ahead, Gapless, RewindNoted
<1>6. StoredShown' /\ BehindShown'
  <2>1. stage' \in 1..3 => RowsOf[Source'] \subseteq CoevoRows
    BY SourceNames, TablesOfRows DEF Source, Sources
  <2>2. \A r \in CoevoRows : changed[r] \in Nat
    BY DEF CoevoGraphInv, CoevoGraphTypeOK, Seconds
  <2>3. StoredShown'
    BY <1>1, <2>1, <2>2 DEF StoredShown
  <2>4. BehindShown'
    BY <1>1, <2>1, <2>2 DEF BehindShown
  <2> QED
    BY <2>3, <2>4
<1> QED
  BY <1>2, <1>3, <1>4, <1>5, <1>6 DEF CoevoGraphInv

\* A run starts at the watermark, or notes that it went back behind it or over rows that
\* are older.
LEMMA StartKeeps ==
    ASSUME CoevoGraphInv, stage \in 1..4, NEW start \in Seconds,
           UNCHANGED <<changed, blank, carried, related, mark, stage>>,
           missed' = missed \cup {r \in RowsOf[Source] : changed[r] \in (mark[Source] + 1)..start},
           wentBack' = IF start < mark[Source] /\ start < wentBack[Source]
                       THEN [wentBack EXCEPT ![Source] = start] ELSE wentBack,
           since' = start
    PROVE  /\ PassedShown' /\ BehindShown' /\ RewindNoted'
           /\ missed' \subseteq CoevoRows /\ wentBack' \in [Range(Sources) -> 0..Never]
           /\ \A r : Shown(r) => Shown(r)'
<1>1. /\ Source' = Source /\ Source \in Range(Sources) /\ RowsOf[Source] \subseteq CoevoRows
      /\ start \in Nat /\ mark[Source] \in Nat /\ \A r \in CoevoRows : changed[r] \in Nat
      /\ wentBack \in [Range(Sources) -> 0..Never] /\ Never \in Nat
  BY SourceNames, TablesOfRows, TablesAssumption
     DEF CoevoGraphInv, CoevoGraphTypeOK, Seconds, Source, Never
<1>2. \A s \in Range(Sources) : wentBack[s] \in Nat
  BY <1>1
<1>3. wentBack' \in [Range(Sources) -> 0..Never]
  <2>1. start \in 0..Never
    BY <1>1, TablesAssumption DEF Seconds, Never
  <2> QED
    BY <1>1, <2>1
<1>4. \A s \in Range(Sources) : wentBack'[s] \in Nat /\ wentBack'[s] <= wentBack[s]
  BY <1>1, <1>2, <1>3
<1>5. missed' \subseteq CoevoRows
  BY <1>1 DEF CoevoGraphInv, CoevoGraphTypeOK
<1>6. \A r : (Shown(r) => Shown(r)') /\ (EdgesShown(r) => EdgesShown(r)')
  BY Zenon DEF Shown, EdgesShown
<1>7. ASSUME NEW s \in Range(Sources), NEW r \in CoevoRows, Kept(r, s) PROVE Kept(r, s)'
  <2>1. changed[r] <= wentBack'[s] => changed[r] <= wentBack[s]
    BY <1>1, <1>2, <1>4
  <2>2. EdgesShown(r)'
    BY <1>6, <1>7 DEF Kept
  <2> QED
    BY <1>7, <2>1, <2>2 DEF Kept
<1>8. PassedShown'
  <2> SUFFICES ASSUME NEW s \in InTime, NEW r \in RowsOf[s] \ (blank \cup missed'),
                      changed[r] # 0, changed[r] <= mark[s]
               PROVE  Kept(r, s)'
    BY DEF PassedShown
  <2>1. s \in Range(Sources) /\ r \in CoevoRows /\ r \notin missed
    BY SourceNames, TablesOfRows DEF InTime
  <2>2. Kept(r, s)
    BY <2>1 DEF CoevoGraphInv, PassedShown
  <2> QED
    BY <1>7, <2>1, <2>2
<1>9. BehindShown'
  <2> SUFFICES ASSUME stage \in 1..3, NEW r \in RowsOf[Source] \ (blank \cup missed'),
                      changed[r] # 0, changed[r] <= start
               PROVE  Kept(r, Source)'
    <3>1. BehindShown' = (stage \in 1..3 => \A r \in RowsOf[Source] \ (blank \cup missed') :
              changed[r] # 0 /\ changed[r] <= start => Kept(r, Source)')
      BY <1>1 DEF BehindShown, Kept, EdgesShown
    <3> QED
      BY <3>1
  <2>1. r \in CoevoRows /\ r \notin missed /\ Source \in InTime
    BY <1>1, SourceNames
  <2>2. changed[r] <= mark[Source]
    <3>1. ~(changed[r] \in (mark[Source] + 1)..start)
      OBVIOUS
    <3> QED
      BY <1>1, <2>1, <3>1
  <2>3. Kept(r, Source)
    BY <2>1, <2>2 DEF CoevoGraphInv, PassedShown
  <2> QED
    BY <1>1, <1>7, <2>1, <2>3
<1>10. RewindNoted'
  <2>1. mark[Source] <= start \/ wentBack'[Source] <= start
    BY <1>1, <1>2
  <2> QED
    BY <1>1, <2>1 DEF RewindNoted
<1> QED
  BY <1>3, <1>5, <1>6, <1>8, <1>9, <1>10

LEMMA FetchRowsKeeps == ASSUME CoevoGraphInv, FetchRows PROVE CoevoGraphInv'
<1> PICK start \in Seconds :
          /\ ReadMark(start)
          /\ since' = start
          /\ \E picked \in SUBSET Eligible(start) :
                Select(picked, Eligible(start)) /\ fetched' = picked
          /\ missed' = missed \cup {r \in RowsOf[Source] : changed[r] \in (mark[Source] + 1)..start}
          /\ wentBack' = IF start < mark[Source] /\ start < wentBack[Source]
                         THEN [wentBack EXCEPT ![Source] = start] ELSE wentBack
  BY DEF FetchRows
<1>1. /\ stage # 0 /\ ~selected /\ selected' = TRUE /\ newest = 0
      /\ fetched' \subseteq Eligible(start)
      /\ \A v \in fetched', u \in Eligible(start) \ fetched' : ~Sooner(u, v)
      /\ UNCHANGED <<clock, changed, blank, carried, related, mark, stage, names, newest>>
  BY DEF CoevoGraphInv, NothingLeft, FetchRows, Select
<1>2. /\ stage \in 1..4 /\ Source' = Source /\ Source \in Range(Sources)
      /\ RowsOf[Source] \subseteq CoevoRows
  <2>1. stage \in 1..4
    BY <1>1, SourceNames DEF CoevoGraphInv, CoevoGraphTypeOK
  <2> QED
    BY <1>1, <2>1, SourceNames, TablesOfRows DEF Source
<1>3. \A v \in Eligible(start) :
          /\ v.row \in RowsOf[Source] /\ v.row \in CoevoRows
          /\ v.at = changed[v.row] /\ v.at > start
          /\ v.blank = (v.row \in blank)
          /\ v = [row |-> v.row, at |-> v.at, blank |-> v.blank]
  BY <1>2 DEF Eligible
<1>4. /\ start \in Nat /\ mark[Source] \in Nat /\ clock \in Nat /\ clock > 0
      /\ \A r \in CoevoRows : changed[r] \in Seconds /\ changed[r] \in Nat
  BY <1>2, TablesAssumption DEF CoevoGraphInv, CoevoGraphTypeOK, Seconds
<1>12. start < clock /\ errors' \in 0..MaxErrors
  <2>1. mark[Source] < clock
    BY <1>2 DEF CoevoGraphInv, NoFuture
  <2>2. Fallback < clock
    BY <1>4, TablesAssumption DEF Fallback
  <2>3. errors \in 0..MaxErrors /\ MaxErrors \in Nat
    BY TablesAssumption DEF CoevoGraphInv, CoevoGraphTypeOK
  <2> QED
    BY <2>1, <2>2, <2>3 DEF ReadMark, Error
<1>6. /\ PassedShown' /\ BehindShown' /\ RewindNoted'
      /\ missed' \subseteq CoevoRows /\ wentBack' \in [Range(Sources) -> 0..Never]
      /\ \A r : Shown(r) => Shown(r)'
  BY <1>1, <1>2, StartKeeps
<1>5. CoevoGraphTypeOK'
  <2>1. ASSUME NEW v \in Eligible(start) PROVE v \in GraphRowVersions
    <3>1. v.blank \in BOOLEAN
      <4>1. (v.row \in blank) \in BOOLEAN
        BY SMT
      <4>2. v.blank = (v.row \in blank)
        BY <1>3
      <4> QED
        BY <4>1, <4>2, Zenon
    <3>2. v.row \in CoevoRows /\ v.at \in Seconds
      BY <1>3, <1>4
    <3> QED
      BY <1>3, <3>1, <3>2 DEF GraphRowVersions
  <2>2. fetched' \subseteq [row : CoevoRows, at : Seconds, blank : BOOLEAN]
    BY <1>1, <2>1 DEF GraphRowVersions
  <2> QED
    BY <1>1, <1>6, <1>12, <2>2 DEF CoevoGraphInv, CoevoGraphTypeOK
<1>7. NoFuture' /\ NothingLeft' /\ OneInASecond'
  BY <1>1, <1>3, <1>12 DEF CoevoGraphInv, NoFuture, NothingLeft, OneInASecond
<1>8. OfTheSource'
  BY <1>1, <1>2, <1>3 DEF OfTheSource
<1>9. Ahead'
  <2> SUFFICES ASSUME stage \in 1..3, NEW v \in fetched'
               PROVE  /\ start < v.at /\ newest < v.at
                      /\ \A r \in CoevoRows : changed[r] = v.at => r = v.row
                      /\ \A u \in fetched' : u.at = v.at => u = v
    BY <1>1, <1>2 DEF Ahead
  <2>1. v \in Eligible(start) /\ v.row \in CoevoRows /\ v.at = changed[v.row] /\ v.at > start
    BY <1>1, <1>3
  <2>2. v.at \in Nat /\ v.at # 0 /\ start < v.at /\ newest < v.at
    BY <1>1, <1>4, <2>1
  <2>3. \A r \in CoevoRows : changed[r] = v.at => r = v.row
    BY <2>1, <2>2 DEF CoevoGraphInv, OneInASecond
  <2>4. ASSUME NEW u \in fetched', u.at = v.at PROVE u = v
    <3>1. u \in Eligible(start) /\ u.row \in CoevoRows /\ u.at = changed[u.row]
      BY <1>1, <1>3
    <3>2. u.row = v.row
      BY <2>3, <2>4, <3>1
    <3> QED
      BY <1>3, <2>1, <2>4, <3>1, <3>2
  <2> QED
    BY <2>2, <2>3, <2>4
<1>10. Gapless'
  <2> SUFFICES ASSUME stage \in 1..3, NEW v \in fetched', NEW r \in RowsOf[Source] \ blank,
                      start < changed[r], newest < changed[r], changed[r] < v.at
               PROVE  [row |-> r, at |-> changed[r], blank |-> FALSE] \in fetched'
    BY <1>1, <1>2 DEF Gapless
  <2> DEFINE u == [row |-> r, at |-> changed[r], blank |-> r \in blank]
  <2>1. u \in Eligible(start)
    BY <1>2, <1>4 DEF Eligible
  <2>2. u = [row |-> r, at |-> changed[r], blank |-> FALSE]
    <3>1. (r \in blank) = FALSE
      BY SMT
    <3> QED
      BY <3>1, Zenon
  <2>3. u.row = r /\ u.at = changed[r]
    OBVIOUS
  <2> HIDE DEF u
  <2>4. u.row \notin Memories
    BY <2>3, SourceNames, TablesOfRows DEF InTime
  <2>5. Sooner(u, v)
    BY <2>3, <2>4 DEF Sooner
  <2> QED
    BY <1>1, <2>1, <2>2, <2>5
<1>11. StoredShown'
  <2>1. \A r \in RowsOf[Source] : ~(start < changed[r] /\ changed[r] <= newest)
    BY <1>1, <1>2, <1>4
  <2> QED
    BY <1>1, <1>2, <2>1 DEF StoredShown
<1> QED
  BY <1>5, <1>6, <1>7, <1>8, <1>9, <1>10, <1>11 DEF CoevoGraphInv

LEMMA SyncStopsKeeps == ASSUME CoevoGraphInv, SyncStops PROVE CoevoGraphInv'
<1>1. /\ stage' = 0 /\ ~selected' /\ selected' = FALSE /\ fetched' = {} /\ newest' = 0
      /\ since' = 0
      /\ UNCHANGED <<clock, changed, blank, carried, related, mark, names, missed, wentBack,
                     errors>>
  BY DEF SyncStops, historyVars
<1>2. CoevoGraphTypeOK'
  <2>1. 0 \in Seconds /\ 0 \in 0..Len(Sources)
    BY TablesAssumption, SourceNames DEF Seconds
  <2> QED
    BY <1>1, <2>1 DEF CoevoGraphInv, CoevoGraphTypeOK
<1>3. PassedShown' /\ OneInASecond'
  BY <1>1, GraphKept
<1>4. NoFuture' /\ NothingLeft'
  BY <1>1 DEF CoevoGraphInv, CoevoGraphTypeOK, NoFuture, NothingLeft
<1>5. OfTheSource' /\ Ahead' /\ Gapless' /\ StoredShown' /\ BehindShown' /\ RewindNoted'
  BY <1>1 DEF OfTheSource, Ahead, Gapless, StoredShown, BehindShown, RewindNoted
<1> QED
  BY <1>2, <1>3, <1>4, <1>5 DEF CoevoGraphInv

\* The mark goes to what was stored last: all below that is shown, and again so if the
\* run started no later than the earliest of those that went back.
LEMMA SourceDoneKeeps == ASSUME CoevoGraphInv, SourceDone PROVE CoevoGraphInv'
<1>1. /\ selected /\ fetched = {} /\ stage' = (stage + 1) % 5
      /\ \/ newest # 0 /\ WriteMark
         \/ UNCHANGED <<mark, wentBack>>
      /\ selected' = FALSE /\ newest' = 0 /\ fetched' = {} /\ since' = 0
      /\ UNCHANGED <<clock, changed, blank, carried, related, names, missed>>
  BY SourceNames DEF SourceDone
<1>2. /\ stage \in 1..4 /\ Source \in Range(Sources) /\ newest \in Seconds /\ newest \in Nat
      /\ mark \in [Range(Sources) -> Seconds] /\ since \in Nat
      /\ wentBack \in [Range(Sources) -> 0..Never] /\ Never \in Nat
  <2>1. stage \in 1..4
    BY <1>1, SourceNames DEF CoevoGraphInv, CoevoGraphTypeOK, NothingLeft
  <2> QED
    BY <2>1, SourceNames, TablesAssumption
       DEF CoevoGraphInv, CoevoGraphTypeOK, Seconds, Never
<1>3. /\ stage' \in 0..4 /\ mark' \in [Range(Sources) -> Seconds]
      /\ wentBack' \in [Range(Sources) -> 0..Never] /\ errors' \in 0..MaxErrors
  <2>1. errors' \in 0..MaxErrors
    BY TablesAssumption DEF CoevoGraphInv, CoevoGraphTypeOK, SourceDone, WriteMark, Error
  <2>2. Never \in 0..Never
    BY <1>2
  <2> QED
    BY <1>1, <1>2, <2>1, <2>2 DEF WriteMark
<1>4. /\ \A s \in Range(Sources) :
            s # Source => mark'[s] = mark[s] /\ wentBack'[s] = wentBack[s]
      /\ \/ mark'[Source] = mark[Source] /\ wentBack'[Source] = wentBack[Source]
         \/ /\ mark'[Source] = newest
            /\ since <= wentBack[Source] \/ wentBack'[Source] = wentBack[Source]
      /\ \A s \in Range(Sources) : mark'[s] \in Nat /\ mark[s] \in Nat /\ wentBack[s] \in Nat
  BY <1>1, <1>2, <1>3 DEF Seconds, WriteMark
<1>5. CoevoGraphTypeOK'
  <2>1. 0 \in Seconds /\ stage' \in 0..Len(Sources)
    BY <1>3, TablesAssumption, SourceNames DEF Seconds
  <2> QED
    BY <1>1, <1>3, <2>1 DEF CoevoGraphInv, CoevoGraphTypeOK
<1>6. NoFuture'
  BY <1>1, <1>4 DEF CoevoGraphInv, CoevoGraphTypeOK, NoFuture
<1>7. NothingLeft' /\ OneInASecond'
  BY <1>1 DEF CoevoGraphInv, NothingLeft, OneInASecond
<1>8. OfTheSource' /\ Ahead' /\ Gapless' /\ BehindShown' /\ RewindNoted'
  <2>1. stage' \in 1..3 => RowsOf[Source'] \subseteq CoevoRows
    BY SourceNames, TablesOfRows DEF Source, Sources
  <2>2. \A r \in CoevoRows : changed'[r] \in Nat
    BY <1>1 DEF CoevoGraphInv, CoevoGraphTypeOK, Seconds
  <2>3. BehindShown'
    BY <1>1, <2>1, <2>2 DEF BehindShown
  <2> QED
    BY <1>1, <2>3 DEF OfTheSource, Ahead, Gapless, RewindNoted
<1>9. \A r \in CoevoRows : changed[r] \in Nat
  BY DEF CoevoGraphInv, CoevoGraphTypeOK, Seconds
<1>10. StoredShown'
  <2> SUFFICES ASSUME stage' \in 1..3, NEW r \in RowsOf[Source'] \ blank,
                      since' < changed[r], changed[r] <= 0
               PROVE  FALSE
    BY <1>1 DEF StoredShown
  <2>1. Source' \in Range(Sources)
    BY SourceNames DEF Source, Sources
  <2>2. r \in CoevoRows
    BY <2>1, TablesOfRows
  <2> QED
    BY <1>1, <1>9, <2>1, <2>2
<1>11. ASSUME NEW r, EdgesShown(r) PROVE EdgesShown(r)'
  BY <1>1, <1>11, Zenon DEF EdgesShown
<1>12. PassedShown'
  <2> SUFFICES ASSUME NEW s \in InTime, NEW r \in RowsOf[s] \ (blank \cup missed),
                      changed[r] # 0, changed[r] <= mark'[s]
               PROVE  Kept(r, s)'
    BY <1>1 DEF PassedShown
  <2>1. s \in Range(Sources) /\ r \in CoevoRows
    BY SourceNames, TablesOfRows DEF InTime
  <2>2. CASE mark'[s] = mark[s] /\ wentBack'[s] = wentBack[s]
    <3>1. Kept(r, s)
      BY <2>2 DEF CoevoGraphInv, PassedShown
    <3> QED
      BY <1>1, <1>11, <2>2, <3>1 DEF Kept
  <2>3. CASE ~(mark'[s] = mark[s] /\ wentBack'[s] = wentBack[s])
    <3>1. /\ s = Source /\ changed[r] <= newest
          /\ since <= wentBack[Source] \/ wentBack'[Source] = wentBack[Source]
      BY <1>4, <2>1, <2>3
    <3>2. stage \in 1..3
      BY <1>2, <3>1 DEF Source, Sources, InTime
    <3>3. CASE since < changed[r]
      <4>1. Shown(r)
        BY <3>1, <3>2, <3>3 DEF CoevoGraphInv, StoredShown
      <4> QED
        BY <1>1, <1>11, <4>1 DEF Shown, Kept
    <3>4. CASE changed[r] <= since
      <4>1. Kept(r, s)
        BY <3>1, <3>2, <3>4 DEF CoevoGraphInv, BehindShown
      <4>2. changed[r] <= wentBack'[s] => changed[r] <= wentBack[s]
        BY <1>2, <1>4, <1>9, <2>1, <3>1, <3>4
      <4> QED
        BY <1>1, <1>11, <4>1, <4>2 DEF Kept
    <3> QED
      BY <1>2, <1>9, <2>1, <3>3, <3>4
  <2> QED
    BY <2>2, <2>3
<1> QED
  BY <1>5, <1>6, <1>7, <1>8, <1>10, <1>12 DEF CoevoGraphInv

\* What is known of a row that comes next.
LEMMA ComesNext ==
    ASSUME CoevoGraphInv, NEW v \in fetched
    PROVE  /\ stage \in 1..4 /\ selected /\ Source \in Range(Sources)
           /\ RowsOf[Source] \subseteq CoevoRows
           /\ v.row \in RowsOf[Source] /\ v.row \in CoevoRows
           /\ v.at \in Seconds /\ v.at \in Nat /\ newest \in Nat /\ since \in Nat
           /\ mark[Source] \in Nat /\ \A s \in Range(Sources) : wentBack[s] \in Nat
           /\ \A r \in CoevoRows : changed[r] \in Nat
           /\ \A u \in fetched : u.at \in Nat
<1>1. stage # 0 /\ selected
  BY DEF CoevoGraphInv, NothingLeft, CoevoGraphTypeOK
<1>2. stage \in 1..4
  BY <1>1, SourceNames DEF CoevoGraphInv, CoevoGraphTypeOK
<1>3. Source \in Range(Sources) /\ RowsOf[Source] \subseteq CoevoRows
  BY <1>2, SourceNames, TablesOfRows
<1>4. v.row \in RowsOf[Source]
  BY <1>1 DEF CoevoGraphInv, OfTheSource
<1>5. /\ v.at \in Seconds /\ newest \in Seconds /\ mark[Source] \in Seconds
      /\ since \in Seconds /\ wentBack \in [Range(Sources) -> 0..Never]
  BY <1>3 DEF CoevoGraphInv, CoevoGraphTypeOK
<1>6. \A r \in CoevoRows : changed[r] \in Seconds
  BY DEF CoevoGraphInv, CoevoGraphTypeOK
<1>7. \A u \in fetched : u.at \in Seconds
  BY DEF CoevoGraphInv, CoevoGraphTypeOK
<1> QED
  BY <1>1, <1>2, <1>3, <1>4, <1>5, <1>6, <1>7 DEF Seconds

LEMMA PassOverKeeps == ASSUME CoevoGraphInv, NEW v \in fetched, PassOver(v) PROVE CoevoGraphInv'
<1>1. /\ v.blank /\ fetched' = fetched \ {v}
      /\ UNCHANGED <<clock, changed, blank, carried, related, mark, stage, names, selected,
                     since, newest, missed, wentBack, errors>>
  BY DEF PassOver, historyVars
<1>2. Source' = Source /\ selected
  BY <1>1, ComesNext DEF Source
<1>3. CoevoGraphTypeOK'
  BY <1>1 DEF CoevoGraphInv, CoevoGraphTypeOK
<1>4. /\ PassedShown' /\ OneInASecond'
      /\ \A r : Shown(r) => Shown(r)'
      /\ \A r, s : Kept(r, s) => Kept(r, s)'
  BY <1>1, GraphKept
<1>5. NoFuture' /\ NothingLeft'
  BY <1>1, <1>2 DEF CoevoGraphInv, NoFuture, NothingLeft
<1>6. OfTheSource' /\ Ahead'
  BY <1>1, <1>2 DEF CoevoGraphInv, OfTheSource, Ahead
<1>7. Gapless'
  <2>1. \A r : [row |-> r, at |-> changed[r], blank |-> FALSE] # v
    BY <1>1
  <2> QED
    BY <1>1, <1>2, <2>1 DEF CoevoGraphInv, Gapless
<1>8. StoredShown'
  BY <1>1, <1>2, <1>4 DEF CoevoGraphInv, StoredShown
<1>9. BehindShown'
  <2> SUFFICES ASSUME stage \in 1..3, NEW q \in RowsOf[Source] \ (blank \cup missed),
                      changed[q] # 0, changed[q] <= since
               PROVE  Kept(q, Source)'
    BY <1>1, <1>2 DEF BehindShown
  <2>1. Kept(q, Source)
    BY DEF CoevoGraphInv, BehindShown
  <2> QED
    BY <1>1, <1>2, <2>1, Zenon DEF Kept, EdgesShown
<1>10. RewindNoted'
  BY <1>1, <1>2 DEF CoevoGraphInv, RewindNoted
<1> QED
  BY <1>3, <1>4, <1>5, <1>6, <1>7, <1>8, <1>9, <1>10 DEF CoevoGraphInv

\* Whether or not the row gets all its edges, what was shown is still shown.
LEMMA WriteKeepsShown ==
    ASSUME CoevoGraphInv, NEW v \in fetched, related \subseteq related',
           carried' = [carried EXCEPT ![OwnNode(v.row)] = v.at] \/ carried' = carried,
           UNCHANGED <<clock, changed, blank, mark, stage, names, since, missed, wentBack>>
    PROVE  /\ PassedShown' /\ BehindShown'
           /\ \A r \in RowsOf[Source] \ blank :
                 stage \in 1..3 /\ since < changed[r] /\ changed[r] <= newest => Shown(r)'
<1>1. /\ stage \in 1..4 /\ Source \in Range(Sources) /\ v.row \in RowsOf[Source]
      /\ RowsOf[Source] \subseteq CoevoRows
      /\ v.at \in Nat /\ newest \in Nat /\ mark[Source] \in Nat /\ since \in Nat
      /\ \A r \in CoevoRows : changed[r] \in Nat
      /\ \A s \in Range(Sources) : wentBack[s] \in Nat
  BY ComesNext
<1>2. stage \in 1..3 => newest < v.at /\ since < v.at
  BY DEF CoevoGraphInv, Ahead
<1>3. PassedShown'
  <2> SUFFICES ASSUME NEW s \in InTime, NEW r \in RowsOf[s] \ (blank \cup missed),
                      changed[r] # 0, changed[r] <= mark[s]
               PROVE  Kept(r, s)'
    BY DEF PassedShown
  <2>1. s \in Range(Sources) /\ r \in CoevoRows
    BY SourceNames, TablesOfRows DEF InTime
  <2>2. Kept(r, s)
    BY DEF CoevoGraphInv, PassedShown
  <2>3. OwnNode(r) = OwnNode(v.row) /\ changed[r] <= wentBack[s] => changed[r] <= v.at
    <3>1. CASE s = Source
      <4>1. stage \in 1..3
        BY <1>1, <3>1 DEF Source, Sources, InTime
      <4>2. mark[Source] <= since \/ wentBack[Source] <= since
        BY <4>1 DEF CoevoGraphInv, RewindNoted
      <4> QED
        BY <1>1, <1>2, <2>1, <3>1, <4>1, <4>2
    <3>2. CASE s # Source
      BY <1>1, <3>2, NodesApart
    <3> QED
      BY <3>1, <3>2
  <2> QED
    BY <2>1, <2>2, <2>3, KeptStays DEF CoevoGraphInv
<1>4. ASSUME NEW r \in RowsOf[Source] \ blank, stage \in 1..3,
             since < changed[r], changed[r] <= newest
      PROVE  Shown(r)'
  <2>1. Shown(r)
    BY <1>4 DEF CoevoGraphInv, StoredShown
  <2>2. changed[r] <= v.at
    BY <1>1, <1>2, <1>4
  <2> QED
    BY <1>1, <2>1, <2>2, ShownStays DEF CoevoGraphInv
<1>5. BehindShown'
  <2>1. Source' = Source
    BY DEF Source
  <2> SUFFICES ASSUME stage \in 1..3, NEW r \in RowsOf[Source] \ (blank \cup missed),
                      changed[r] # 0, changed[r] <= since
               PROVE  Kept(r, Source)'
    BY <2>1 DEF BehindShown
  <2>2. Kept(r, Source)
    BY DEF CoevoGraphInv, BehindShown
  <2>3. r \in CoevoRows /\ changed[r] <= v.at
    BY <1>1, <1>2
  <2>4. Kept(r, Source)' = (EdgesShown(r)'
            /\ (changed'[r] <= wentBack'[Source] => carried'[OwnNode(r)] >= changed'[r]))
    BY <2>1 DEF Kept
  <2>5. EdgesShown(r)'
    BY <2>2, EdgesStay DEF Kept
  <2>6. OwnNode(r) \in DOMAIN carried
    BY <2>3 DEF CoevoGraphInv, CoevoGraphTypeOK
  <2>7. changed[r] <= wentBack[Source] => carried'[OwnNode(r)] >= changed[r]
    BY <2>2, <2>3, <2>6 DEF Kept
  <2> QED
    BY <2>4, <2>5, <2>7
<1> QED
  BY <1>3, <1>4, <1>5

LEMMA StoreRowKeeps == ASSUME CoevoGraphInv, NEW v \in fetched, StoreRow(v) PROVE CoevoGraphInv'
<1>1. /\ ~v.blank /\ \A u \in fetched : ~Sooner(u, v)
      /\ carried' = [carried EXCEPT ![OwnNode(v.row)] = v.at]
      /\ related' = related \cup OwnEdges(v.row)
      /\ newest' = IF newest < v.at THEN v.at ELSE newest
      /\ fetched' = fetched \ {v}
      /\ UNCHANGED <<clock, changed, blank, mark, stage, names, selected, since, missed, wentBack,
                     errors>>
  BY DEF StoreRow, NextRow, historyVars
<1>2. /\ stage \in 1..4 /\ selected /\ Source \in Range(Sources)
      /\ RowsOf[Source] \subseteq CoevoRows
      /\ v.row \in RowsOf[Source] /\ v.row \in CoevoRows
      /\ v.at \in Seconds /\ v.at \in Nat /\ newest \in Nat /\ since \in Nat
      /\ \A r \in CoevoRows : changed[r] \in Nat
      /\ \A u \in fetched : u.at \in Nat
  BY ComesNext
<1>3. Source' = Source
  BY <1>1 DEF Source
<1>4. PassedShown' /\ BehindShown' /\ \A r \in RowsOf[Source] \ blank :
          stage \in 1..3 /\ since < changed[r] /\ changed[r] <= newest => Shown(r)'
  BY <1>1, WriteKeepsShown
<1>5. CoevoGraphTypeOK'
  <2>1. carried' \in [{OwnNode(r) : r \in CoevoRows} -> Seconds] /\ newest' \in Seconds
    BY <1>1, <1>2 DEF CoevoGraphInv, CoevoGraphTypeOK
  <2>2. \A e \in OwnEdges(v.row) :
            e.relation \in {"member_of", "has_research_plan", "recommended_collaborator"}
    BY EdgeRelations, <1>2
  <2> QED
    BY <1>1, <2>1, <2>2 DEF CoevoGraphInv, CoevoGraphTypeOK
<1>6. NoFuture'
  BY <1>1, <1>2 DEF CoevoGraphInv, NoFuture
<1>7. OneInASecond' /\ NothingLeft'
  BY <1>1, <1>2 DEF CoevoGraphInv, OneInASecond, NothingLeft
<1>8. OfTheSource'
  BY <1>1, <1>3 DEF CoevoGraphInv, OfTheSource
<1>9. ASSUME stage \in 1..3
      PROVE  /\ newest' = v.at /\ newest < v.at /\ since < v.at
             /\ \A r \in CoevoRows : changed[r] = v.at => r = v.row
             /\ \A u \in fetched : u.at >= v.at /\ (u.at = v.at => u = v)
  <2>1. newest < v.at /\ since < v.at
    BY <1>9 DEF CoevoGraphInv, Ahead
  <2>2. \A r \in CoevoRows : changed[r] = v.at => r = v.row
    BY <1>9 DEF CoevoGraphInv, Ahead
  <2>3. \A u \in fetched : u.row \notin Memories
    BY <1>9, ComesNext, SourceNames, TablesOfRows DEF InTime
  <2>4. \A u \in fetched : ~(u.at < v.at)
    BY <1>1, <2>3 DEF Sooner
  <2>5. \A u \in fetched : u.at = v.at => u = v
    BY <1>9 DEF CoevoGraphInv, Ahead
  <2> QED
    BY <1>1, <1>2, <2>1, <2>2, <2>4, <2>5
<1>10. Ahead'
  <2> SUFFICES ASSUME stage \in 1..3, NEW u \in fetched'
               PROVE  /\ since < u.at /\ newest' < u.at
                      /\ \A r \in CoevoRows : changed[r] = u.at => r = u.row
                      /\ \A w \in fetched' : w.at = u.at => w = u
    BY <1>1, <1>3 DEF Ahead
  <2>1. u \in fetched /\ u # v
    BY <1>1
  <2>2. newest' < u.at
    BY <1>2, <1>9, <2>1
  <2> QED
    BY <1>1, <2>1, <2>2 DEF CoevoGraphInv, Ahead
<1>11. Gapless'
  <2> SUFFICES ASSUME stage \in 1..3, NEW u \in fetched', NEW r \in RowsOf[Source] \ blank,
                      since < changed[r], newest' < changed[r], changed[r] < u.at
               PROVE  [row |-> r, at |-> changed[r], blank |-> FALSE] \in fetched'
    BY <1>1, <1>3 DEF Gapless
  <2>1. u \in fetched /\ r \in CoevoRows
    BY <1>1, <1>2
  <2>2. newest < changed[r] /\ changed[r] # v.at
    BY <1>2, <1>9, <2>1
  <2>3. [row |-> r, at |-> changed[r], blank |-> FALSE] \in fetched
    BY <2>1, <2>2 DEF CoevoGraphInv, Gapless
  <2> QED
    BY <1>1, <2>2, <2>3
<1>12. Shown(v.row)' \/ changed[v.row] # v.at
  <2> SUFFICES ASSUME changed[v.row] = v.at PROVE Shown(v.row)'
    OBVIOUS
  <2>1. EdgesShown(v.row)'
    BY <1>1, <1>2, EdgesStored
  <2>2. carried'[OwnNode(v.row)] = v.at
    BY <1>1, <1>2 DEF CoevoGraphInv, CoevoGraphTypeOK
  <2> QED
    BY <1>1, <1>2, <2>1, <2>2 DEF Shown
<1>13. StoredShown'
  <2> SUFFICES ASSUME stage \in 1..3, NEW r \in RowsOf[Source] \ blank,
                      since < changed[r], changed[r] <= newest'
               PROVE  Shown(r)'
    BY <1>1, <1>3 DEF StoredShown
  <2>1. r \in CoevoRows /\ changed[r] \in Nat /\ changed[r] <= v.at
    BY <1>2, <1>9
  <2>2. CASE changed[r] <= newest
    BY <1>4, <2>2
  <2>3. CASE newest < changed[r] /\ changed[r] < v.at
    <3>1. [row |-> r, at |-> changed[r], blank |-> FALSE] \in fetched
      BY <2>3 DEF CoevoGraphInv, Gapless
    <3> QED
      BY <1>2, <1>9, <2>3, <3>1
  <2>4. CASE changed[r] = v.at
    BY <1>9, <1>12, <2>1, <2>4
  <2> QED
    BY <1>2, <2>1, <2>2, <2>3, <2>4
<1>14. RewindNoted'
  BY <1>1, <1>3 DEF CoevoGraphInv, RewindNoted
<1> QED
  BY <1>4, <1>5, <1>6, <1>7, <1>8, <1>10, <1>11, <1>13, <1>14 DEF CoevoGraphInv

LEMMA StoreRowFailsKeeps ==
    ASSUME CoevoGraphInv, NEW v \in fetched, StoreRowFails(v) PROVE CoevoGraphInv'
<1>1. /\ newest' = newest /\ fetched' = {} /\ errors' \in 0..MaxErrors
      /\ carried' = [carried EXCEPT ![OwnNode(v.row)] = v.at] \/ carried' = carried
      /\ related \subseteq related' /\ related' \subseteq related \cup OwnEdges(v.row)
      /\ UNCHANGED <<clock, changed, blank, mark, stage, names, selected, since, missed, wentBack>>
  BY TablesAssumption DEF CoevoGraphInv, CoevoGraphTypeOK, StoreRowFails, FailedAfter, Error,
     historyVars
<1>2. /\ stage \in 1..4 /\ selected /\ v.row \in CoevoRows /\ v.at \in Seconds
  BY ComesNext
<1>3. Source' = Source
  BY <1>1 DEF Source
<1>4. PassedShown' /\ BehindShown' /\ \A r \in RowsOf[Source] \ blank :
          stage \in 1..3 /\ since < changed[r] /\ changed[r] <= newest => Shown(r)'
  BY <1>1, WriteKeepsShown
<1>5. CoevoGraphTypeOK'
  <2>1. carried' \in [{OwnNode(r) : r \in CoevoRows} -> Seconds]
    BY <1>1, <1>2 DEF CoevoGraphInv, CoevoGraphTypeOK
  <2>2. \A e \in OwnEdges(v.row) :
            e.relation \in {"member_of", "has_research_plan", "recommended_collaborator"}
    BY EdgeRelations, <1>2
  <2> QED
    BY <1>1, <2>1, <2>2 DEF CoevoGraphInv, CoevoGraphTypeOK
<1>6. NoFuture' /\ OneInASecond' /\ NothingLeft'
  BY <1>1, <1>2 DEF CoevoGraphInv, NoFuture, OneInASecond, NothingLeft
<1>7. OfTheSource' /\ Ahead' /\ Gapless' /\ RewindNoted'
  BY <1>1 DEF OfTheSource, Ahead, Gapless, RewindNoted
<1>8. StoredShown'
  BY <1>1, <1>3, <1>4 DEF StoredShown
<1> QED
  BY <1>4, <1>5, <1>6, <1>7, <1>8 DEF CoevoGraphInv

LEMMA CoevoGraphInvNext == CoevoGraphInv /\ [CoevoGraphNext]_coevoGraphVars => CoevoGraphInv'
<1> SUFFICES ASSUME CoevoGraphInv, [CoevoGraphNext]_coevoGraphVars PROVE CoevoGraphInv'
  OBVIOUS
<1>1. ASSUME NEW r \in CoevoRows, NEW isBlank \in BOOLEAN, ChangeRow(r, isBlank)
      PROVE  CoevoGraphInv'
  BY <1>1, ChangeRowKeeps
<1>2. CASE BeginSync
  BY <1>2, BeginSyncKeeps
<1>3. CASE FetchRows
  BY <1>3, FetchRowsKeeps
<1>4. CASE FetchFails
  BY <1>4, FetchFailsKeeps
<1>5. CASE SourceDone
  BY <1>5, SourceDoneKeeps
<1>6. CASE SyncStops
  BY <1>6, SyncStopsKeeps
<1>7. ASSUME NEW v \in fetched, PassOver(v) PROVE CoevoGraphInv'
  BY <1>7, PassOverKeeps
<1>8. ASSUME NEW v \in fetched, StoreRow(v) PROVE CoevoGraphInv'
  BY <1>8, StoreRowKeeps
<1>9. ASSUME NEW v \in fetched, StoreRowFails(v) PROVE CoevoGraphInv'
  BY <1>9, StoreRowFailsKeeps
<1>10. CASE UNCHANGED coevoGraphVars
  <2>1. /\ PassedShown' /\ OneInASecond' /\ Source' = Source
        /\ \A r : Shown(r) => Shown(r)'
    BY <1>10, GraphKept DEF coevoGraphVars, coevoRunVars, historyVars, Source
  <2>2. CoevoGraphTypeOK'
    BY <1>10 DEF coevoGraphVars, coevoRunVars, historyVars, CoevoGraphInv, CoevoGraphTypeOK
  <2>3. NoFuture' /\ NothingLeft' /\ OfTheSource'
    BY <1>10, <2>1 DEF coevoGraphVars, coevoRunVars, historyVars, CoevoGraphInv, NoFuture, 
                       NothingLeft, OfTheSource
  <2>4. Ahead' /\ Gapless' /\ StoredShown'
    BY <1>10, <2>1 DEF coevoGraphVars, coevoRunVars, historyVars, CoevoGraphInv, Ahead, Gapless,
                       StoredShown
  <2>5. BehindShown' /\ RewindNoted'
    BY <1>10, <2>1 DEF coevoGraphVars, coevoRunVars, historyVars, CoevoGraphInv, BehindShown,
                       RewindNoted, Kept, EdgesShown
  <2> QED
    BY <2>1, <2>2, <2>3, <2>4, <2>5 DEF CoevoGraphInv
<1>11. ASSUME NEW t \in Range(Sources), MarkGone(t) PROVE CoevoGraphInv'
  BY <1>11, MarkGoneKeeps
<1> QED
  BY <1>1, <1>2, <1>3, <1>4, <1>5, <1>6, <1>7, <1>8, <1>9, <1>10, <1>11 DEF CoevoGraphNext

\* Rows, runs and nodes of the CoEvo graph are what the code can make them.
THEOREM CoevoGraphTypeCorrect == CoevoGraphSpec => []CoevoGraphTypeOK
<1>1. CoevoGraphInv => CoevoGraphTypeOK
  BY DEF CoevoGraphInv
<1> QED
  BY CoevoGraphInvInit, CoevoGraphInvNext, <1>1, PTL DEF CoevoGraphSpec

\* No row that the sync has passed is covered by an older one of its node, whatever fails
\* between two statements and wherever a run starts to read: for any tables, times and
\* number of failures.  Rows after the point that a run went back to, because it could not
\* read the watermark, are promised again once a run from there has written one.
THEOREM NewestAlwaysShown == CoevoGraphSpec => []NewestShown
<1>1. CoevoGraphInv => NewestShown
  BY CoevoGraphInvImplies
<1> QED
  BY CoevoGraphInvInit, CoevoGraphInvNext, <1>1, PTL DEF CoevoGraphSpec

\* The edges of a row are there when the row is: they are stored in the same step of the
\* sync that the watermark waits for.
THEOREM RelationsAlwaysShown == CoevoGraphSpec => []RelationsShown
<1>1. CoevoGraphInv => RelationsShown
  BY CoevoGraphInvImplies
<1> QED
  BY CoevoGraphInvInit, CoevoGraphInvNext, <1>1, PTL DEF CoevoGraphSpec

-----------------------------------------------------------------------------
(* Retrieval.                                                              *)

\* What the balls of d steps become with one step more.
Alone == [n \in Nodes |-> {n}]
Grown(balls) ==
    [n \in Nodes |-> balls[n] \cup {b \in Nodes : \E a \in balls[n] : Step(a, b)}]
Grows(f, k) == f = [d \in 0..k |-> IF d = 0 THEN Alone ELSE Grown(f[d - 1])]

LEMMA GrowsTo ==
    ASSUME NEW k \in Nat
    PROVE  \E f : Grows(f, k)
<1> DEFINE S == {n \in Nat : \E f : Grows(f, n)}
<1>1. 0 \in S
  <2> DEFINE f == [d \in 0..0 |-> Alone]
  <2>1. f = [d \in 0..0 |-> IF d = 0 THEN Alone ELSE Grown(f[d - 1])]
    OBVIOUS
  <2> HIDE DEF f
  <2>2. Grows(f, 0)
    BY <2>1 DEF Grows
  <2> QED
    BY <2>2
<1>2. ASSUME NEW n \in Nat, n \in S PROVE n + 1 \in S
  <2>1. PICK f : Grows(f, n)
    BY <1>2
  <2> DEFINE g == [d \in 0..(n + 1) |-> IF d = n + 1 THEN Grown(f[n]) ELSE f[d]]
  <2>2. \A d \in 0..n : f[d] = IF d = 0 THEN Alone ELSE Grown(f[d - 1])
    BY <2>1 DEF Grows
  <2>3. ASSUME NEW d \in 0..(n + 1)
        PROVE  g[d] = IF d = 0 THEN Alone ELSE Grown(g[d - 1])
    <3>1. CASE d = n + 1
      <4>1. g[d] = Grown(f[n]) /\ d - 1 = n /\ d # 0 /\ n \in 0..(n + 1) /\ n # n + 1
        BY <3>1
      <4>2. g[n] = f[n]
        BY <4>1
      <4> QED
        BY <4>1, <4>2, Zenon
    <3>2. CASE d # n + 1
      <4>1. d \in 0..n /\ g[d] = f[d]
        BY <3>2
      <4>2. d # 0 => d - 1 \in 0..(n + 1) /\ d - 1 # n + 1
        BY <3>2
      <4>3. d # 0 => g[d - 1] = f[d - 1]
        BY <4>2
      <4> QED
        BY <2>2, <4>1, <4>3, Zenon
    <3> QED
      BY <3>1, <3>2
  <2>4. DOMAIN g = 0..(n + 1) /\ g = [d \in DOMAIN g |-> g[d]]
    OBVIOUS
  <2> HIDE DEF g
  <2>5. g = [d \in 0..(n + 1) |-> IF d = 0 THEN Alone ELSE Grown(g[d - 1])]
    BY <2>3, <2>4
  <2>6. Grows(g, n + 1)
    BY <2>5 DEF Grows
  <2> QED
    BY <2>6
<1>3. Nat \subseteq S
  <2> HIDE DEF S
  <2> QED
    BY <1>1, <1>2, SetInduction
<1> QED
  BY <1>3

LEMMA GrowsAlike ==
    ASSUME NEW i \in Nat, NEW j \in Nat, NEW f, NEW g, Grows(f, i), Grows(g, j)
    PROVE  \A d \in Nat : d <= i /\ d <= j => f[d] = g[d]
<1> DEFINE S == {d \in Nat : d <= i /\ d <= j => f[d] = g[d]}
<1>1. /\ \A d \in 0..i : f[d] = IF d = 0 THEN Alone ELSE Grown(f[d - 1])
      /\ \A d \in 0..j : g[d] = IF d = 0 THEN Alone ELSE Grown(g[d - 1])
  BY DEF Grows
<1>2. 0 \in S
  BY <1>1
<1>3. ASSUME NEW d \in Nat, d \in S PROVE d + 1 \in S
  <2> SUFFICES ASSUME d + 1 <= i, d + 1 <= j PROVE f[d + 1] = g[d + 1]
    OBVIOUS
  <2>1. f[d] = g[d] /\ d + 1 \in 0..i /\ d + 1 \in 0..j /\ d + 1 # 0 /\ (d + 1) - 1 = d
    BY <1>3
  <2>2. f[d + 1] = Grown(f[(d + 1) - 1]) /\ g[d + 1] = Grown(g[(d + 1) - 1])
    BY <1>1, <2>1, Zenon
  <2> QED
    BY <2>1, <2>2, Zenon
<1>4. Nat \subseteq S
  <2> HIDE DEF S
  <2> QED
    BY <1>2, <1>3, SetInduction
<1> QED
  BY <1>4

\* The recursive definition defines the function one expects.
LEMMA BallUnfolds ==
    /\ Ball[0] = Alone
    /\ \A d \in Nat : Ball[d + 1] = Grown(Ball[d])
<1> DEFINE Body(B, d) == IF d = 0 THEN Alone ELSE Grown(B[d - 1])
           Best(d) == CHOOSE f : Grows(f, d)
           B0 == [d \in Nat |-> Best(d)[d]]
<1>1. \A d \in Nat : Grows(Best(d), d)
  BY GrowsTo, Zenon
<1> HIDE DEF Best
<1>2. ASSUME NEW d \in Nat PROVE B0[d] = Body(B0, d)
  <2>1. d \in 0..d /\ B0[d] = Best(d)[d]
    OBVIOUS
  <2>2. Best(d)[d] = IF d = 0 THEN Alone ELSE Grown(Best(d)[d - 1])
    BY <1>1, <2>1 DEF Grows
  <2>3. CASE d = 0
    BY <2>1, <2>2, <2>3
  <2>4. CASE d # 0
    <3>1. d - 1 \in Nat /\ d - 1 <= d /\ d - 1 <= d - 1
      BY <2>4
    <3>2. Best(d)[d - 1] = Best(d - 1)[d - 1]
      <4>1. Grows(Best(d), d) /\ Grows(Best(d - 1), d - 1)
        BY <1>1, <3>1
      <4>2. \A e \in Nat : e <= d /\ e <= d - 1 => Best(d)[e] = Best(d - 1)[e]
        BY <3>1, <4>1, GrowsAlike
      <4> QED
        BY <3>1, <4>2
    <3>3. B0[d - 1] = Best(d - 1)[d - 1]
      BY <3>1
    <3> QED
      BY <2>1, <2>2, <2>4, <3>2, <3>3, Zenon
  <2> QED
    BY <2>3, <2>4
<1>3. B0 = [d \in Nat |-> Body(B0, d)]
  <2>1. B0 = [d \in Nat |-> B0[d]]
    OBVIOUS
  <2> HIDE DEF B0
  <2> QED
    BY <1>2, <2>1
<1> HIDE DEF B0
<1>4. \A B : [d \in Nat |-> Body(B, d)]
             = [d \in Nat |-> [n \in Nodes |-> IF d = 0 THEN {n}
                     ELSE B[d - 1][n]
                            \cup {b \in Nodes : \E a \in B[d - 1][n] : Step(a, b)}]]
  BY DEF Alone, Grown
<1>5. Ball = [d \in Nat |-> Body(Ball, d)]
  <2> DEFINE Unfolds(B) ==
               B = [d \in Nat |-> [n \in Nodes |-> IF d = 0 THEN {n}
                       ELSE B[d - 1][n]
                              \cup {b \in Nodes : \E a \in B[d - 1][n] : Step(a, b)}]]
  <2>1. Ball = CHOOSE B : Unfolds(B)
    BY DEF Ball
  <2>2. Unfolds(B0)
    BY <1>3, <1>4, Zenon
  <2>3. Unfolds(Ball)
    <3> HIDE DEF Unfolds
    <3> QED
      BY <2>1, <2>2, Zenon
  <2> QED
    BY <1>4, <2>3, Zenon
<1> HIDE DEF Body
<1>6. \A d \in Nat : Ball[d] = Body(Ball, d)
  BY <1>5, Zenon
<1>7. \A d \in Nat : d + 1 \in Nat /\ d + 1 # 0 /\ (d + 1) - 1 = d
  OBVIOUS
<1>8. Ball[0] = Alone
  BY <1>6 DEF Body
<1>9. ASSUME NEW d \in Nat PROVE Ball[d + 1] = Grown(Ball[d])
  <2>1. Ball[d + 1] = Body(Ball, d + 1)
    BY <1>6, <1>7, Zenon
  <2>2. Body(Ball, d + 1) = Grown(Ball[d])
    BY <1>7, Zenon DEF Body
  <2> QED
    BY <2>1, <2>2, Zenon
<1> QED
  BY <1>8, <1>9

-----------------------------------------------------------------------------
(* The rounds of get_neighbors from one root.  Of what was visited, only   *)
(* the frontier still has neighbours that were not, if no row was cut off. *)

Origin == Head(roots)
Rooted ==
    /\ at \in {"expand", "round"} => roots \in Seq(Nodes)
    /\ at = "round" => roots # <<>>
Searched ==
    at = "round" =>
        /\ visited = results \cup {Origin} /\ Origin \notin results
        /\ frontier \subseteq visited /\ visited \subseteq Ball[rounds][Origin]
        /\ Cardinality(results) <= MaxNodes
Exhausted ==
    at = "round" /\ ~cut =>
        /\ visited = Ball[rounds][Origin]
        /\ \A a \in visited \ frontier, b \in Nodes : Step(a, b) => b \in visited

RetrievalInv == RetrievalTypeOK /\ Rooted /\ Searched /\ Exhausted

LEMMA InvNeighbors == RetrievalInv => NeighborsFound
<1> SUFFICES ASSUME RetrievalInv, at = "round"
             PROVE  /\ results \subseteq Ball[rounds][Origin] \ {Origin}
                    /\ Cardinality(results) <= MaxNodes
                    /\ ~cut => results = Ball[rounds][Origin] \ {Origin}
  BY DEF NeighborsFound, Origin
<1> HIDE DEF Ball
<1>1. /\ visited = results \cup {Origin} /\ Origin \notin results
      /\ visited \subseteq Ball[rounds][Origin] /\ Cardinality(results) <= MaxNodes
  BY DEF RetrievalInv, Searched
<1>2. ~cut => visited = Ball[rounds][Origin]
  BY DEF RetrievalInv, Exhausted
<1> QED
  BY <1>1, <1>2

LEMMA OrdersSeq ==
    ASSUME NEW S \in SUBSET (Nodes \cup Summaries), NEW s \in Orders(S)
    PROVE  s \in Seq(S)
<1>1. IsFiniteSet(S) /\ Cardinality(S) \in Nat
  <2>1. IsFiniteSet(Nodes \cup Summaries)
    BY RetrievalAssumption, FS_Union
  <2> QED
    BY <2>1, FS_Subset, FS_CardinalityType
<1>2. s \in [1..Cardinality(S) -> S]
  BY DEF Orders
<1> QED
  BY <1>1, <1>2

LEMMA RetrievalInvInit == RetrievalInit => RetrievalInv
<1> SUFFICES ASSUME RetrievalInit PROVE RetrievalInv
  OBVIOUS
<1>1. RetrievalTypeOK
  <2>1. collected \in Seq(Nodes) /\ roots \in Seq(Nodes) /\ waiting \in Seq(Nodes \cup Summaries)
    BY DEF RetrievalInit
  <2>2. \A s \in {visited, frontier, results} : s \subseteq Nodes
    BY DEF RetrievalInit
  <2>3. rounds \in 0..Depth /\ used \in 0..MaxChars /\ chars \in Nat
    BY RetrievalAssumption DEF RetrievalInit, Section
  <2> QED
    BY <2>1, <2>2, <2>3 DEF RetrievalInit, RetrievalTypeOK
<1>2. at = "search"
  BY DEF RetrievalInit
<1> QED
  BY <1>1, <1>2 DEF RetrievalInv, Rooted, Searched, Exhausted

\* Steps outside the rounds.
LEMMA NotInRound ==
    ASSUME RetrievalTypeOK', at' # "round", at' = "expand" => roots' \in Seq(Nodes)
    PROVE  RetrievalInv'
  BY DEF RetrievalInv, Rooted, Searched, Exhausted

LEMMA SearchKeeps == ASSUME RetrievalInv, Search PROVE RetrievalInv'
<1>1. PICK set \in {s \in SUBSET Nodes : Cardinality(s) <= K} : collected' \in Orders(set)
  BY DEF Search
<1>2. collected' \in Seq(Nodes)
  <2>1. collected' \in Seq(set)
    BY <1>1, OrdersSeq
  <2> QED
    BY <2>1
<1>3. roots' \in Seq(Nodes)
  <2>1. roots' = Pick(collected', TopNodes)
    BY DEF Search
  <2>2. CASE Len(collected') <= TopNodes
    BY <1>2, <2>1, <2>2 DEF Pick
  <2>3. CASE ~(Len(collected') <= TopNodes)
    <3>1. TopNodes \in Nat /\ Len(collected') \in Nat /\ roots' = SubSeq(collected', 1, TopNodes)
      BY <1>2, <2>1, <2>3, RetrievalAssumption DEF Pick
    <3>2. \A n \in 1..TopNodes : collected'[n] \in Nodes
      BY <1>2, <2>3, <3>1
    <3> QED
      BY <1>2, <3>1, <3>2
  <2> QED
    BY <2>2, <2>3
<1>4. RetrievalTypeOK' /\ at' = "expand"
  BY <1>2, <1>3 DEF Search, RetrievalInv, RetrievalTypeOK, searchVars, layoutVars
<1> QED
  BY <1>3, <1>4, NotInRound

LEMMA BallAtZero == ASSUME NEW n \in Nodes PROVE Ball[0][n] = {n}
  BY BallUnfolds DEF Alone

\* The balls change with the edges only.
LEMMA BallStays == ASSUME links' = links PROVE Ball' = Ball
  BY SMT DEF Ball, Step

LEMMA BeginExpandKeeps == ASSUME RetrievalInv, BeginExpand PROVE RetrievalInv'
<1>1. /\ roots' = roots /\ roots \in Seq(Nodes) /\ roots # <<>> /\ Origin \in Nodes
      /\ Origin' = Origin
      /\ visited' = {Origin} /\ frontier' = {Origin} /\ results' = {} /\ rounds' = 0
      /\ cut' = FALSE /\ at' = "round"
  BY DEF RetrievalInv, RetrievalTypeOK, BeginExpand, Origin
<1>2. RetrievalTypeOK'
  <2>1. visited' \subseteq Nodes /\ frontier' \subseteq Nodes /\ results' \subseteq Nodes
    BY <1>1
  <2>2. rounds' \in 0..Depth
    BY <1>1, RetrievalAssumption
  <2>3. cut' \in BOOLEAN
    BY <1>1, Zenon
  <2> QED
    BY <1>1, <2>1, <2>2, <2>3 DEF BeginExpand, RetrievalInv, RetrievalTypeOK, layoutVars
<1>3. Ball'[rounds'][Origin'] = {Origin}
  <2>1. Ball' = Ball
    BY BallStays DEF BeginExpand
  <2> HIDE DEF Ball
  <2>2. Ball[0][Origin] = {Origin}
    BY <1>1, BallAtZero
  <2> QED
    BY <1>1, <2>1, <2>2, Zenon
<1> HIDE DEF Ball
<1>4. Cardinality(results') <= MaxNodes
  BY <1>1, RetrievalAssumption, FS_EmptySet
<1> QED
  BY <1>1, <1>2, <1>3, <1>4 DEF RetrievalInv, Rooted, Searched, Exhausted


\* A round follows some of the rows that lead out of the frontier.
LEMMA RoundKeeps == ASSUME RetrievalInv, Round PROVE RetrievalInv'
<1> USE RetrievalAssumption
<1>1. /\ at = "round" /\ at' = "round" /\ roots' = roots /\ Origin' = Origin /\ links' = links
      /\ rounds' = rounds + 1 /\ rounds < Depth /\ rounds \in Nat
      /\ Cardinality(results) < MaxNodes
      /\ RetrievalTypeOK /\ roots \in Seq(Nodes) /\ roots # <<>> /\ Origin \in Nodes
  BY DEF Round, MoreRounds, RetrievalInv, RetrievalTypeOK, Rooted, Origin
<1>2. /\ visited = results \cup {Origin} /\ Origin \notin results
      /\ frontier \subseteq visited /\ visited \subseteq Ball[rounds][Origin]
  BY <1>1, Zenon DEF RetrievalInv, Searched
<1>3. PICK hops \in SUBSET RowsFrom(frontier) :
          /\ Cardinality(hops) <= LimitLeft
          /\ frontier' = {hop[2] : hop \in hops} \ visited
          /\ visited' = visited \cup ({hop[2] : hop \in hops} \ visited)
          /\ results' = results \cup ({hop[2] : hop \in hops} \ visited)
          /\ cut' = (cut \/ hops # RowsFrom(frontier))
  BY Zenon DEF Round
<1> DEFINE ends == {hop[2] : hop \in hops}
           new == ends \ visited
<1>4. /\ \A hop \in hops : /\ hop \in Nodes \X Nodes /\ hop[1] \in frontier
                           /\ hop[2] \in Nodes /\ Step(hop[1], hop[2])
      /\ new \subseteq Nodes
  BY DEF RowsFrom
<1>5. /\ Ball' = Ball
      /\ Ball[rounds + 1][Origin] = Ball[rounds][Origin]
             \cup {b \in Nodes : \E a \in Ball[rounds][Origin] : Step(a, b)}
  <2>1. Ball' = Ball
    BY <1>1, BallStays
  <2> HIDE DEF Ball
  <2>2. Ball[rounds + 1] = Grown(Ball[rounds])
    BY <1>1, BallUnfolds
  <2> QED
    BY <1>1, <2>1, <2>2 DEF Grown
<1> HIDE DEF Ball
<1>6. IsFiniteSet(results') /\ Cardinality(results') <= MaxNodes
  <2>1. IsFiniteSet(results) /\ IsFiniteSet(RowsFrom(frontier)) /\ IsFiniteSet(hops)
    <3>1. IsFiniteSet(Nodes \X Nodes)
      BY FS_Product
    <3>2. RowsFrom(frontier) \subseteq Nodes \X Nodes /\ hops \subseteq Nodes \X Nodes
      BY DEF RowsFrom
    <3>3. results \subseteq Nodes
      BY <1>1 DEF RetrievalTypeOK
    <3> QED
      BY <3>1, <3>2, <3>3, FS_Subset
  <2>2. IsFiniteSet(ends) /\ Cardinality(ends) <= Cardinality(hops)
    <3> DEFINE f == [hop \in hops |-> hop[2]]
    <3>1. f \in Surjection(hops, ends)
      BY DEF Surjection
    <3> HIDE DEF f
    <3> QED
      BY <2>1, <3>1, FS_Surjection
  <2>3. IsFiniteSet(new) /\ Cardinality(new) <= Cardinality(ends)
    BY <2>2, FS_Subset
  <2>4. /\ IsFiniteSet(results \cup new)
        /\ Cardinality(results \cup new)
             = Cardinality(results) + Cardinality(new) - Cardinality(results \cap new)
    <3> HIDE DEF new
    <3> QED
      BY <2>1, <2>3, FS_Union
  <2>5. /\ Cardinality(results) \in Nat /\ Cardinality(new) \in Nat
        /\ Cardinality(ends) \in Nat /\ Cardinality(hops) \in Nat
        /\ Cardinality(results \cap new) \in Nat
    <3>1. IsFiniteSet(results \cap new)
      BY <2>1, FS_Subset
    <3> HIDE DEF new, ends
    <3> QED
      BY <2>1, <2>2, <2>3, <3>1, FS_CardinalityType
  <2>6. Cardinality(hops) <= MaxNodes - Cardinality(results)
    BY <1>3 DEF LimitLeft
  <2>7. results' = results \cup new
    BY <1>3
  <2> HIDE DEF new, ends
  <2> QED
    BY <2>2, <2>3, <2>4, <2>5, <2>6, <2>7
<1>7. RetrievalTypeOK'
  <2>1. cut' \in BOOLEAN
    BY <1>1, <1>3, Zenon DEF RetrievalTypeOK
  <2>2. rounds' \in 0..Depth
    BY <1>1
  <2>3. visited' \subseteq Nodes /\ frontier' \subseteq Nodes /\ results' \subseteq Nodes
    BY <1>1, <1>3, <1>4 DEF RetrievalTypeOK
  <2>4. UNCHANGED <<collected, roots, waiting, shown, group, sections, used, chars>>
    BY DEF Round, layoutVars
  <2> QED
    BY <1>1, <2>1, <2>2, <2>3, <2>4 DEF RetrievalTypeOK
<1>8. Searched'
  <2>1. /\ visited' = results' \cup {Origin} /\ Origin \notin results'
        /\ frontier' \subseteq visited'
    BY <1>2, <1>3
  <2>2. visited' \subseteq Ball[rounds + 1][Origin]
    <3>1. \A hop \in hops : hop[2] \in Ball[rounds + 1][Origin]
      BY <1>2, <1>4, <1>5
    <3>2. new \subseteq Ball[rounds + 1][Origin]
      BY <3>1
    <3> QED
      BY <1>2, <1>3, <1>5, <3>2
  <2> QED
    BY <1>1, <1>5, <1>6, <2>1, <2>2 DEF Searched
<1>9. Exhausted'
  <2> SUFFICES ASSUME ~cut'
               PROVE  /\ visited' = Ball[rounds + 1][Origin]
                      /\ \A a \in visited' \ frontier', b \in Nodes :
                            Step(a, b) => b \in visited'
    BY <1>1, <1>5 DEF Exhausted, Step
  <2>1. ~cut /\ hops = RowsFrom(frontier)
    BY <1>3, Zenon
  <2>2. /\ visited = Ball[rounds][Origin]
        /\ \A a \in visited \ frontier, b \in Nodes : Step(a, b) => b \in visited
    BY <1>1, <2>1, Zenon DEF RetrievalInv, Exhausted
  <2>3. ASSUME NEW a \in visited, NEW b \in Nodes, Step(a, b) PROVE b \in visited'
    <3>1. a \in Nodes
      BY <1>1 DEF RetrievalTypeOK
    <3>2. CASE a \in frontier
      <4>1. <<a, b>> \in RowsFrom(frontier) /\ <<a, b>>[2] = b
        BY <2>3, <3>1, <3>2 DEF RowsFrom
      <4>2. b \in ends
        BY <2>1, <4>1
      <4> QED
        BY <1>3, <4>2
    <3>3. CASE a \notin frontier
      BY <1>3, <2>2, <2>3, <3>3
    <3> QED
      BY <3>2, <3>3
  <2>4. Ball[rounds + 1][Origin] \subseteq visited'
    BY <1>3, <1>5, <2>2, <2>3
  <2>5. visited' \subseteq Ball[rounds + 1][Origin]
    BY <1>1, <1>5, <1>8 DEF Searched
  <2>6. visited' \ frontier' \subseteq visited
    BY <1>3
  <2> QED
    BY <2>3, <2>4, <2>5, <2>6
<1> QED
  BY <1>1, <1>7, <1>8, <1>9 DEF RetrievalInv, Rooted

LEMMA EndExpandKeeps == ASSUME RetrievalInv, EndExpand PROVE RetrievalInv'
<1>1. /\ at = "round" /\ roots \in Seq(Nodes) /\ roots # <<>> /\ results \subseteq Nodes
      /\ collected \in Seq(Nodes)
  BY DEF EndExpand, RetrievalInv, RetrievalTypeOK, Rooted
<1>2. PICK s \in Orders(results \ InSeq(collected)) : collected' = collected \o s
  BY DEF EndExpand
<1>3. collected' \in Seq(Nodes)
  <2> DEFINE S == results \ InSeq(collected)
  <2>1. S \in SUBSET (Nodes \cup Summaries) /\ S \subseteq Nodes
    BY <1>1
  <2> HIDE DEF S
  <2>2. s \in Seq(S)
    BY <1>2, <2>1, OrdersSeq DEF S
  <2>3. s \in Seq(Nodes)
    BY <2>1, <2>2
  <2> QED
    BY <1>1, <1>2, <2>3
<1>4. roots' \in Seq(Nodes) /\ at' = "expand"
  BY <1>1 DEF EndExpand
<1>5. RetrievalTypeOK'
  BY <1>3, <1>4 DEF EndExpand, RetrievalInv, RetrievalTypeOK, searchVars, layoutVars
<1> QED
  BY <1>4, <1>5, NotInRound

LEMMA BeginLayoutKeeps == ASSUME RetrievalInv, BeginLayout PROVE RetrievalInv'
<1>1. at' \in {"done", "layout"}
  BY DEF BeginLayout
<1>2. PICK extra \in IF Len(collected) < K \div 2 THEN SUBSET Summaries ELSE {{}} :
          waiting' \in Orders(InSeq(collected) \cup extra)
  BY DEF BeginLayout
<1>3. waiting' \in Seq(Nodes \cup Summaries)
  <2> DEFINE S == InSeq(collected) \cup extra
  <2>1. InSeq(collected) \subseteq Nodes
    BY DEF RetrievalInv, RetrievalTypeOK, InSeq
  <2>2. extra \subseteq Summaries
    BY <1>2
  <2>3. S \in SUBSET (Nodes \cup Summaries)
    BY <2>1, <2>2
  <2> HIDE DEF S
  <2>4. waiting' \in Seq(S)
    BY <1>2, <2>3, OrdersSeq DEF S
  <2> QED
    BY <2>3, <2>4
<1>4. RetrievalTypeOK'
  BY <1>1, <1>3 DEF BeginLayout, RetrievalInv, RetrievalTypeOK, searchVars
<1> QED
  BY <1>1, <1>4, NotInRound

LEMMA BeginSectionKeeps == ASSUME RetrievalInv, BeginSection PROVE RetrievalInv'
<1> USE RetrievalAssumption
<1>1. at' \in {"done", "group"}
  BY DEF BeginSection
<1>2. CASE ~HeaderFits
  <2>1. RetrievalTypeOK'
    BY <1>1, <1>2 DEF BeginSection, RetrievalInv, RetrievalTypeOK, searchVars
  <2> QED
    BY <1>1, <2>1, NotInRound
<1>3. CASE HeaderFits
  <2> DEFINE first == CHOOSE n \in Left : \A m \in Left : n <= m
  <2>1. Left \subseteq Nat /\ Left # {}
    <3>1. DOMAIN waiting \subseteq Nat
      BY DEF RetrievalInv, RetrievalTypeOK
    <3>2. Left # {}
      BY DEF BeginSection
    <3> QED
      BY <3>1, <3>2 DEF Left
  <2>2. first \in Left
    BY <2>1, FirstPlace
  <2>3. group' = TypeOf[waiting[first]]
    BY <1>3 DEF BeginSection
  <2> HIDE DEF first
  <2>4. group' \in Types
    BY <2>2, <2>3 DEF Left, RetrievalInv, RetrievalTypeOK
  <2>5. /\ sections' = sections \cup {group'} /\ used' = used + 1 /\ chars' = chars + 1
        /\ used + 1 <= MaxChars
    BY <1>3 DEF BeginSection, HeaderFits, Section
  <2>6. RetrievalTypeOK'
    BY <1>1, <2>4, <2>5 DEF BeginSection, RetrievalInv, RetrievalTypeOK, searchVars
  <2> QED
    BY <1>1, <2>6, NotInRound
<1> QED
  BY <1>2, <1>3

\* The next entry of a section is one of those that wait.
LEMMA NextWaits ==
    ASSUME RetrievalTypeOK, OfGroup # {}
    PROVE  NextOf \in Nodes \cup Summaries /\ SizeOf[NextOf] \in Nat
<1> DEFINE first == CHOOSE n \in OfGroup : \A m \in OfGroup : n <= m
<1>1. OfGroup \subseteq Nat
  BY DEF OfGroup, RetrievalTypeOK
<1>2. first \in OfGroup
  BY <1>1, FirstPlace
<1>3. NextOf = waiting[first]
  BY DEF NextOf
<1> HIDE DEF first
<1> QED
  BY <1>2, <1>3, RetrievalAssumption DEF OfGroup, RetrievalTypeOK

LEMMA LayoutEntryKeeps == ASSUME RetrievalInv, ShowEntry \/ CutEntry PROVE RetrievalInv'
<1> USE RetrievalAssumption
<1>1. RetrievalTypeOK /\ OfGroup # {} /\ at' \in {"group", "layout"}
  BY DEF RetrievalInv, ShowEntry, CutEntry
<1>2. NextOf \in Nodes \cup Summaries /\ SizeOf[NextOf] \in Nat
  BY <1>1, NextWaits
<1>3. /\ used' \in 0..MaxChars /\ chars' \in Nat
      /\ shown' \in {shown, shown \cup {NextOf}}
      /\ UNCHANGED <<links, collected, roots, searchVars, waiting, group, sections>>
  <2>1. CASE ShowEntry
    BY <1>1, <1>2, <2>1 DEF ShowEntry, RetrievalTypeOK
  <2>2. CASE CutEntry
    BY <1>1, <1>2, <2>2 DEF CutEntry, RetrievalTypeOK
  <2> QED
    BY <2>1, <2>2
<1>4. RetrievalTypeOK'
  BY <1>1, <1>2, <1>3 DEF RetrievalTypeOK, searchVars
<1> QED
  BY <1>1, <1>4, NotInRound

LEMMA LayoutEndsKeeps == ASSUME RetrievalInv, EndSection \/ EndLayout PROVE RetrievalInv'
<1>1. RetrievalTypeOK' /\ at' \in {"done", "layout"}
  BY DEF RetrievalInv, RetrievalTypeOK, EndSection, EndLayout, searchVars, layoutVars
<1> QED
  BY <1>1, NotInRound

LEMMA RetrievalInvNext ==
    ASSUME RetrievalInv, [RetrievalNext]_retrievalVars PROVE RetrievalInv'
<1>1. CASE UNCHANGED retrievalVars
  <2>1. Ball' = Ball
    BY <1>1, BallStays DEF retrievalVars
  <2> HIDE DEF Ball
  <2>2. /\ RetrievalTypeOK' /\ Rooted' /\ Origin' = Origin
        /\ links' = links /\ at' = at /\ visited' = visited /\ frontier' = frontier
        /\ results' = results /\ rounds' = rounds /\ cut' = cut
    BY <1>1 DEF retrievalVars, searchVars, layoutVars, RetrievalInv, RetrievalTypeOK, Rooted,
                Origin
  <2>3. Searched' /\ Exhausted'
    BY <2>1, <2>2 DEF RetrievalInv, Searched, Exhausted, Step
  <2> QED
    BY <2>2, <2>3 DEF RetrievalInv
<1> QED
  BY <1>1, SearchKeeps, BeginExpandKeeps, RoundKeeps, EndExpandKeeps, BeginLayoutKeeps,
     BeginSectionKeeps, LayoutEntryKeeps, LayoutEndsKeeps, Zenon DEF RetrievalNext

\* A retrieval stays within its rounds and its text counts within its length.
THEOREM RetrievalTypeCorrect == RetrievalSpec => []RetrievalTypeOK
<1>1. RetrievalInv => RetrievalTypeOK
  BY DEF RetrievalInv
<1> QED
  BY RetrievalInvInit, RetrievalInvNext, <1>1, PTL DEF RetrievalSpec

\* get_neighbors finds what is near its root, at most its limit, and all of it when no
\* LIMIT cut a round short (store.py:290), in every graph of any size.
THEOREM NeighborsAreFound == RetrievalSpec => []NeighborsFound
<1>1. RetrievalInv => NeighborsFound
  BY InvNeighbors
<1> QED
  BY RetrievalInvInit, RetrievalInvNext, <1>1, PTL DEF RetrievalSpec

-----------------------------------------------------------------------------
(* Questions about members.  A name that no more than FewHits members have *)
(* in theirs is among the members that are looked at, so whoever has       *)
(* exactly that name is chosen; a lookup that found a name that was known  *)
(* goes on with exactly the members that were asked for.                   *)

\* Of the names in which a name occurs there are no more than are looked at.
FewAlike ==
    \A n \in MemberNames :
        LET alike == {m \in MemberNames : Like(m, n)}
        IN  IsFiniteSet(alike) /\ Cardinality(alike) <= FewHits

QuestionFits ==
    /\ question = NoQuestion => working = <<>>
    /\ question # NoQuestion =>
          /\ question.asked # <<>>
          /\ working = <<>> => ~question.known
          /\ question.confirmed => Len(question.asked) = 1

AnswersInv == AnswersTypeOK /\ QuestionFits

\* Who was confirmed is the one that is worked on and answered about.
ConfirmedInv ==
    /\ question # NoQuestion /\ question.confirmed /\ question.known =>
          working = question.asked
    /\ ConfirmedIsAnswered

\* Of the elements with fewer than k others before them there are at most k.
LEMMA LimitBound ==
    ASSUME NEW S, IsFiniteSet(S), NEW R,
           \A a \in S : <<a, a>> \notin R,
           \A a, b \in S : a = b \/ <<a, b>> \in R \/ <<b, a>> \in R,
           \A a, b, c \in S : <<a, b>> \in R /\ <<b, c>> \in R => <<a, c>> \in R,
           NEW k \in Nat
    PROVE  Cardinality({n \in S : Cardinality({m \in S : <<m, n>> \in R}) < k}) <= k
<1> DEFINE Before(n) == {m \in S : <<m, n>> \in R}
           few == {n \in S : Cardinality(Before(n)) < k}
           place == [n \in few |-> Cardinality(Before(n))]
<1>1. \A n \in S : IsFiniteSet(Before(n)) /\ Cardinality(Before(n)) \in Nat
  <2> SUFFICES ASSUME NEW n \in S PROVE IsFiniteSet(Before(n)) /\ Cardinality(Before(n)) \in Nat
    OBVIOUS
  <2>1. Before(n) \subseteq S
    OBVIOUS
  <2> HIDE DEF Before
  <2> QED
    BY <2>1, FS_Subset, FS_CardinalityType
<1>2. ASSUME NEW a \in S, NEW b \in S, <<a, b>> \in R
      PROVE  Cardinality(Before(a)) < Cardinality(Before(b))
  <2>1. Before(a) \subseteq Before(b) /\ a \in Before(b) /\ a \notin Before(a)
    BY <1>2
  <2>2. Before(a) # Before(b)
    BY <2>1
  <2> HIDE DEF Before
  <2>3. Cardinality(Before(a)) <= Cardinality(Before(b))
        /\ (Cardinality(Before(a)) = Cardinality(Before(b)) => Before(a) = Before(b))
    BY <1>1, <2>1, FS_Subset
  <2> QED
    BY <1>1, <2>2, <2>3
<1> HIDE DEF Before
<1>3. IsFiniteSet(few)
  BY FS_Subset
<1>4. place \in Injection(few, 0..(k - 1))
  <2>1. \A n \in few : Cardinality(Before(n)) \in 0..(k - 1)
    BY <1>1
  <2>2. \A a, b \in few : Cardinality(Before(a)) = Cardinality(Before(b)) => a = b
    <3> SUFFICES ASSUME NEW a \in few, NEW b \in few,
                        Cardinality(Before(a)) = Cardinality(Before(b)), a # b
                 PROVE  FALSE
      OBVIOUS
    <3>1. a \in S /\ b \in S
      OBVIOUS
    <3>2. <<a, b>> \in R \/ <<b, a>> \in R
      BY <3>1
    <3>3. /\ Cardinality(Before(a)) \in Nat /\ Cardinality(Before(b)) \in Nat
          /\ <<a, b>> \in R => Cardinality(Before(a)) < Cardinality(Before(b))
          /\ <<b, a>> \in R => Cardinality(Before(b)) < Cardinality(Before(a))
      BY <1>1, <1>2, <3>1
    <3> QED
      BY <3>2, <3>3
  <2> QED
    BY <2>1, <2>2 DEF Injection, IsInjective
<1>5. IsFiniteSet(0..(k - 1)) /\ Cardinality(0..(k - 1)) = k
  <2>1. 0 \in Int /\ k - 1 \in Int
    OBVIOUS
  <2> QED
    BY <2>1, FS_Interval
<1>6. Cardinality(few) <= k
  <2> HIDE DEF few, place
  <2> QED
    BY <1>4, <1>5, FS_Injection
<1> QED
  BY <1>3, <1>6 DEF Before

LEMMA ActiveFinite ==
    ASSUME AnswersTypeOK
    PROVE  /\ IsFiniteSet(active) /\ active \subseteq MemberNames
           /\ \A n \in active : Id(n) \in DOMAIN members /\ members[Id(n)] = n
           /\ DOMAIN members \subseteq Nat
<1>1. /\ DOMAIN members = 1..Len(members) /\ Len(members) \in Nat
      /\ \A i \in DOMAIN members : members[i] \in MemberNames
  BY DEF AnswersTypeOK
<1>2. IsFiniteSet(Range(members))
  <2>1. IsFiniteSet(1..Len(members))
    BY <1>1, FS_Interval
  <2>2. members \in Surjection(1..Len(members), Range(members))
    BY <1>1 DEF Surjection, Range, AnswersTypeOK
  <2> QED
    BY <2>1, <2>2, FS_Surjection
<1>3. active \subseteq Range(members)
  BY DEF AnswersTypeOK
<1>4. IsFiniteSet(active)
  BY <1>2, <1>3, FS_Subset
<1>5. ASSUME NEW n \in active PROVE Id(n) \in DOMAIN members /\ members[Id(n)] = n
  <2>1. \E i \in DOMAIN members : members[i] = n
    BY <1>3 DEF Range
  <2> QED
    BY <2>1 DEF Id
<1> QED
  BY <1>1, <1>3, <1>4, <1>5 DEF Range

LEMMA FirstBound ==
    ASSUME AnswersTypeOK, NEW S \in SUBSET active, NEW k \in Nat
    PROVE  FirstById(S, k) \subseteq S /\ Cardinality(FirstById(S, k)) <= k
<1> DEFINE R == {p \in S \X S : Id(p[1]) < Id(p[2])}
<1>1. IsFiniteSet(S)
  BY ActiveFinite, FS_Subset
<1>2. /\ \A n \in S : Id(n) \in Nat
      /\ \A m, n \in S : Id(m) = Id(n) => m = n
  BY ActiveFinite
<1>3. \A m, n \in S : <<m, n>> \in R <=> Id(m) < Id(n)
  OBVIOUS
<1> HIDE DEF R
<1>4. /\ \A a \in S : <<a, a>> \notin R
      /\ \A a, b \in S : a = b \/ <<a, b>> \in R \/ <<b, a>> \in R
      /\ \A a, b, c \in S : <<a, b>> \in R /\ <<b, c>> \in R => <<a, c>> \in R
  BY <1>2, <1>3
<1>5. FirstById(S, k) = {n \in S : Cardinality({m \in S : <<m, n>> \in R}) < k}
  BY <1>3 DEF FirstById
<1>6. Cardinality({n \in S : Cardinality({m \in S : <<m, n>> \in R}) < k}) <= k
  BY SMTT(40), <1>1, <1>4, LimitBound
<1> QED
  BY <1>5, <1>6

LEMMA SuggestedBound ==
    ASSUME AnswersTypeOK, NEW name \in Asked, NEW k \in Nat
    PROVE  /\ Suggestions(name, k) \subseteq active
           /\ IsFiniteSet(Suggestions(name, k))
           /\ Cardinality(Suggestions(name, k)) <= k
<1> DEFINE S == UNION Range(Tried(name))
           Fits(n) == {i \in DOMAIN Tried(name) : n \in Tried(name)[i]}
           Pattern(n) == CHOOSE i \in Fits(n) : \A j \in Fits(n) : i <= j
           Before(m, n) == \/ Pattern(m) < Pattern(n)
                           \/ Pattern(m) = Pattern(n) /\ Id(m) < Id(n)
           R == {p \in S \X S : Before(p[1], p[2])}
<1>1. Tried(name) \in Seq(SUBSET active)
  <2>1. name \in Seq(Range(name))
    BY NamesAssumption DEF Asked
  <2>2. [i \in DOMAIN name |-> Hits(<<name[i]>>)] \in Seq(SUBSET active)
    <3>1. DOMAIN name = 1..Len(name) /\ Len(name) \in Nat
      BY <2>1
    <3>2. \A i \in DOMAIN name : Hits(<<name[i]>>) \in SUBSET active
      BY DEF Hits
    <3> QED
      BY <3>1, <3>2
  <2>3. <<TwoCharacters(name), {n \in active : Head(n) = Head(name)}>> \in Seq(SUBSET active)
    BY DEF TwoCharacters, Hits
  <2> QED
    BY <2>2, <2>3 DEF Tried
<1>2. /\ DOMAIN Tried(name) \subseteq Nat
      /\ \A i \in DOMAIN Tried(name) : Tried(name)[i] \subseteq active
  BY <1>1
<1>3. S \subseteq active
  BY <1>2 DEF Range
<1>4. \A n \in S : Fits(n) \subseteq Nat /\ Fits(n) # {}
  BY <1>2 DEF Range
<1>5. \A n \in S : Pattern(n) \in Nat
  <2> HIDE DEF Fits, S
  <2> SUFFICES ASSUME NEW n \in S PROVE Pattern(n) \in Fits(n)
    BY <1>4
  <2> QED
    BY <1>4, FirstPlace
<1>6. /\ \A n \in S : Id(n) \in Nat
      /\ \A m, n \in S : Id(m) = Id(n) => m = n
  BY <1>3, ActiveFinite
<1>7. IsFiniteSet(S)
  BY <1>3, ActiveFinite, FS_Subset
<1>8. Suggestions(name, k) = {n \in S : Cardinality({m \in S : Before(m, n)}) < k}
  BY DEF Suggestions
<1> HIDE DEF S, Pattern
<1>9. \A m, n \in S : <<m, n>> \in R <=> Before(m, n)
  OBVIOUS
<1>10. /\ \A a \in S : ~Before(a, a)
       /\ \A a, b \in S : a = b \/ Before(a, b) \/ Before(b, a)
       /\ \A a, b, c \in S : Before(a, b) /\ Before(b, c) => Before(a, c)
  BY <1>5, <1>6
<1> HIDE DEF Before
<1>11. /\ \A a \in S : <<a, a>> \notin R
       /\ \A a, b \in S : a = b \/ <<a, b>> \in R \/ <<b, a>> \in R
       /\ \A a, b, c \in S : <<a, b>> \in R /\ <<b, c>> \in R => <<a, c>> \in R
  BY <1>9, <1>10
<1>12. Suggestions(name, k) = {n \in S : Cardinality({m \in S : <<m, n>> \in R}) < k}
  BY <1>8, <1>9
<1> HIDE DEF R
<1>13. Cardinality({n \in S : Cardinality({m \in S : <<m, n>> \in R}) < k}) <= k
  BY <1>7, <1>11, LimitBound
<1>14. Suggestions(name, k) \subseteq S /\ IsFiniteSet(Suggestions(name, k))
  <2>1. Suggestions(name, k) \subseteq S
    BY <1>12
  <2> QED
    BY <1>7, <2>1, FS_Subset
<1> QED
  BY <1>3, <1>12, <1>13, <1>14

LEMMA AnswersInvInit == AnswersInit => AnswersInv
<1> SUFFICES ASSUME AnswersInit PROVE AnswersInv
  OBVIOUS
<1>1. members = <<>> /\ IsInjective(members) /\ Len(members) <= MaxMembers
  BY NamesAssumption DEF AnswersInit, IsInjective
<1> QED
  BY <1>1 DEF AnswersInit, AnswersInv, AnswersTypeOK, QuestionFits

LEMMA JoinKeeps == ASSUME AnswersInv, NEW n \in MemberNames, Join(n) PROVE AnswersInv'
<1>1. members' \in Seq(MemberNames) /\ IsInjective(members') /\ Len(members') <= MaxMembers
  BY NamesAssumption DEF AnswersInv, AnswersTypeOK, Join, IsInjective, Range
<1>2. active' \subseteq Range(members')
  <2>1. /\ DOMAIN members \subseteq DOMAIN members'
        /\ \A i \in DOMAIN members : members'[i] = members[i]
    BY DEF AnswersInv, AnswersTypeOK, Join
  <2>2. n \in Range(members')
    BY DEF AnswersInv, AnswersTypeOK, Join, Range
  <2> QED
    BY <2>1, <2>2 DEF AnswersInv, AnswersTypeOK, Join, Range
<1> QED
  BY <1>1, <1>2 DEF AnswersInv, AnswersTypeOK, QuestionFits, Join

LEMMA DeactivateKeeps ==
    ASSUME AnswersInv, NEW n \in MemberNames, Deactivate(n) PROVE AnswersInv'
  BY DEF AnswersInv, AnswersTypeOK, QuestionFits, Deactivate

LEMMA AskAboutKeeps ==
    ASSUME AnswersInv, NEW action \in Actions, NEW asked \in Seq(Asked), NEW confirmed \in BOOLEAN,
           asked # <<>>, confirmed => Len(asked) = 1,
           AskAbout(action, asked, confirmed)
    PROVE  AnswersInv'
<1>1. /\ question = NoQuestion /\ working = <<>>
      /\ question' = [action |-> action, asked |-> asked, confirmed |-> confirmed, known |-> FALSE]
      /\ lastAnswer' = NoAnswer /\ UNCHANGED <<members, active, working>>
  BY DEF AskAbout, AnswersInv, QuestionFits
<1>2. question' \in Questions
  BY <1>1 DEF Questions
<1> QED
  BY <1>1, <1>2 DEF AnswersInv, AnswersTypeOK, QuestionFits

LEMMA AsksKeep == ASSUME AnswersInv, AskFirst \/ AskAgain PROVE AnswersInv'
<1>1. CASE AskFirst
  <2>1. CASE \E action \in AboutOne \cup {"search_member"}, n \in Asked :
                AskAbout(action, <<n>>, FALSE)
    <3>1. PICK action \in AboutOne \cup {"search_member"}, n \in Asked :
              AskAbout(action, <<n>>, FALSE)
      BY <2>1
    <3>2. action \in Actions /\ <<n>> \in Seq(Asked) /\ <<n>> # <<>> /\ FALSE \in BOOLEAN
      BY DEF Actions
    <3> QED
      BY <3>1, <3>2, AskAboutKeeps, Zenon
  <2>2. CASE \E a, b \in Asked : AskAbout("compute_collaboration_score", <<a, b>>, FALSE)
    <3>1. PICK a \in Asked, b \in Asked :
              AskAbout("compute_collaboration_score", <<a, b>>, FALSE)
      BY <2>2
    <3>2. /\ "compute_collaboration_score" \in Actions
          /\ <<a, b>> \in Seq(Asked) /\ <<a, b>> # <<>> /\ FALSE \in BOOLEAN
      BY DEF Actions
    <3> QED
      BY <3>1, <3>2, AskAboutKeeps, Zenon
  <2> QED
    BY <1>1, <2>1, <2>2 DEF AskFirst
<1>2. CASE AskAgain
  <2>1. PICK action \in AboutOne, n \in lastAnswer.candidates : AskAbout(action, <<n>>, TRUE)
    BY <1>2 DEF AskAgain
  <2>2. n \in Asked
    BY <1>2, <2>1 DEF AskAgain, AnswersInv, AnswersTypeOK, Answers, Asked
  <2>3. /\ action \in Actions /\ <<n>> \in Seq(Asked) /\ TRUE \in BOOLEAN
        /\ Len(<<n>>) = 1 /\ <<n>> # <<>>
    BY <2>2 DEF Actions
  <2> QED
    BY <2>1, <2>3, AskAboutKeeps, Zenon
<1> QED
  BY <1>1, <1>2

\* Whatever is answered, nothing is asked or worked on then.
LEMMA AnsweredKeeps ==
    ASSUME AnswersInv, question # NoQuestion, UNCHANGED <<members, active>>,
           question' = NoQuestion, working' = <<>>,
           lastAnswer' \in Answers, Cardinality(lastAnswer'.candidates) <= MaxSuggested
    PROVE  AnswersInv'
  BY DEF AnswersInv, AnswersTypeOK, QuestionFits

LEMMA AnswerWithKeeps ==
    ASSUME AnswersInv, question # NoQuestion, NEW status \in {200, 404, 408},
           NEW candidates \in SUBSET MemberNames, Cardinality(candidates) <= MaxSuggested,
           AnswerWith(status, <<>>, candidates)
    PROVE  AnswersInv'
<1>1. question \in Questions
  BY DEF AnswersInv, AnswersTypeOK
<1>2. [question EXCEPT !.known = Range(question.asked) \subseteq active] \in Questions
  <2>1. (Range(question.asked) \subseteq active) \in BOOLEAN
    BY SMT
  <2> QED
    BY <1>1, <2>1 DEF Questions
<1>3. lastAnswer' =
          [question |-> [question EXCEPT !.known = Range(question.asked) \subseteq active],
           status |-> status, about |-> <<>>, candidates |-> candidates]
  BY DEF AnswerWith
<1>4. lastAnswer' \in Answers /\ lastAnswer'.candidates = candidates
  <2>1. <<>> \in Seq(MemberNames)
    OBVIOUS
  <2> QED
    BY <1>2, <1>3, <2>1 DEF Answers
<1> QED
  BY <1>4, AnsweredKeeps DEF AnswerWith

LEMMA AnswerAboutKeeps ==
    ASSUME AnswersInv, question # NoQuestion, NEW status \in {200, 404, 408},
           NEW about \in Seq(MemberNames), AnswerAbout(status, about)
    PROVE  AnswersInv'
<1>1. lastAnswer' \in Answers /\ lastAnswer'.candidates = {}
  BY DEF AnswersInv, AnswersTypeOK, AnswerAbout, Answers
<1>2. Cardinality({}) <= MaxSuggested
  BY FS_EmptySet, NamesAssumption
<1> QED
  BY <1>1, <1>2, AnsweredKeeps DEF AnswerAbout

\* The earliest of some members is one of them.
LEMMA EarliestIn ==
    ASSUME AnswersTypeOK, NEW S \in SUBSET active, S # {} PROVE Earliest(S) \in S
<1> DEFINE T == {Id(n) : n \in S}
<1>1. \A n \in S : Id(n) \in Nat
  BY ActiveFinite
<1>2. T \subseteq Nat /\ T # {}
  BY <1>1
<1>3. PICK i \in T : \A j \in T : i <= j
  <2> HIDE DEF T
  <2> QED
    BY <1>2, LeastOf
<1>4. \E n \in S : \A m \in S : Id(n) <= Id(m)
  BY <1>3
<1> QED
  BY <1>4, Zenon DEF Earliest

LEMMA ResolvedActive ==
    ASSUME AnswersTypeOK, NEW name PROVE ResolvedAs(name) \subseteq active
<1> DEFINE hits == FirstById(Hits(name), FewHits)
           near == TwoCharacters(name)
<1>1. hits \subseteq active /\ near \subseteq active
  BY DEF FirstById, Hits, TwoCharacters
<1>2. hits # {} => Exactly(name, hits) \in active
  BY <1>1, EarliestIn DEF Exactly
<1>3. near # {} => Earliest(near) \in active
  BY <1>1, EarliestIn
<1>4. ResolvedAs(name) = IF hits # {} THEN {Exactly(name, hits)}
                         ELSE IF near # {} THEN {Earliest(near)}
                         ELSE {n \in active : Like(DisplayNames[n], name)}
  BY DEF ResolvedAs
<1> HIDE DEF hits, near
<1> QED
  BY <1>2, <1>3, <1>4

LEMMA AskedMembers ==
    ASSUME AnswersInv, question # NoQuestion
    PROVE  /\ question \in Questions /\ AnswersTypeOK
           /\ question.asked[1] \in Asked /\ 1 \in DOMAIN question.asked
           /\ \A i \in DOMAIN question.asked : question.asked[i] \in Asked
  BY DEF AnswersInv, AnswersTypeOK, QuestionFits, Questions

LEMMA SearchMemberKeeps == ASSUME AnswersInv, SearchMember PROVE AnswersInv'
<1> DEFINE name == question.asked[1]
           offered == IF Hits(name) # {} THEN FirstById(Hits(name), MaxSuggested)
                    ELSE Suggestions(name, MaxSuggested)
<1>1. question # NoQuestion /\ AnswersTypeOK /\ name \in Asked
  BY AskedMembers DEF SearchMember
<1>2. AnswerWith(200, <<>>, offered)
  BY DEF SearchMember
<1>3. Hits(name) \subseteq active /\ active \subseteq MemberNames /\ MaxSuggested \in Nat
  BY <1>1, ActiveFinite, NamesAssumption DEF Hits
<1> HIDE DEF name
<1>4. offered \subseteq active /\ Cardinality(offered) <= MaxSuggested
  <2>1. CASE Hits(name) # {}
    BY <1>1, <1>3, <2>1, FirstBound
  <2>2. CASE Hits(name) = {}
    BY <1>1, <1>3, <2>2, SuggestedBound
  <2> QED
    BY <2>1, <2>2
<1> HIDE DEF offered
<1> QED
  BY <1>1, <1>2, <1>3, <1>4, AnswerWithKeeps

LEMMA StatusIs == Status(404) \in {200, 404, 408} /\ Status(408) \in {200, 408}
  BY DEF Status

LEMMA NobodyFoundKeeps == ASSUME AnswersInv, NobodyFound PROVE AnswersInv'
<1>1. question # NoQuestion
  BY DEF NobodyFound, Wanted
<1>2. PICK i \in DOMAIN question.asked :
          AnswerNotFound(Suggestions(question.asked[i], MaxSuggested))
  BY DEF NobodyFound
<1> DEFINE offered == Suggestions(question.asked[i], MaxSuggested)
<1>3. offered \subseteq MemberNames /\ Cardinality(offered) <= MaxSuggested
  <2>1. MaxSuggested \in Nat /\ AnswersTypeOK /\ question.asked[i] \in Asked
    BY <1>1, AskedMembers, NamesAssumption
  <2> QED
    BY <2>1, SuggestedBound, ActiveFinite
<1> HIDE DEF offered
<1>4. AnswerWith(Status(404), <<>>, offered)
  BY <1>2 DEF AnswerNotFound, offered
<1> QED
  BY <1>1, <1>3, <1>4, StatusIs, AnswerWithKeeps

LEMMA MustConfirmKeeps == ASSUME AnswersInv, MustConfirm PROVE AnswersInv'
<1> DEFINE name == question.asked[1]
<1>1. question # NoQuestion /\ AnswersTypeOK /\ name \in Asked
  BY AskedMembers DEF MustConfirm, Wanted
<1>2. PICK n \in ResolvedAs(name) \ {name} :
          AnswerNotFound(IF n \in Suggestions(name, MaxSuggested)
                         THEN Suggestions(name, MaxSuggested)
                         ELSE {n} \cup Suggestions(name, MaxSuggested - 1))
  BY DEF MustConfirm
<1> DEFINE offered == IF n \in Suggestions(name, MaxSuggested)
                    THEN Suggestions(name, MaxSuggested)
                    ELSE {n} \cup Suggestions(name, MaxSuggested - 1)
<1> HIDE DEF name
<1>3. /\ n \in active /\ active \subseteq MemberNames
      /\ MaxSuggested \in Nat /\ MaxSuggested - 1 \in Nat
  BY <1>1, <1>2, ResolvedActive, ActiveFinite, NamesAssumption
<1>4. /\ Suggestions(name, MaxSuggested) \subseteq active
      /\ Cardinality(Suggestions(name, MaxSuggested)) <= MaxSuggested
  BY <1>1, <1>3, SuggestedBound
<1>5. /\ {n} \cup Suggestions(name, MaxSuggested - 1) \subseteq active
      /\ Cardinality({n} \cup Suggestions(name, MaxSuggested - 1)) <= MaxSuggested
  <2> DEFINE others == Suggestions(name, MaxSuggested - 1)
  <2>1. /\ others \subseteq active /\ IsFiniteSet(others)
        /\ Cardinality(others) <= MaxSuggested - 1
    BY <1>1, <1>3, SuggestedBound
  <2> HIDE DEF others
  <2>2. /\ Cardinality(others \cup {n}) <= Cardinality(others) + 1
        /\ Cardinality(others) \in Nat /\ Cardinality(others \cup {n}) \in Nat
    <3>1. Cardinality(others \cup {n}) = IF n \in others THEN Cardinality(others)
                                         ELSE Cardinality(others) + 1
      BY <2>1, FS_AddElement
    <3>2. Cardinality(others) \in Nat
      BY <2>1, FS_CardinalityType
    <3> QED
      BY <3>1, <3>2
  <2>3. {n} \cup others = others \cup {n}
    OBVIOUS
  <2>4. Cardinality(others \cup {n}) <= MaxSuggested
    BY <1>3, <2>1, <2>2
  <2> QED
    BY <1>3, <2>1, <2>3, <2>4 DEF others
<1>6. offered \subseteq MemberNames /\ Cardinality(offered) <= MaxSuggested
  BY <1>3, <1>4, <1>5
<1>7. AnswerNotFound(offered)
  BY <1>2
<1> HIDE DEF offered
<1>8. AnswerWith(Status(404), <<>>, offered)
  BY <1>7 DEF AnswerNotFound
<1> QED
  BY <1>1, <1>6, <1>8, StatusIs, AnswerWithKeeps

LEMMA LookUpKeeps == ASSUME AnswersInv, LookUpMembers PROVE AnswersInv'
<1>1. question # NoQuestion /\ question \in Questions /\ AnswersTypeOK
  BY AskedMembers DEF LookUpMembers, Wanted
<1>2. /\ working' \in [DOMAIN question.asked -> active]
      /\ question' = [question EXCEPT !.known = Range(question.asked) \subseteq active]
      /\ UNCHANGED <<members, active, lastAnswer>>
  BY DEF LookUpMembers
<1>3. question.asked \in Seq(Asked) /\ question.asked # <<>>
  BY <1>1 DEF AnswersInv, QuestionFits, Questions
<1>4. working' \in Seq(MemberNames) /\ working' # <<>>
  <2>1. active \subseteq MemberNames
    BY <1>1, ActiveFinite
  <2>2. DOMAIN question.asked = 1..Len(question.asked) /\ Len(question.asked) \in Nat \ {0}
    BY <1>3
  <2> QED
    BY <1>2, <2>1, <2>2
<1>5. /\ question' \in Questions /\ question'.asked = question.asked
      /\ question'.confirmed = question.confirmed /\ question' # NoQuestion
  <2>1. (Range(question.asked) \subseteq active) \in BOOLEAN
    BY SMT
  <2>2. question' \in Questions /\ question'.asked = question.asked
        /\ question'.confirmed = question.confirmed /\ question'.action = question.action
    BY <1>1, <1>2, <2>1 DEF Questions
  <2>3. NoQuestion.action = "none" /\ question.action # "none"
    BY <1>1 DEF NoQuestion, Questions, Actions, AboutOne
  <2> QED
    BY <2>2, <2>3
<1> QED
  BY <1>1, <1>2, <1>3, <1>4, <1>5 DEF AnswersInv, AnswersTypeOK, QuestionFits

LEMMA EmptyAbout == <<>> \in Seq(MemberNames)
  OBVIOUS

\* All actions that answer with text.
LEMMA SaysKeeps ==
    ASSUME AnswersInv, question # NoQuestion,
           Say \/ AnswerAbout(408, <<>>) \/ AnswerAbout(Status(408), <<>>)
    PROVE  AnswersInv'
<1>1. working \in Seq(MemberNames)
  BY DEF AnswersInv, AnswersTypeOK
<1>2. 200 \in {200, 404, 408} /\ 408 \in {200, 404, 408} /\ Status(408) \in {200, 404, 408}
  BY StatusIs
<1>3. CASE Say
  BY ZenonT(40), <1>1, <1>2, <1>3, EmptyAbout, AnswerAboutKeeps DEF Say
<1>4. CASE AnswerAbout(408, <<>>) \/ AnswerAbout(Status(408), <<>>)
  <2>1. PICK status \in {200, 404, 408} : AnswerAbout(status, <<>>)
    BY <1>2, <1>4
  <2> QED
    BY <2>1, EmptyAbout, AnswerAboutKeeps, Zenon
<1> QED
  BY <1>3, <1>4

LEMMA AnswersInvNext == AnswersInv /\ [AnswersNext]_answerVars => AnswersInv'
<1> SUFFICES ASSUME AnswersInv, [AnswersNext]_answerVars PROVE AnswersInv'
  OBVIOUS
<1>1. CASE UNCHANGED answerVars
  BY <1>1 DEF answerVars, AnswersInv, AnswersTypeOK, QuestionFits
<1>2. CASE \/ PersonContext \/ StudentRisk \/ GrowthNarrative \/ CollaborationScore
           \/ CollaboratorsOnRecord \/ CollaboratorsRanked \/ LookUpFails \/ TimesOut
  <2>1. question # NoQuestion /\ (Say \/ AnswerAbout(408, <<>>) \/ AnswerAbout(Status(408), <<>>))
    BY <1>2 DEF PersonContext, StudentRisk, GrowthNarrative, CollaborationScore, Works, Say,
                CollaboratorsOnRecord, CollaboratorsRanked, LookUpFails, TimesOut
  <2> QED
    BY <2>1, SaysKeeps
<1> QED
  BY <1>1, <1>2, JoinKeeps, DeactivateKeeps, AsksKeep, SearchMemberKeeps, NobodyFoundKeeps,
     MustConfirmKeeps, LookUpKeeps, Zenon DEF AnswersNext

-----------------------------------------------------------------------------
(* Whoever was confirmed. *)

LEMMA LikeItself == ASSUME NEW n \in Asked PROVE Like(n, n)
<1>1. n \in Seq(Range(n)) /\ n # <<>>
  BY NamesAssumption DEF Asked
<1>2. Len(n) \in Nat /\ Len(n) - Len(n) = 0 /\ 0 + 1 = 1 /\ 0 + Len(n) = Len(n) /\ 0 \in 0..0
  BY <1>1
<1>3. SubSeq(n, 1, Len(n)) = n
  BY <1>1
<1>4. SubSeq(n, 0 + 1, 0 + Len(n)) = n
  BY <1>2, <1>3
<1> QED
  BY <1>2, <1>4 DEF Like

\* A member's own name is found.
LEMMA OwnNameFound ==
    ASSUME FewAlike, AnswersTypeOK, NEW n \in active PROVE ResolvedAs(n) = {n}
<1> DEFINE hits == FirstById(Hits(n), FewHits)
<1>1. n \in MemberNames /\ active \subseteq MemberNames /\ n \in Asked
  BY ActiveFinite DEF Asked
<1>2. n \in Hits(n)
  BY <1>1, LikeItself DEF Hits
<1>3. n \in hits
  <2> DEFINE alike == {m \in MemberNames : Like(m, n)}
             ahead == {m \in Hits(n) : Id(m) < Id(n)}
  <2>1. IsFiniteSet(alike) /\ Cardinality(alike) <= FewHits
    BY <1>1 DEF FewAlike
  <2>2. Id(n) \in Nat /\ ~(Id(n) < Id(n))
    <3>1. Id(n) \in Nat
      BY ActiveFinite
    <3> QED
      BY <3>1
  <2>3. ahead \subseteq alike /\ n \in alike /\ n \notin ahead
    BY <1>1, <1>2, <2>2 DEF Hits
  <2> HIDE DEF alike, ahead
  <2>4. Cardinality(ahead) < Cardinality(alike)
    <3>1. alike # ahead
      BY <2>3
    <3>2. /\ Cardinality(ahead) <= Cardinality(alike)
          /\ Cardinality(alike) = Cardinality(ahead) => alike = ahead
          /\ IsFiniteSet(ahead)
      BY <2>1, <2>3, FS_Subset
    <3>3. Cardinality(ahead) \in Nat /\ Cardinality(alike) \in Nat
      BY <2>1, <3>2, FS_CardinalityType
    <3> QED
      BY <3>1, <3>2, <3>3
  <2>5. Cardinality(ahead) \in Nat /\ Cardinality(alike) \in Nat
    <3>1. IsFiniteSet(ahead)
      BY <2>1, <2>3, FS_Subset
    <3> QED
      BY <2>1, <3>1, FS_CardinalityType
  <2>6. Cardinality(ahead) < FewHits
    BY <2>1, <2>4, <2>5, NamesAssumption
  <2> QED
    BY <1>2, <2>6 DEF FirstById, ahead
<1>4. Exactly(n, hits) = n
  BY <1>3, Zenon DEF Exactly
<1> QED
  BY <1>3, <1>4 DEF ResolvedAs

LEMMA ConfirmedInit == AnswersInit => ConfirmedInv
  BY DEF AnswersInit, ConfirmedInv, ConfirmedIsAnswered

\* What an answer says of who was confirmed
AnswerFits(answer) ==
    answer.question.confirmed /\ answer.question.known =>
        answer.status # 404 /\ answer.about \in {<<>>, answer.question.asked}

LEMMA FitsKeeps ==
    ASSUME question' = NoQuestion, AnswerFits(lastAnswer') PROVE ConfirmedInv'
  BY DEF ConfirmedInv, ConfirmedIsAnswered, AnswerFits

\* A text is about who is worked on, who is the one asked for if that one is known.
LEMMA SaysFits ==
    ASSUME ConfirmedInv, question # NoQuestion, NEW status \in {200, 408}, NEW about,
           about \in {<<>>, working}, AnswerAbout(status, about)
    PROVE  ConfirmedInv'
<1>1. /\ lastAnswer'.question = question /\ lastAnswer'.status = status
      /\ lastAnswer'.about = about /\ question' = NoQuestion
  BY DEF AnswerAbout
<1>2. status # 404
  OBVIOUS
<1>3. question.confirmed /\ question.known => working = question.asked
  BY DEF ConfirmedInv
<1>4. AnswerFits(lastAnswer')
  BY <1>1, <1>2, <1>3 DEF AnswerFits
<1> QED
  BY <1>1, <1>4, FitsKeeps

LEMMA SaysConfirmed ==
    ASSUME ConfirmedInv, question # NoQuestion,
           Say \/ AnswerAbout(408, <<>>) \/ AnswerAbout(Status(408), <<>>)
    PROVE  ConfirmedInv'
<1>1. 200 \in {200, 408} /\ 408 \in {200, 408} /\ Status(408) \in {200, 408}
  BY StatusIs
<1>2. <<>> \in {<<>>, working} /\ working \in {<<>>, working}
  OBVIOUS
<1>3. CASE Say
  BY ZenonT(40), <1>1, <1>2, <1>3, SaysFits DEF Say
<1>4. CASE AnswerAbout(408, <<>>) \/ AnswerAbout(Status(408), <<>>)
  BY ZenonT(40), <1>1, <1>2, <1>4, SaysFits
<1> QED
  BY <1>3, <1>4

\* Whom a user confirmed and the databases know is found.
LEMMA ConfirmedFound ==
    ASSUME FewAlike, AnswersInv, question # NoQuestion, question.confirmed,
           Range(question.asked) \subseteq active
    PROVE  /\ question.asked = <<question.asked[1]>>
           /\ ResolvedAs(question.asked[1]) = {question.asked[1]}
<1>1. question.asked \in Seq(Asked) /\ Len(question.asked) = 1 /\ AnswersTypeOK
  BY DEF AnswersInv, AnswersTypeOK, QuestionFits, Questions
<1>2. question.asked[1] \in active
  BY <1>1 DEF Range
<1> QED
  BY <1>1, <1>2, OwnNameFound

LEMMA NotFoundFits ==
    ASSUME ConfirmedInv, AnswersInv, question # NoQuestion, NEW status, NEW candidates,
           AnswerWith(status, <<>>, candidates),
           ~(question.confirmed /\ Range(question.asked) \subseteq active) \/ status # 404
    PROVE  ConfirmedInv'
<1>1. question \in Questions
  BY AskedMembers
<1>2. /\ lastAnswer' =
             [question |-> [question EXCEPT !.known = Range(question.asked) \subseteq active],
              status |-> status, about |-> <<>>, candidates |-> candidates]
      /\ question' = NoQuestion
  BY DEF AnswerWith
<1>3. /\ lastAnswer'.status = status /\ lastAnswer'.about = <<>>
      /\ lastAnswer'.question.confirmed = question.confirmed
      /\ lastAnswer'.question.known = (Range(question.asked) \subseteq active)
  BY <1>1, <1>2 DEF Questions
<1>4. AnswerFits(lastAnswer')
  BY <1>3, Zenon DEF AnswerFits
<1> QED
  BY <1>2, <1>4, FitsKeeps

LEMMA ConfirmedNext ==
    ASSUME FewAlike, AnswersInv, ConfirmedInv, [AnswersNext]_answerVars
    PROVE  ConfirmedInv'
<1>1. CASE UNCHANGED answerVars
  BY <1>1 DEF answerVars, ConfirmedInv, ConfirmedIsAnswered
<1>2. CASE \E n \in MemberNames : Join(n) \/ Deactivate(n)
  BY <1>2 DEF Join, Deactivate, ConfirmedInv, ConfirmedIsAnswered
<1>3. CASE AskFirst \/ AskAgain
  <2>1. question'.known = FALSE /\ lastAnswer' = NoAnswer
    BY <1>3 DEF AskFirst, AskAgain, AskAbout
  <2> QED
    BY <2>1 DEF ConfirmedInv, ConfirmedIsAnswered
<1>4. CASE \/ PersonContext \/ StudentRisk \/ GrowthNarrative \/ CollaborationScore
           \/ CollaboratorsOnRecord \/ CollaboratorsRanked \/ LookUpFails \/ TimesOut
  <2>1. question # NoQuestion /\ (Say \/ AnswerAbout(408, <<>>) \/ AnswerAbout(Status(408), <<>>))
    BY <1>4 DEF PersonContext, StudentRisk, GrowthNarrative, CollaborationScore, Works, Say,
                CollaboratorsOnRecord, CollaboratorsRanked, LookUpFails, TimesOut
  <2> QED
    BY <2>1, SaysConfirmed
<1>5. CASE SearchMember
  <2> DEFINE name == question.asked[1]
             offered == IF Hits(name) # {} THEN FirstById(Hits(name), MaxSuggested)
                      ELSE Suggestions(name, MaxSuggested)
  <2>1. AnswerWith(200, <<>>, offered) /\ question # NoQuestion
    BY <1>5 DEF SearchMember
  <2> HIDE DEF offered
  <2>2. 200 # 404
    OBVIOUS
  <2> QED
    BY <2>1, <2>2, NotFoundFits
<1>6. CASE NobodyFound
  <2>1. PICK i \in DOMAIN question.asked :
            /\ question # NoQuestion /\ ResolvedAs(question.asked[i]) = {}
            /\ AnswerNotFound(Suggestions(question.asked[i], MaxSuggested))
    BY <1>6 DEF NobodyFound, Wanted
  <2> DEFINE offered == Suggestions(question.asked[i], MaxSuggested)
  <2>2. AnswerWith(Status(404), <<>>, offered)
    BY <2>1 DEF AnswerNotFound
  <2> HIDE DEF offered
  <2>3. ~(question.confirmed /\ Range(question.asked) \subseteq active)
    <3> SUFFICES ASSUME question.confirmed, Range(question.asked) \subseteq active PROVE FALSE
      OBVIOUS
    <3>1. /\ question.asked = <<question.asked[1]>>
          /\ ResolvedAs(question.asked[1]) = {question.asked[1]}
      BY <2>1, ConfirmedFound
    <3>2. i = 1
      BY <3>1
    <3> QED
      BY <2>1, <3>1, <3>2
  <2> QED
    BY <2>1, <2>2, <2>3, NotFoundFits
<1>7. CASE MustConfirm
  <2> DEFINE name == question.asked[1]
  <2>1. PICK n \in ResolvedAs(name) \ {name} :
          AnswerNotFound(IF n \in Suggestions(name, MaxSuggested)
                         THEN Suggestions(name, MaxSuggested)
                         ELSE {n} \cup Suggestions(name, MaxSuggested - 1))
    BY <1>7 DEF MustConfirm
  <2> DEFINE offered == IF n \in Suggestions(name, MaxSuggested)
                      THEN Suggestions(name, MaxSuggested)
                      ELSE {n} \cup Suggestions(name, MaxSuggested - 1)
  <2>2. AnswerWith(Status(404), <<>>, offered) /\ question # NoQuestion
    BY <1>7, <2>1 DEF AnswerNotFound, MustConfirm, Wanted
  <2> HIDE DEF offered
  <2>3. ~(question.confirmed /\ Range(question.asked) \subseteq active)
    BY <2>1, <2>2, ConfirmedFound
  <2> QED
    BY <2>2, <2>3, NotFoundFits
<1>8. CASE LookUpMembers
  <2>1. question # NoQuestion /\ question \in Questions
    BY <1>8, AskedMembers DEF LookUpMembers, Wanted
  <2>2. /\ working' \in [DOMAIN question.asked -> active]
        /\ \A i \in DOMAIN working' : working'[i] \in ResolvedAs(question.asked[i])
        /\ question' = [question EXCEPT !.known = Range(question.asked) \subseteq active]
        /\ UNCHANGED lastAnswer
    BY <1>8 DEF LookUpMembers
  <2>3. /\ question'.asked = question.asked /\ question'.confirmed = question.confirmed
        /\ question'.known = (Range(question.asked) \subseteq active)
    BY <2>1, <2>2 DEF Questions
  <2>4. ASSUME question'.confirmed, question'.known PROVE working' = question'.asked
    <3>1. question.confirmed /\ Range(question.asked) \subseteq active
      BY <2>3, <2>4, Zenon
    <3>2. /\ question.asked = <<question.asked[1]>>
          /\ ResolvedAs(question.asked[1]) = {question.asked[1]}
      BY <2>1, <3>1, ConfirmedFound
    <3>3. /\ DOMAIN question.asked = {1} /\ working' \in [{1} -> active]
          /\ working'[1] = question.asked[1]
      BY <2>2, <3>2
    <3> QED
      BY <2>3, <3>2, <3>3
  <2> QED
    BY <2>2, <2>4 DEF ConfirmedInv, ConfirmedIsAnswered
<1> QED
  BY <1>1, <1>2, <1>3, <1>4, <1>5, <1>6, <1>7, <1>8, Zenon DEF AnswersNext

\* Questions, members, answers and candidates are what the code can make them; at most
\* MaxSuggested candidates are offered.
THEOREM AnswersTypeCorrect == AnswersSpec => []AnswersTypeOK
<1>1. AnswersInv => AnswersTypeOK
  BY DEF AnswersInv
<1> QED
  BY AnswersInvInit, AnswersInvNext, <1>1, PTL DEF AnswersSpec

\* A candidate that the user confirmed is answered about, and nobody else, if each name
\* occurs in those of at most FewHits members (_helpers.py:84, LIMIT 3): with one more,
\* the code fails to do so.
THEOREM ConfirmedIsFound == ASSUME FewAlike PROVE AnswersSpec => []ConfirmedIsAnswered
<1>1. AnswersInv /\ ConfirmedInv /\ [AnswersNext]_answerVars => AnswersInv' /\ ConfirmedInv'
  BY AnswersInvNext, ConfirmedNext
<1>2. AnswersInit => AnswersInv /\ ConfirmedInv
  BY AnswersInvInit, ConfirmedInit
<1>3. ConfirmedInv => ConfirmedIsAnswered
  BY DEF ConfirmedInv
<1> QED
  BY <1>1, <1>2, <1>3, PTL DEF AnswersSpec

=============================================================================
