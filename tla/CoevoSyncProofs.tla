--------------------------- MODULE CoevoSyncProofs ---------------------------
(***************************************************************************)
(* Proofs about CoevoSync: its type invariant, and that the watermark      *)
(* passes no change that is not in the graph, for any rows, limit, clock   *)
(* and number of failures, under the three assumptions of Orderly: runs do *)
(* not overlap, no two rows change in the same second, and rows are        *)
(* selected in the order of their changes. Without any one of them TLC     *)
(* finds NothingSkipped violated.  Under the same assumptions the graph is *)
(* the lagging copy of SourceCopy.  Runs that overlap may store an old     *)
(* version of a row last, but leave no row out.                            *)
(***************************************************************************)
EXTENDS CoevoSync, TLAPS

-----------------------------------------------------------------------------
(* Types *)

LEMMA LaterType ==
    \A a, b \in Nat : /\ Later(a, b) \in {a, b}
                      /\ a <= Later(a, b) /\ b <= Later(a, b)
  BY DEF Later

LEMMA FallbackType ==
    ASSUME CoevoTypeOK
    PROVE  Fallback \in Times /\ Fallback < now
  BY NumbersAssumption DEF CoevoTypeOK, Fallback, Times

LEMMA TypeInit == CoevoInit => CoevoTypeOK
  BY NumbersAssumption DEF CoevoInit, CoevoTypeOK, Times

LEMMA TypeNext == CoevoTypeOK /\ [CoevoNext]_coevoVars => CoevoTypeOK'
<1> SUFFICES ASSUME CoevoTypeOK, [CoevoNext]_coevoVars
             PROVE  CoevoTypeOK'
  OBVIOUS
<1> USE NumbersAssumption DEF CoevoTypeOK
<1>1. CASE Tick
  BY <1>1 DEF Tick, runVars
<1>2. ASSUME NEW r \in Rows, NEW hasText \in BOOLEAN, Change(r, hasText)
      PROVE  CoevoTypeOK'
  <2>1. now <= MaxTime
    BY <1>2 DEF Change
  <2>2. now \in Times
    BY <2>1 DEF Times
  <2> QED
    BY <1>2, <2>2 DEF Change, runVars
<1>3. ASSUME NEW s \in Sessions, ReadWatermark(s) \/ NoWatermark(s) \/ ReadFails(s)
      PROVE  CoevoTypeOK'
  <2>1. Later(forgiven, Fallback) \in Times /\ Fallback \in Times /\ 0 \in Times
    BY SMTT(40), FallbackType, LaterType DEF Times
  <2>2. CASE ReadWatermark(s)
    BY <2>1, <2>2 DEF ReadWatermark, BeginRun, sourceVars
  <2>3. CASE NoWatermark(s)
    BY <2>1, <2>3 DEF NoWatermark, BeginRun, sourceVars
  <2>4. CASE ReadFails(s)
    BY <2>1, <2>4 DEF ReadFails, BeginRun, sourceVars, Fault
  <2> QED
    BY <1>3, <2>2, <2>3, <2>4
<1>4. ASSUME NEW s \in Sessions, Select(s)
      PROVE  CoevoTypeOK'
  BY <1>4 DEF Select, sourceVars, Candidates
<1>5. ASSUME NEW s \in Sessions, SelectFails(s) \/ SaveFails(s) \/ LoopEnds(s)
      PROVE  CoevoTypeOK'
  BY <1>5 DEF SelectFails, SaveFails, LoopEnds, Fault, sourceVars
<1>6. ASSUME NEW s \in Sessions, NEW v \in batch[s], Skip(s, v)
      PROVE  CoevoTypeOK'
  BY <1>6 DEF Skip, sourceVars
<1>7. ASSUME NEW s \in Sessions, NEW v \in batch[s], Store(s, v)
      PROVE  CoevoTypeOK'
  <2>1. v.at \in Times /\ v.row \in Rows /\ Advanced(s, v) \in Times
    BY LaterType DEF Versions, Advanced, Times
  <2> QED
    BY <1>7, <2>1 DEF Store, sourceVars
<1>8. ASSUME NEW s \in Sessions, NEW v \in batch[s], StoreFails(s, v)
      PROVE  CoevoTypeOK'
  <2>1. v.at \in Times /\ v.row \in Rows
    BY DEF Versions
  <2>2. node' \in [Rows -> Times]
    BY <1>8, <2>1 DEF StoreFails
  <2> QED
    BY <1>8, <2>2 DEF StoreFails, sourceVars, Fault
<1>9. ASSUME NEW s \in Sessions, Save(s)
      PROVE  CoevoTypeOK'
  BY <1>9 DEF Save, sourceVars
<1>10. ASSUME NEW s \in Sessions, RunDies(s)
       PROVE  CoevoTypeOK'
  BY <1>10 DEF RunDies, sourceVars, Fault
<1>11. CASE ResetWatermark
  BY <1>11 DEF ResetWatermark, sourceVars, runVars, Fault
<1>12. CASE UNCHANGED coevoVars
  BY <1>12 DEF coevoVars, sourceVars, runVars
<1> QED
  BY <1>1, <1>2, <1>3, <1>4, <1>5, <1>6, <1>7, <1>8, <1>9, <1>10, <1>11, <1>12
     DEF CoevoNext, Advance, Fail

\* The variables keep their types.
THEOREM CoevoTypeCorrect == CoevoSpec => []CoevoTypeOK
  BY TypeInit, TypeNext, PTL DEF CoevoSpec

-----------------------------------------------------------------------------
(* Nothing skipped *)

Orderly ==
    /\ \A s, t \in Sessions : s = t
    /\ \A r, q \in Rows : Rank[r] = Rank[q]
    /\ ~Ties

\* A time at which no change can happen any more.
Seen(t) == t < now \/ (t = now /\ \E q \in Rows : upd[q] = now)

\* Changes up to time b are in the graph.
Current(b) ==
    \A r \in Rows : text[r] /\ forgiven < upd[r] /\ upd[r] <= b => node[r] = upd[r]

Clock ==
    /\ \A r \in Rows : upd[r] <= now
    /\ \A r, q \in Rows : upd[r] = upd[q] /\ upd[r] # 0 => r = q
    /\ wm # NoMark => Seen(wm)
    /\ \A s \in Sessions : /\ Seen(since[s]) /\ Seen(latest[s])
                           /\ \A v \in batch[s] : Seen(v.at)

Marks ==
    /\ wm # NoMark => Current(wm)
    /\ \A s \in Sessions : pc[s] # "idle" => Current(since[s]) /\ Current(latest[s])

\* The row has changed since the run selected it, after everything the run knows.
Overtaken(s, v) ==
    /\ upd[v.row] > latest[s] /\ upd[v.row] > since[s]
    /\ wm # NoMark => upd[v.row] > wm
    /\ \A u \in batch[s] : upd[v.row] > u.at

BatchTaken ==
    \A s \in Sessions :
        /\ pc[s] # "store" => batch[s] = {}
        /\ pc[s] = "select" => latest[s] = 0
        /\ \A v, u \in batch[s] : v.at = u.at => v = u
        /\ \A v \in batch[s] :
              /\ latest[s] < v.at
              /\ (upd[v.row] = v.at /\ text[v.row] = v.text) \/ Overtaken(s, v)
              /\ \A r \in Rows :
                    text[r] /\ forgiven < upd[r] /\ upd[r] <= v.at /\ node[r] # upd[r]
                        => \E u \in batch[s] : u.row = r /\ u.at = upd[r]

Inv == CoevoTypeOK /\ Clock /\ Marks /\ BatchTaken

LEMMA InvInit == CoevoInit => Inv
<1> SUFFICES ASSUME CoevoInit
             PROVE  Inv
  OBVIOUS
<1>1. CoevoTypeOK
  BY TypeInit
<1>2. Clock
  BY DEF CoevoInit, Clock, Seen
<1>3. Marks /\ BatchTaken
  BY DEF CoevoInit, Marks, BatchTaken
<1> QED
  BY <1>1, <1>2, <1>3 DEF Inv

\* When a row changes, its time is later than everything that was seen.
LEMMA ChangeKeeps ==
    ASSUME Orderly, Inv, NEW q \in Rows, NEW hasText \in BOOLEAN, Change(q, hasText)
    PROVE  Clock' /\ Marks' /\ BatchTaken'
<1> USE DEF Inv, CoevoTypeOK, Times
<1>1. /\ upd' = [upd EXCEPT ![q] = now] /\ text' = [text EXCEPT ![q] = hasText]
      /\ UNCHANGED <<now, node, wm, pc, since, batch, latest, forgiven>>
      /\ \A r \in Rows : upd[r] # now
      /\ now \in Nat
  BY DEF Change, runVars, Orderly
<1>2. \A t : Seen(t) => t < now
  BY <1>1 DEF Seen
<1>3. \A t : t < now => Seen(t)'
  BY <1>1 DEF Seen
<1>4. Clock'
  <2>1. \A r, p \in Rows : upd'[r] = upd'[p] /\ upd'[r] # 0 => r = p
    BY <1>1 DEF Clock
  <2>2. \A r \in Rows : upd'[r] <= now'
    BY <1>1 DEF Clock
  <2>3. wm' # NoMark => Seen(wm)'
    BY <1>1, <1>2, <1>3 DEF Clock
  <2>4. ASSUME NEW s \in Sessions
        PROVE  Seen(since[s])' /\ Seen(latest[s])' /\ \A v \in batch'[s] : Seen(v.at)'
    BY <1>1, <1>2, <1>3 DEF Clock
  <2> QED
    BY <2>1, <2>2, <2>3, <2>4 DEF Clock
<1>5. ASSUME NEW b \in Nat, Seen(b), Current(b)
      PROVE  Current(b)'
  BY <1>1, <1>2, <1>5 DEF Current
<1>6. Marks'
  <2>1. wm' # NoMark => Current(wm)'
    BY <1>1, <1>5 DEF Marks, Clock
  <2>2. ASSUME NEW s \in Sessions, pc'[s] # "idle"
        PROVE  Current(since[s])' /\ Current(latest[s])'
    BY <1>1, <1>5, <2>2 DEF Marks, Clock
  <2> QED
    BY <2>1, <2>2 DEF Marks
<1>7. BatchTaken'
  <2> SUFFICES ASSUME NEW s \in Sessions, NEW v \in batch[s]
               PROVE  /\ (upd'[v.row] = v.at /\ text'[v.row] = v.text) \/ Overtaken(s, v)'
                      /\ \A r \in Rows :
                            text'[r] /\ forgiven < upd'[r] /\ upd'[r] <= v.at
                                     /\ node[r] # upd'[r]
                                => \E u \in batch[s] : u.row = r /\ u.at = upd'[r]
    BY <1>1 DEF BatchTaken
  <2>1. v.row \in Rows /\ \A u \in batch[s] : u.at < now /\ u.at \in Nat
    BY <1>2 DEF Clock, Versions
  <2>2. since[s] < now /\ latest[s] < now /\ (wm # NoMark => wm < now)
    BY <1>2 DEF Clock
  <2>3. CASE v.row = q
    <3>1. Overtaken(s, v)'
      BY <1>1, <2>1, <2>2, <2>3 DEF Overtaken
    <3> QED
      BY <1>1, <2>1, <3>1 DEF BatchTaken
  <2>4. CASE v.row # q
    BY <1>1, <2>1, <2>4 DEF BatchTaken, Overtaken
  <2> QED
    BY <2>3, <2>4
<1> QED
  BY <1>4, <1>6, <1>7

LEMMA TickKeeps ==
    ASSUME Inv, Tick
    PROVE  Clock' /\ Marks' /\ BatchTaken'
<1> USE DEF Inv, CoevoTypeOK, Times
<1>1. /\ now' = now + 1 /\ now \in Nat
      /\ UNCHANGED <<upd, text, node, wm, pc, since, batch, latest, forgiven>>
  BY DEF Tick, runVars
<1>2. \A t \in Nat : Seen(t) => Seen(t)'
  BY <1>1 DEF Seen
<1>3. Clock'
  <2>1. wm' # NoMark => Seen(wm)'
    BY <1>1, <1>2 DEF Clock
  <2>2. ASSUME NEW s \in Sessions
        PROVE  Seen(since[s])' /\ Seen(latest[s])' /\ \A v \in batch'[s] : Seen(v.at)'
    <3>1. since[s] \in Nat /\ latest[s] \in Nat /\ \A v \in batch[s] : v.at \in Nat
      BY DEF Versions
    <3> QED
      BY <1>1, <1>2, <3>1 DEF Clock
  <2>3. \A r \in Rows : upd'[r] <= now'
    BY <1>1 DEF Clock
  <2> QED
    BY <1>1, <2>1, <2>2, <2>3 DEF Clock
<1>4. Marks' /\ BatchTaken'
  BY <1>1 DEF Marks, BatchTaken, Current, Overtaken
<1> QED
  BY <1>3, <1>4

\* A run that begins without a watermark looks past nothing that is not forgiven.
LEMMA BeginKeeps ==
    ASSUME Orderly, Inv, NEW s \in Sessions,
           ReadWatermark(s) \/ NoWatermark(s) \/ ReadFails(s)
    PROVE  Clock' /\ Marks' /\ BatchTaken'
<1> USE DEF Inv, CoevoTypeOK, Times
<1>1. /\ UNCHANGED <<now, upd, text, node, wm, batch>>
      /\ pc[s] = "idle"
      /\ \A t \in Sessions : t = s
      /\ latest' = [latest EXCEPT ![s] = 0]
      /\ forgiven <= forgiven'
      /\ \/ wm # NoMark /\ since' = [since EXCEPT ![s] = wm]
         \/ since' = [since EXCEPT ![s] = Fallback] /\ Fallback <= forgiven'
      /\ pc' = [pc EXCEPT ![s] = "select"]
  BY FallbackType, LaterType
     DEF ReadWatermark, NoWatermark, ReadFails, BeginRun, sourceVars, Orderly
<1>2. forgiven' \in Nat /\ now \in Nat /\ now > 0
  BY FallbackType, LaterType, <1>1 DEF ReadWatermark, NoWatermark, ReadFails
<1>3. Clock'
  <2>1. Seen(since[s])' /\ Seen(latest[s])'
    <3>1. since'[s] = wm \/ since'[s] = Fallback
      BY <1>1
    <3>2. Seen(since'[s])
      BY <1>1, <3>1, FallbackType DEF Clock, Seen
    <3>3. latest'[s] = 0 /\ Seen(0)
      BY <1>1, <1>2 DEF Seen
    <3> QED
      BY <1>1, <3>2, <3>3 DEF Seen
  <2>2. batch[s] = {}
    BY <1>1 DEF BatchTaken
  <2> QED
    BY <1>1, <2>1, <2>2 DEF Clock, Seen
<1>4. Marks'
  <2>1. ASSUME NEW b \in Nat, Current(b)
        PROVE  Current(b)'
    BY <1>1, <1>2, <2>1 DEF Current
  <2>2. wm' # NoMark => Current(wm)'
    BY <1>1, <2>1 DEF Marks
  <2>3. Current(since[s])'
    <3>1. CASE wm # NoMark /\ since' = [since EXCEPT ![s] = wm]
      BY <1>1, <2>2, <3>1
    <3>2. CASE since' = [since EXCEPT ![s] = Fallback] /\ Fallback <= forgiven'
      BY <1>1, <1>2, <3>2, FallbackType DEF Current
    <3> QED
      BY <1>1, <3>1, <3>2
  <2>4. Current(latest[s])'
    BY <1>1, <1>2 DEF Current
  <2> QED
    BY <1>1, <2>2, <2>3, <2>4 DEF Marks
<1>5. BatchTaken'
  BY <1>1 DEF BatchTaken
<1> QED
  BY <1>3, <1>4, <1>5

\* What is selected is all that is missing up to the newest change selected.
LEMMA SelectKeeps ==
    ASSUME Orderly, Inv, NEW s \in Sessions, Select(s)
    PROVE  Clock' /\ Marks' /\ BatchTaken'
<1> USE DEF Inv, CoevoTypeOK, Times
<1>1. PICK rows \in SUBSET Candidates(s) :
          Selected(s, rows) /\ batch' = [batch EXCEPT ![s] = rows]
  BY DEF Select
<1>2. /\ UNCHANGED <<now, upd, text, node, wm, since, latest, forgiven>>
      /\ pc[s] = "select" /\ pc' = [pc EXCEPT ![s] = "store"]
      /\ \A t \in Sessions : t = s
      /\ batch'[s] = rows
      /\ now \in Nat
  BY <1>1 DEF Select, sourceVars, Orderly
<1>3. ASSUME NEW v \in rows
      PROVE  /\ v \in Versions /\ v.row \in Rows /\ v.at \in Nat
             /\ v.at = upd[v.row] /\ v.text = text[v.row] /\ v.at > since[s]
  BY <1>3 DEF Candidates, Versions
<1>4. ASSUME NEW v \in rows, NEW u \in Versions, u.at = v.at, u.row = v.row,
             u.text = v.text
      PROVE  u = v
  BY <1>3, <1>4 DEF Versions
<1>5. Clock'
  <2>1. \A v \in rows : Seen(v.at)
    BY <1>3 DEF Clock, Seen
  <2>2. \A t : Seen(t) => Seen(t)'
    BY <1>2 DEF Seen
  <2> QED
    BY <1>2, <2>1, <2>2 DEF Clock
<1>6. Marks'
  BY <1>2 DEF Marks, Current
<1>7. BatchTaken'
  <2>1. ASSUME NEW v \in rows, NEW u \in rows, v.at = u.at
        PROVE  v = u
    <3>1. upd[v.row] = upd[u.row] /\ upd[v.row] # 0 /\ since[s] \in Nat
      BY <1>3, <2>1
    <3>2. v.row = u.row
      BY <1>3, <3>1 DEF Clock
    <3> QED
      BY <1>3, <1>4, <2>1, <3>2
  <2>2. ASSUME NEW v \in rows, NEW r \in Rows, text[r], forgiven < upd[r],
               upd[r] <= v.at, node[r] # upd[r]
        PROVE  \E u \in rows : u.row = r /\ u.at = upd[r]
    <3> DEFINE c == [row |-> r, at |-> upd[r], text |-> TRUE]
    <3>1. upd[r] > since[s]
      BY <1>2, <2>2 DEF Marks, Current
    <3>2. c \in Versions /\ c \in Candidates(s)
      BY <2>2, <3>1 DEF Candidates, Versions
    <3>3. CASE c \notin rows
      <4>1. ~Before(c, v)
        BY <1>1, <3>2, <3>3 DEF Selected
      <4>2. upd[r] = v.at
        BY <1>3, <2>2, <4>1 DEF Before, Orderly
      <4>3. r = v.row
        BY <1>3, <3>1, <4>2 DEF Clock
      <4>4. c = v
        BY <1>3, <1>4, <2>2, <3>2, <4>2, <4>3
      <4> QED
        BY <3>3, <4>4
    <3> QED
      BY <3>3
  <2>3. latest[s] = 0 /\ \A v \in rows : latest[s] < v.at
    BY <1>2, <1>3 DEF BatchTaken
  <2> QED
    BY <1>2, <1>3, <2>1, <2>2, <2>3 DEF BatchTaken
<1> QED
  BY <1>5, <1>6, <1>7

\* A row without text leaves nothing behind that the run would have had to store.
LEMMA SkipKeeps ==
    ASSUME Orderly, Inv, NEW s \in Sessions, NEW v \in batch[s], Skip(s, v)
    PROVE  Clock' /\ Marks' /\ BatchTaken'
<1> USE DEF Inv, CoevoTypeOK, Times
<1>1. /\ UNCHANGED <<now, upd, text, node, wm, pc, since, latest, forgiven>>
      /\ batch' = [batch EXCEPT ![s] = @ \ {v}]
      /\ \A t \in Sessions : t = s
      /\ pc[s] = "store" /\ ~v.text
      /\ v.row \in Rows /\ \A u \in batch[s] : u.at \in Nat
  BY DEF Skip, sourceVars, Orderly, Versions
<1>2. Clock' /\ Marks'
  BY <1>1 DEF Clock, Marks, Seen, Current
<1>3. ASSUME NEW r \in Rows, text[r], v.row = r, v.at = upd[r]
      PROVE  FALSE
  BY <1>1, <1>3 DEF BatchTaken, Overtaken
<1>4. ASSUME NEW w \in batch[s], w # v
      PROVE  /\ (upd[w.row] = w.at /\ text[w.row] = w.text) \/ Overtaken(s, w)'
             /\ \A r \in Rows :
                   text[r] /\ forgiven < upd[r] /\ upd[r] <= w.at /\ node[r] # upd[r]
                       => \E u \in batch[s] \ {v} : u.row = r /\ u.at = upd[r]
  <2>1. Overtaken(s, w) => Overtaken(s, w)'
    BY <1>1 DEF Overtaken
  <2> QED
    BY <1>3, <2>1 DEF BatchTaken
<1>5. BatchTaken'
  BY <1>1, <1>4 DEF BatchTaken
<1> QED
  BY <1>2, <1>5

\* Writing a version that a run selected undoes nothing up to a mark: if it is not
\* the row's last version, the row has changed after every mark.
LEMMA NodeKeeps ==
    ASSUME Orderly, Inv, NEW s \in Sessions, NEW v \in batch[s],
           node' \in {node, [node EXCEPT ![v.row] = v.at]},
           UNCHANGED <<upd, text, wm, since, forgiven>>, pc[s] = "store"
    PROVE  /\ wm # NoMark => Current(wm)'
           /\ Current(since[s])'
           /\ latest' = latest => Current(latest[s])'
<1> USE DEF Inv, CoevoTypeOK, Times
<1>1. v.row \in Rows /\ v.at \in Nat
  BY DEF Versions
<1>2. upd[v.row] = v.at \/ Overtaken(s, v)
  BY DEF BatchTaken
<1>3. ASSUME NEW b \in Nat, Current(b), Overtaken(s, v) => upd[v.row] > b
      PROVE  \A r \in Rows :
                text[r] /\ forgiven < upd[r] /\ upd[r] <= b => node'[r] = upd[r]
  BY <1>1, <1>2, <1>3 DEF Current
<1>4. wm # NoMark => Current(wm)'
  BY <1>3 DEF Marks, Overtaken, Current
<1>5. Current(since[s])' /\ (latest' = latest => Current(latest[s])')
  BY <1>3 DEF Marks, Overtaken, Current
<1> QED
  BY <1>4, <1>5

LEMMA StoreKeeps ==
    ASSUME Orderly, Inv, NEW s \in Sessions, NEW v \in batch[s], Store(s, v)
    PROVE  Clock' /\ Marks' /\ BatchTaken'
<1> USE DEF Inv, CoevoTypeOK, Times
<1>1. /\ UNCHANGED <<now, upd, text, wm, pc, since, forgiven>>
      /\ node' = [node EXCEPT ![v.row] = v.at]
      /\ batch' = [batch EXCEPT ![s] = @ \ {v}]
      /\ \A t \in Sessions : t = s
      /\ pc[s] = "store"
      /\ \A u \in batch[s] : u.at \in Nat /\ u.row \in Rows
  BY DEF Store, sourceVars, Orderly, Versions
<1>2. latest' = [latest EXCEPT ![s] = v.at]
  BY <1>1 DEF Store, Advanced, Later, BatchTaken
<1>3. \A u \in batch[s] : v.at <= u.at
  BY <1>1 DEF Store, First, Before, Orderly
<1>4. \A u \in batch[s] : u.at = v.at => u = v
  <2>1. \A w, u \in batch[s] : w.at = u.at => w = u
    BY DEF BatchTaken
  <2> QED
    BY <2>1
<1>5. Clock'
  <2>1. Seen(v.at)
    BY DEF Clock
  <2> QED
    BY <1>1, <1>2, <2>1 DEF Clock, Seen
<1>6. upd[v.row] = v.at \/ Overtaken(s, v)
  BY DEF BatchTaken
<1>7. Marks'
  <2>1. (wm # NoMark => Current(wm)') /\ Current(since[s])'
    BY <1>1, NodeKeeps
  <2>2. ASSUME NEW r \in Rows, text[r], forgiven < upd[r], upd[r] <= v.at
        PROVE  node'[r] = upd[r]
    <3>1. CASE r = v.row
      BY <1>1, <1>6, <2>2, <3>1 DEF Overtaken
    <3>2. CASE r # v.row /\ node[r] # upd[r]
      <4>1. PICK u \in batch[s] : u.row = r /\ u.at = upd[r]
        BY <2>2, <3>2 DEF BatchTaken
      <4>2. u.at = v.at
        BY <1>1, <1>3, <2>2, <4>1
      <4> QED
        BY <1>4, <3>2, <4>1, <4>2
    <3> QED
      BY <1>1, <3>1, <3>2
  <2>3. Current(latest[s])'
    BY <1>1, <1>2, <2>2 DEF Current
  <2> QED
    BY <1>1, <2>1, <2>3 DEF Marks
<1>8. BatchTaken'
  <2> SUFFICES ASSUME NEW w \in batch[s], w # v
               PROVE  /\ v.at < w.at
                      /\ (upd[w.row] = w.at /\ text[w.row] = w.text) \/ Overtaken(s, w)'
                      /\ \A r \in Rows :
                            text[r] /\ forgiven < upd[r] /\ upd[r] <= w.at
                                    /\ node'[r] # upd[r]
                                => \E u \in batch[s] \ {v} : u.row = r /\ u.at = upd[r]
    BY <1>1, <1>2 DEF BatchTaken
  <2>1. v.at < w.at
    BY <1>1, <1>3, <1>4
  <2>2. Overtaken(s, w) => Overtaken(s, w)'
    BY <1>1, <1>2 DEF Overtaken
  <2>3. ASSUME NEW r \in Rows, text[r], forgiven < upd[r], upd[r] <= w.at,
               node'[r] # upd[r]
        PROVE  \E u \in batch[s] \ {v} : u.row = r /\ u.at = upd[r]
    <3>1. CASE r = v.row
      BY <1>1, <1>6, <2>3, <3>1 DEF Overtaken
    <3>2. CASE r # v.row
      BY <1>1, <2>3, <3>2 DEF BatchTaken
    <3> QED
      BY <3>1, <3>2
  <2> QED
    BY <2>1, <2>2, <2>3 DEF BatchTaken
<1> QED
  BY <1>5, <1>7, <1>8

LEMMA StoreFailsKeeps ==
    ASSUME Orderly, Inv, NEW s \in Sessions, NEW v \in batch[s], StoreFails(s, v)
    PROVE  Clock' /\ Marks' /\ BatchTaken'
<1> USE DEF Inv, CoevoTypeOK, Times
<1>1. /\ UNCHANGED <<now, upd, text, wm, since, latest, forgiven>>
      /\ node' \in {node, [node EXCEPT ![v.row] = v.at]}
      /\ batch' = [batch EXCEPT ![s] = {}]
      /\ pc[s] = "store" /\ pc' = [pc EXCEPT ![s] = "save"]
      /\ \A t \in Sessions : t = s
  BY DEF StoreFails, sourceVars, Orderly
<1>2. (wm # NoMark => Current(wm)') /\ Current(since[s])' /\ Current(latest[s])'
  BY <1>1, NodeKeeps
<1> QED
  BY <1>1, <1>2 DEF Clock, Marks, BatchTaken, Seen

\* The steps that change neither the rows nor the graph, and read nothing.
LEMMA RestKeeps ==
    ASSUME Orderly, Inv, NEW s \in Sessions,
           SelectFails(s) \/ LoopEnds(s) \/ Save(s) \/ SaveFails(s) \/ RunDies(s)
    PROVE  Clock' /\ Marks' /\ BatchTaken'
<1> USE DEF Inv, CoevoTypeOK, Times
<1>1. /\ UNCHANGED <<now, upd, text, node, since, latest, forgiven>>
      /\ \A t \in Sessions : t = s
      /\ pc[s] # "idle" /\ pc'[s] \in {"save", "idle"}
      /\ batch'[s] = {}
      /\ wm' \in {wm, latest[s]}
  BY DEF SelectFails, LoopEnds, Save, SaveFails, RunDies, sourceVars, Orderly, BatchTaken
<1>2. Clock'
  BY <1>1 DEF Clock, Seen
<1>3. Marks'
  <2>1. Current(latest[s]) /\ Current(since[s])
    BY <1>1 DEF Marks
  <2>2. wm' # NoMark => Current(wm)'
    BY <1>1, <2>1 DEF Marks, Current
  <2> QED
    BY <1>1, <2>1, <2>2 DEF Marks, Current
<1>4. BatchTaken'
  BY <1>1 DEF BatchTaken
<1> QED
  BY <1>2, <1>3, <1>4

LEMMA ResetKeeps ==
    ASSUME Inv, ResetWatermark
    PROVE  Clock' /\ Marks' /\ BatchTaken'
  BY DEF Inv, CoevoTypeOK, ResetWatermark, sourceVars, runVars, Clock, Marks, BatchTaken, Seen,
         Current, Overtaken

LEMMA InvNext ==
    ASSUME Orderly, Inv, [CoevoNext]_coevoVars
    PROVE  Inv'
<1>1. CoevoTypeOK'
  BY TypeNext DEF Inv
<1>2. CASE UNCHANGED coevoVars
  BY <1>1, <1>2 DEF coevoVars, sourceVars, runVars, Inv, Clock, Marks, BatchTaken, Seen, Current,
                    Overtaken
<1>3. CASE CoevoNext
  <2>1. Clock' /\ Marks' /\ BatchTaken'
    BY <1>3, TickKeeps, ChangeKeeps, BeginKeeps, SelectKeeps, SkipKeeps, StoreKeeps,
       StoreFailsKeeps, RestKeeps, ResetKeeps
       DEF CoevoNext, Advance, Fail
  <2> QED
    BY <1>1, <2>1 DEF Inv
<1> QED
  BY <1>2, <1>3

\* The watermark passes no change that is not in the graph, when runs do not overlap,
\* no two rows change in the same second and rows are selected in the order of their
\* changes; failures, crashes and resets of the watermark do not matter.
THEOREM WatermarkSafe ==
    ASSUME Orderly
    PROVE  CoevoSpec => []NothingSkipped
<1>1. CoevoInit => Inv
  BY InvInit
<1>2. Inv /\ [CoevoNext]_coevoVars => Inv'
  BY InvNext
<1>3. Inv => NothingSkipped
  BY DEF Inv, Marks, Current, NothingSkipped
<1> QED
  BY <1>1, <1>2, <1>3, PTL DEF CoevoSpec

-----------------------------------------------------------------------------
(* The copy.  A version that waits in a batch is not older than the one in *)
(* the graph, because it is the only version of its row that waits, and    *)
(* the only run is the one that has it.                                    *)

Forward ==
    /\ \A r \in Rows : node[r] <= upd[r]
    /\ \A s \in Sessions : \A v \in batch[s] :
          /\ node[v.row] <= v.at /\ v.at <= upd[v.row]
          /\ \A u \in batch[s] : u.row = v.row => u = v

LEMMA ForwardInit == CoevoInit => Forward
  BY DEF CoevoInit, Forward

LEMMA ForwardNext ==
    ASSUME Orderly, Inv, Forward, [CoevoNext]_coevoVars
    PROVE  Forward'
<1> USE DEF Inv, CoevoTypeOK, Times
<1>0. \A s \in Sessions : \A v \in batch[s] : v \in Versions /\ v.row \in Rows /\ v.at \in Nat
  BY DEF Versions
\* The graph and the batches stay, and no row gets an older version.
<1>1. ASSUME UNCHANGED node, \A r \in Rows : upd[r] <= upd'[r] /\ upd'[r] \in Nat,
             \A s \in Sessions : batch'[s] \subseteq batch[s]
      PROVE  Forward'
  BY <1>0, <1>1 DEF Forward
<1>2. ASSUME NEW r \in Rows, NEW w \in BOOLEAN, Change(r, w)
      PROVE  Forward'
  <2>1. upd' = [upd EXCEPT ![r] = now] /\ UNCHANGED <<node, batch>>
    BY <1>2 DEF Change, runVars
  <2>2. \A q \in Rows : upd[q] <= upd'[q] /\ upd'[q] \in Nat
    BY <2>1 DEF Clock
  <2> QED
    BY <1>1, <2>1, <2>2
<1>3. ASSUME NEW s \in Sessions, Select(s)
      PROVE  Forward'
  <2>1. PICK chosen \in SUBSET Candidates(s) :
            batch' = [batch EXCEPT ![s] = chosen] /\ UNCHANGED <<node, upd>>
    BY <1>3 DEF Select, sourceVars
  <2>2. \A v \in chosen : v \in Versions /\ v.at = upd[v.row] /\ v.text = text[v.row]
    BY DEF Candidates
  <2>3. ASSUME NEW v \in chosen, NEW u \in chosen, u.row = v.row
        PROVE  u = v
    BY <2>2, <2>3 DEF Versions
  <2>4. \A v \in chosen : node[v.row] <= v.at /\ v.at <= upd[v.row]
    BY <2>2 DEF Forward, Versions
  <2>5. \A t \in Sessions : t = s
    BY DEF Orderly
  <2> QED
    BY <2>1, <2>3, <2>4, <2>5 DEF Forward
<1>4. ASSUME NEW s \in Sessions, NEW v \in batch[s], Store(s, v)
      PROVE  Forward'
  <2>1. /\ node' = [node EXCEPT ![v.row] = v.at]
        /\ batch' = [batch EXCEPT ![s] = batch[s] \ {v}]
        /\ UNCHANGED upd
    BY <1>4 DEF Store, sourceVars
  <2>2. \A r \in Rows : node'[r] <= upd'[r]
    BY <1>0, <2>1 DEF Forward
  <2>3. ASSUME NEW u \in batch[s], u # v
        PROVE  node'[u.row] = node[u.row]
    BY <1>0, <2>1, <2>3 DEF Forward
  <2>4. \A t \in Sessions : t = s
    BY DEF Orderly
  <2> QED
    BY <2>1, <2>2, <2>3, <2>4 DEF Forward
<1>5. ASSUME NEW s \in Sessions, NEW v \in batch[s], StoreFails(s, v)
      PROVE  Forward'
  <2>1. /\ node' = node \/ node' = [node EXCEPT ![v.row] = v.at]
        /\ batch' = [batch EXCEPT ![s] = {}]
        /\ UNCHANGED upd
    BY <1>5 DEF StoreFails, sourceVars
  <2>2. \A r \in Rows : node'[r] <= upd'[r]
    BY <1>0, <2>1 DEF Forward
  <2>3. \A t \in Sessions : batch'[t] = {}
    BY <2>1 DEF Orderly
  <2> QED
    BY <2>2, <2>3 DEF Forward
<1>6. ASSUME NEW s \in Sessions, NEW v \in batch[s], Skip(s, v)
      PROVE  Forward'
  <2>1. UNCHANGED <<node, upd>> /\ batch' = [batch EXCEPT ![s] = batch[s] \ {v}]
    BY <1>6 DEF Skip, sourceVars
  <2> QED
    BY <1>1, <2>1
<1>7. ASSUME NEW s \in Sessions,
             ReadWatermark(s) \/ NoWatermark(s) \/ ReadFails(s) \/ SelectFails(s) \/ LoopEnds(s)
                 \/ Save(s) \/ SaveFails(s) \/ RunDies(s)
      PROVE  Forward'
  <2>1. UNCHANGED <<node, upd>> /\ \A t \in Sessions : batch'[t] \subseteq batch[t]
    BY <1>7 DEF ReadWatermark, NoWatermark, ReadFails, BeginRun, SelectFails, LoopEnds, Save,
                SaveFails, RunDies, sourceVars
  <2> QED
    BY <1>1, <2>1
<1>8. CASE Tick \/ ResetWatermark \/ UNCHANGED coevoVars
  BY <1>1, <1>8 DEF Tick, ResetWatermark, coevoVars, sourceVars, runVars
<1> QED
  BY <1>2, <1>3, <1>4, <1>5, <1>6, <1>7, <1>8 DEF CoevoNext, Advance, Fail

\* What is done to a row of the graph is a step of the copy.
LEMMA ShowRefines ==
    ASSUME Inv, Forward, NEW s \in Sessions, NEW v \in batch[s],
           node' \in {node, [node EXCEPT ![v.row] = v.at]}, UNCHANGED <<upd, text, wm, forgiven>>
    PROVE  [Copy!Next]_(Copy!vars)
<1> USE DEF Inv, CoevoTypeOK, Times
<1>1. /\ v.row \in Rows /\ v.at \in Times
      /\ node[v.row] <= v.at /\ v.at <= upd[v.row]
  BY DEF Versions, Forward
<1>2. CASE node' = node
  BY <1>2 DEF Copy!vars
<1>3. CASE node' = [node EXCEPT ![v.row] = v.at] /\ node[v.row] # v.at
  <2>1. node[v.row] < v.at
    BY <1>1, <1>3
  <2>2. UNCHANGED <<upd, text, wm, forgiven>>
    OBVIOUS
  <2>3. Copy!Show(v.row)
    BY <1>1, <1>3, <2>1, <2>2, Zenon DEF Copy!Show
  <2> QED
    BY <1>1, <2>3 DEF Copy!Next
<1>4. CASE node' = [node EXCEPT ![v.row] = v.at] /\ node[v.row] = v.at
  BY <1>2, <1>4
<1> QED
  BY <1>2, <1>3, <1>4

LEMMA CopyStep ==
    ASSUME Orderly, Inv, Forward, [CoevoNext]_coevoVars
    PROVE  [Copy!Next]_(Copy!vars)
<1> USE DEF Inv, CoevoTypeOK, Times
<1>1. ASSUME UNCHANGED <<upd, text, node, wm, forgiven>>
      PROVE  [Copy!Next]_(Copy!vars)
  BY <1>1 DEF Copy!vars
<1>2. ASSUME NEW r \in Rows, NEW w \in BOOLEAN, Change(r, w)
      PROVE  [Copy!Next]_(Copy!vars)
  <2>1. /\ upd' = [upd EXCEPT ![r] = now] /\ text' = [text EXCEPT ![r] = w]
        /\ UNCHANGED <<node, wm, forgiven>>
        /\ \A q \in Rows : upd[q] # now
        /\ now \in Times
    BY <1>2 DEF Change, Orderly
  <2>2. upd[r] < now /\ (wm # NoMark => wm < now)
    BY <2>1 DEF Clock, Seen
  <2>3. Copy!Change(r)
    BY <2>1, <2>2 DEF Copy!Change
  <2> QED
    BY <2>3 DEF Copy!Next
<1>3. ASSUME NEW s \in Sessions, NEW v \in batch[s], Store(s, v) \/ StoreFails(s, v)
      PROVE  [Copy!Next]_(Copy!vars)
  BY <1>3, ShowRefines DEF Store, StoreFails, sourceVars
<1>4. ASSUME NEW s \in Sessions, Save(s)
      PROVE  [Copy!Next]_(Copy!vars)
  <2>1. /\ UNCHANGED <<upd, text, node, forgiven>>
        /\ wm' = wm \/ wm' = latest[s]
        /\ latest[s] \in Times /\ Current(latest[s])
    BY <1>4 DEF Save, sourceVars, Marks
  <2>2. Copy!Covered(latest[s])
    BY <2>1 DEF Current, Copy!Covered, Copy!Due
  <2>3. CASE wm' = latest[s]
    BY <2>1, <2>2, <2>3 DEF Copy!Move, Copy!Next
  <2> QED
    BY <1>1, <2>1, <2>3
<1>5. ASSUME NEW s \in Sessions, ReadWatermark(s) \/ NoWatermark(s) \/ ReadFails(s)
      PROVE  [Copy!Next]_(Copy!vars)
  <2>1. /\ UNCHANGED <<upd, text, node, wm>>
        /\ forgiven' = forgiven \/ (forgiven' \in Times /\ forgiven < forgiven')
    BY <1>5, FallbackType, LaterType
    DEF ReadWatermark, NoWatermark, ReadFails, BeginRun, sourceVars, Later
  <2>2. CASE forgiven' \in Times /\ forgiven < forgiven'
    BY <2>1, <2>2 DEF Copy!Forgive, Copy!Next
  <2> QED
    BY <1>1, <2>1, <2>2
<1>6. ASSUME NEW s \in Sessions,
             \/ Select(s) \/ SelectFails(s) \/ LoopEnds(s) \/ SaveFails(s) \/ RunDies(s)
             \/ \E v \in batch[s] : Skip(s, v)
      PROVE  [Copy!Next]_(Copy!vars)
  BY <1>1, <1>6 DEF Select, SelectFails, LoopEnds, SaveFails, RunDies, Skip, sourceVars
<1>7. CASE ResetWatermark
  <2>1. Copy!Forget
    BY <1>7 DEF ResetWatermark, sourceVars, Copy!Forget
  <2> QED
    BY <2>1 DEF Copy!Next
<1>8. CASE Tick \/ UNCHANGED coevoVars
  BY <1>1, <1>8 DEF Tick, coevoVars, sourceVars
<1> QED
  BY <1>2, <1>3, <1>4, <1>5, <1>6, <1>7, <1>8 DEF CoevoNext, Advance, Fail

\* To readers of the graph, the synchronisation is a copy of the source that lags behind,
\* never goes back, and holds all that is not newer than the mark.
THEOREM GraphIsACopy ==
    ASSUME Orderly
    PROVE  CoevoSpec => Copy!Spec
<1>1. CoevoInit => Inv /\ Forward /\ Copy!Init
  BY InvInit, ForwardInit DEF CoevoInit, Copy!Init
<1>2. Inv /\ Forward /\ [CoevoNext]_coevoVars => Inv' /\ Forward' /\ [Copy!Next]_(Copy!vars)
  BY InvNext, ForwardNext, CopyStep
<1> QED
  BY <1>1, <1>2, PTL DEF CoevoSpec, Copy!Spec

-----------------------------------------------------------------------------
(* Runs that overlap.  One run may now write into the graph what another   *)
(* has overtaken, and set the watermark back; but nothing takes a row out  *)
(* of the graph, so that rows are only late in their newest version, and   *)
(* none is missing.  Nothing is assumed of the runs here.                  *)

InOrder == (\A r, q \in Rows : Rank[r] = Rank[q]) /\ ~Ties

\* Rows that changed up to time b are in the graph, in some version.
Present(b) ==
    \A r \in Rows : text[r] /\ forgiven < upd[r] /\ upd[r] <= b => node[r] # 0

MarksPresent ==
    /\ wm # NoMark => Present(wm)
    /\ \A s \in Sessions : pc[s] # "idle" => Present(since[s]) /\ Present(latest[s])

\* What a run has selected is all that is missing up to the newest of it.
BatchOf(s) ==
    /\ pc[s] # "store" => batch[s] = {}
    /\ \A v, u \in batch[s] : v.at = u.at => v = u
    /\ \A v \in batch[s] :
          /\ 0 < v.at
          /\ upd[v.row] = v.at => text[v.row] = v.text
          /\ \A r \in Rows :
                text[r] /\ forgiven < upd[r] /\ upd[r] <= v.at /\ node[r] = 0
                    => \E u \in batch[s] : u.row = r /\ u.at = upd[r]

Overlapping == CoevoTypeOK /\ Clock /\ MarksPresent /\ \A s \in Sessions : BatchOf(s)

LEMMA OverlappingInit == CoevoInit => Overlapping
<1> SUFFICES ASSUME CoevoInit PROVE Overlapping
  OBVIOUS
<1>1. CoevoTypeOK
  BY TypeInit
<1>2. Clock
  BY DEF CoevoInit, Clock, Seen
<1>3. MarksPresent /\ \A s \in Sessions : BatchOf(s)
  BY DEF CoevoInit, MarksPresent, BatchOf
<1> QED
  BY <1>1, <1>2, <1>3 DEF Overlapping

\* Steps that leave the source alone, and note only times that are seen.
LEMMA SeenStays ==
    ASSUME Overlapping, UNCHANGED <<upd, now>>, wm' # NoMark => Seen(wm'),
           \A s \in Sessions : /\ Seen(since'[s]) /\ Seen(latest'[s])
                               /\ \A v \in batch'[s] : Seen(v.at)
    PROVE  Clock'
  BY DEF Overlapping, Clock, Seen

\* Steps that leave the source alone and take no row out of the graph.
LEMMA PresentStays ==
    ASSUME CoevoTypeOK, UNCHANGED <<upd, text>>, forgiven <= forgiven', forgiven' \in Nat,
           \A r \in Rows : node[r] # 0 => node'[r] # 0, NEW b \in Nat, Present(b)
    PROVE  Present(b)'
  BY DEF CoevoTypeOK, Times, Present

LEMMA BatchStays ==
    ASSUME CoevoTypeOK, UNCHANGED <<upd, text>>, forgiven <= forgiven', forgiven' \in Nat,
           \A r \in Rows : node[r] # 0 => node'[r] # 0,
           NEW s \in Sessions, BatchOf(s), batch'[s] = batch[s] \/ batch'[s] = {},
           pc'[s] # "store" => batch'[s] = {}
    PROVE  BatchOf(s)'
<1> USE DEF CoevoTypeOK, Times
<1>1. CASE batch'[s] = {}
  BY <1>1 DEF BatchOf
<1>2. CASE batch'[s] = batch[s]
  <2>1. \A r \in Rows : forgiven' < upd[r] /\ node'[r] = 0 => forgiven < upd[r] /\ node[r] = 0
    OBVIOUS
  <2> QED
    BY <1>2, <2>1 DEF BatchOf
<1> QED
  BY <1>1, <1>2

LEMMA OverlapChange ==
    ASSUME InOrder, Overlapping, NEW q \in Rows, NEW hasText \in BOOLEAN, Change(q, hasText)
    PROVE  Clock' /\ MarksPresent' /\ \A s \in Sessions : BatchOf(s)'
<1> USE DEF Overlapping, CoevoTypeOK, Times
<1>1. /\ upd' = [upd EXCEPT ![q] = now] /\ text' = [text EXCEPT ![q] = hasText]
      /\ UNCHANGED <<now, node, wm, pc, since, batch, latest, forgiven>>
      /\ \A r \in Rows : upd[r] # now
      /\ now \in Nat
  BY DEF Change, runVars, InOrder
<1>2. /\ \A t : Seen(t) => t < now
      /\ \A t : t < now => Seen(t)'
  BY <1>1 DEF Seen
<1>3. Clock'
  <2>1. /\ \A r, p \in Rows : upd'[r] = upd'[p] /\ upd'[r] # 0 => r = p
        /\ \A r \in Rows : upd'[r] <= now'
    BY <1>1 DEF Clock
  <2>2. /\ wm' # NoMark => Seen(wm)'
        /\ \A s \in Sessions : /\ Seen(since[s])' /\ Seen(latest[s])'
                                /\ \A v \in batch'[s] : Seen(v.at)'
    BY <1>1, <1>2 DEF Clock
  <2> QED
    BY <2>1, <2>2 DEF Clock
<1>4. ASSUME NEW b \in Nat, Seen(b), Present(b)
      PROVE  Present(b)'
  BY <1>1, <1>2, <1>4 DEF Present
<1>5. MarksPresent'
  BY <1>1, <1>4 DEF MarksPresent, Clock
<1>6. ASSUME NEW s \in Sessions
      PROVE  BatchOf(s)'
  <2>1. \A v \in batch[s] : v.row \in Rows /\ v.at \in Nat /\ v.at < now
    BY <1>2 DEF Clock, Versions
  <2>2. BatchOf(s)
    OBVIOUS
  <2>3. ASSUME NEW v \in batch[s]
        PROVE  /\ upd'[v.row] = v.at => text'[v.row] = v.text
               /\ \A r \in Rows :
                     text'[r] /\ forgiven < upd'[r] /\ upd'[r] <= v.at /\ node[r] = 0
                         => \E u \in batch[s] : u.row = r /\ u.at = upd'[r]
    BY <1>1, <2>1, <2>2 DEF BatchOf
  <2> QED
    BY <1>1, <2>2, <2>3 DEF BatchOf
<1> QED
  BY <1>3, <1>5, <1>6

LEMMA OverlapTick ==
    ASSUME Overlapping, Tick
    PROVE  Clock' /\ MarksPresent' /\ \A s \in Sessions : BatchOf(s)'
<1> USE DEF Overlapping, CoevoTypeOK, Times
<1>1. /\ now' = now + 1 /\ now \in Nat
      /\ UNCHANGED <<upd, text, node, wm, pc, since, batch, latest, forgiven>>
  BY DEF Tick, runVars
<1>2. \A t \in Nat : Seen(t) => Seen(t)'
  BY <1>1 DEF Seen
<1>3. \A s \in Sessions : \A v \in batch[s] : v.at \in Nat
  BY DEF Versions
<1>4. Clock'
  <2>1. /\ wm' # NoMark => Seen(wm)'
        /\ \A s \in Sessions : /\ Seen(since[s])' /\ Seen(latest[s])'
                                /\ \A v \in batch'[s] : Seen(v.at)'
    BY <1>1, <1>2, <1>3 DEF Clock
  <2>2. \A r \in Rows : upd'[r] <= now'
    BY <1>1 DEF Clock
  <2> QED
    BY <1>1, <2>1, <2>2 DEF Clock
<1>5. MarksPresent' /\ \A s \in Sessions : BatchOf(s)'
  BY <1>1 DEF MarksPresent, Present, BatchOf
<1> QED
  BY <1>4, <1>5

\* A run begins: at the watermark, or at a time up to which changes are forgiven.
LEMMA OverlapBegin ==
    ASSUME Overlapping, NEW s \in Sessions, ReadWatermark(s) \/ NoWatermark(s) \/ ReadFails(s)
    PROVE  Clock' /\ MarksPresent' /\ \A t \in Sessions : BatchOf(t)'
<1> USE DEF Overlapping, CoevoTypeOK, Times
<1>1. /\ UNCHANGED <<now, upd, text, node, wm, batch>>
      /\ pc[s] = "idle" /\ pc' = [pc EXCEPT ![s] = "select"]
      /\ latest' = [latest EXCEPT ![s] = 0]
      /\ forgiven <= forgiven' /\ forgiven' \in Nat
      /\ \/ wm # NoMark /\ since' = [since EXCEPT ![s] = wm]
         \/ since' = [since EXCEPT ![s] = Fallback] /\ Fallback <= forgiven'
  BY FallbackType, LaterType DEF ReadWatermark, NoWatermark, ReadFails, BeginRun, sourceVars
<1>2. now \in Nat /\ now > 0 /\ Fallback \in Nat
  BY FallbackType
<1>3. Clock'
  <2>1. Seen(since'[s]) /\ Seen(latest'[s])
    BY <1>1, <1>2, FallbackType DEF Clock, Seen
  <2>2. \A t \in Sessions : Seen(since'[t]) /\ Seen(latest'[t])
    BY <1>1, <2>1 DEF Clock
  <2> QED
    BY <1>1, <2>2, SeenStays DEF Clock
<1>4. ASSUME NEW b \in Nat, Present(b)
      PROVE  Present(b)'
  BY <1>1, <1>4, PresentStays
<1>5. Present(since[s])' /\ Present(latest[s])'
  <2>1. CASE wm # NoMark /\ since' = [since EXCEPT ![s] = wm]
    BY <1>1, <1>4, <2>1 DEF MarksPresent, Present
  <2>2. CASE since' = [since EXCEPT ![s] = Fallback] /\ Fallback <= forgiven'
    BY <1>1, <1>2, <2>2 DEF Present
  <2>3. Present(latest[s])'
    BY <1>1 DEF Present
  <2> QED
    BY <1>1, <2>1, <2>2, <2>3
<1>6. MarksPresent'
  <2>1. wm' # NoMark => Present(wm)'
    BY <1>1, <1>4 DEF MarksPresent
  <2>2. ASSUME NEW t \in Sessions, t # s, pc'[t] # "idle"
        PROVE  Present(since[t])' /\ Present(latest[t])'
    <3>1. pc[t] # "idle" /\ since'[t] = since[t] /\ latest'[t] = latest[t]
      BY <1>1, <2>2
    <3> QED
      BY <1>4, <3>1 DEF MarksPresent
  <2> QED
    BY <1>5, <2>1, <2>2 DEF MarksPresent
<1>7. ASSUME NEW t \in Sessions
      PROVE  BatchOf(t)'
  <2>1. batch[s] = {} /\ BatchOf(t)
    BY <1>1 DEF BatchOf
  <2>2. pc'[t] # "store" => batch'[t] = {}
    BY <1>1, <2>1 DEF BatchOf
  <2> QED
    BY <1>1, <2>1, <2>2, BatchStays
<1> QED
  BY <1>3, <1>6, <1>7

LEMMA OverlapSelect ==
    ASSUME InOrder, Overlapping, NEW s \in Sessions, Select(s)
    PROVE  Clock' /\ MarksPresent' /\ \A t \in Sessions : BatchOf(t)'
<1> USE DEF Overlapping, CoevoTypeOK, Times
<1>1. PICK rows \in SUBSET Candidates(s) :
          Selected(s, rows) /\ batch' = [batch EXCEPT ![s] = rows]
  BY DEF Select
<1>2. /\ UNCHANGED <<now, upd, text, node, wm, since, latest, forgiven>>
      /\ pc[s] = "select" /\ pc' = [pc EXCEPT ![s] = "store"]
      /\ batch'[s] = rows
      /\ since[s] \in Nat
  BY <1>1 DEF Select, sourceVars
<1>3. ASSUME NEW v \in rows
      PROVE  /\ v \in Versions /\ v.row \in Rows /\ v.at \in Nat
             /\ v.at = upd[v.row] /\ v.text = text[v.row] /\ v.at > since[s]
  BY <1>3 DEF Candidates, Versions
<1>4. ASSUME NEW v \in rows, NEW u \in Versions, u.at = v.at, u.row = v.row, u.text = v.text
      PROVE  u = v
  BY <1>3, <1>4 DEF Versions
<1>5. Clock'
  <2>1. \A v \in rows : Seen(v.at)
    BY <1>3 DEF Clock, Seen
  <2>2. \A t \in Sessions : /\ Seen(since'[t]) /\ Seen(latest'[t])
                            /\ \A v \in batch'[t] : Seen(v.at)
    BY <1>1, <1>2, <2>1 DEF Clock
  <2> QED
    BY <1>2, <2>2, SeenStays DEF Clock
<1>6. MarksPresent'
  BY <1>2 DEF MarksPresent, Present
<1>7. ASSUME NEW t \in Sessions, t # s
      PROVE  BatchOf(t)'
  <2>1. batch'[t] = batch[t] /\ pc'[t] = pc[t] /\ BatchOf(t)
    BY <1>1, <1>2, <1>7
  <2>2. pc'[t] # "store" => batch'[t] = {}
    BY <2>1 DEF BatchOf
  <2> QED
    BY <1>2, <2>1, <2>2, BatchStays
<1>8. BatchOf(s)'
  <2>1. ASSUME NEW v \in rows, NEW u \in rows, v.at = u.at
        PROVE  v = u
    <3>1. v.row = u.row
      BY <1>2, <1>3, <2>1 DEF Clock
    <3> QED
      BY <1>3, <1>4, <2>1, <3>1
  <2>2. ASSUME NEW v \in rows, NEW r \in Rows, text[r], forgiven < upd[r],
               upd[r] <= v.at, node[r] = 0
        PROVE  \E u \in rows : u.row = r /\ u.at = upd[r]
    <3> DEFINE c == [row |-> r, at |-> upd[r], text |-> TRUE]
    <3>1. upd[r] > since[s]
      BY <1>2, <2>2 DEF MarksPresent, Present
    <3>2. c \in Versions /\ c \in Candidates(s)
      BY <2>2, <3>1 DEF Candidates, Versions
    <3>3. CASE c \notin rows
      <4>1. ~Before(c, v)
        BY <1>1, <3>2, <3>3 DEF Selected
      <4>2. upd[r] = v.at
        BY <1>3, <2>2, <4>1 DEF Before, InOrder
      <4>3. r = v.row
        BY <1>2, <1>3, <3>1, <4>2 DEF Clock
      <4>4. c = v
        BY <1>3, <1>4, <2>2, <3>2, <4>2, <4>3
      <4> QED
        BY <3>3, <4>4
    <3> QED
      BY <3>3
  <2> QED
    BY <1>2, <1>3, <2>1, <2>2 DEF BatchOf
<1> QED
  BY <1>5, <1>6, <1>7, <1>8

LEMMA OverlapSkip ==
    ASSUME Overlapping, NEW s \in Sessions, NEW v \in batch[s], Skip(s, v)
    PROVE  Clock' /\ MarksPresent' /\ \A t \in Sessions : BatchOf(t)'
<1> USE DEF Overlapping, CoevoTypeOK, Times
<1>1. /\ UNCHANGED <<now, upd, text, node, wm, pc, since, latest, forgiven>>
      /\ batch' = [batch EXCEPT ![s] = batch[s] \ {v}]
      /\ ~v.text
  BY DEF Skip, sourceVars
<1>2. Clock' /\ MarksPresent'
  BY <1>1 DEF Clock, MarksPresent, Seen, Present
<1>3. ASSUME NEW t \in Sessions, t # s
      PROVE  BatchOf(t)'
  <2>1. batch'[t] = batch[t] /\ pc'[t] = pc[t] /\ BatchOf(t)
    BY <1>1, <1>3
  <2> QED
    BY <1>1, <2>1 DEF BatchOf
<1>4. BatchOf(s)'
  <2>1. BatchOf(s) /\ batch'[s] = batch[s] \ {v} /\ pc'[s] = pc[s]
    BY <1>1
  <2>2. ASSUME NEW w \in batch[s], NEW r \in Rows, text[r], forgiven < upd[r],
               upd[r] <= w.at, node[r] = 0
        PROVE  \E u \in batch[s] \ {v} : u.row = r /\ u.at = upd[r]
    <3>1. PICK u \in batch[s] : u.row = r /\ u.at = upd[r]
      BY <2>1, <2>2 DEF BatchOf
    <3>2. u.text
      BY <2>1, <2>2, <3>1 DEF BatchOf
    <3> QED
      BY <1>1, <3>1, <3>2
  <2> QED
    BY <1>1, <2>1, <2>2 DEF BatchOf
<1> QED
  BY <1>2, <1>3, <1>4

\* A version of a row, however old, makes the row present.
LEMMA OverlapWrites ==
    ASSUME Overlapping, NEW s \in Sessions, NEW v \in batch[s],
           node' \in {node, [node EXCEPT ![v.row] = v.at]}
    PROVE  /\ v.row \in Rows /\ v.at \in Nat /\ 0 < v.at
           /\ \A r \in Rows : node[r] # 0 => node'[r] # 0
<1> USE DEF Overlapping, CoevoTypeOK, Times
<1>1. v.row \in Rows /\ v.at \in Nat /\ 0 < v.at
  BY DEF Versions, BatchOf
<1> QED
  BY <1>1

LEMMA OverlapStore ==
    ASSUME InOrder, Overlapping, NEW s \in Sessions, NEW v \in batch[s], Store(s, v)
    PROVE  Clock' /\ MarksPresent' /\ \A t \in Sessions : BatchOf(t)'
<1> USE DEF Overlapping, CoevoTypeOK, Times
<1>1. /\ UNCHANGED <<now, upd, text, wm, pc, since, forgiven>>
      /\ node' = [node EXCEPT ![v.row] = v.at]
      /\ batch' = [batch EXCEPT ![s] = batch[s] \ {v}]
      /\ pc[s] = "store" /\ BatchOf(s)
      /\ \A u \in batch[s] : u.at \in Nat /\ u.row \in Rows
  BY DEF Store, sourceVars, Versions
<1>2. /\ v.row \in Rows /\ v.at \in Nat /\ 0 < v.at
      /\ \A r \in Rows : node[r] # 0 => node'[r] # 0
  BY <1>1, OverlapWrites
<1>3. latest' = [latest EXCEPT ![s] = Later(latest[s], v.at)]
  BY DEF Store, Advanced
<1>4. latest'[s] \in {latest[s], v.at} /\ \A t \in Sessions : t # s => latest'[t] = latest[t]
  BY <1>2, <1>3, LaterType
<1>5. \A u \in batch[s] : v.at <= u.at
  BY <1>1 DEF Store, First, Before, InOrder
<1>6. Clock'
  <2>1. Seen(v.at)
    BY DEF Clock
  <2>2. \A t \in Sessions : Seen(latest'[t])
    BY <1>4, <2>1 DEF Clock
  <2> QED
    BY <1>1, <2>2, SeenStays DEF Clock
<1>7. Present(v.at)'
  <2>1. ASSUME NEW r \in Rows, text[r], forgiven < upd[r], upd[r] <= v.at, node'[r] = 0
        PROVE  FALSE
    <3>1. r # v.row /\ node[r] = 0
      BY <1>1, <1>2, <2>1
    <3>2. PICK u \in batch[s] : u.row = r /\ u.at = upd[r]
      BY <1>1, <2>1, <3>1 DEF BatchOf
    <3>3. u.at = v.at
      BY <1>1, <1>5, <2>1, <3>2
    <3> QED
      BY <1>1, <3>1, <3>2, <3>3 DEF BatchOf
  <2> QED
    BY <1>1, <2>1 DEF Present
<1>8. ASSUME NEW b \in Nat, Present(b)
      PROVE  Present(b)'
  BY <1>1, <1>2, <1>8, PresentStays
<1>9. MarksPresent'
  <2>1. wm' # NoMark => Present(wm)'
    BY <1>1, <1>8 DEF MarksPresent
  <2>2. ASSUME NEW t \in Sessions, pc'[t] # "idle"
        PROVE  Present(since[t])' /\ Present(latest[t])'
    <3>1. since'[t] \in Nat /\ Present(since[t]) /\ since'[t] = since[t]
      BY <1>1, <2>2 DEF MarksPresent
    <3>2. latest[t] \in Nat /\ Present(latest[t])
      BY <1>1, <2>2 DEF MarksPresent
    <3>3. latest'[t] = latest[t] \/ latest'[t] = v.at
      BY <1>4
    <3> QED
      BY <1>7, <1>8, <3>1, <3>2, <3>3 DEF Present
  <2> QED
    BY <2>1, <2>2 DEF MarksPresent
<1>10. ASSUME NEW t \in Sessions, t # s
       PROVE  BatchOf(t)'
  <2>1. batch'[t] = batch[t] /\ pc'[t] = pc[t] /\ BatchOf(t)
    BY <1>1, <1>10
  <2>2. pc'[t] # "store" => batch'[t] = {}
    BY <2>1 DEF BatchOf
  <2> QED
    BY <1>1, <1>2, <2>1, <2>2, BatchStays
<1>11. BatchOf(s)'
  <2>1. ASSUME NEW w \in batch[s], NEW r \in Rows, text[r], forgiven < upd[r],
               upd[r] <= w.at, node'[r] = 0
        PROVE  \E u \in batch[s] \ {v} : u.row = r /\ u.at = upd[r]
    <3>1. r # v.row /\ node[r] = 0
      BY <1>1, <1>2, <2>1
    <3> QED
      BY <1>1, <2>1, <3>1 DEF BatchOf
  <2> QED
    BY <1>1, <2>1 DEF BatchOf
<1> QED
  BY <1>6, <1>9, <1>10, <1>11

LEMMA OverlapStoreFails ==
    ASSUME Overlapping, NEW s \in Sessions, NEW v \in batch[s], StoreFails(s, v)
    PROVE  Clock' /\ MarksPresent' /\ \A t \in Sessions : BatchOf(t)'
<1> USE DEF Overlapping, CoevoTypeOK, Times
<1>1. /\ UNCHANGED <<now, upd, text, wm, since, latest, forgiven>>
      /\ node' \in {node, [node EXCEPT ![v.row] = v.at]}
      /\ batch' = [batch EXCEPT ![s] = {}]
      /\ pc[s] = "store" /\ pc' = [pc EXCEPT ![s] = "save"]
  BY DEF StoreFails, sourceVars
<1>2. \A r \in Rows : node[r] # 0 => node'[r] # 0
  BY <1>1, OverlapWrites
<1>3. Clock'
  <2>1. \A t \in Sessions : /\ Seen(since'[t]) /\ Seen(latest'[t])
                            /\ \A u \in batch'[t] : Seen(u.at)
    BY <1>1 DEF Clock
  <2> QED
    BY <1>1, <2>1, SeenStays DEF Clock
<1>4. ASSUME NEW b \in Nat, Present(b)
      PROVE  Present(b)'
  BY <1>1, <1>2, <1>4, PresentStays
<1>5. MarksPresent'
  <2>1. wm' # NoMark => Present(wm)'
    BY <1>1, <1>4 DEF MarksPresent
  <2>2. ASSUME NEW t \in Sessions, pc'[t] # "idle"
        PROVE  Present(since[t])' /\ Present(latest[t])'
    <3>1. pc[t] # "idle" /\ since'[t] = since[t] /\ latest'[t] = latest[t]
      BY <1>1, <2>2
    <3> QED
      BY <1>4, <3>1 DEF MarksPresent
  <2> QED
    BY <2>1, <2>2 DEF MarksPresent
<1>6. ASSUME NEW t \in Sessions
      PROVE  BatchOf(t)'
  <2>1. BatchOf(t) /\ (batch'[t] = batch[t] \/ batch'[t] = {})
    BY <1>1
  <2>2. pc'[t] # "store" => batch'[t] = {}
    BY <1>1, <2>1 DEF BatchOf
  <2> QED
    BY <1>1, <1>2, <2>1, <2>2, BatchStays
<1> QED
  BY <1>3, <1>5, <1>6

\* The other steps of a run: at most they give up what it selected, or move the
\* watermark to the last row it stored.
LEMMA OverlapRest ==
    ASSUME Overlapping, NEW s \in Sessions,
           SelectFails(s) \/ LoopEnds(s) \/ Save(s) \/ SaveFails(s) \/ RunDies(s)
    PROVE  Clock' /\ MarksPresent' /\ \A t \in Sessions : BatchOf(t)'
<1> USE DEF Overlapping, CoevoTypeOK, Times
<1>1. UNCHANGED <<now, upd, text, node, since, latest, forgiven>>
  BY DEF SelectFails, LoopEnds, Save, SaveFails, RunDies, sourceVars
<1>2. wm' = wm \/ (wm' = latest[s] /\ pc[s] = "save")
  BY DEF SelectFails, LoopEnds, Save, SaveFails, RunDies
<1>3. \A t \in Sessions :
          /\ batch'[t] = batch[t] \/ batch'[t] = {}
          /\ pc'[t] # "idle" => pc[t] # "idle"
          /\ pc'[t] # "store" => pc[t] # "store" \/ batch'[t] = {}
  BY DEF SelectFails, LoopEnds, Save, SaveFails, RunDies
<1>4. Clock'
  <2>1. wm' # NoMark => Seen(wm')
    BY <1>2 DEF Clock
  <2>2. \A t \in Sessions : /\ Seen(since'[t]) /\ Seen(latest'[t])
                            /\ \A u \in batch'[t] : Seen(u.at)
    BY <1>1, <1>3 DEF Clock
  <2> QED
    BY <1>1, <2>1, <2>2, SeenStays
<1>5. MarksPresent'
  BY <1>1, <1>2, <1>3 DEF MarksPresent, Present
<1>6. ASSUME NEW t \in Sessions
      PROVE  BatchOf(t)'
  <2>1. BatchOf(t) /\ (batch'[t] = batch[t] \/ batch'[t] = {})
    BY <1>3
  <2>2. pc'[t] # "store" => batch'[t] = {}
    BY <1>3, <2>1 DEF BatchOf
  <2> QED
    BY <1>1, <2>1, <2>2, BatchStays
<1> QED
  BY <1>4, <1>5, <1>6

LEMMA OverlapReset ==
    ASSUME Overlapping, ResetWatermark
    PROVE  Clock' /\ MarksPresent' /\ \A s \in Sessions : BatchOf(s)'
  BY DEF Overlapping, ResetWatermark, sourceVars, runVars, Clock, Seen, MarksPresent,
         Present, BatchOf

LEMMA OverlapStutter ==
    ASSUME Overlapping, UNCHANGED coevoVars
    PROVE  Clock' /\ MarksPresent' /\ \A s \in Sessions : BatchOf(s)'
  BY DEF Overlapping, coevoVars, sourceVars, runVars, Clock, Seen, MarksPresent, Present,
         BatchOf

LEMMA OverlappingNext ==
    ASSUME InOrder, Overlapping, [CoevoNext]_coevoVars
    PROVE  Overlapping'
<1>1. CoevoTypeOK'
  BY TypeNext DEF Overlapping
<1>2. Clock' /\ MarksPresent' /\ \A s \in Sessions : BatchOf(s)'
  <2>1. CASE \E r \in Rows, hasText \in BOOLEAN : Change(r, hasText)
    BY <2>1, OverlapChange
  <2>2. CASE \E s \in Sessions : ReadWatermark(s) \/ NoWatermark(s) \/ ReadFails(s)
    BY <2>2, OverlapBegin
  <2>3. CASE \E s \in Sessions : Select(s)
    BY <2>3, OverlapSelect
  <2>4. CASE \E s \in Sessions : \E v \in batch[s] : Skip(s, v)
    BY <2>4, OverlapSkip
  <2>5. CASE \E s \in Sessions : \E v \in batch[s] : Store(s, v)
    BY <2>5, OverlapStore
  <2>6. CASE \E s \in Sessions : \E v \in batch[s] : StoreFails(s, v)
    BY <2>6, OverlapStoreFails
  <2>7. CASE \E s \in Sessions :
                 SelectFails(s) \/ LoopEnds(s) \/ Save(s) \/ SaveFails(s) \/ RunDies(s)
    BY <2>7, OverlapRest
  <2> QED
    BY <2>1, <2>2, <2>3, <2>4, <2>5, <2>6, <2>7, OverlapTick, OverlapReset, OverlapStutter
       DEF CoevoNext, Advance, Fail
<1> QED
  BY <1>1, <1>2 DEF Overlapping

\* However the runs of the scheduler, the Librarian and the API overlap, fail and die,
\* a row with text that changed before the watermark is in the graph: a run moves the
\* watermark only over rows that are stored (coevo_knowledge_sync.py:97-184). Of Orderly,
\* only that runs do not overlap is not needed; it is what keeps the last version there.
THEOREM NoRowMissing ==
    ASSUME InOrder
    PROVE  CoevoSpec => []NoneMissing
<1>1. Overlapping => NoneMissing
  BY DEF Overlapping, MarksPresent, Present, NoneMissing
<1> QED
  BY <1>1, OverlappingInit, OverlappingNext, PTL DEF CoevoSpec

=============================================================================
