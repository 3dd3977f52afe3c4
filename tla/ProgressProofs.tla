---------------------------- MODULE ProgressProofs ----------------------------
(***************************************************************************)
(* Proofs about the processes that go on beside the chat's tasks: that the *)
(* Librarian extracts a conversation once, that the supervisor keeps one   *)
(* process of a component, and that the page never replaces a reply it has *)
(* shown, for any conversations, components, messages and bounds.          *)
(***************************************************************************)
EXTENDS MCProgress, WsRoutingProofs, WorkerRegistryProofs, CoevoSyncProofs,
        FiniteSetTheorems, TLAPS

-----------------------------------------------------------------------------
(* The Librarian.                                                          *)
(*                                                                         *)
(* What a run has in hand is in no other run's hands, and what it has not  *)
(* come to was never extracted: else it would be marked, or in the hands   *)
(* of the run that extracted it, and fetching it would have noted it in    *)
(* `again'.                                                                *)

InHand(r) == pairs[r] \cup processed[r]

IdleHasNothing == \A r \in Runs : libPhase[r] = "idle" => InHand(r) = {}

OneHand ==
    \A r, o \in Runs : r # o => InHand(r) \cap InHand(o) \subseteq again

PendingNew ==
    \A r \in Runs : \A c \in pairs[r] \ again : extracted[c] = 0

DoneIsKept ==
    \A c \in Conversations \ again :
        extracted[c] > 0 => c \in marked \/ \E r \in Runs : c \in processed[r]

OneExtraction == \A c \in Conversations \ again : extracted[c] <= 1

LibInv ==
    /\ LibTypeOK
    /\ IdleHasNothing
    /\ hasColumn => OneHand /\ PendingNew /\ DoneIsKept /\ OneExtraction

LEMMA LibTypeInit == LibInit => LibTypeOK
  BY LibrarianAssumption DEF LibInit, LibTypeOK

LEMMA LibTypeNext == LibTypeOK /\ [LibNext]_libVars => LibTypeOK'
<1> SUFFICES ASSUME LibTypeOK, [LibNext]_libVars
             PROVE  LibTypeOK'
  OBVIOUS
<1> USE LibrarianAssumption DEF LibTypeOK
<1>1. ASSUME NEW c \in Conversations, Complete(c)
      PROVE  LibTypeOK'
  BY <1>1 DEF Complete, libRunVars
<1>2. ASSUME NEW r \in Runs, Fetch(r) \/ FallBack(r)
      PROVE  LibTypeOK'
  <2>1. PICK cs \in SUBSET completed :
           /\ pairs' = [pairs EXCEPT ![r] = cs]
           /\ again' \subseteq again \cup cs
    BY <1>2 DEF Fetch, FallBack, Take, ToProcess
  <2>2. cs \subseteq Conversations
    OBVIOUS
  <2>3. stops' \in 0..MaxStops
    BY <1>2 DEF Fetch, FallBack
  <2>4. /\ libPhase' = [libPhase EXCEPT ![r] = "extract"]
        /\ UNCHANGED <<hasColumn, completed, marked, processed, extracted, unclear>>
    BY <1>2 DEF Fetch, FallBack, Take
  <2>. QED
    BY <2>1, <2>2, <2>3, <2>4
<1>3. ASSUME NEW r \in Runs, NEW c \in Conversations, Extract(r, c) \/ ExtractsNothing(r, c)
      PROVE  LibTypeOK'
  <2>1. CASE Extract(r, c)
    <3>1. (IF extracted[c] < MaxCount THEN extracted[c] + 1 ELSE extracted[c]) \in 0..MaxCount
      OBVIOUS
    <3>2. extracted' \in [Conversations -> 0..MaxCount]
      BY <2>1, <3>1 DEF Extract
    <3> QED
      BY <2>1, <3>2 DEF Extract, Goes
  <2>2. CASE ExtractsNothing(r, c)
    BY <2>2 DEF ExtractsNothing, Goes
  <2> QED
    BY <1>3, <2>1, <2>2
<1>4. ASSUME NEW r \in Runs, LoopDone(r)
      PROVE  LibTypeOK'
  BY <1>4 DEF LoopDone
<1>5. ASSUME NEW r \in Runs, Mark(r)
      PROVE  LibTypeOK'
  BY <1>5 DEF Mark, LibIdle
<1>6. ASSUME NEW r \in Runs, RunStops(r)
      PROVE  LibTypeOK'
  <2>1. stops' \in 0..MaxStops
    BY <1>6 DEF RunStops
  <2>2. again' \subseteq Conversations
    BY <1>6 DEF RunStops
  <2>3. /\ libPhase' \in [Runs -> {"idle", "extract", "mark"}]
        /\ pairs' \in [Runs -> SUBSET Conversations]
        /\ processed' \in [Runs -> SUBSET Conversations]
    BY <1>6 DEF RunStops, LibIdle
  <2> QED
    BY <1>6, <2>1, <2>2, <2>3 DEF RunStops
<1>7. CASE UNCHANGED libVars
  BY <1>7 DEF libVars, libRunVars
<1> QED
  BY <1>1, <1>2, <1>3, <1>4, <1>5, <1>6, <1>7 DEF LibNext, LibAdvance

LEMMA IdleNext ==
    ASSUME LibTypeOK, IdleHasNothing, [LibNext]_libVars
    PROVE  IdleHasNothing'
<1> USE DEF LibTypeOK, IdleHasNothing, InHand
<1>1. ASSUME NEW c \in Conversations, Complete(c)
      PROVE  IdleHasNothing'
  BY <1>1 DEF Complete, libRunVars
<1>2. ASSUME NEW r \in Runs, Fetch(r) \/ FallBack(r)
      PROVE  IdleHasNothing'
  BY <1>2 DEF Fetch, FallBack, Take
<1>3. ASSUME NEW r \in Runs, NEW c \in Conversations, Extract(r, c) \/ ExtractsNothing(r, c)
      PROVE  IdleHasNothing'
  BY <1>3 DEF Extract, ExtractsNothing, Goes
<1>4. ASSUME NEW r \in Runs, LoopDone(r) \/ Mark(r) \/ RunStops(r)
      PROVE  IdleHasNothing'
  BY <1>4 DEF LoopDone, Mark, RunStops, LibIdle
<1>5. CASE UNCHANGED libVars
  BY <1>5 DEF libVars, libRunVars
<1> QED
  BY <1>1, <1>2, <1>3, <1>4, <1>5 DEF LibNext, LibAdvance


LEMMA Types ==
    ASSUME LibTypeOK
    PROVE  /\ \A r \in Runs : InHand(r) \subseteq Conversations
           /\ \A c \in Conversations : extracted[c] \in Nat
  BY LibrarianAssumption DEF LibTypeOK, InHand

\* What a run fetches is in no other hand, and was not extracted, unless `again' notes it.
LEMMA FetchNew ==
    ASSUME LibTypeOK, IdleHasNothing, hasColumn, OneHand, PendingNew, DoneIsKept,
           NEW r \in Runs, Fetch(r) \/ FallBack(r)
    PROVE  OneHand' /\ PendingNew' /\ DoneIsKept'
<1>1. PICK cs \in SUBSET completed :
         /\ pairs' = [pairs EXCEPT ![r] = cs]
         /\ again \subseteq again' /\ cs \cap Elsewhere(r) \subseteq again'
         /\ cs \cap marked \subseteq again'
  <2>1. CASE Fetch(r)
    BY <2>1 DEF Fetch, Take, ToProcess
  <2>2. CASE FallBack(r)
    BY <2>2 DEF FallBack, Take
  <2> QED
    BY <2>1, <2>2
<1>2. InHand(r) = {}
  BY DEF Fetch, FallBack, Take, IdleHasNothing
<1>3. cs \subseteq Conversations
  BY DEF LibTypeOK
<1>4. /\ InHand(r)' = cs
      /\ \A o \in Runs \ {r} : InHand(o)' = InHand(o)
      /\ UNCHANGED <<marked, processed, extracted>>
  BY <1>1, <1>2 DEF Fetch, FallBack, Take, InHand, LibTypeOK
<1>5. \A o \in Runs \ {r} : cs \cap InHand(o) \subseteq again'
  BY <1>1 DEF Elsewhere, InHand
<1>6. OneHand'
  BY <1>1, <1>4, <1>5 DEF OneHand
<1>7. ASSUME NEW c \in cs \ again'
      PROVE  extracted[c] = 0
  <2>1. \A o \in Runs : c \notin processed[o]
    BY <1>2, <1>5, <1>7 DEF InHand
  <2>2. ~(extracted[c] > 0)
    BY <1>1, <1>3, <1>7, <2>1 DEF DoneIsKept
  <2> QED
    BY <1>3, <1>7, <2>2, Types
<1>8. PendingNew'
  BY <1>1, <1>4, <1>7 DEF PendingNew, LibTypeOK
<1>9. DoneIsKept'
  BY <1>1, <1>4 DEF DoneIsKept
<1> QED
  BY <1>6, <1>8, <1>9

\* The run that extracts a conversation is the only one that has it.
LEMMA ExtractOnce ==
    ASSUME LibTypeOK, OneHand, PendingNew, DoneIsKept, OneExtraction,
           NEW r \in Runs, NEW c \in Conversations, Extract(r, c) \/ ExtractsNothing(r, c)
    PROVE  OneHand' /\ PendingNew' /\ DoneIsKept' /\ OneExtraction'
<1>1. /\ c \in pairs[r]
      /\ pairs' = [pairs EXCEPT ![r] = @ \ {c}]
      /\ processed' = [processed EXCEPT ![r] = @ \cup {c}]
      /\ UNCHANGED <<marked, again>>
  BY DEF Extract, ExtractsNothing, Goes, Newest
<1>2. \A o \in Runs : InHand(o)' = InHand(o)
  BY <1>1 DEF InHand, LibTypeOK
<1>3. OneHand'
  BY <1>1, <1>2 DEF OneHand
<1>4. c \notin again => extracted[c] = 0 /\ \A o \in Runs \ {r} : c \notin pairs[o]
  BY <1>1 DEF PendingNew, OneHand, InHand
<1>5. /\ \A d \in Conversations \ {c} : extracted'[d] = extracted[d]
      /\ c \notin again => extracted'[c] \in {0, 1}
  BY <1>4, LibrarianAssumption DEF Extract, ExtractsNothing, LibTypeOK
<1>6. ASSUME NEW o \in Runs, NEW d \in pairs'[o] \ again'
      PROVE  extracted'[d] = 0
  <2>1. d \in pairs[o] \ again /\ d \in Conversations
    BY <1>1, <1>6 DEF LibTypeOK
  <2>2. d # c
    BY <1>1, <1>4, <1>6 DEF LibTypeOK
  <2> QED
    BY <1>5, <2>1, <2>2 DEF PendingNew
<1>7. PendingNew'
  BY <1>6 DEF PendingNew
<1>8. ASSUME NEW d \in Conversations \ again', extracted'[d] > 0
      PROVE  d \in marked' \/ \E o \in Runs : d \in processed'[o]
  <2>1. CASE d = c
    BY <1>1, <2>1 DEF LibTypeOK
  <2>2. CASE d # c
    <3>1. d \in marked \/ \E o \in Runs : d \in processed[o]
      BY <1>1, <1>5, <1>8, <2>2 DEF DoneIsKept
    <3> QED
      BY <1>1, <3>1 DEF LibTypeOK
  <2> QED
    BY <2>1, <2>2
<1>9. DoneIsKept'
  BY <1>8 DEF DoneIsKept
<1>10. OneExtraction'
  BY <1>1, <1>5 DEF OneExtraction
<1> QED
  BY <1>3, <1>7, <1>9, <1>10

\* A run leaves with its conversations marked, or noted in `again'.
LEMMA LeaveKept ==
    ASSUME LibTypeOK, IdleHasNothing, hasColumn, OneHand, PendingNew, DoneIsKept, OneExtraction,
           NEW r \in Runs, Mark(r) \/ RunStops(r)
    PROVE  OneHand' /\ PendingNew' /\ DoneIsKept' /\ OneExtraction'
<1>1. /\ pairs' = [pairs EXCEPT ![r] = {}]
      /\ processed' = [processed EXCEPT ![r] = {}]
      /\ UNCHANGED extracted
      /\ again \subseteq again' /\ marked \subseteq marked'
      /\ processed[r] \subseteq marked' \cup again'
  BY DEF Mark, RunStops, LibIdle
<1>2. \A o \in Runs : InHand(o)' \subseteq InHand(o)
  BY <1>1 DEF InHand, LibTypeOK
<1>3. OneHand'
  BY <1>1, <1>2 DEF OneHand
<1>4. PendingNew'
  BY <1>1 DEF PendingNew, LibTypeOK
<1>5. ASSUME NEW c \in Conversations \ again', extracted'[c] > 0
      PROVE  c \in marked' \/ \E o \in Runs : c \in processed'[o]
  <2>1. c \in marked \/ \E o \in Runs : c \in processed[o]
    BY <1>1, <1>5 DEF DoneIsKept
  <2>2. ASSUME NEW o \in Runs, c \in processed[o]
        PROVE  c \in marked' \/ c \in processed'[o]
    BY <1>1, <1>5, <2>2 DEF LibTypeOK
  <2> QED
    BY <1>1, <2>1, <2>2
<1>6. DoneIsKept'
  BY <1>5 DEF DoneIsKept
<1>7. OneExtraction'
  BY <1>1 DEF OneExtraction
<1> QED
  BY <1>3, <1>4, <1>6, <1>7

LEMMA LibInvInit == LibInit => LibInv
  BY LibTypeInit, LibrarianAssumption
  DEF LibInit, LibInv, IdleHasNothing, OneHand, PendingNew, DoneIsKept, OneExtraction, InHand

LEMMA LibInvNext == LibInv /\ [LibNext]_libVars => LibInv'
<1> SUFFICES ASSUME LibInv, [LibNext]_libVars
             PROVE  LibInv'
  OBVIOUS
<1>1. LibTypeOK' /\ IdleHasNothing'
  BY LibTypeNext, IdleNext DEF LibInv
<1>2. UNCHANGED hasColumn
  BY DEF LibNext, LibAdvance, Complete, Fetch, FallBack, Take, Extract, ExtractsNothing,
         Goes, LoopDone, Mark, RunStops, libVars
<1> SUFFICES ASSUME hasColumn
             PROVE  OneHand' /\ PendingNew' /\ DoneIsKept' /\ OneExtraction'
  BY <1>1, <1>2 DEF LibInv
<1>3. LibTypeOK /\ IdleHasNothing /\ OneHand /\ PendingNew /\ DoneIsKept /\ OneExtraction
  BY DEF LibInv
<1>4. ASSUME NEW c \in Conversations, Complete(c)
      PROVE  OneHand' /\ PendingNew' /\ DoneIsKept' /\ OneExtraction'
  BY <1>3, <1>4
  DEF Complete, libRunVars, OneHand, PendingNew, DoneIsKept, OneExtraction, InHand
<1>5. ASSUME NEW r \in Runs, Fetch(r) \/ FallBack(r)
      PROVE  OneHand' /\ PendingNew' /\ DoneIsKept' /\ OneExtraction'
  <2>1. OneExtraction'
    BY <1>3, <1>5 DEF Fetch, FallBack, Take, OneExtraction
  <2> QED
    BY <1>3, <1>5, <2>1, FetchNew
<1>6. ASSUME NEW r \in Runs, NEW c \in Conversations, Extract(r, c) \/ ExtractsNothing(r, c)
      PROVE  OneHand' /\ PendingNew' /\ DoneIsKept' /\ OneExtraction'
  BY <1>3, <1>6, ExtractOnce
<1>7. ASSUME NEW r \in Runs, LoopDone(r)
      PROVE  OneHand' /\ PendingNew' /\ DoneIsKept' /\ OneExtraction'
  BY <1>3, <1>7 DEF LoopDone, OneHand, PendingNew, DoneIsKept, OneExtraction, InHand
<1>8. ASSUME NEW r \in Runs, Mark(r) \/ RunStops(r)
      PROVE  OneHand' /\ PendingNew' /\ DoneIsKept' /\ OneExtraction'
  BY <1>3, <1>8, LeaveKept
<1>9. CASE UNCHANGED libVars
  BY <1>3, <1>9
  DEF libVars, libRunVars, OneHand, PendingNew, DoneIsKept, OneExtraction, InHand
<1> QED
  BY <1>4, <1>5, <1>6, <1>7, <1>8, <1>9 DEF LibNext, LibAdvance

\* The state of the Librarian has its types.
THEOREM LibTypeCorrect == LibSpec => []LibTypeOK
<1>1. LibInit => LibTypeOK
  BY LibTypeInit
<1>2. LibTypeOK /\ [LibNext]_libVars => LibTypeOK'
  BY LibTypeNext
<1> QED
  BY <1>1, <1>2, PTL DEF LibSpec

\* Whatever runs overlap, stop or fail to mark: with the column of the marks, a
\* conversation is extracted at most once, apart from those in `again', which a failed
\* query or marking, the end of a run or an overlap put there.
THEOREM LibExtractsOnce == LibSpec => []ExtractedOnce
<1>1. LibInit => LibInv
  BY LibInvInit
<1>2. LibInv /\ [LibNext]_libVars => LibInv'
  BY LibInvNext
<1>3. LibInv => ExtractedOnce
  BY DEF LibInv, ExtractedOnce, OneExtraction
<1> QED
  BY <1>1, <1>2, <1>3, PTL DEF LibSpec

-----------------------------------------------------------------------------
(* The page.  A message that is awaited has no reply on show, because only *)
(* an answer to its POST makes it awaited, and the bubble of a message     *)
(* that was not sent is empty.                                             *)

AwaitedOpen == \A m \in awaited : bubble[m] \in {"queued", "processing"}
NewUnseen == \A m \in Messages : post[m] = "new" => bubble[m] = "none"

\* Only a task that was pushed is polled for.
PolledPushed ==
    \A m \in Messages :
        m \in ticking \/ post[m] \in {"pushed", "registered", "answered"} => result[m] # "none"

ChatInv == ChatTypeOK /\ AwaitedOpen /\ NewUnseen /\ PolledPushed

LEMMA ChatInvInit == ChatInit => ChatInv
<1> SUFFICES ASSUME ChatInit
             PROVE  ChatInv
  OBVIOUS
<1>1. ChatTypeOK
  <2>1. 0 \in 0..Retries /\ 0 \in 0..MaxOutages
    BY ChatAssumption
  <2>2. /\ bubble \in [Messages -> {"none", "submitting", "queued", "processing"} \cup Finals]
        /\ post \in [Messages -> {"new", "sent", "pushed", "registered", "answered"}]
        /\ result \in [Messages -> Statuses \cup {"none"}]
    BY DEF ChatInit
  <2>3. /\ polls \in [Messages -> 0..Retries]
        /\ answers \in [Messages -> SUBSET Statuses]
    BY <2>1 DEF ChatInit
  <2>4. /\ awaited \subseteq Messages /\ ticking \subseteq Messages /\ ownerOf \subseteq Messages
        /\ frames \subseteq Messages \X (Finals \cup {"progress"})
        /\ loading \in BOOLEAN /\ online \in BOOLEAN /\ outages \in 0..MaxOutages
    BY <2>1 DEF ChatInit
  <2> QED
    BY <2>2, <2>3, <2>4 DEF ChatTypeOK
<1>2. AwaitedOpen /\ NewUnseen /\ PolledPushed
  BY DEF ChatInit, AwaitedOpen, NewUnseen, PolledPushed
<1> QED
  BY <1>1, <1>2 DEF ChatInv

LEMMA FramedType ==
    ASSUME ChatTypeOK, NEW m \in Messages, NEW s \in Finals \cup {"progress"}
    PROVE  Framed(<<m, s>>) \subseteq Messages \X (Finals \cup {"progress"})
  BY DEF ChatTypeOK, Framed

LEMMA ResolveKeeps ==
    ASSUME ChatInv, NEW m \in Messages, NEW s \in Finals, Resolve(m, s)
    PROVE  /\ bubble' \in [Messages -> {"none", "submitting", "queued", "processing"} \cup Finals]
           /\ loading' \in BOOLEAN
           /\ awaited' \subseteq awaited
           /\ \A n \in awaited' : bubble'[n] \in {"queued", "processing"}
           /\ \A n \in Messages : post[n] = "new" => bubble'[n] = "none"
           /\ \A n \in Messages : bubble[n] \in Finals => bubble'[n] = bubble[n]
<1> USE DEF ChatInv, ChatTypeOK, AwaitedOpen, NewUnseen, PolledPushed
<1>1. CASE m \notin awaited
  BY <1>1 DEF Resolve
<1>2. CASE m \in awaited
  <2>1. /\ bubble' = [bubble EXCEPT ![m] = s]
        /\ awaited' = awaited \ {m}
        /\ loading' = (awaited \ {m} # {} /\ loading)
    BY <1>2 DEF Resolve
  <2>2. bubble[m] \notin Finals \cup {"none"}
    BY <1>2 DEF Finals
  <2>3. loading' \in BOOLEAN
    BY <2>1
  <2> QED
    BY <2>1, <2>2, <2>3
<1> QED
  BY <1>1, <1>2

\* What every step does to a reply that is on show: nothing.
Shown == \A m \in Messages : bubble[m] \in Finals => bubble'[m] = bubble[m]

LEMMA GatewayNext ==
    ASSUME ChatInv, NEW m \in Messages,
           \/ Push(m) \/ RegisterOwner(m) \/ ReportProgress(m) \/ TimeOut(m)
           \/ \E s \in Finals : Finish(m, s)
    PROVE  ChatInv' /\ Shown
<1> USE ChatAssumption DEF ChatInv, ChatTypeOK, AwaitedOpen, NewUnseen, PolledPushed, Shown,
                           pageVars
<1>1. CASE Push(m)
  BY <1>1 DEF Push, Statuses
<1>2. CASE RegisterOwner(m)
  BY <1>2 DEF RegisterOwner
<1>3. CASE ReportProgress(m)
  BY <1>3, FramedType DEF ReportProgress
<1>4. CASE TimeOut(m)
  BY <1>4, FramedType DEF TimeOut, Statuses
<1>5. ASSUME NEW s \in Finals, Finish(m, s)
      PROVE  ChatInv' /\ Shown
  <2>1. frames' \subseteq Messages \X (Finals \cup {"progress"})
    BY <1>5, FramedType DEF Finish
  <2>2. result' \in [Messages -> Statuses \cup {"none"}]
    BY <1>5 DEF Finish, Statuses, Finals
  <2>3. PolledPushed'
    BY <1>5 DEF Finish, Finals
  <2> QED
    BY <1>5, <2>1, <2>2, <2>3 DEF Finish
<1> QED
  BY <1>1, <1>2, <1>3, <1>4, <1>5

LEMMA OutageNext ==
    ASSUME ChatInv, (\E restart \in BOOLEAN : Outage(restart)) \/ Reconnect
    PROVE  ChatInv' /\ Shown
<1> USE ChatAssumption
    DEF ChatInv, ChatTypeOK, AwaitedOpen, NewUnseen, PolledPushed, Shown, pageVars
<1>1. ASSUME NEW restart \in BOOLEAN, Outage(restart)
      PROVE  ChatInv' /\ Shown
  <2>1. ownerOf' \subseteq Messages /\ outages' \in 0..MaxOutages
    BY <1>1 DEF Outage
  <2> QED
    BY <1>1, <2>1 DEF Outage
<1>2. CASE Reconnect
  BY <1>2 DEF Reconnect
<1> QED
  BY <1>1, <1>2

LEMMA PageNext ==
    ASSUME ChatInv, NEW m \in Messages,
           SendChat(m) \/ PostAnswered(m) \/ PostFails(m) \/ Poll(m)
    PROVE  ChatInv' /\ Shown
<1> USE ChatAssumption DEF ChatInv, ChatTypeOK, AwaitedOpen, NewUnseen, PolledPushed, Shown
<1>1. CASE SendChat(m)
  BY <1>1 DEF SendChat, Finals
<1>2. CASE PostAnswered(m)
  BY <1>2 DEF PostAnswered, Finals
<1>3. CASE PostFails(m)
  BY <1>3 DEF PostFails, Finals
<1>4. CASE Poll(m) /\ m \notin awaited
  BY <1>4 DEF Poll
<1>5. CASE Poll(m) /\ m \in awaited /\ GivesUp(m)
  <2>1. Resolve(m, "failed") /\ "failed" \in Finals
    BY <1>5 DEF Poll, Finals
  <2> QED
    BY <1>5, <2>1, ResolveKeeps DEF Poll
<1>6. CASE Poll(m) /\ m \in awaited /\ ~GivesUp(m)
  <2>1. UNCHANGED <<bubble, awaited, loading, ticking, post, frames, online, ownerOf, result,
                    outages>>
    BY <1>6 DEF Poll
  <2>2. polls' = [polls EXCEPT ![m] = IF @ < Retries THEN @ + 1 ELSE @]
    BY <1>6 DEF Poll
  <2>3. (IF polls[m] < Retries THEN polls[m] + 1 ELSE polls[m]) \in 0..Retries
    OBVIOUS
  <2>4. polls' \in [Messages -> 0..Retries]
    BY <2>2, <2>3
  <2>5. \/ answers' = [answers EXCEPT ![m] = @ \cup {result[m]}]
        \/ UNCHANGED answers
    BY <1>6 DEF Poll
  <2>6. result[m] \in Statuses \/ result[m] = "none"
    OBVIOUS
  <2>7. result[m] # "none"
    BY <1>6 DEF Poll
  <2> QED
    BY <2>1, <2>4, <2>5, <2>6, <2>7
<1> QED
  BY <1>1, <1>2, <1>3, <1>4, <1>5, <1>6

LEMMA AnswerNext ==
    ASSUME ChatInv, NEW m \in Messages,
           \/ \E s \in Statuses : PollAnswered(m, s)
           \/ \E f \in frames : ReceiveFrame(f)
    PROVE  ChatInv' /\ Shown
<1> USE DEF ChatInv, ChatTypeOK, AwaitedOpen, NewUnseen, PolledPushed, Shown
<1>1. ASSUME NEW s \in Statuses, PollAnswered(m, s)
      PROVE  ChatInv' /\ Shown
  <2>1. answers' \in [Messages -> SUBSET Statuses]
    BY <1>1 DEF PollAnswered
  <2>2. CASE s \in Finals
    <3>1. Resolve(m, s)
      BY <1>1, <2>2 DEF PollAnswered
    <3> QED
      BY <1>1, <2>1, <2>2, <3>1, ResolveKeeps DEF PollAnswered
  <2>3. CASE s \notin Finals
    BY <1>1, <2>1, <2>3 DEF PollAnswered
  <2> QED
    BY <2>2, <2>3
<1>2. ASSUME NEW f \in frames, ReceiveFrame(f)
      PROVE  ChatInv' /\ Shown
  <2>1. f[1] \in Messages /\ f[2] \in Finals \cup {"progress"}
    OBVIOUS
  <2>2. CASE f[2] = "progress"
    BY <1>2, <2>1, <2>2 DEF ReceiveFrame, Finals
  <2>3. CASE f[2] # "progress"
    <3>1. Resolve(f[1], f[2]) /\ f[2] \in Finals
      BY <1>2, <2>1, <2>3 DEF ReceiveFrame
    <3> QED
      BY <1>2, <2>1, <3>1, ResolveKeeps DEF ReceiveFrame
  <2> QED
    BY <2>2, <2>3
<1> QED
  BY <1>1, <1>2

LEMMA ChatInvNext == ChatInv /\ [ChatNext]_chatVars => ChatInv' /\ (ChatNext => Shown)
<1> SUFFICES ASSUME ChatInv, [ChatNext]_chatVars
             PROVE  ChatInv' /\ (ChatNext => Shown)
  OBVIOUS
<1>1. CASE UNCHANGED chatVars
  BY <1>1 DEF chatVars, pageVars, ChatInv, ChatTypeOK, AwaitedOpen, NewUnseen, PolledPushed,
              Shown
<1>2. CASE ChatNext
  <2>1. ASSUME NEW m \in Messages, SendChat(m) \/ PostAnswered(m) \/ PostFails(m) \/ Poll(m)
        PROVE  ChatInv' /\ Shown
    BY <2>1, PageNext
  <2>2. ASSUME NEW m \in Messages,
               \/ Push(m) \/ RegisterOwner(m) \/ ReportProgress(m) \/ TimeOut(m)
               \/ \E s \in Finals : Finish(m, s)
        PROVE  ChatInv' /\ Shown
    BY <2>2, GatewayNext
  <2>3. ASSUME NEW m \in Messages, NEW s \in Statuses, PollAnswered(m, s)
        PROVE  ChatInv' /\ Shown
    BY <2>3, AnswerNext
  <2>4. ASSUME NEW f \in frames, ReceiveFrame(f)
        PROVE  ChatInv' /\ Shown
    <3>1. f[1] \in Messages
      BY DEF ChatInv, ChatTypeOK
    <3> QED
      BY <2>4, <3>1, AnswerNext
  <2>5. CASE (\E restart \in BOOLEAN : Outage(restart)) \/ Reconnect
    BY <2>5, OutageNext
  <2> QED
    BY <1>2, <2>1, <2>2, <2>3, <2>4, <2>5 DEF ChatNext
<1> QED
  BY <1>1, <1>2

\* The state of the chat has its types.
THEOREM ChatTypeCorrect == ChatSpec => []ChatTypeOK
<1>1. ChatInit => ChatInv
  BY ChatInvInit
<1>2. ChatInv /\ [ChatNext]_chatVars => ChatInv'
  BY ChatInvNext
<1>3. ChatInv => ChatTypeOK
  BY DEF ChatInv
<1> QED
  BY <1>1, <1>2, <1>3, PTL DEF ChatSpec

\* No late frame, late answer to a poll, or giving up replaces a reply on show, for any
\* number of messages, polls and outages.
THEOREM ReplyStaysFinal == ChatSpec => ReplyFinal
<1>1. ChatInit => ChatInv
  BY ChatInvInit
<1>2. ChatInv /\ [ChatNext]_chatVars => ChatInv'
  BY ChatInvNext
<1>3. ChatInv /\ [ChatNext]_chatVars =>
      [\A m \in Messages : bubble[m] \in Finals => bubble'[m] = bubble[m]]_chatVars
  BY ChatInvNext DEF Shown
<1> QED
  BY <1>1, <1>2, <1>3, PTL DEF ChatSpec, ReplyFinal

-----------------------------------------------------------------------------
(* The supervisor.  A process that runs is the one in procs, or the one    *)
(* that was just opened, or was left behind.  One is opened only when the  *)
(* one in procs has ended: the loop saw it end, or procs was empty.  When  *)
(* the supervisor stops, those that still run are in its loop.             *)

Known ==
    \A p \in Pids \ left, c \in Components :
        processes[p] = c => p = children[c] \/ (p = popened /\ c = current)

OpenedAlone ==
    popened # NoPid =>
        /\ mode \in {"starting", "waiting"}
        /\ current \in Components \ remaining
        /\ \A p \in Pids \ left : processes[p] = current => p = popened

WaitsForEnded ==
    mode = "waiting" /\ popened = NoPid =>
        current \in Components /\ ~Alive(children[current])

FirstStart == mode = "starting" => \A c \in remaining : children[c] = NoPid

StopsAll ==
    mode = "stopping" =>
        \A c \in Components :
            children[c] \in Pids \ left /\ processes[children[c]] # NoComponent => c \in remaining

OffLeaves == mode = "off" => \A p \in Pids \ left : processes[p] = NoComponent

SupervisorRest ==
    /\ Known /\ OpenedAlone /\ WaitsForEnded /\ FirstStart /\ StopsAll /\ OffLeaves

SupervisorInv == SupervisorTypeOK /\ SupervisorRest

LEMMA SupervisorInvInit == SupervisorInit => SupervisorInv
  BY SupervisorAssumption
  DEF SupervisorInit, SupervisorInv, SupervisorRest, SupervisorTypeOK, Known, OpenedAlone,
      WaitsForEnded, FirstStart, StopsAll, OffLeaves, Living, Alive, Pids, NoPid

LEMMA SupervisorTypeNext ==
    ASSUME SupervisorInv, [SupervisorNext]_supervisorVars
    PROVE  SupervisorTypeOK'
<1> USE SupervisorAssumption DEF SupervisorTypeOK, Pids, NoPid
<1>0. SupervisorTypeOK /\ OpenedAlone /\ WaitsForEnded
  BY DEF SupervisorInv, SupervisorRest
<1>1. CASE StartAll
  BY <1>0, <1>1 DEF StartAll
<1>2. ASSUME NEW c \in Components, Popen(c)
      PROVE  SupervisorTypeOK'
  <2>1. lastPid' \in 1..MaxPid
    BY <1>0, <1>2 DEF Popen
  <2>2. processes' \in [1..MaxPid -> Components \cup {NoComponent}]
    BY <1>0, <1>2, <2>1 DEF Popen
  <2> QED
    BY <1>0, <1>2, <2>1, <2>2 DEF Popen
<1>3. CASE Record
  BY <1>0, <1>3 DEF Record
<1>4. CASE NextRound \/ ShutDown
  BY <1>0, <1>4 DEF NextRound, ShutDown
<1>5. ASSUME NEW c \in Components, PollRunning(c) \/ PollEnded(c)
      PROVE  SupervisorTypeOK'
  BY <1>0, <1>5 DEF PollRunning, PollEnded
<1>6. ASSUME NEW c \in Components, Terminate(c)
      PROVE  SupervisorTypeOK'
  BY <1>0, <1>6 DEF Terminate, Terminated
<1>7. ASSUME NEW p \in Pids, ProcessEnds(p)
      PROVE  SupervisorTypeOK'
  BY <1>0, <1>7 DEF ProcessEnds
<1>8. CASE Signal
  <2>1. signals' \in 0..MaxSignals /\ remaining' \subseteq Components /\ left' \subseteq Pids
    BY <1>0, <1>8 DEF Signal
  <2> QED
    BY <1>0, <1>8, <2>1 DEF Signal
<1>9. CASE Abandon
  <2>1. left' \subseteq Pids
    <3>1. Living \subseteq Pids
      BY DEF Living
    <3> QED
      BY <1>0, <1>9, <3>1 DEF Abandon
  <2>2. signals' \in 0..MaxSignals /\ lastPid' \in 0..MaxPid
    BY <1>0, <1>9 DEF Abandon
  <2> QED
    BY <1>0, <1>9, <2>1, <2>2 DEF Abandon
<1>10. CASE CmdStop
  BY <1>0, <1>10 DEF CmdStop
<1>11. CASE UNCHANGED supervisorVars
  BY <1>0, <1>11 DEF supervisorVars
<1> QED
  BY <1>1, <1>2, <1>3, <1>4, <1>5, <1>6, <1>7, <1>8, <1>9, <1>10, <1>11
  DEF SupervisorNext, SupervisorStep

LEMMA SupervisorRestNext ==
    ASSUME SupervisorInv, [SupervisorNext]_supervisorVars
    PROVE  SupervisorRest'
<1> USE DEF SupervisorRest, Known, OpenedAlone, WaitsForEnded, FirstStart, StopsAll, OffLeaves,
            Alive, NoPid
<1>0. /\ SupervisorTypeOK /\ SupervisorRest /\ SupervisorTypeOK'
      /\ NoComponent \notin Components /\ 0 \notin Pids
  BY SupervisorTypeNext, SupervisorAssumption DEF SupervisorInv, Pids
<1>00. /\ processes \in [Pids -> Components \cup {NoComponent}]
       /\ children \in [Components -> Pids \cup {0}] /\ children' \in [Components -> Pids \cup {0}]
       /\ popened \in Pids \cup {0} /\ remaining \subseteq Components
  BY <1>0 DEF SupervisorTypeOK
<1>1. CASE StartAll
  BY <1>0, <1>00, <1>1 DEF StartAll
<1>2. ASSUME NEW c \in Components, Popen(c)
      PROVE  SupervisorRest'
  <2>0. lastPid' \in Pids
    BY <1>0, <1>2, SupervisorAssumption DEF Popen, SupervisorTypeOK, Pids
  <2>1. /\ popened = 0
        /\ processes' = [processes EXCEPT ![lastPid'] = c]
        /\ popened' = lastPid' /\ current' = c /\ remaining' = remaining \ {c}
        /\ mode \in {"starting", "waiting"}
        /\ UNCHANGED <<mode, children, left>>
    BY <1>0, <1>00, <1>2 DEF Popen
  <2>2. ~Alive(children[c])
    BY <1>0, <1>00, <1>2 DEF Popen
  <2>3. \A p \in Pids : p # lastPid' => processes'[p] = processes[p]
    BY <1>0, <1>00, <2>1
  <2>4. processes'[lastPid'] = c
    BY <1>0, <1>00, <2>0, <2>1
  <2>5. Known'
    BY <1>0, <1>00, <2>0, <2>1, <2>3, <2>4
  <2>6. OpenedAlone'
    BY <1>0, <1>00, <2>0, <2>1, <2>2, <2>3, <2>4
  <2> QED
    BY <1>0, <1>00, <2>0, <2>1, <2>5, <2>6
<1>3. CASE Record
  <2>1. /\ popened # 0 /\ current \in Components \ remaining
        /\ children' = [children EXCEPT ![current] = popened]
        /\ popened' = 0
        /\ mode' \in {"watching"} \cup ({mode} \cap {"starting"})
        /\ UNCHANGED <<remaining, processes, left>>
    BY <1>0, <1>00, <1>3 DEF Record
  <2>2. Known'
    BY <1>0, <1>00, <2>1
  <2> QED
    BY <1>0, <1>00, <2>1, <2>2
<1>4. CASE NextRound \/ ShutDown
  BY <1>0, <1>00, <1>4 DEF NextRound, ShutDown
<1>5. ASSUME NEW c \in Components, PollRunning(c) \/ PollEnded(c)
      PROVE  SupervisorRest'
  BY <1>0, <1>00, <1>5 DEF PollRunning, PollEnded, HasEnded
<1>6. ASSUME NEW c \in Components, Terminate(c)
      PROVE  SupervisorRest'
  <2>1. /\ mode = "stopping" /\ popened = 0
        /\ remaining' = remaining \ {c}
        /\ UNCHANGED <<mode, current, popened, children, left>>
    BY <1>0, <1>00, <1>6 DEF Terminate
  <2>2. /\ \A p \in Pids : processes'[p] \in {processes[p], NoComponent}
        /\ children[c] # 0 => processes'[children[c]] = NoComponent
    BY <1>0, <1>00, <1>6 DEF Terminate, Terminated
  <2>3. ASSUME NEW d \in Components, children[d] \in Pids \ left,
               processes'[children[d]] # NoComponent
        PROVE  d \in remaining \ {c}
    <3>1. d \in remaining
      BY <1>0, <2>1, <2>2, <2>3
    <3>2. d # c
      BY <1>0, <2>2, <2>3
    <3> QED
      BY <3>1, <3>2
  <2>4. Known'
    BY <1>0, <1>00, <2>1, <2>2
  <2>5. StopsAll'
    BY <2>1, <2>3
  <2> QED
    BY <1>0, <1>00, <2>1, <2>4, <2>5
<1>7. ASSUME NEW p \in Pids, ProcessEnds(p)
      PROVE  SupervisorRest'
  <2>1. \A q \in Pids : processes'[q] \in {processes[q], NoComponent}
    BY <1>0, <1>00, <1>7 DEF ProcessEnds
  <2>2. UNCHANGED <<mode, current, remaining, popened, children, left>>
    BY <1>7 DEF ProcessEnds
  <2> QED
    BY <1>0, <1>00, <2>1, <2>2
<1>8. CASE Signal
  BY <1>0, <1>00, <1>8 DEF Signal
<1>9. CASE Abandon
  BY <1>0, <1>00, <1>9 DEF Abandon, Living
<1>10. CASE CmdStop
  <2>1. \A q \in Pids : processes'[q] \in {processes[q], NoComponent}
    BY <1>0, <1>00, <1>10 DEF CmdStop
  <2>2. UNCHANGED <<mode, current, remaining, popened, children, left>>
    BY <1>10 DEF CmdStop
  <2> QED
    BY <1>0, <1>00, <2>1, <2>2
<1>11. CASE UNCHANGED supervisorVars
  BY <1>0, <1>00, <1>11 DEF supervisorVars
<1> QED
  BY <1>1, <1>2, <1>3, <1>4, <1>5, <1>6, <1>7, <1>8, <1>9, <1>10, <1>11
  DEF SupervisorNext, SupervisorStep

LEMMA SupervisorInvNext == SupervisorInv /\ [SupervisorNext]_supervisorVars => SupervisorInv'
  BY SupervisorTypeNext, SupervisorRestNext DEF SupervisorInv

-----------------------------------------------------------------------------

\* The state of the supervisor has its types.
THEOREM SupervisorTypeCorrect == SupervisorSpec => []SupervisorTypeOK
<1>1. SupervisorInit => SupervisorInv
  BY SupervisorInvInit
<1>2. SupervisorInv /\ [SupervisorNext]_supervisorVars => SupervisorInv'
  BY SupervisorInvNext
<1>3. SupervisorInv => SupervisorTypeOK
  BY DEF SupervisorInv
<1> QED
  BY <1>1, <1>2, <1>3, PTL DEF SupervisorSpec

LEMMA OneInProcs == SupervisorInv => OneOfEach
<1> SUFFICES ASSUME SupervisorInv
             PROVE  OneOfEach
  OBVIOUS
<1>1. ASSUME NEW c \in Components
      PROVE  Cardinality(Of(c)) <= 1
  <2>1. PICK q : Of(c) \subseteq {q}
    BY DEF SupervisorInv, SupervisorRest, Known, OpenedAlone, Of, Pids, NoPid
  <2>2. CASE Of(c) = {}
    <3>1. Cardinality({}) = 0
      BY FS_EmptySet
    <3> QED
      BY <2>2, <3>1
  <2>3. CASE Of(c) = {q}
    <3>1. Cardinality({q}) = 1
      BY FS_Singleton
    <3> QED
      BY <2>3, <3>1
  <2> QED
    BY <2>1, <2>2, <2>3
<1>2. mode = "off" => Living \subseteq left
  BY DEF SupervisorInv, SupervisorRest, OffLeaves, Living, Alive
<1> QED
  BY <1>1, <1>2 DEF OneOfEach

\* A component has one process, and none when the supervisor has ended, apart from those
\* that were left behind, for any number of components, processes and signals.
THEOREM SupervisorKeepsOne == SupervisorSpec => []OneOfEach
<1>1. SupervisorInit => SupervisorInv
  BY SupervisorInvInit
<1>2. SupervisorInv /\ [SupervisorNext]_supervisorVars => SupervisorInv'
  BY SupervisorInvNext
<1>3. SupervisorInv => OneOfEach
  BY OneInProcs
<1> QED
  BY <1>1, <1>2, <1>3, PTL DEF SupervisorSpec

-----------------------------------------------------------------------------
(* The combined run.  Whatever part runs, the others stutter, so every     *)
(* behaviour of the run is one of each module's specification.             *)

EveryVar == <<part, vars, registryVars, coevoVars, libVars, supervisorVars, chatVars>>

LEMMA ProgressPartsStep ==
    ASSUME [ProgressNext]_EveryVar
    PROVE  /\ [Next]_vars /\ [RegistryNext]_registryVars /\ [CoevoNext]_coevoVars
           /\ [LibNext]_libVars /\ [SupervisorNext]_supervisorVars /\ [ChatNext]_chatVars
<1>1. CASE ProgressNext
  <2>1. ASSUME NEW p, Rest(p)
        PROVE  /\ p # "sockets" => UNCHANGED vars
               /\ p # "registry" => UNCHANGED registryVars
               /\ p # "sync" => UNCHANGED coevoVars
               /\ p # "librarian" => UNCHANGED libVars
               /\ p # "supervisor" => UNCHANGED supervisorVars
               /\ p # "chat" => UNCHANGED chatVars
    BY <2>1, Zenon DEF Rest
  <2> QED
    BY <1>1, <2>1, Zenon DEF ProgressNext
<1>2. CASE UNCHANGED EveryVar
  BY <1>2, Zenon DEF EveryVar
<1> QED
  BY <1>1, <1>2, Zenon

\* The combined run does what each of the modules allows, and nothing else.
THEOREM ProgressImplements ==
    ProgressSpec => /\ Spec /\ RegistrySpec /\ CoevoSpec
                    /\ LibSpec /\ SupervisorSpec /\ ChatSpec
<1>1. ProgressInit => Init /\ RegistryInit /\ CoevoInit /\ LibInit /\ SupervisorInit /\ ChatInit
  BY Zenon DEF ProgressInit
<1>2. ProgressSpec => ProgressInit /\ [][ProgressNext]_EveryVar
  BY PTL DEF ProgressSpec, EveryVar
<1> QED
  BY <1>1, <1>2, ProgressPartsStep, PTL
  DEF Spec, RegistrySpec, CoevoSpec, LibSpec, SupervisorSpec, ChatSpec

\* The variables of every part keep their types.
THEOREM ProgressTypeCorrect == ProgressSpec => []ProgressTypesOK
<1>1. /\ TypeOK /\ RegistryTypeOK /\ CoevoTypeOK /\ LibTypeOK /\ SupervisorTypeOK /\ ChatTypeOK
      => ProgressTypesOK
  BY Zenon DEF ProgressTypesOK
<1> QED
  BY <1>1, ProgressImplements, WsTypeCorrect, RegistryTypeCorrect, CoevoTypeCorrect,
     LibTypeCorrect, SupervisorTypeCorrect, ChatTypeCorrect, PTL

=============================================================================
