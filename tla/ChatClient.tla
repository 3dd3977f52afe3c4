------------------------------ MODULE ChatClient ------------------------------
(***************************************************************************)
(* The chat of the web page: a message is posted, and its reply comes over *)
(* the WebSocket or from polling the result, whichever is first.           *)
(*                                                                         *)
(* The page opens its WebSocket without a user id and never registers one, *)
(* so what the gateway addresses to the user "web:pi" finds no connection; *)
(* a result reaches the page this way only while the gateway knows no      *)
(* owner of the task.  Progress is broadcast.                              *)
(***************************************************************************)
EXTENDS Naturals, FiniteSets

CONSTANTS
    Messages,     \* messages the user sends
    Retries,      \* polls after which the page gives up, 60 in app.js
    MaxOutages    \* bound on restarts of the gateway and lost connections

ASSUME ChatAssumption == Retries \in Nat /\ MaxOutages \in Nat

VARIABLES
    bubble,   \* the status shown for each reply
    awaited,  \* _pendingTasks
    loading,  \* chatLoading
    post,     \* POST /chat: how far each is
    polls,    \* count of polls; the timer runs while it is in 0..Retries
    ticking,  \* the polling timers that run
    answers,  \* answers to polls on their way
    frames,   \* WebSocket frames on their way
    online,   \* whether the WebSocket is open
    ownerOf,  \* tasks whose owner the gateway knows
    result,   \* the status of the task's row
    outages

pageVars == <<bubble, awaited, loading, polls, ticking>>
chatVars == <<pageVars, post, answers, frames, online, ownerOf, result, outages>>

Finals == {"completed", "failed"}
Statuses == {"queued", "completed", "failed", "timeout"}

ChatTypeOK ==
    /\ bubble \in [Messages -> {"none", "submitting", "queued", "processing"} \cup Finals]
    /\ awaited \subseteq Messages /\ ticking \subseteq Messages /\ ownerOf \subseteq Messages
    /\ loading \in BOOLEAN /\ online \in BOOLEAN
    /\ post \in [Messages -> {"new", "sent", "pushed", "registered", "answered"}]
    /\ polls \in [Messages -> 0..Retries]
    /\ answers \in [Messages -> SUBSET Statuses]
    /\ frames \subseteq Messages \X (Finals \cup {"progress"})
    /\ result \in [Messages -> Statuses \cup {"none"}]
    /\ outages \in 0..MaxOutages

ChatInit ==
    /\ bubble = [m \in Messages |-> "none"]
    /\ awaited = {} /\ ticking = {} /\ ownerOf = {} /\ frames = {}
    /\ loading = FALSE /\ online = TRUE
    /\ post = [m \in Messages |-> "new"]
    /\ polls = [m \in Messages |-> 0]
    /\ answers = [m \in Messages |-> {}]
    /\ result = [m \in Messages |-> "none"]
    /\ outages = 0

-----------------------------------------------------------------------------
(* The gateway and the worker, as far as the page can tell. *)

\* broadcast: a frame for every open connection.
Framed(f) == IF online THEN frames \cup {f} ELSE frames

\* submit_chat pushes the task, then registers its owner.
Push(m) ==
    /\ post[m] = "sent"
    /\ post' = [post EXCEPT ![m] = "pushed"]
    /\ result' = [result EXCEPT ![m] = "queued"]
    /\ UNCHANGED <<pageVars, answers, frames, online, ownerOf, outages>>

RegisterOwner(m) ==
    /\ post[m] = "pushed"
    /\ post' = [post EXCEPT ![m] = "registered"]
    /\ ownerOf' = ownerOf \cup {m}
    /\ UNCHANGED <<pageVars, answers, frames, online, result, outages>>

ReportProgress(m) ==
    /\ result[m] = "queued"
    /\ frames' = Framed(<<m, "progress">>)
    /\ UNCHANGED <<pageVars, post, answers, online, ownerOf, result, outages>>

\* The result is stored, then the callback pushes it to the owner.
Finish(m, s) ==
    /\ result[m] \in {"queued", "timeout"}
    /\ result' = [result EXCEPT ![m] = s]
    /\ frames' = IF m \in ownerOf THEN frames ELSE Framed(<<m, s>>)
    /\ ownerOf' = ownerOf \ {m}
    /\ UNCHANGED <<pageVars, post, answers, online, outages>>

\* The watchdog: a frame of type task_timeout, which the page does not know,
\* addressed to the user, and a progress event.
TimeOut(m) ==
    /\ result[m] = "queued"
    /\ result' = [result EXCEPT ![m] = "timeout"]
    /\ frames' = Framed(<<m, "progress">>)
    /\ UNCHANGED <<pageVars, post, answers, online, ownerOf, outages>>

\* A restart forgets the owners; either way the frames on their way are lost.
Outage(restart) ==
    /\ outages < MaxOutages
    /\ outages' = outages + 1
    /\ online' = FALSE
    /\ frames' = {}
    /\ ownerOf' = IF restart THEN {} ELSE ownerOf
    /\ UNCHANGED <<pageVars, post, answers, result>>

Reconnect ==
    /\ ~online
    /\ online' = TRUE
    /\ UNCHANGED <<pageVars, post, answers, frames, ownerOf, result, outages>>

-----------------------------------------------------------------------------
(* _resolveTask: only a message that is still awaited is resolved. *)

ResolveAny(m, s) == \* mutant: whether it is still awaited is not asked
    /\ bubble' = [bubble EXCEPT ![m] = s]
    /\ awaited' = awaited \ {m}
    /\ loading' = (awaited \ {m} # {} /\ loading)
Resolve(m, s) ==
    IF m \notin awaited
    THEN UNCHANGED <<bubble, awaited, loading>>
    ELSE /\ bubble' = [bubble EXCEPT ![m] = s]
         /\ awaited' = awaited \ {m}
         /\ loading' = (awaited \ {m} # {} /\ loading)

SendChat(m) ==
    /\ post[m] = "new"
    /\ post' = [post EXCEPT ![m] = "sent"]
    /\ bubble' = [bubble EXCEPT ![m] = "submitting"]
    /\ loading' = TRUE
    /\ UNCHANGED <<awaited, polls, ticking, answers, frames, online, ownerOf, result, outages>>

\* The status is set without asking whether the reply was there before.
PostAnswered(m) ==
    /\ post[m] = "registered" /\ bubble[m] = "submitting"
    /\ post' = [post EXCEPT ![m] = "answered"]
    /\ bubble' = [bubble EXCEPT ![m] = "queued"]
    /\ awaited' = awaited \cup {m}
    /\ ticking' = ticking \cup {m}
    /\ UNCHANGED <<loading, polls, answers, frames, online, ownerOf, result, outages>>

\* The request or its answer is lost; the task may be on its way all the same.
PostFails(m) ==
    /\ bubble[m] = "submitting"
    /\ bubble' = [bubble EXCEPT ![m] = "failed"]
    /\ loading' = FALSE
    /\ UNCHANGED <<post, awaited, polls, ticking, answers, frames, online, ownerOf, result,
                   outages>>

\* A frame of a task that is not awaited changes nothing.
ReceiveFrame(f) ==
    /\ online /\ f \in frames
    /\ frames' = frames \ {f}
    /\ IF f[2] = "progress"
       THEN /\ bubble' = IF f[1] \in awaited
                         THEN [bubble EXCEPT ![f[1]] = "processing"] ELSE bubble
            /\ UNCHANGED <<awaited, loading>>
       ELSE Resolve(f[1], f[2])
    /\ UNCHANGED <<polls, ticking, post, answers, online, ownerOf, result, outages>>

GivesUpNever(m) == FALSE \* mutant: the polls are not counted
GivesUp(m) == polls[m] = Retries

\* The timer, every 2 s: it stops when the reply is there, gives up, or asks
\* once more without waiting for the answer before.
Poll(m) ==
    /\ m \in ticking
    /\ IF m \notin awaited
       THEN /\ ticking' = ticking \ {m}
            /\ UNCHANGED <<bubble, awaited, loading, polls, answers>>
       ELSE IF GivesUp(m)
       THEN /\ ticking' = ticking \ {m}
            /\ Resolve(m, "failed")
            /\ UNCHANGED <<polls, answers>>
       ELSE /\ polls' = [polls EXCEPT ![m] = IF @ < Retries THEN @ + 1 ELSE @]
            /\ \/ answers' = [answers EXCEPT ![m] = @ \cup {result[m]}]
               \/ UNCHANGED answers \* the request fails
            /\ UNCHANGED <<bubble, awaited, loading, ticking>>
    /\ UNCHANGED <<post, frames, online, ownerOf, result, outages>>

\* "timeout" is not an answer the page takes.
PollAnswered(m, s) ==
    /\ s \in answers[m]
    /\ answers' = [answers EXCEPT ![m] = @ \ {s}]
    /\ IF s \in Finals
       THEN ticking' = ticking \ {m} /\ Resolve(m, s)
       ELSE UNCHANGED <<ticking, bubble, awaited, loading>>
    /\ UNCHANGED <<polls, post, frames, online, ownerOf, result, outages>>

ChatNext ==
    \/ \E m \in Messages :
        \/ SendChat(m) \/ Push(m) \/ RegisterOwner(m) \/ PostAnswered(m) \/ PostFails(m)
        \/ ReportProgress(m) \/ TimeOut(m) \/ Poll(m)
        \/ \E s \in Finals : Finish(m, s)
        \/ \E s \in Statuses : PollAnswered(m, s)
    \/ \E f \in frames : ReceiveFrame(f)
    \/ \E restart \in BOOLEAN : Outage(restart)
    \/ Reconnect

\* The browser runs its timers and settles every request.
ChatProgress(m) ==
    Push(m) \/ RegisterOwner(m) \/ PostAnswered(m) \/ PostFails(m)

ChatSpec == ChatInit /\ [][ChatNext]_chatVars
ChatFairSpec ==
    ChatSpec /\ \A m \in Messages : WF_chatVars(ChatProgress(m)) /\ WF_chatVars(Poll(m))

-----------------------------------------------------------------------------
(* Properties. *)

\* A reply that is shown is never replaced, by no late frame, late answer to a
\* poll, or giving up.
ReplyFinal ==
    [][\A m \in Messages : bubble[m] \in Finals => bubble'[m] = bubble[m]]_chatVars

\* Every message gets a reply, also when the frames are lost and the task never
\* ends.
ReplyShown ==
    \A m \in Messages : bubble[m] = "submitting" ~> bubble[m] \in Finals
=============================================================================
