----------------------------- MODULE TaskResult -----------------------------
(***************************************************************************)
(* What the life of a chat task promises to a client that polls            *)
(* GET /api/chat/result: the status of its row in claw_task_log.           *)
(***************************************************************************)
CONSTANT Tasks

VARIABLES
    status,   \* what a poll of each task finds
    repeated  \* tasks that may be executed twice

vars == <<status, repeated>>

Terminal == {"completed", "failed", "timeout"}

Init == status = [t \in Tasks |-> "none"] /\ repeated = {}

Record(t) ==
    /\ status[t] = "none"
    /\ status' = [status EXCEPT ![t] = "queued"]
    /\ UNCHANGED repeated

Conclude(t) ==
    /\ status[t] \in {"none", "queued"}
    /\ \E r \in Terminal : status' = [status EXCEPT ![t] = r]
    /\ UNCHANGED repeated

\* A result may replace a timeout; a stored result is final unless the task is
\* executed again.
Replace(t) ==
    /\ status[t] \in Terminal
    /\ status[t] # "completed" \/ t \in repeated
    /\ \E r \in Terminal : status' = [status EXCEPT ![t] = r]
    /\ UNCHANGED repeated

Repeat(t) ==
    /\ repeated' = repeated \cup {t}
    /\ UNCHANGED status

Next == \E t \in Tasks : Record(t) \/ Conclude(t) \/ Replace(t) \/ Repeat(t)

Spec == Init /\ [][Next]_vars

\* Whoever was told "queued" is told an end.
FairSpec == Spec /\ \A t \in Tasks : WF_vars(status[t] = "queued" /\ Conclude(t))

=============================================================================
