------------------------------- MODULE Mailbox -------------------------------
(***************************************************************************)
(* What the gateway promises to those who listen at a connection: a letter *)
(* is handed to a working connection at most once, while it is on its way, *)
(* and if it is addressed to a person only where that person has come in.  *)
(***************************************************************************)
EXTENDS Naturals

CONSTANTS
    Letters,
    Readers,     \* connections, each used once
    Persons,
    Addressees,  \* persons, and what stands for everybody
    Nobody       \* no addressee yet

VARIABLES
    seen,        \* readers that have come
    working,     \* those whose connection works
    shared,      \* those under an identity that others may have too
    guests,      \* the persons each reader has come in as
    stage,       \* of each letter
    addressed,   \* to whom it is
    handed       \* which letter on its way was handed to whom

vars == <<seen, working, shared, guests, stage, addressed, handed>>

Init ==
    /\ seen = {} /\ working = {} /\ shared = {} /\ handed = {}
    /\ guests = [r \in Readers |-> {}]
    /\ stage = [l \in Letters |-> "idle"]
    /\ addressed = [l \in Letters |-> Nobody]

Come(r) ==
    /\ r \notin seen
    /\ seen' = seen \cup {r} /\ working' = working \cup {r}
    /\ shared' \in {shared, shared \cup {r}}
    /\ \E who \in SUBSET Persons : guests' = [guests EXCEPT ![r] = who]
    /\ UNCHANGED <<stage, addressed, handed>>

Present(r) ==
    /\ r \in seen
    /\ \E who \in Persons : guests' = [guests EXCEPT ![r] = @ \cup {who}]
    /\ UNCHANGED <<seen, working, shared, stage, addressed, handed>>

Leave(r) ==
    /\ working' = working \ {r}
    /\ UNCHANGED <<seen, shared, guests, stage, addressed, handed>>

Send(l) ==
    /\ stage[l] = "idle"
    /\ stage' = [stage EXCEPT ![l] = "sending"]
    /\ \E a \in Addressees : addressed' = [addressed EXCEPT ![l] = a]
    /\ UNCHANGED <<seen, working, shared, guests, handed>>

Hand(l, r) ==
    /\ stage[l] = "sending"
    /\ r \in working /\ <<l, r>> \notin handed
    /\ addressed[l] \in Persons => addressed[l] \in guests[r] \/ r \in shared
    /\ handed' = handed \cup {<<l, r>>}
    /\ UNCHANGED <<seen, working, shared, guests, stage, addressed>>

Close(l) ==
    /\ stage[l] = "sending"
    /\ stage' = [stage EXCEPT ![l] = "done"]
    /\ handed' = {h \in handed : h[1] # l}
    /\ UNCHANGED <<seen, working, shared, guests, addressed>>

\* All connections and letters on their way are lost.
Crash ==
    /\ working' = {} /\ handed' = {}
    /\ stage' = [l \in Letters |-> IF stage[l] = "sending" THEN "done" ELSE stage[l]]
    /\ UNCHANGED <<seen, shared, guests, addressed>>

Next ==
    \/ \E r \in Readers : Come(r) \/ Present(r) \/ Leave(r)
    \/ \E l \in Letters : Send(l) \/ Close(l) \/ \E r \in Readers : Hand(l, r)
    \/ Crash

Spec == Init /\ [][Next]_vars

=============================================================================
