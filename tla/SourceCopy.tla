----------------------------- MODULE SourceCopy -----------------------------
(***************************************************************************)
(* What the synchronisation of a source promises to those who read the     *)
(* graph: a copy of its rows that lags behind and never goes back, and a   *)
(* mark, such that what is not newer than the mark is in the copy.         *)
(***************************************************************************)
EXTENDS Naturals

CONSTANTS
    Rows,
    Times,  \* the seconds in which rows change
    NoMark  \* no mark

VARIABLES
    version,  \* the last change of each row, 0 before it exists
    worded,   \* it has text
    copy,     \* the version of each row in the copy, 0 for none
    mark,     \* changes up to here are not looked for again
    forgiven  \* changes up to here need not arrive

vars == <<version, worded, copy, mark, forgiven>>

Init ==
    /\ version = [r \in Rows |-> 0]
    /\ worded = [r \in Rows |-> FALSE]
    /\ copy = [r \in Rows |-> 0]
    /\ mark = NoMark
    /\ forgiven = 0

Due(r) == worded[r] /\ forgiven < version[r]

Covered(t) == \A r \in Rows : Due(r) /\ version[r] <= t => copy[r] = version[r]

\* A row changes, at a time that no mark has passed.
Change(r) ==
    /\ \E t \in Times, w \in BOOLEAN :
          /\ version[r] < t /\ (mark # NoMark => mark < t)
          /\ version' = [version EXCEPT ![r] = t]
          /\ worded' = [worded EXCEPT ![r] = w]
    /\ UNCHANGED <<copy, mark, forgiven>>

\* The copy gets a newer version, though maybe not the last one.
Show(r) ==
    /\ \E t \in Times :
          /\ copy[r] < t /\ t <= version[r]
          /\ copy' = [copy EXCEPT ![r] = t]
    /\ UNCHANGED <<version, worded, mark, forgiven>>

Move ==
    /\ \E t \in Times : Covered(t) /\ mark' = t
    /\ UNCHANGED <<version, worded, copy, forgiven>>

Forget == mark' = NoMark /\ UNCHANGED <<version, worded, copy, forgiven>>

Forgive ==
    /\ \E t \in Times : forgiven < t /\ forgiven' = t
    /\ UNCHANGED <<version, worded, copy, mark>>

Next == (\E r \in Rows : Change(r) \/ Show(r)) \/ Move \/ Forget \/ Forgive

Spec == Init /\ [][Next]_vars

\* Every change arrives, unless the row changes again for ever.
FairSpec ==
    Spec /\ \A r \in Rows : WF_vars(Due(r) /\ Show(r) /\ copy'[r] = version[r])

=============================================================================
