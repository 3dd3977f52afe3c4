------------------------------ MODULE TeamSnapshot ------------------------------
(***************************************************************************)
(* get_team_snapshot: a text about the team is built from the CoEvo        *)
(* database and kept in Redis.  A worker puts it into a prompt and takes   *)
(* the text Redis has; the agent's get_team_overview has a new one built.  *)
(* Requests overlap, so that a text may replace one with later data.       *)
(***************************************************************************)
EXTENDS Naturals

CONSTANTS
    Asking, \* requests that may overlap
    TTL,    \* _CACHE_TTL
    Limit,  \* a request is cancelled when it takes longer
    MaxNow  \* bound on the clock

ASSUME SnapshotAssumption == TTL \in Nat \ {0} /\ Limit \in Nat /\ MaxNow \in Nat

VARIABLES
    now,
    kept,     \* the key in Redis: the time of its data, and when it expires
    underway, \* where each request is
    asked,    \* when it came
    forced,   \* force_refresh
    data,     \* when it read the database
    served    \* history: the last text that was returned

snapshotVars == <<now, kept, underway, asked, forced, data, served>>

Times == 0..MaxNow

SnapshotTypeOK ==
    /\ now \in Times
    /\ kept \in [data : Times, until : 0..MaxNow + TTL]
    /\ underway \in [Asking -> {"idle", "lookup", "build", "store"}]
    /\ asked \in [Asking -> Times] /\ data \in [Asking -> Times]
    /\ forced \in [Asking -> BOOLEAN]
    /\ served \in [age : Times, current : BOOLEAN, forced : BOOLEAN]

SnapshotInit ==
    /\ now = 0
    /\ kept = [data |-> 0, until |-> 0]
    /\ underway = [a \in Asking |-> "idle"]
    /\ asked = [a \in Asking |-> 0] /\ data = [a \in Asking |-> 0]
    /\ forced = [a \in Asking |-> FALSE]
    /\ served = [age |-> 0, current |-> TRUE, forced |-> FALSE]

-----------------------------------------------------------------------------

Reaches(a, next) == underway' = [underway EXCEPT ![a] = next]
Ends(a) ==
    /\ Reaches(a, "idle")
    /\ asked' = [asked EXCEPT ![a] = 0] /\ data' = [data EXCEPT ![a] = 0]
    /\ forced' = [forced EXCEPT ![a] = FALSE]
Answered(a, d) ==
    /\ served' = [age |-> now - d, current |-> asked[a] <= d, forced |-> forced[a]]
    /\ Ends(a)

\* No request outlives its limit.
Tick ==
    /\ now < MaxNow
    /\ \A a \in Asking : underway[a] # "idle" => now - asked[a] < Limit
    /\ now' = now + 1
    /\ UNCHANGED <<kept, underway, asked, forced, data, served>>

Ask(a, refresh) ==
    /\ underway[a] = "idle"
    /\ Reaches(a, IF refresh THEN "build" ELSE "lookup")
    /\ asked' = [asked EXCEPT ![a] = now]
    /\ forced' = [forced EXCEPT ![a] = refresh]
    /\ UNCHANGED <<now, kept, data, served>>

Hit(a) ==
    /\ underway[a] = "lookup" /\ now < kept.until
    /\ Answered(a, kept.data)
    /\ UNCHANGED <<now, kept>>

\* The key has expired, or Redis does not answer.
Miss(a) ==
    /\ underway[a] = "lookup"
    /\ Reaches(a, "build")
    /\ UNCHANGED <<now, kept, asked, forced, data, served>>

\* _build_snapshot is one transaction: all of it is read as of its first SELECT.
Build(a) ==
    /\ underway[a] = "build"
    /\ Reaches(a, "store")
    /\ data' = [data EXCEPT ![a] = now]
    /\ UNCHANGED <<now, kept, asked, forced, served>>

StoredForEver(a) == [data |-> data[a], until |-> MaxNow + TTL] \* mutant: SET without EX
Stored(a) == [data |-> data[a], until |-> now + TTL]

\* SET key text EX ttl; the text is returned whether or not Redis takes it.
Store(a) ==
    /\ underway[a] = "store"
    /\ kept' \in {kept, Stored(a)}
    /\ Answered(a, data[a])
    /\ UNCHANGED now

\* The database fails, which is answered with a text that is not cached, or the request is
\* cancelled.
Abandon(a) ==
    /\ underway[a] # "idle"
    /\ Ends(a)
    /\ UNCHANGED <<now, kept, served>>

SnapshotNext ==
    \/ Tick
    \/ \E a \in Asking :
          \/ \E refresh \in BOOLEAN : Ask(a, refresh)
          \/ Hit(a) \/ Miss(a) \/ Build(a) \/ Store(a) \/ Abandon(a)

SnapshotSpec == SnapshotInit /\ [][SnapshotNext]_snapshotVars

-----------------------------------------------------------------------------
(* Properties *)

\* The data of a text that is served are never older than the time Redis keeps it and the
\* time one request may take together (team_context.py:7), whichever request wrote it last;
\* a request that asks for a refresh never gets data from before it came.
SnapshotFresh ==
    /\ served.age <= TTL + Limit
    /\ served.forced => served.current

=============================================================================
