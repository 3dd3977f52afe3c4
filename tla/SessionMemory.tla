---------------------------- MODULE SessionMemory ----------------------------
(***************************************************************************)
(* The working memory of one chat session: a row of claw_memory_sessions,  *)
(* a copy in Redis, and in each request of /api/knowledge/memory another   *)
(* copy, which the request reads, changes and writes back as a whole, to   *)
(* MySQL and then to Redis.  Facts beyond the limit go to a node of the    *)
(* knowledge graph, whose title is that of the session.  Active entities,  *)
(* notes and turns, which no request changes, are left out.                *)
(***************************************************************************)
EXTENDS Naturals, Sequences

CONSTANTS
    Facts,
    Requests,
    FactsMax,  \* _WORKING_FACTS_MAX
    MaxBegun,  \* bound on the requests
    NoSession  \* no row, or no key in Redis

ASSUME FactsMaxAssumption == FactsMax \in Nat \ {0} /\ MaxBegun \in Nat

Copies == [working : Seq(Facts), pinned : SUBSET Facts]
Empty == [working |-> <<>>, pinned |-> {}]

ASSUME NoSessionAssumption == NoSession \notin Copies

Kinds ==
    {[kind |-> "get"]}
    \cup [kind : {"add"}, fact : Facts, pin : BOOLEAN]
    \cup [kind : {"clear"}, keep : BOOLEAN]

VARIABLES
    row,       \* claw_memory_sessions
    cached,    \* the copy in Redis
    progress,  \* where each request is
    request,   \* what it was asked
    copy,      \* its copy of the session
    archive,   \* the node in the knowledge graph: the facts of its content
    pins,      \* history: what was pinned, in the order of the writes to MySQL
    disturbed, \* history: requests overlapped, or one ended between MySQL and Redis
    begun

requestVars == <<progress, request, copy>>
memoryVars == <<row, cached, requestVars, archive, pins, disturbed, begun>>

MemoryTypeOK ==
    /\ row \in Copies \cup {NoSession}
    /\ cached \in Copies \cup {NoSession}
    /\ progress \in [Requests ->
          {"idle", "cache", "load", "fill", "compress", "save", "refresh"}]
    /\ request \in [Requests -> Kinds]
    /\ copy \in [Requests -> Copies]
    /\ archive \subseteq Facts
    /\ pins \subseteq Facts
    /\ disturbed \in BOOLEAN
    /\ begun \in 0..MaxBegun

MemoryInit ==
    /\ row = NoSession
    /\ cached = NoSession
    /\ progress = [r \in Requests |-> "idle"]
    /\ request = [r \in Requests |-> [kind |-> "get"]]
    /\ copy = [r \in Requests |-> Empty]
    /\ archive = {}
    /\ pins = {}
    /\ disturbed = FALSE
    /\ begun = 0

-----------------------------------------------------------------------------

Members(facts) == {facts[n] : n \in DOMAIN facts}

\* working_facts[-_WORKING_FACTS_MAX:] and working_facts[:-_WORKING_FACTS_MAX]
Latest(facts) ==
    IF Len(facts) > FactsMax
    THEN SubSeq(facts, Len(facts) - FactsMax + 1, Len(facts)) ELSE facts
Overflow(facts) == SubSeq(facts, 1, Len(facts) - FactsMax)

Added(s, q) ==
    [working |-> IF q.fact \in Members(s.working) THEN s.working ELSE Append(s.working, q.fact),
     pinned |-> IF q.pin THEN s.pinned \cup {q.fact} ELSE s.pinned]

Cleared(s, q) == [working |-> <<>>, pinned |-> IF q.keep THEN s.pinned ELSE {}]

\* The synchronous part of add_fact and clear_working_memory
Applied(s, q) == IF q.kind = "add" THEN Added(s, q) ELSE Cleared(s, q)

BeginRequest(r, q) ==
    /\ progress[r] = "idle"
    /\ begun < MaxBegun /\ begun' = begun + 1
    /\ progress' = [progress EXCEPT ![r] = "cache"]
    /\ request' = [request EXCEPT ![r] = q]
    /\ disturbed' = (disturbed \/ \E o \in Requests \ {r} :
          progress[o] # "idle" /\ (q.kind # "get" \/ request[o].kind # "get"))
    /\ UNCHANGED <<row, cached, copy, archive, pins>>

EndRequest(r) ==
    /\ progress' = [progress EXCEPT ![r] = "idle"]
    /\ request' = [request EXCEPT ![r] = [kind |-> "get"]]
    /\ copy' = [copy EXCEPT ![r] = Empty]

\* get_session returns s.
Got(r, s) ==
    IF request[r].kind = "get" THEN EndRequest(r)
    ELSE /\ copy' = [copy EXCEPT ![r] = Applied(s, request[r])]
         /\ progress' = [progress EXCEPT ![r] =
               IF Len(copy'[r].working) > FactsMax THEN "compress" ELSE "save"]
         /\ UNCHANGED request

CacheHit(r) ==
    /\ progress[r] = "cache" /\ cached # NoSession
    /\ Got(r, cached)
    /\ UNCHANGED <<row, cached, archive, pins, disturbed, begun>>

\* Also when Redis fails.
CacheMiss(r) ==
    /\ progress[r] = "cache"
    /\ progress' = [progress EXCEPT ![r] = "load"]
    /\ UNCHANGED <<row, cached, request, copy, archive, pins, disturbed, begun>>

LoadRow(r) ==
    /\ progress[r] = "load"
    /\ progress' = [progress EXCEPT ![r] = "fill"]
    /\ copy' = [copy EXCEPT ![r] = IF row = NoSession THEN Empty ELSE row]
    /\ UNCHANGED <<row, cached, request, archive, pins, disturbed, begun>>

\* The copy goes to Redis, or Redis fails.
FillCache(r) ==
    /\ progress[r] = "fill"
    /\ cached' \in {cached, copy[r]}
    /\ Got(r, copy[r])
    /\ UNCHANGED <<row, archive, pins, disturbed, begun>>

\* _compress_overflow: the node has one title per session, and its content is replaced.
Compress(r) ==
    /\ progress[r] = "compress"
    /\ progress' = [progress EXCEPT ![r] = "save"]
    /\ archive' = Members(Overflow(copy[r].working))
    /\ copy' = [copy EXCEPT ![r].working = Latest(@)]
    /\ UNCHANGED <<row, cached, request, pins, disturbed, begun>>

\* Only logged; save_session will cut the facts off.
CompressFails(r) ==
    /\ progress[r] = "compress"
    /\ progress' = [progress EXCEPT ![r] = "save"]
    /\ UNCHANGED <<row, cached, request, copy, archive, pins, disturbed, begun>>

PinnedBy(q) ==
    IF q.kind = "add" THEN IF q.pin THEN pins \cup {q.fact} ELSE pins
    ELSE IF q.keep THEN pins ELSE {}

\* save_session, MySQL
SaveRow(r) ==
    /\ progress[r] = "save"
    /\ progress' = [progress EXCEPT ![r] = "refresh"]
    /\ copy' = [copy EXCEPT ![r].working = Latest(@)]
    /\ row' = copy'[r]
    /\ pins' = PinnedBy(request[r])
    /\ UNCHANGED <<cached, request, archive, disturbed, begun>>

NotRefreshed(r) == cached \* mutant: save_session leaves Redis alone
Refreshed(r) == copy[r]

\* save_session, Redis
RefreshCache(r) ==
    /\ progress[r] = "refresh"
    /\ cached' = Refreshed(r)
    /\ EndRequest(r)
    /\ UNCHANGED <<row, archive, pins, disturbed, begun>>

\* MySQL or the last write to Redis fails, or the gateway ends.
RequestStops(r) ==
    /\ progress[r] # "idle"
    /\ EndRequest(r)
    /\ disturbed' = (disturbed \/ (progress[r] = "refresh" /\ cached # NoSession))
    /\ UNCHANGED <<row, cached, archive, pins, begun>>

\* An hour without a write.
Expire ==
    /\ cached # NoSession
    /\ cached' = NoSession
    /\ UNCHANGED <<row, requestVars, archive, pins, disturbed, begun>>

MemoryNext ==
    \/ \E r \in Requests :
          \/ \E q \in Kinds : BeginRequest(r, q)
          \/ CacheHit(r) \/ CacheMiss(r) \/ LoadRow(r) \/ FillCache(r)
          \/ Compress(r) \/ CompressFails(r) \/ SaveRow(r) \/ RefreshCache(r)
          \/ RequestStops(r)
    \/ Expire

MemorySpec == MemoryInit /\ [][MemoryNext]_memoryVars

-----------------------------------------------------------------------------
(* Properties *)

\* What was pinned stays pinned until a request clears it, and what was cleared does not
\* come back (memory.py:140, "kept for good, across sessions"), whatever expires or fails
\* before the row is written: as long as the requests of a session do not overlap and none
\* ends between MySQL and a Redis that holds an older copy.
PinnedKept ==
    ~disturbed => (IF row = NoSession THEN {} ELSE row.pinned) = pins

=============================================================================
