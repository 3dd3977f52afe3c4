------------------------------- MODULE Execution -------------------------------
(***************************************************************************)
(* What a worker does with one task between taking its slot and giving it  *)
(* back (_run_task_inner): the skill is loaded, the team's snapshot and    *)
(* what the knowledge base finds are put into the system message, the      *)
(* language model is called, and while it asks for tools they are run and  *)
(* it is called again, MaxToolIterations times at most.  A limit on the    *)
(* time may cancel all this at any await.  The model is stateless: all it  *)
(* knows is the conversation it is sent, and a service of this kind        *)
(* refuses one in which a tool call has no answer.                         *)
(*                                                                         *)
(* One action is the code from one await to the next.  How long texts are, *)
(* what they say, and the log files are left out.                          *)
(***************************************************************************)
EXTENDS Integers, Sequences, SequencesExt

CONSTANTS
    Patterns,           \* keywords of intent_routing in agents.yaml
    Rules,              \* its rules in order: which patterns lead to which skill
    DefaultSkill,       \* and the skill for any other text
    Installed,          \* directories of skills/ with a SKILL.md
    Tools,              \* names of functions the model may ask for
    Declared,           \* of each skill: the functions its scripts define
    Loaded,             \* of each skill: those whose module can be imported
    MaxToolIterations,
    MaxCalls            \* bounds the calls of one reply

ASSUME IterationsAssumption == MaxToolIterations \in Nat /\ MaxCalls \in Nat

VARIABLES
    skill,      \* what the payload names
    phase,      \* the await the coroutine is at
    system,     \* the parts of the system message
    said,       \* the messages after it
    wanted,     \* the calls of the last reply that have not been run
    iteration,
    bar,        \* the percentage published last
    summary,    \* result_summary
    status      \* what _process_task gets

executionVars ==
    <<skill, phase, system, said, wanted, iteration, bar, summary, status>>

conversationVars == <<skill, system, said, wanted, iteration>>

\* The skill that the queue consumer chooses for a text: the first rule that fits.
SkillFor(words) ==
    LET fitting == {i \in DOMAIN Rules : Rules[i].patterns \cap words # {}}
    IN  IF fitting = {} THEN DefaultSkill ELSE Rules[Min(fitting)].skill

\* A skill without scripts offers no tools, and then there are no calls.
Calls == {t \in UNION {[1..n -> Tools] : n \in 0..MaxCalls} :
              Declared[skill] = {} => t = <<>>}

\* The model names its calls.
Named(c) == [j \in DOMAIN c |-> [id |-> <<iteration + 1, j>>, tool |-> c[j]]]

\* An unknown function and one that raises answer with an error.
ResultsOf(tool) == IF tool \in Loaded[skill] THEN {"value", "error"} ELSE {"error"}

ToolMessagesIfFound(call, result) == \* mutant: a failure is skipped
    IF result = "error" THEN <<>>
    ELSE <<[by |-> "tool", call |-> call.id, result |-> result]>>
ToolMessages(call, result) == <<[by |-> "tool", call |-> call.id, result |-> result]>>

ToolBar == IF 30 + 15 * iteration < 80 THEN 30 + 15 * iteration ELSE 80

-----------------------------------------------------------------------------
ExecutionInit ==
    /\ skill \in {SkillFor(words) : words \in SUBSET Patterns}
    /\ phase = "register"
    /\ system = <<>> /\ said = <<>> /\ wanted = <<>>
    /\ iteration = 0
    /\ bar = 0
    /\ summary = "none"
    /\ status = "running"

\* An exception outside the guarded parts ends in "failed".
Fails ==
    /\ \/ phase = "register"                       \* Redis
       \/ phase = "load" /\ skill \notin Installed \* FileNotFoundError
       \/ phase = "asking"                         \* the model's service
    /\ phase' = "failing"
    /\ bar' = 0
    /\ UNCHANGED <<conversationVars, summary, status>>

Registers ==
    /\ phase = "register"
    /\ phase' = "load"
    /\ bar' = 5
    /\ UNCHANGED <<conversationVars, summary, status>>

LoadsSkill ==
    /\ phase = "load"
    /\ skill \in Installed
    /\ phase' = "team"
    /\ system' = <<"prompt">>
    /\ bar' = 15
    /\ UNCHANGED <<skill, said, wanted, iteration, summary, status>>

\* The snapshot may be empty or fail, and is left out then.
AddsTeam ==
    /\ phase = "team"
    /\ \/ system' = Append(system, "team") \* told as 20, and 17 comes after it
       \/ UNCHANGED system
    /\ phase' = "knowledge"
    /\ bar' = 17
    /\ UNCHANGED <<skill, said, wanted, iteration, summary, status>>

\* Without an answer of the retriever the newest team knowledge stands in for it.
AddsKnowledge ==
    /\ phase = "knowledge"
    /\ \/ system' = Append(system, "knowledge")
       \/ system' = Append(system, "insights")
       \/ UNCHANGED system
    /\ said' = <<[by |-> "user"]>>
    /\ phase' = "asking"
    /\ bar' = 25
    /\ UNCHANGED <<skill, wanted, iteration, summary, status>>

\* The model asks for tools and may still have some.
AsksForTools ==
    /\ phase = "asking"
    /\ iteration < MaxToolIterations
    /\ \E c \in Calls \ {<<>>} :
        /\ wanted' = Named(c)
        /\ said' = Append(said, [by |-> "model", calls |-> Named(c)])
    /\ iteration' = iteration + 1
    /\ phase' = "tool"
    /\ bar' = ToolBar'
    /\ UNCHANGED <<skill, system, summary, status>>

RunsTool ==
    /\ phase = "tool"
    /\ \E result \in ResultsOf(Head(wanted).tool) :
        said' = said \o ToolMessages(Head(wanted), result)
    /\ wanted' = Tail(wanted)
    /\ phase' = IF wanted' = <<>> THEN "asking" ELSE "tool"
    /\ UNCHANGED <<skill, system, iteration, bar, summary, status>>

\* The model answers, or asks for more tools than it is given; what it said is the
\* result, also when that is nothing.
Concludes ==
    /\ phase = "asking"
    /\ \/ summary' \in {"text", "empty"}
       \/ iteration = MaxToolIterations /\ Calls # {<<>>} /\ summary' = "unfinished"
    /\ phase' = "synthesizing"
    /\ bar' = 88
    /\ UNCHANGED <<conversationVars, status>>

Finishes ==
    /\ phase = "synthesizing"
    /\ phase' = "finishing"
    /\ bar' = 100
    /\ UNCHANGED <<conversationVars, summary, status>>

HandsOver ==
    /\ \/ phase = "finishing" /\ status' = "completed"
       \/ phase = "failing" /\ status' = "failed"
    /\ phase' = "returned"
    /\ UNCHANGED <<conversationVars, bar, summary>>

\* wait_for cancels the coroutine wherever it waits, and _notify_timeout tells so.
RunsOut ==
    /\ phase # "returned"
    /\ phase' = "returned"
    /\ status' = "timeout"
    /\ summary' = "none"
    /\ bar' = 0
    /\ UNCHANGED conversationVars

ExecutionNext ==
    \/ Fails \/ Registers \/ LoadsSkill \/ AddsTeam \/ AddsKnowledge
    \/ AsksForTools \/ RunsTool \/ Concludes \/ Finishes \/ HandsOver \/ RunsOut

ExecutionSpec == ExecutionInit /\ [][ExecutionNext]_executionVars

-----------------------------------------------------------------------------
(* Properties *)

ExecutionTypeOK ==
    /\ phase \in {"register", "load", "team", "knowledge", "asking", "tool",
                 "synthesizing", "finishing", "failing", "returned"}
    /\ (phase = "tool") = (wanted # <<>> /\ status = "running")
    /\ iteration \in 0..MaxToolIterations
    /\ bar \in 0..100
    /\ summary \in {"none", "text", "empty", "unfinished"}
    /\ status \in {"running", "completed", "failed", "timeout"}
    /\ status = "completed" => summary # "none"

\* Whenever the model is called, every tool call it made so far has one answer, and
\* the answers follow the message with the calls in their order: unknown functions,
\* functions that raise and several calls of one function in one reply included.
\* The service refuses any other conversation, and the whole task would fail.
AnswersTo(c) == {i \in DOMAIN said : said[i].by = "tool" /\ said[i].call = c.id}
CallsAnswered ==
    phase = "asking" =>
        \A i \in DOMAIN said : said[i].by = "model" =>
            \A j \in DOMAIN said[i].calls : AnswersTo(said[i].calls[j]) = {i + j}

=============================================================================
