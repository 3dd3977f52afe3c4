---------------------------- MODULE AgentAnswers ----------------------------
(***************************************************************************)
(* How the gateway answers an OpenClaw agent that asks about members of    *)
(* the team by name: the name is looked up, an unknown or unclear one is   *)
(* answered with candidates of whom the user confirms one, and a known one *)
(* is answered from what the databases have or by a model, in limited      *)
(* time.  Names are sequences of characters, because the lookup compares   *)
(* parts of them; what is said about a member is left out.                 *)
(***************************************************************************)
EXTENDS Naturals, Sequences, FiniteSets, Functions

CONSTANTS
    MemberNames,  \* names that members may have
    OtherNames,   \* names that agents ask for besides
    DisplayNames, \* the display name of each member in a project
    FewHits,      \* LIMIT 3 of the lookup
    MaxSuggested, \* at most this many candidates
    MaxMembers    \* bound on the members

ASSUME NamesAssumption ==
    /\ \A n \in MemberNames \cup OtherNames : n \in Seq(Range(n)) /\ n # <<>>
    /\ DisplayNames \in [MemberNames -> MemberNames \cup OtherNames]
    /\ FewHits \in Nat \ {0} /\ MaxSuggested \in Nat \ {0} /\ MaxMembers \in Nat

VARIABLES
    members,  \* the names of the users table, by id
    active,   \* those whose is_active is 1
    question, \* what the agent asked, or NoQuestion
    working,  \* whom the action has found and works on, <<>> before the lookup
    lastAnswer \* or NoAnswer

answerVars == <<members, active, question, working, lastAnswer>>

AboutOne == {"person_context", "compute_student_risk", "generate_growth_narrative",
             "find_best_collaborators"}
Actions == AboutOne \cup {"compute_collaboration_score", "search_member"}
Asked == MemberNames \cup OtherNames
Questions == [action : Actions, asked : Seq(Asked), confirmed : BOOLEAN, known : BOOLEAN]
NoQuestion == [action |-> "none"]
Answers == [question : Questions, status : {200, 404, 408},
            about : Seq(MemberNames), candidates : SUBSET MemberNames]
NoAnswer == [status |-> 0]

AnswersTypeOK ==
    /\ members \in Seq(MemberNames) /\ IsInjective(members) /\ Len(members) <= MaxMembers
    /\ active \subseteq Range(members)
    /\ question # NoQuestion => question \in Questions
    /\ working \in Seq(MemberNames)
    /\ lastAnswer # NoAnswer =>
          lastAnswer \in Answers /\ Cardinality(lastAnswer.candidates) <= MaxSuggested

AnswersInit ==
    /\ members = <<>> /\ active = {}
    /\ question = NoQuestion /\ working = <<>> /\ lastAnswer = NoAnswer

-----------------------------------------------------------------------------
(* The CoEvo platform, the agent and its user *)

\* The users table is the platform's.  It does not declare names unique; two members of
\* one name, between whom no name could tell, are left out.
Join(n) ==
    /\ Len(members) < MaxMembers /\ n \notin Range(members)
    /\ members' = Append(members, n)
    /\ active' = active \cup {n}
    /\ UNCHANGED <<question, working, lastAnswer>>

Deactivate(n) ==
    /\ active = Range(members) /\ n \in active
    /\ active' = active \ {n}
    /\ UNCHANGED <<members, question, working, lastAnswer>>

AskAbout(action, asked, confirmed) ==
    /\ question = NoQuestion
    /\ question' = [action |-> action, asked |-> asked, confirmed |-> confirmed, known |-> FALSE]
    /\ lastAnswer' = NoAnswer
    /\ UNCHANGED <<members, active, working>>

AskFirst ==
    \/ \E action \in AboutOne \cup {"search_member"}, n \in Asked : AskAbout(action, <<n>>, FALSE)
    \/ \E a, b \in Asked : AskAbout("compute_collaboration_score", <<a, b>>, FALSE)

\* "Let the user confirm the right name and try again."
AskAgain ==
    /\ lastAnswer # NoAnswer
    /\ \E action \in AboutOne, n \in lastAnswer.candidates :
          /\ action = lastAnswer.question.action \/ "search_member" = lastAnswer.question.action
          /\ AskAbout(action, <<n>>, TRUE)

-----------------------------------------------------------------------------
(* Looking a name up *)

Id(n) == CHOOSE i \in DOMAIN members : members[i] = n

\* ORDER BY id LIMIT limit
FirstById(set, limit) == {n \in set : Cardinality({m \in set : Id(m) < Id(n)}) < limit}
Earliest(set) == CHOOSE n \in set : \A m \in set : Id(n) <= Id(m)

\* LIKE '%part%'
Like(n, part) == \E i \in 0..(Len(n) - Len(part)) : SubSeq(n, i + 1, i + Len(part)) = part
Hits(part) == {n \in active : Like(n, part)}

TwoCharacters(name) == IF Len(name) >= 2 THEN Hits(SubSeq(name, 1, 2)) ELSE {}

\* The patterns that suggest_users tries one after the other: the first two characters,
\* the first in front, each of them anywhere
Tried(name) ==
    <<TwoCharacters(name), {n \in active : Head(n) = Head(name)}>>
        \o [i \in DOMAIN name |-> Hits(<<name[i]>>)]

\* suggest_users: those an earlier pattern fits, then those with lower ids
Suggestions(name, limit) ==
    LET found == UNION Range(Tried(name))
        Fits(n) == {i \in DOMAIN Tried(name) : n \in Tried(name)[i]}
        Pattern(n) == CHOOSE i \in Fits(n) : \A j \in Fits(n) : i <= j
        Before(m, n) == \/ Pattern(m) < Pattern(n)
                        \/ Pattern(m) = Pattern(n) /\ Id(m) < Id(n)
    IN  {n \in found : Cardinality({m \in found : Before(m, n)}) < limit}

ExactlyForgotten(name, hits) == Earliest(hits) \* mutant: the first who has the name in his
Exactly(name, hits) == IF name \in hits THEN name ELSE Earliest(hits)

\* resolve_user: whom it may choose, nobody if the set is empty
ResolvedAs(name) ==
    LET hits == FirstById(Hits(name), FewHits)
        near == TwoCharacters(name)
    IN  IF hits # {} THEN {Exactly(name, hits)}
        ELSE IF near # {} THEN {Earliest(near)}
        ELSE {n \in active : Like(DisplayNames[n], name)} \* LIMIT 1, in no order

-----------------------------------------------------------------------------
(* Answers *)

\* The routes turn "[NOT_FOUND]" and "[TIMEOUT]" into an error, the one of the risk
\* scores does not.
Status(status) == IF question.action = "compute_student_risk" THEN 200 ELSE status

AnswerWith(status, about, candidates) ==
    /\ lastAnswer' =
          [question |-> [question EXCEPT !.known = Range(question.asked) \subseteq active],
           status |-> status, about |-> about, candidates |-> candidates]
    /\ question' = NoQuestion
    /\ working' = <<>>
    /\ UNCHANGED <<members, active>>

AnswerNotFound(candidates) == AnswerWith(Status(404), <<>>, candidates)

\* GET /search-member: those who have the name in theirs, or else candidates
SearchMember ==
    /\ question # NoQuestion /\ question.action = "search_member"
    /\ LET name == question.asked[1]
       IN  AnswerWith(200, <<>>, IF Hits(name) # {} THEN FirstById(Hits(name), MaxSuggested)
                                 ELSE Suggestions(name, MaxSuggested))

Wanted == question # NoQuestion /\ question.action # "search_member" /\ working = <<>>

\* Nobody found: candidates for the first such name.
NobodyFound ==
    /\ Wanted
    /\ \E i \in DOMAIN question.asked :
          /\ ResolvedAs(question.asked[i]) = {}
          /\ \A j \in 1..(i - 1) : ResolvedAs(question.asked[j]) # {}
          /\ AnswerNotFound(Suggestions(question.asked[i], MaxSuggested))

\* The best collaborators are looked for only if the name is exact; otherwise the
\* one that was found is among the candidates.
MustConfirm ==
    /\ Wanted /\ question.action = "find_best_collaborators"
    /\ LET name == question.asked[1]
           suggested == Suggestions(name, MaxSuggested)
       IN  \E n \in ResolvedAs(name) \ {name} :
              AnswerNotFound(IF n \in suggested THEN suggested
                             ELSE {n} \cup Suggestions(name, MaxSuggested - 1))

\* The others go on with whoever was found, and say so.
LookUpMembers ==
    /\ Wanted
    /\ working' \in {s \in [DOMAIN question.asked -> active] :
                        \A i \in DOMAIN s : s[i] \in ResolvedAs(question.asked[i])}
    /\ question.action = "find_best_collaborators" => working' = question.asked
    /\ question' = [question EXCEPT !.known = Range(question.asked) \subseteq active]
    /\ UNCHANGED <<members, active, lastAnswer>>

Works(action) == question # NoQuestion /\ question.action = action /\ working # <<>>

AnswerAbout(status, about) ==
    /\ lastAnswer' = [question |-> question, status |-> status, about |-> about, candidates |-> {}]
    /\ question' = NoQuestion
    /\ working' = <<>>
    /\ UNCHANGED <<members, active>>

\* Text about the members, or "[ERROR]", which is text like any other
Say == AnswerAbout(200, working) \/ AnswerAbout(200, <<>>)

PersonContext == Works("person_context") /\ Say
StudentRisk == Works("compute_student_risk") /\ Say
GrowthNarrative == Works("generate_growth_narrative") /\ Say
CollaborationScore == Works("compute_collaboration_score") /\ Say

\* Recommendations that the CoEvo database has
CollaboratorsOnRecord == Works("find_best_collaborators") /\ Say

\* Otherwise a model ranks the other members, in at most 45 seconds.
CollaboratorsRanked == Works("find_best_collaborators") /\ (Say \/ AnswerAbout(408, <<>>))

\* The databases fail: "[ERROR]"
LookUpFails == question # NoQuestion /\ working = <<>> /\ AnswerAbout(200, <<>>)

\* _invoke gives up: [TIMEOUT]
TimesOut ==
    /\ question # NoQuestion /\ question.action # "search_member"
    /\ AnswerAbout(Status(408), <<>>)

AnswersNext ==
    \/ \E n \in MemberNames : Join(n) \/ Deactivate(n)
    \/ AskFirst \/ AskAgain
    \/ SearchMember \/ NobodyFound \/ MustConfirm \/ LookUpMembers \/ LookUpFails
    \/ PersonContext \/ StudentRisk \/ GrowthNarrative \/ CollaborationScore
    \/ CollaboratorsOnRecord \/ CollaboratorsRanked
    \/ TimesOut

AnswersSpec == AnswersInit /\ [][AnswersNext]_answerVars

-----------------------------------------------------------------------------

\* Who confirms a candidate and asks again is answered about exactly that member, if
\* it is one still: not with candidates again, and not about somebody whose name
\* contains the one confirmed (analysis.py:333 asks to confirm the right name and to
\* try again, query.py:38 says that resolve_user has selected the best).
ConfirmedIsAnswered ==
    lastAnswer # NoAnswer /\ lastAnswer.question.confirmed /\ lastAnswer.question.known =>
        lastAnswer.status # 404 /\ lastAnswer.about \in {<<>>, lastAnswer.question.asked}

=============================================================================
