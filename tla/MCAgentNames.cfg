SPECIFICATION AnswersSpec
CONSTANTS
    w = w
    v = v
    m = m
    d = d
    h = h
    z = z
    MemberNames <- Roster
    OtherNames <- Misspelt
    DisplayNames <- ShownNames
    FewHits = 3
    MaxSuggested = 5
    MaxMembers = 4
INVARIANTS
    ConfirmedIsAnswered
CHECK_DEADLOCK FALSE
