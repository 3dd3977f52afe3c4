SPECIFICATION OperationsSpec
CONSTANTS
    Jobs = {j1, j2}
    Internals = {m}
    Lambdas = {m}
    Crons = {c1, c2}
    BuiltIn = BuiltIn
    Truncated = Truncated
    MaxChanges = 2
    MaxEnds = 1
    Writers = {w1, w2}
    Keys = {k1, k2}
    k1 = k1
    k2 = k2
    Programs <- OneOrTwo
    MaxNode = 3
    NoKey = NoKey
    Facts = {f1, f2}
    Requests = {q1, q2}
    FactsMax = 1
    MaxBegun = 3
    NoSession = NoSession
    Nodes = {n1, n2, n3}
    n1 = n1
    n2 = n2
    n3 = n3
    s1 = s1
    Summaries = {s1}
    Types = {"student", "project"}
    TypeOf <- TypesOf
    SizeOf <- Sizes
    K = 4
    TopNodes = 1
    Depth = 2
    MaxNodes = 2
    MaxChars = 6
    MinSnippet = 1
    Ellipsis = 1
    Computations = {x1, x2}
    Scores = {0, 40, 70}
    MaxRows = 3
    Scans = {x1, x2}
    Subjects = {t1, projects}
    CrossProject = projects
    LastDay = 2
    MaxRowId = 2
    Asking = {x1, x2}
    TTL = 3
    Limit = 2
    MaxNow = 6
    MaxFigure <- UpTo
    Replies <- AnyNumber
    CoevoUsers = {u1, u2}
    SyncRuns = {x1, x2}
    MaxStudents = 4
    r1 = r1
    r2 = r2
    p1 = p1
    g1 = g1
    m1 = m1
    ann = ann
    bob = bob
    cy = cy
    px = px
    x1 = x1
    x2 = x2
    Reports = {r1, r2}
    Plans = {p1}
    Recommendations = {g1}
    Memories = {m1}
    Person <- PersonOf
    Project <- ProjectOf
    Name <- NameOf
    Partners <- PartnersOf
    Relevance <- RelevanceOf
    Listed = {px}
    NoPerson = NoPerson
    BatchLimit = 2
    Lookback = 3
    LastTime = 3
    MaxErrors = 1
    lw = lw
    lv = lv
    lm = lm
    ld = ld
    lz = lz
    MemberNames <- Roster
    OtherNames <- Misspelt
    DisplayNames <- ShownNames
    FewHits = 3
    MaxSuggested = 5
    MaxMembers = 3
    t1 = t1
    t2 = t2
    a1 = a1
    a2 = a2
    Patterns = {a1, a2}
    Rules <- Routing
    DefaultSkill = "pi"
    Installed = {"pi", "talk"}
    Tools = {t1, t2}
    Declared <- DeclaredBy
    Loaded <- LoadedBy
    MaxToolIterations = 2
    MaxCalls = 2
SYMMETRY RunsSymmetry
INVARIANTS
    OperationsTypesOK
    UpdateKept
    OneNodePerKey
    EdgesHaveEnds
    PinnedKept
    NeighborsFound
    RedRaised
    OneInsightADay
    SnapshotFresh
    NewestShown
    RelationsShown
    SilentNeverRed
    OneStudentPerUser
    ConfirmedIsAnswered
    CallsAnswered
CHECK_DEADLOCK FALSE
