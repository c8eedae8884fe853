SPECIFICATION MCSpec
CONSTANTS
    a = a
    b = b
    c = c
    p1 = p1
    p2 = p2
    u1 = u1
    u2 = u2
    f = f
    g = g
    Sources = {s1, s2}
    MaxChunks = 2
    Texts = {x}
    Keys = {k}
    Readers = {r1}
    Overlap = FALSE
    MaxWrites = 3
    MaxFailures = 2
    Threads = {t1, t2, t3}
    Paths = {a, b, c}
    MaxLocks = 2
    Projects = {p1, p2}
    Scopes = {u1, u2}
    Forming = {u1}
    MaxDepth = 1
    MaxVersion = 2
    MaxComponents = 2
    MaxRetired = 1
    IssueKeys = {1, 2, 3, 4, 5}
    ProjectOf <- MCProjectOf
    Servers = {"cloud", "data_center", "github"}
    MaxIssues = 4
    PageSize = 2
    MaxChanges = 2
    Mixed = FALSE
    Files = {f, g}
    Folders = {a, b, c}
    Inside <- MCInside
    MaxMoves = 1
    Corpus = {1, 2, 3}
    Cosines <- MCCosines
    Matches <- MCMatches
    Absent = 9
    Limits = {1, 2}
    Thresholds <- MCThresholds
    MaxSearches = 1
    Lines <- LinesOfText
    MaxLines = 4
    Cuts <- CutsOfText
INVARIANTS
    WholeOrNothing
    CacheCurrent
    OneThreadPerPath
    OperatorsAgree
    EvidenceKept
    PassedOnWhole
CHECK_DEADLOCK FALSE
