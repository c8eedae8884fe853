SPECIFICATION MCSpec
CONSTANTS
    Runs = {r1, r2}
    Tests = {1, 2}
    Cucumber = {2}
    Folders = {home, f1}
    Home = home
    MaxVersion = 2
    MaxIssues = 4
    MaxKeys = 3
    Turns = {r1, r2}
    Requests = {q1, q2}
    Arguments = {x, y}
    Allowlists = {{"create"}, {"confirm", "generate"}}
    CandidateIds = {c1, c2}
    Texts = {1, 2}
    Types = {manual, cucumber}
    Evidence = {e1}
    MaxSaves = 3
    Asks = {1, 2, 3, 4}
    ClassOf <- MCClassOf
    SliceOf <- MCSliceOf
    RequiredClasses = {"cross", "conflict"}
    RequiredSlice = "delivery"
    Metrics = {"faithful", "cited"}
    Scores = {8, 16}
    Best = 20
    Floor = 12
    HalfPasses = 1
    Drop = 1
    Means = {12, 17}
    Lost = lost
    Chunks <- MCChunks
    Suites <- MCSuites
    Required = {"cross_source", "conflicting", "pack_off"}
    ToolsWired = TRUE
    MaxHits = 2
SYMMETRY Symmetry
INVARIANTS
    EveryKeyAccounted
    NothingCreatedTwice
    ExportsAsConfirmed
    ExportsWereAskedFor
    JudgedOnEvidence
PROPERTY DoneAsAgreed
CHECK_DEADLOCK FALSE
