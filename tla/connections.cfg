SPECIFICATION HubSpec
CONSTANTS
    s1 = s1
    s2 = s2
    k1 = k1
    k2 = k2
    p1 = p1
    p2 = p2
    r1 = r1
    r2 = r2
    b1 = b1
    a1 = a1
    a2 = a2
    f1 = f1
    f2 = f2
    d1 = d1
    d2 = d2
    None = None
    Requests = {p1, p2}
    Sites = {s1, s2}
    Has <- MCHas
    MaxPairs = 3
    MaxStates = 2
    MaxTroubles = 1
    MaxRequests = 4
    Repos = {r1, r2}
    Boards = {b1}
    Preset <- MCPreset
    PresetId = None
    GitHubRequests = 4
    DcKeys = {k1, k2}
    DcRequests = 5
    Accounts = {a1, a2}
    Files = {f1, f2}
    Folders = {d1, d2}
    Inside <- MCInside
    Readable <- MCReadable
    MaxTokens = 2
    DriveRequests = 5
SYMMETRY Symmetry
INVARIANTS
    NoReplay
    ScopeOfAccount
    RowsAccounted
PROPERTIES
    LiveGrantKept
CHECK_DEADLOCK FALSE
