SPECIFICATION RepeatedSpec
CONSTANTS
    d1 = d1
    d2 = d2
    r1 = r1
    r2 = r2
    s1 = s1
    s2 = s2
    txt = txt
    md = md
    Docs = {d1, d2}
    Roots = {r1, r2}
    RootOf <- SameRoot
    FileRoots <- NoRoots
    Runs = {s1}
    Kind = "github"
    Formats = {txt}
    Changes = {"edit", "revert", "remove"}
    MaxEdits = 2
    MaxSelections = 1
    MaxFaults = 1
    Legacy <- Nobody
    Overlap = FALSE
INVARIANTS
    ReadyIsCurrent
PROPERTIES
    FailuresKeepRows
CHECK_DEADLOCK FALSE
