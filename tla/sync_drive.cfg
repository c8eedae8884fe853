SPECIFICATION RepeatedSpec
CONSTANTS
    d1 = d1
    d2 = d2
    r1 = r1
    r2 = r2
    s1 = s1
    s2 = s2
    txt = txt
    md = md
    Docs = {d1}
    Roots = {r1, r2}
    RootOf <- SameRoot
    FileRoots <- NoRoots
    Runs = {s1}
    Kind = "drive"
    Formats = {txt, md}
    Changes = {"edit", "touch", "retype", "remove", "add"}
    MaxEdits = 2
    MaxSelections = 2
    MaxFaults = 2
    Legacy = {d1}
    Overlap = FALSE
INVARIANTS
    ReadyIsCurrent
    ProfileHonest
    NothingHidden
PROPERTIES
    Converges
CHECK_DEADLOCK FALSE
