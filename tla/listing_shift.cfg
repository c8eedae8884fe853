SPECIFICATION ListSpec
CONSTANTS
    IssueKeys = {1, 2, 3, 4, 5}
    ProjectOf <- MCProjectOf
    Servers = {"data_center"}
    MaxIssues = 4
    PageSize = 2
    MaxChanges = 2
    Mixed = TRUE
INVARIANT ListedWhole
CHECK_DEADLOCK FALSE
