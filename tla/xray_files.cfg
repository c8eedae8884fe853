CONSTANTS
  None = None
  k1 = k1
  k2 = k2
  k3 = k3
  S = S
  X = X
  gone = gone
  robot1 = robot1
  feature1 = feature1
  new1 = new1
  Keys = {k1, k2, k3}
  Paths <- MCPaths
  Issues <- MCIssues
  Creatable = {"manual", "cucumber"}
  NewPath = new1
  Starts <- MCStarts
  Edits <- MCEdits
  MaxCalls = 3
  MaxFaults = 1
  MaxEdits = 1
SPECIFICATION Spec
CHECK_DEADLOCK FALSE
INVARIANTS WritesAccounted UpdatedMatches OwnersDistinct
PROPERTY NeverTwice
