SPECIFICATION MCSpec
CONSTANTS
  CandidateIds = {a, b}
  Texts = {1, 2}
  Types = {manual, cucumber}
  Evidence = {e1, e2}
  Workers = {w1, w2}
  MaxVersion = 6
  Movable = {a}
  Ids = {1, 2}
  Scenarios <- MCScenarios
  Backgrounds <- MCBackgrounds
  Uses <- MCUses
  Pairs <- MCPairs
  Fold <- MCFold
  Ticket = k2
  go = go
  check = check
  user = user
  jira = jira
  Jira = Jira
  github = github
  k1 = k1
  k2 = k2
INVARIANT ReadyIsConfirmed
PROPERTIES
  WritingKept
  EvidenceHeld
  ActsAtomically
SYMMETRY Symmetry
