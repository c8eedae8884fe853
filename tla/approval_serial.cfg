SPECIFICATION FairSpec
CONSTANTS
  Conversations = {c1, c2}
  Ids = {i1, i2}
  Workers = {w1}
  MaxCalls = 1
  MaxRestarts = 1
  Serial = TRUE
INVARIANTS
  RunsWereApproved
  OneRunPerApproval
  Resumable
PROPERTY DecisionTakesEffect
