SPECIFICATION Spec
CONSTANTS
  Conversations = {c1}
  Ids = {i1, i2}
  Workers = {w1}
  MaxCalls = 2
  MaxRestarts = 0
  Serial = TRUE
INVARIANT OneRunPerApproval
