SPECIFICATION FairWorkers
CONSTANTS
  Events = {e1, e2}
  Expiring = {e1}
  Swallowed = {e2}
  Templates = {e2}
  Workers = {w1, w2}
  Limit = 2
  MaxAttempts = 2
  SlowWorkers = TRUE
  Nobody = Nobody
  Jobs = {j1, j2}
  Due = {b1}
  Holds = {h1}
  Instances = {i1, i2}
  Callers = {c1}
  MaxTries = 1
  MaxRuns = 2
  Nothing = Nothing
  e1 = e1
  e2 = e2
  w1 = w1
  w2 = w2
  j1 = j1
  j2 = j2
  b1 = b1
  h1 = h1
  i1 = i1
  i2 = i2
  c1 = c1
INVARIANT MarkedIsDone
PROPERTIES SettledFinal Settles CompletedKept RunsEnd
CHECK_DEADLOCK FALSE
