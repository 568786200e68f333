SPECIFICATION FairSpec
CONSTANTS
  k1 = k1
  k2 = k2
  s1 = s1
  h1 = h1
  h2 = h2
  None = None
  Keys = {k1, k2}
  Others = {s1}
  Handlers = {h1, h2}
  MaxPolls = 1
  MaxFaults = 1
INVARIANTS
  TypeOK
  OneUnfinishedRun
  RetryRepeatsRun
PROPERTIES
  ClickSettles
CHECK_DEADLOCK FALSE
