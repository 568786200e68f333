SPECIFICATION FairSpec
CONSTANTS
  c1 = c1
  c2 = c2
  i1 = i1
  i2 = i2
  Calls = {c1, c2}
  Instances = {i1}
  InstanceOf <- OneInstance
  NoCall = NoCall
  Settings <- AllSettings
  MaxAttempts = 2
  MaxFaults = 2
  RunLeaseOutlivesWork = TRUE
  ActionLeaseOutlivesWork = TRUE
INVARIANTS
  NoInvalidTransition
  CompleteMeansPublished
  DraftNeedsProof
PROPERTIES
  NoRestartAfterPublication
  EventuallySettled
