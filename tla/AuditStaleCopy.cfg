SPECIFICATION Spec
CONSTANTS
  c1 = c1
  c2 = c2
  i1 = i1
  i2 = i2
  Calls = {c1, c2}
  Instances = {i1, i2}
  InstanceOf <- TwoInstances
  NoCall = NoCall
  Settings <- FullSettings
  MaxAttempts = 2
  MaxFaults = 0
  RunLeaseOutlivesWork = TRUE
  ActionLeaseOutlivesWork = TRUE
PROPERTIES
  FailedSafeNeverResumes
SYMMETRY Symmetry
