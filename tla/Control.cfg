SPECIFICATION FairSpec
CONSTANTS
  r1 = r1
  r2 = r2
  w1 = w1
  w2 = w2
  Runs = {r1, r2}
  Workers = {w1, w2}
  Defects = {TRUE, FALSE}
  MaxFaults = 3
INVARIANTS
  DefectNeverSupported
  CorrectNeverContradicted
PROPERTIES
  DefectIsFound
