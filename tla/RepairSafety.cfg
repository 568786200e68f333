SPECIFICATION Spec
CONSTANTS
  r1 = r1
  r2 = r2
  None = None
  Runs = {r1, r2}
  MaxMoves = 2
  MaxFaults = 1
SYMMETRY Symmetry
INVARIANTS
  CandidateOfOneCommit
  DraftsWereVerified
  ReceiptBindsCandidate
