SPECIFICATION FairSpec
CONSTANTS
  p1 = p1
  p2 = p2
  p3 = p3
  Publishers = {p1, p2, p3}
  Nobody = Nobody
  Former = Former
  MaxPosts = 4
  MaxFaults = 3
INVARIANTS
  OneIssuePerFinding
  ReceiptsAgree
PROPERTIES
  ImplementsPublication
  EventuallyRecorded
