SPECIFICATION FairSpec
CONSTANTS
  p1 = p1
  p2 = p2
  Publishers = {p1, p2}
  BaseMoves = TRUE
  MaxEdits = 2
  MaxFaults = 2
INVARIANTS
  ReceiptsExact
  HistoryRespected
  PublishedNeverRejected
PROPERTIES
  ImplementsPublication
  NoStaleDraft
  EventuallyPublished
