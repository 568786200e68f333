SPECIFICATION FairSpec
CONSTANT MaxFaults = 3
INVARIANTS
  ReceiptProvesCandidate
  ReceiptNotInflated
PROPERTIES
  EventuallyOver
