SPECIFICATION Spec
CONSTANTS
  Compilers = {"adk", "deterministic"}
  Quotes <- Said
  Promises <- Binding
  NoQuote = "none"
  Pages <- Sources
  MaxAttempts = 2
  MaxFaults = 1
INVARIANTS
  TypeOK
  TestedIsGrounded
  ProvenanceKept
CHECK_DEADLOCK FALSE
