--------------------------- MODULE MCAuditService ---------------------------
(* Instances of AuditService for TLC. *)
EXTENDS AuditService, TLC

CONSTANTS c1, c2, i1, i2

\* Two requests that one instance serves, one request each of two instances.
OneInstance == [c \in {c1, c2} |-> i1]
TwoInstances == [c \in {c1, c2} |-> IF c = c1 THEN i1 ELSE i2]

AllSettings == SettingsType
FullSettings == {[github_actions_enabled |-> TRUE, verifier |-> TRUE]}

\* Instances occur in no variable and each serves one call, so calls are interchangeable.
Symmetry == Permutations({c1, c2})
=============================================================================
