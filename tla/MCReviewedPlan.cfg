SPECIFICATION Spec
CONSTANTS
  Id = {"A", "B"}
  Fingerprint = {"f", "g"}
  Key <- SingleKey
  Body = {b1, b2}
  Carried <- NothingCarried
  NoMarker = NoMarker
  NoPlan = NoPlan
  Process = {p1, p2}
  Invoked = {"plan", "applyPlan", "previewPlan"}
  IndexLag = TRUE
  MaxIssues = 1
  MaxFaults = 1
INVARIANTS
  AppliedAsPlanned
SYMMETRY ProcessSymmetry
