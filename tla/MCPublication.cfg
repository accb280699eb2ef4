SPECIFICATION Spec
CONSTANTS
  Id = {"A", "B"}
  Fingerprint = {"f", "g"}
  Key <- ChangingKeys
  Body = {b1}
  Carried <- NothingCarried
  NoMarker = NoMarker
  NoPlan = NoPlan
  Process = {p1}
  Invoked = {"apply", "preview"}
  IndexLag = FALSE
  MaxIssues = 2
  MaxFaults = 2
INVARIANTS
  OneOpenIssue
  DecisionsAgree
PROPERTIES
  LedgerPreventsReissue
  PublishedIsKept
