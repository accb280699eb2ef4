CONSTANTS
  Operators = {op1, op2, op3}
  Tools = {research}
  Stages = {stage}
  Triagers = {t1, t2}
  MaxImported = 3
  FindingLists <- MCFindingLists
  Payloads <- MCPayloads
  RiskChoices <- MCRiskChoices
  Floor = 3
  MaxCommands = 3
  MaxEdits = 2
SPECIFICATION MCSpec
SYMMETRY Symmetry
INVARIANTS
  StopsAreHeeded
  TriageIsAccepted
  WithheldForAReason
CHECK_DEADLOCK FALSE
