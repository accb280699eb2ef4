CONSTANTS
  s0 = s0
  s1 = s1
  s2 = s2
  c1 = c1
  i1 = i1
  Scans = {s0, s1, s2}
  Past = {s0}
  Checks = {c1}
  Imports = {i1}
  AdapterOf <- MCAdapterOf
  SourceOf <- MCSourceOf
  Boms = {"syft"}
  Advisories = {"trivy"}
  Worlds <- MCWorlds
  Nobody = Nobody
  NoFile = NoFile
  MaxRuns = 2
  MaxKills = 1
SPECIFICATION Spec
INVARIANTS
  SuccessIsBacked
  NoEvaluationFails
CHECK_DEADLOCK FALSE
