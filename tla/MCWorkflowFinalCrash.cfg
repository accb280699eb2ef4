SPECIFICATION Spec
CONSTANTS
  N = 4
  DependsOn <- JoinDeps
  Inputs <- JoinInputs
  Producers = {1, 2, 4}
  Skipped = {}
  Procs = {p1}
  Content = {"a"}
  Absent = "absent"
  Build = {"v1"}
  ErrorClass = {"rate_limit"}
  MaxFaults = 1
INVARIANTS
  UnfinishedNamesResumeStage
