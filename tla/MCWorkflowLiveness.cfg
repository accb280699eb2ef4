SPECIFICATION FairSpec
CONSTANTS
  N = 5
  DependsOn <- StopDeps
  Inputs <- StopInputs
  Producers = {1, 2, 5}
  Skipped = {2}
  Procs = {p1}
  Content = {"a", "b"}
  Absent = "absent"
  Build = {"v1", "v2"}
  ErrorClass = {"rate_limit"}
  MaxFaults = 1
PROPERTIES
  EveryInvocationEnds
  ResumeCompletes
