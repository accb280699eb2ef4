SPECIFICATION Spec
CONSTANTS
  N = 3
  DependsOn <- MeetDeps
  Inputs <- MeetInputs
  Producers = {1, 3}
  Skipped = {}
  Procs = {p1, p2}
  Content = {"a", "b"}
  Absent = "absent"
  Build = {"v1", "v2"}
  ErrorClass = {"rate_limit"}
  MaxFaults = 2
SYMMETRY ProcSymmetry
INVARIANTS
  ReportAddsUp
  ExclusiveCheckpoint
  RecordsAccepted
  ResumePointCovers
  ReportNeverAhead
  PauseStopsWithinOneStage
PROPERTIES
  SuccessIsFinal
  HistoryIsKept
  ImplementsStaged
