CONSTANTS
  Sources <- MCSources
  Original <- MCOriginal
  Producers = {p1, p2}
  Restorers = {p1}
  Commands = {"issue_publication_plan", "dashboard"}
  Nobody = nobody
  MaxEdits = 1
  MaxKills = 1
SPECIFICATION Spec
INVARIANTS
  FreshMeansCurrent
  OrderConverges
PROPERTIES
  RecordsSurvive
CHECK_DEADLOCK FALSE
