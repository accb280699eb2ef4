SPECIFICATION Spec
CONSTANTS
  Attempts = {a1, a2}
  Others = {o1}
  NoProc = NoProc
  Texts <- MCTexts
  Preflights <- MCPreflights
  MaxEvents = 2
  MaxNew = 2
  MaxHistory = 1
CHECK_DEADLOCK FALSE
INVARIANTS
  AttributionIsSound
  HistoryIsConsistent
  LogIsWhole
  SuccessIsRecorded
  NobodyIsStuck
