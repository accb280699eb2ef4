CONSTANTS
  t1 = t1
  t2 = t2
  Tools = {t1, t2}
  Signature <- Normal
  CanonicalShape <- Canonical
  MergedShape <- Merged
  MaxLineage = 2
  Settings <- MCSettings
SPECIFICATION QueueSpec
INVARIANTS
  StoredQueueIsValid
  OnlyLimitsRefuseRebalance
PROPERTIES
  ProgressIsKept
  WaveIsStable
  NoTargetIsForgotten
