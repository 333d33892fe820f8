SPECIFICATION NetFairSpec
CONSTANTS
  Thread = {t1, t2, t3}
  Job = {j1, j2, j3}
  NoJob = NoJob
  NULL = NULL
  LIMIT = 1
  LatePush = TRUE
  Fallible = TRUE
INVARIANTS
  TypeOK
  ReleasedOnce
  SleepOnlyWhenEmpty
  QueueBound
  PoolThreadsServed
  SafeUntilDestroyed
PROPERTIES
  ImplementsWorkPool
  EveryTaskReleased
  ShutdownEnds
CHECK_DEADLOCK FALSE
