SPECIFICATION FairSpec
CONSTANTS
  Instances = {i1, i2}
  Configs <- MCConfigs
  Migrations = {1, 2}
  Idempotent = {1}
  MaxMetricPartitioningPrefillPeriodDays = 2
  MaxStarts = 3
  MaxOutages = 1
CHECK_DEADLOCK FALSE
INVARIANTS
  TypeOK
  MigrationsExclusive
  LockIsReleased
  MarkedIsRun
  RoutineNeverStuck
PROPERTIES
  StartIsNotBlocked
  MigrationsSettle
