SPECIFICATION Spec
CONSTANTS
  Instances = {i1}
  Configs <- OneConfig
  Migrations = {1, 2}
  Idempotent = {2}
  MaxMetricPartitioningPrefillPeriodDays = 2
  MaxStarts = 2
  MaxOutages = 1
CHECK_DEADLOCK FALSE
INVARIANT RollbackAllowsRetry
