CONSTANTS
  Instances = {i1, i2}
  Months = 3
  MonthStart <- MCMonthStart
  MaxMetricPartitioningPrefillPeriodDays = 2
  MetricPartitioningPrefillPeriodDays = 2
  DatabaseMaxOpenConnections = 3
  FirstDay = 1
  LastDay = 2
  MaxLeftovers = 1
SPECIFICATION FairSpec
INVARIANTS TypeOK TablesHoldTheirDay
PROPERTIES CleanRunCovers RunEnds
