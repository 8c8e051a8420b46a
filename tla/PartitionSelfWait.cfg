CONSTANTS
  Instances = {i1}
  Months = 3
  MonthStart <- MCMonthStart
  MaxMetricPartitioningPrefillPeriodDays = 2
  MetricPartitioningPrefillPeriodDays = 2
  DatabaseMaxOpenConnections = 3
  FirstDay = 1
  LastDay = 2
  MaxLeftovers = 1
SPECIFICATION Spec
INVARIANT NeverWaitsForItself
