SPECIFICATION Spec
CONSTANTS
  BatchSizes = {2}
  MaximumBatchSize = 2
  ErrorStatuses = {429}
INVARIANT PanicsAreDiscarded
