SPECIFICATION Spec
CONSTANTS
  BatchSizes = {1, 3, 4}
  MaximumBatchSize = 3
  ErrorStatuses = {429, 502}
INVARIANTS
  TypeOK
  WaitIsABarrier
  CacheHeaderIsTruthful
  ArrayFollowsRequests
  ErrorStatusIsSomeones
PROPERTIES
  ImplementsBatchService
  BatchIsServed
