CONSTANTS
  Capacity = 3
  Values = {1, 3}
  MaxBuckets = 4
  HourMinutes = 2
  MaxMinute = 6
  MaxPushes = 7
SPECIFICATION Spec
INVARIANTS
  TypeOK
  SparklineIsRecent
  BucketsAreMinutes
  WindowIsLatestSampledMinutes
