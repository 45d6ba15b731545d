CONSTANTS
  Depth = 2
  RetryLimit = 1
  HourLen = 2
  DayLen = 4
  Batch = 2
  Loads <- Mixed
SPECIFICATION FairSpec
INVARIANT TypeOK
INVARIANT EveryFrameIsAccountedFor
INVARIANT CommittedInOrder
INVARIANT NothingIsSkipped
INVARIANT StaleDaysAreDirty
PROPERTY OkShutdownFinishes
PROPERTY QueueDrains
PROPERTY StaleDaysAreRebuilt
CHECK_DEADLOCK FALSE
