CONSTANTS
  App = {a}
  a = a
  b = b
  None = None
  GapThreshold = 1
  CheckpointInterval = 2
  IdleThreshold = 2
  StartTime = 3
  MaxTime = 5
  MaxDelay = 1
  Kinds <- EveryHandler
  Sessions <- NoSessions
SPECIFICATION EventsSpec
INVARIANT TypeOK
INVARIANT HeadIsNeverRefused
INVARIANT PausedEngineIsSealed
INVARIANT MemoryMatchesRows
