CONSTANTS
  None = None
  BootMatch = 1
  Correlation = 2
  Pre = 2
  Post = 1
  Stabilise = 0
  Page = 1
  Limit = 1
  Keep = 0
  Startups <- AfterACrash
  Loads <- Some
SPECIFICATION FairSpec
INVARIANT TypeOK
INVARIANT NoCrashIsMissed
INVARIANT OneCasePerCrash
PROPERTY HeldEvidenceStays
PROPERTY CasesSettle
CHECK_DEADLOCK FALSE
