SPECIFICATION FairSpec
CONSTANTS
  Providers = {p1}
  Categories = {c1}
  SlowSets <- AnyLateAnswer
  Mortal = {p1}
  Unset = Unset
PROPERTIES
  HostReturns
  WantedRuns
CHECK_DEADLOCK FALSE
