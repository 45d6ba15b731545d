CONSTANTS
  NormalCap = 1
  CriticalCap = 1
  FallbackCap = 1
  PendingCap = 2
  MaxEvents = 4
  Lanes = {"normal", "critical"}
  Absent = Absent
  NoTarget = NoTarget
  RecoveryGap = RecoveryGap
SPECIFICATION Spec
INVARIANT TypeOK
INVARIANT RetryIsNeverOrphaned
INVARIANT EveryEventInOnePlace
INVARIANT LossIsNeverForgotten
PROPERTY AppliedInOrder
PROPERTY SettlesAgainAndAgain
