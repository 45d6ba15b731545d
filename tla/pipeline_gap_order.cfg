CONSTANTS
  NormalCap = 4
  CriticalCap = 1
  FallbackCap = 1
  PendingCap = 4
  MaxEvents = 4
  Lanes = {"critical"}
  Absent = Absent
  NoTarget = NoTarget
  RecoveryGap = RecoveryGap
SPECIFICATION Spec
PROPERTY GapComesFirst
