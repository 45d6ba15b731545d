SPECIFICATION Spec
CONSTANTS
  Providers = {p1}
  Categories = {c1, c2}
  SlowSets <- LateAnswers
  Mortal = {}
  Unset = Unset
INVARIANTS
  TypeOK
  NeverStranded
  PlansAgree
  IntentWins
  RunsItsPlan
PROPERTIES
  OneCallAtATime
CHECK_DEADLOCK FALSE
