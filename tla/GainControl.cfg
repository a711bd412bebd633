SPECIFICATION Spec
CONSTANTS
  Control = {c1, c2}
  Audio = {a1}
  NoThread = NoThread
  c1 = c1
  c2 = c2
  a1 = a1
  Field = {"limiter_enabled_"}
  Value = {1, 2}
  Default = 1
  Limits <- WideLimits
  DefaultLimits <- FirstLimits
  Level = {1, 3}
  Formats <- TwoFormats
  DigitalMax = 1
  MaxCalls <- AllCalls
INVARIANTS TypeOK HandlesFollowSettings NoDeadlock
PROPERTY LevelStaysInLimits
CHECK_DEADLOCK FALSE
