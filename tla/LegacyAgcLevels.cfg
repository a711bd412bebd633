SPECIFICATION Spec
CONSTANTS
  Setups <- EveryMode
  DigitalMax = 3
  MidLevel = 1
  GainTableLen = 3
  MinQ8 = 64
  StartQ9 = 200
  UserMoves = TRUE
  UserLevels = {1, 5}
  Frames = {"zero", "loud"}
  Speech = {TRUE, FALSE}
  Echo = {TRUE, FALSE}
  Talks = {{"above2", "in", "below2"}}
  Blocks = 2
  Outer = 2
  Inner = 2
  SlowOuter = 3
  SlowInner = 3
  SlowAfter = 1
  HoldOff = 1
  ZeroAfter = 1
  MuteGuard = 2
INVARIANTS TypeOK LevelInRange DigitalGainInTable
PROPERTIES TopNeverRises FeedbackKeepsLevel
