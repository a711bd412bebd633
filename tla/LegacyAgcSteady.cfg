SPECIFICATION RunningSpec
CONSTANTS
  Setups <- RealSetups
  DigitalMax = 255
  MidLevel = 127
  GainTableLen = 32
  MinQ8 = 10
  StartQ9 = 51
  UserMoves = FALSE
  UserLevels = {0, 9, 255}
  Frames = {"normal"}
  Speech = {TRUE}
  Echo = {FALSE}
  Talks = {{"below2", "below"}, {"above2", "above"}}
  Blocks = 5
  Outer = 5
  Inner = 6
  SlowOuter = 6
  SlowInner = 7
  SlowAfter = 6
  HoldOff = 2
  ZeroAfter = 2
  MuteGuard = 2
PROPERTIES TooLowReachesTop TooHighReachesBottom
