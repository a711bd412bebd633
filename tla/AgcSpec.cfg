SPECIFICATION FairSpec
CONSTANTS
  Word16 = 64
  Word32 = 64
  kNumSamples = 2
  Rate = 3
  Input <- Files
  Garbage <- Uninitialised
  StackBytes <- Leftovers
CHECK_DEADLOCK FALSE
INVARIANTS TypeOK HeaderNeverLies OutputComplete ReadsOnlyAudio FramesProcessed
PROPERTIES NearsTheEnd ProgramEnds
