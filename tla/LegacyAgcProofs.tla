--------------------------- MODULE LegacyAgcProofs ---------------------------
(***************************************************************************)
(* The level stays in its range for every volume range and every timer.    *)
(* The hard part is inside a frame: a raise may carry micVol above         *)
(* maxLevel until the end of the call, and a lowering in the same frame    *)
(* would then push maxLevel up.  It cannot come, because the raise resets  *)
(* the counter of too high blocks and fewer blocks are left in the frame   *)
(* than the counter needs (RaisedInv, with TimerAssumption).               *)
(***************************************************************************)
EXTENDS LegacyAgc, FiniteSetTheorems, TLAPS

Pcs == {"idle", "saturation", "zero", "block", "finish"}

Typed ==
  /\ agcMode \in AgcModes /\ minLevel \in Nat /\ maxAnalog \in Nat /\ minLevel <= maxAnalog
  /\ micVol \in Int /\ maxLevel \in Int /\ zeroCtrlMax \in Int
  /\ lastMicVol \in Int /\ outMicLevel \in Int /\ lastInMicLevel \in Int
  /\ firstCall \in {0, 1} /\ slow \in BOOLEAN
  /\ msTooHigh \in Int
  /\ pc \in Pcs /\ blk \in 1..Blocks

\* The top of the range, and what is remembered below it.
TopInv == maxAnalog <= maxLevel /\ maxLevel <= MaxInit /\ zeroCtrlMax <= maxLevel

\* In adaptive digital mode the range is the fixed one.
DigitalInv == agcMode = "kAgcModeAdaptiveDigital" => minLevel = 0 /\ maxAnalog = DigitalMax

\* Before the blocks of a frame the level is below the top.
BeforeInv == pc \in {"saturation", "zero"} => micVol <= maxLevel /\ lastMicVol <= maxLevel

\* At a block the level is below the top, or the counter of too high blocks
\* cannot reach its threshold in this frame.
RaisedInv == pc = "block" => micVol <= maxLevel \/ msTooHigh <= blk - 1

\* What the application was told is what the handle asked for.
AnswerInv ==
  pc = "idle" /\ firstCall = 1 /\ agcMode = "kAgcModeAdaptiveAnalog"
    => outMicLevel = Lower(micVol, maxAnalog)

IdleInv == pc = "idle" => MinOutput <= micVol /\ micVol <= maxLevel

IInv == Typed /\ TopInv /\ DigitalInv /\ BeforeInv /\ RaisedInv /\ AnswerInv /\ IdleInv
------------------------------------------------------------------------------
LEMMA Shares ==
  ASSUME NEW x \in Nat
  PROVE  /\ (x * MinQ8) \div 256 \in Nat /\ (x * MinQ8) \div 256 <= x \div 4
         /\ (x * StartQ9) \div 512 \in Nat /\ (x * StartQ9) \div 512 <= x
<1>1. x * MinQ8 \in Nat /\ x * MinQ8 <= 64 * x
  BY ShareAssumption
<1>2. x * StartQ9 \in Nat /\ x * StartQ9 <= 512 * x
  BY ShareAssumption
<1>3. ASSUME NEW y \in Nat, y <= 64 * x PROVE y \div 256 \in Nat /\ y \div 256 <= x \div 4
  BY <1>3
<1>4. ASSUME NEW y \in Nat, y <= 512 * x PROVE y \div 512 \in Nat /\ y \div 512 <= x
  BY <1>4
<1> QED
  BY <1>1, <1>2, <1>3, <1>4

\* The lowest output level is an analog level, and below the restart level of
\* the virtual microphone.
LEMMA OutputRangeOf ==
  ASSUME NEW min \in Nat, NEW max \in Nat, min <= max
  PROVE  LET init == max + (max - min) \div 4
             output == min + ((init - min) * MinQ8) \div 256
         IN  /\ init \in Nat /\ max <= init
             /\ output \in Nat /\ min <= output /\ output <= max
             /\ min = 0 /\ max = DigitalMax => output <= MidLevel /\ MidLevel <= max
<1> DEFINE R == max - min
           X == max + (max - min) \div 4 - min
           O == (X * MinQ8) \div 256
<1>1. R \in Nat /\ X = R + R \div 4 /\ X \in Nat
  OBVIOUS
<1>2. O \in Nat /\ O <= X \div 4
  BY <1>1, Shares
<1>3. max <= max + (max - min) \div 4 /\ max + (max - min) \div 4 \in Nat
  OBVIOUS
<1>4. max = min + R /\ (min = 0 /\ max = DigitalMax => R = 2 * MidLevel + 1 /\ MidLevel \in Nat)
  BY DigitalAssumption
<1>5. SUFFICES O <= R /\ (min = 0 /\ max = DigitalMax => O <= MidLevel /\ MidLevel <= max)
  BY <1>2, <1>3, <1>4
<1> HIDE DEF R, X, O
<1> QED
  BY <1>1, <1>2, <1>4

LEMMA OutputRange ==
  ASSUME Typed, DigitalInv
  PROVE  /\ MaxInit \in Nat /\ maxAnalog <= MaxInit
         /\ MinOutput \in Nat /\ minLevel <= MinOutput /\ MinOutput <= maxAnalog
         /\ agcMode = "kAgcModeAdaptiveDigital" => MinOutput <= MidLevel /\ MidLevel <= maxAnalog
<1>1. minLevel \in Nat /\ maxAnalog \in Nat /\ minLevel <= maxAnalog
  BY DEF Typed
<1>2. agcMode = "kAgcModeAdaptiveDigital" => minLevel = 0 /\ maxAnalog = DigitalMax
  BY DEF DigitalInv
<1>3. /\ MaxInit \in Nat /\ maxAnalog <= MaxInit
      /\ MinOutput \in Nat /\ minLevel <= MinOutput /\ MinOutput <= maxAnalog
      /\ minLevel = 0 /\ maxAnalog = DigitalMax => MinOutput <= MidLevel /\ MidLevel <= maxAnalog
  BY <1>1, OutputRangeOf DEF MaxInit, MinOutput
<1> QED
  BY <1>2, <1>3

LEMMA TenPercentRange ==
  ASSUME Typed, TopInv
  PROVE  TenPercent \in Nat /\ minLevel <= TenPercent /\ TenPercent <= maxLevel
<1>1. maxLevel - minLevel \in Nat
  BY DEF Typed, TopInv
<1> QED
  BY <1>1, Shares DEF TenPercent, Typed

\* What WebRtcAgc_Init makes of a set-up.
LEMMA SetupRange ==
  ASSUME NEW s \in Setups
  PROVE  LET i == InitFrom(s)
         IN  /\ i[1] \in AgcModes /\ i[2] \in Nat /\ i[3] \in Nat /\ i[2] <= i[3]
             /\ i[4] = i[3] + (i[3] - i[2]) \div 4 /\ i[4] \in Nat /\ i[3] <= i[4]
             /\ i[1] = "kAgcModeAdaptiveDigital" => i[2] = 0 /\ i[3] = DigitalMax /\ i[5] = MidLevel
             /\ i[1] # "kAgcModeAdaptiveDigital" => i[5] = i[3]
             /\ i[5] \in Nat
<1> DEFINE min == IF s[1] = "kAgcModeAdaptiveDigital" THEN 0 ELSE s[2]
           max == IF s[1] = "kAgcModeAdaptiveDigital" THEN DigitalMax ELSE s[3]
           vol == IF s[1] = "kAgcModeAdaptiveDigital" THEN MidLevel ELSE max
<1>1. s[1] \in AgcModes /\ s[2] \in Nat /\ s[3] \in Nat /\ s[2] <= s[3]
  BY SetupAssumption
<1>2. min \in Nat /\ max \in Nat /\ min <= max /\ vol \in Nat
  BY <1>1, DigitalAssumption
<1>3. InitFrom(s) = <<s[1], min, max, max + (max - min) \div 4, vol>>
  BY DEF InitFrom
<1>4. /\ s[1] = "kAgcModeAdaptiveDigital" => min = 0 /\ max = DigitalMax /\ vol = MidLevel
      /\ s[1] # "kAgcModeAdaptiveDigital" => vol = max
  OBVIOUS
<1> HIDE DEF min, max, vol
<1>5. max + (max - min) \div 4 \in Nat /\ max <= max + (max - min) \div 4
  BY <1>2
<1> QED
  BY <1>1, <1>2, <1>3, <1>4, <1>5

LEMMA InitIInv == Init => IInv
<1> SUFFICES ASSUME Init
             PROVE  IInv
  OBVIOUS
<1> PICK s \in Setups : LET i == InitFrom(s) IN
       /\ agcMode = i[1] /\ minLevel = i[2] /\ maxAnalog = i[3]
       /\ maxLevel = i[4] /\ micVol = i[5]
       /\ zeroCtrlMax = i[3] /\ micRef = i[5]
  BY DEF Init
<1>1. Typed
  <2>1. slow \in BOOLEAN
    BY DEF Init
  <2>2. /\ agcMode \in AgcModes /\ minLevel \in Nat /\ maxAnalog \in Nat /\ minLevel <= maxAnalog
        /\ micVol \in Int /\ maxLevel \in Int /\ zeroCtrlMax \in Int
    BY SetupRange
  <2>3. /\ lastMicVol \in Int /\ outMicLevel \in Int /\ lastInMicLevel \in Int
        /\ firstCall \in {0, 1} /\ msTooHigh \in Int /\ pc \in Pcs /\ blk \in 1..Blocks
    BY InputAssumption, TimerAssumption DEF Init, Pcs
  <2> QED
    BY <2>1, <2>2, <2>3 DEF Typed
<1>2. DigitalInv /\ TopInv
  BY SetupRange DEF DigitalInv, TopInv, MaxInit
<1>3. IdleInv
  BY <1>1, <1>2, SetupRange, OutputRange DEF IdleInv, TopInv, Typed
<1>4. BeforeInv /\ RaisedInv /\ AnswerInv
  BY DEF Init, BeforeInv, RaisedInv, AnswerInv
<1> QED
  BY <1>1, <1>2, <1>3, <1>4 DEF IInv

LEMMA ReinitStep ==
  ASSUME IInv, NEW s \in Setups, Reinit(s)
  PROVE  IInv' /\ maxLevel' = MaxInit' /\ firstCall' = 0
<1>1. LET i == InitFrom(s) IN
       /\ agcMode' = i[1] /\ minLevel' = i[2] /\ maxAnalog' = i[3]
       /\ maxLevel' = i[4] /\ micVol' = i[5]
       /\ zeroCtrlMax' = i[3] /\ micRef' = i[5]
  BY DEF Reinit
<1>2. /\ pc' = "idle" /\ firstCall' = 0 /\ lastInMicLevel' = 0 /\ slow' = FALSE
      /\ msTooHigh' = 0 /\ blk' = blk /\ lastMicVol' = lastMicVol
      /\ outMicLevel' = outMicLevel
  BY DEF Reinit
<1>3. Typed'
  <2>1. slow' \in BOOLEAN
    BY <1>2
  <2>2. /\ agcMode' \in AgcModes /\ minLevel' \in Nat /\ maxAnalog' \in Nat
        /\ minLevel' <= maxAnalog'
        /\ micVol' \in Int /\ maxLevel' \in Int /\ zeroCtrlMax' \in Int
    BY <1>1, SetupRange
  <2>3. /\ lastMicVol' \in Int /\ outMicLevel' \in Int /\ lastInMicLevel' \in Int
        /\ firstCall' \in {0, 1} /\ msTooHigh' \in Int /\ pc' \in Pcs /\ blk' \in 1..Blocks
    BY <1>2 DEF IInv, Typed, Pcs
  <2> QED
    BY <2>1, <2>2, <2>3 DEF Typed
<1>4. DigitalInv' /\ TopInv' /\ maxLevel' = MaxInit'
  BY <1>1, SetupRange DEF DigitalInv, TopInv, MaxInit
<1>5. /\ MinOutput' \in Nat /\ MinOutput' <= maxAnalog'
      /\ agcMode' = "kAgcModeAdaptiveDigital" => MinOutput' <= MidLevel /\ MidLevel <= maxAnalog'
  <2>1. minLevel' \in Nat /\ maxAnalog' \in Nat /\ minLevel' <= maxAnalog'
    BY <1>3 DEF Typed
  <2>2. agcMode' = "kAgcModeAdaptiveDigital" => minLevel' = 0 /\ maxAnalog' = DigitalMax
    BY <1>4 DEF DigitalInv
  <2>3. /\ MinOutput' \in Nat /\ MinOutput' <= maxAnalog'
        /\ minLevel' = 0 /\ maxAnalog' = DigitalMax
             => MinOutput' <= MidLevel /\ MidLevel <= maxAnalog'
    <3>1. PICK a \in Nat, b \in Nat : a = minLevel' /\ b = maxAnalog' /\ a <= b
      BY <2>1
    <3>2. PICK o : o = a + ((b + (b - a) \div 4 - a) * MinQ8) \div 256
      OBVIOUS
    <3>3. /\ o \in Nat /\ o <= b
          /\ a = 0 /\ b = DigitalMax => o <= MidLevel /\ MidLevel <= b
      BY <3>1, <3>2, OutputRangeOf
    <3>4. MinOutput' = o
      BY <3>1, <3>2 DEF MinOutput, MaxInit
    <3> QED
      BY <3>1, <3>3, <3>4
  <2> QED
    BY <2>2, <2>3
<1>7. IdleInv'
  BY <1>1, <1>3, <1>4, <1>5, SetupRange DEF IdleInv, TopInv, Typed
<1>8. BeforeInv' /\ RaisedInv' /\ AnswerInv'
  BY <1>2 DEF BeforeInv, RaisedInv, AnswerInv
<1> QED
  BY <1>2, <1>3, <1>4, <1>7, <1>8 DEF IInv
------------------------------------------------------------------------------
(* The steps of a handle that is not reinitialised keep its set-up. *)

LEMMA SameSetup ==
  ASSUME DigitalInv, UNCHANGED setup
  PROVE  /\ agcMode' = agcMode /\ minLevel' = minLevel /\ maxAnalog' = maxAnalog
         /\ MaxInit' = MaxInit /\ MinOutput' = MinOutput /\ DigitalInv'
<1>1. agcMode' = agcMode /\ minLevel' = minLevel /\ maxAnalog' = maxAnalog
  BY DEF setup
<1> QED
  BY <1>1 DEF MaxInit, MinOutput, DigitalInv

LEMMA FrameSteps ==
  ASSUME IInv, FrameStep
  PROVE  IInv' /\ maxLevel' = maxLevel /\ pc' = "idle"
<1>1. /\ UNCHANGED <<setup, maxLevel, zeroCtrlMax, entry, counters, pc, blk, lastMicVol, outMicLevel>>
      /\ pc = "idle"
      /\ \/ micVol' = micVol
         \/ agcMode = "kAgcModeAdaptiveDigital" /\ micVol' = MidLevel
  BY DEF FrameStep, AddMic, VirtualMic
<1>2. /\ maxLevel' = maxLevel /\ zeroCtrlMax' = zeroCtrlMax /\ firstCall' = firstCall
      /\ lastInMicLevel' = lastInMicLevel /\ msTooHigh' = msTooHigh /\ slow' = slow
      /\ pc' = pc /\ blk' = blk /\ lastMicVol' = lastMicVol /\ outMicLevel' = outMicLevel
  BY <1>1 DEF entry, counters
<1>3. /\ agcMode' = agcMode /\ minLevel' = minLevel /\ maxAnalog' = maxAnalog
      /\ MaxInit' = MaxInit /\ MinOutput' = MinOutput /\ DigitalInv'
  BY <1>1, SameSetup DEF IInv
<1>4. MidLevel \in Nat
  BY DigitalAssumption
<1>5. Typed'
  BY <1>1, <1>2, <1>3, <1>4 DEF IInv, Typed
<1>6. TopInv' /\ BeforeInv' /\ RaisedInv'
  BY <1>1, <1>2, <1>3 DEF IInv, TopInv, BeforeInv, RaisedInv
<1>7. AnswerInv'
  BY <1>1, <1>2, <1>3 DEF IInv, AnswerInv, Lower
<1>8. IdleInv'
  <2>1. agcMode = "kAgcModeAdaptiveDigital" => MinOutput <= MidLevel /\ MidLevel <= maxAnalog
    BY OutputRange DEF IInv
  <2> QED
    BY <1>1, <1>2, <1>3, <1>4, <2>1 DEF IInv, IdleInv, TopInv, Typed
<1> QED
  BY <1>1, <1>2, <1>3, <1>5, <1>6, <1>7, <1>8 DEF IInv

LEMMA DigitalOnlyStep ==
  ASSUME IInv, NEW in \in Int, ProcessDigitalOnly(in)
  PROVE  IInv' /\ maxLevel' = maxLevel
<1>1. /\ pc = "idle" /\ pc' = pc /\ outMicLevel' = in
      /\ agcMode # "kAgcModeAdaptiveAnalog"
      /\ micVol' = micVol /\ maxLevel' = maxLevel /\ zeroCtrlMax' = zeroCtrlMax
      /\ firstCall' = firstCall /\ lastInMicLevel' = lastInMicLevel
      /\ msTooHigh' = msTooHigh /\ slow' = slow /\ blk' = blk /\ lastMicVol' = lastMicVol
      /\ UNCHANGED setup
  BY DEF ProcessDigitalOnly, Analog, entry, counters
<1>2. /\ agcMode' = agcMode /\ minLevel' = minLevel /\ maxAnalog' = maxAnalog
      /\ MaxInit' = MaxInit /\ MinOutput' = MinOutput /\ DigitalInv'
  BY <1>1, SameSetup DEF IInv
<1>3. Typed'
  BY <1>1, <1>2 DEF IInv, Typed
<1>4. TopInv' /\ BeforeInv' /\ RaisedInv' /\ AnswerInv' /\ IdleInv'
  BY <1>1, <1>2 DEF IInv, TopInv, BeforeInv, RaisedInv, AnswerInv, IdleInv
<1> QED
  BY <1>1, <1>2, <1>3, <1>4 DEF IInv

\* The level after manual changes is below the top of the range; fed back,
\* it is the level the handle had.
LEMMA EntryVolRange ==
  ASSUME IInv, pc = "idle", NEW in \in minLevel..maxAnalog
  PROVE  /\ EntryVol(in) \in Int /\ EntryVol(in) <= maxLevel
         /\ in = outMicLevel /\ firstCall = 1 /\ agcMode = "kAgcModeAdaptiveAnalog"
              => EntryVol(in) = micVol
<1> DEFINE level == IF /\ firstCall = 0 /\ in < TenPercent
                       /\ agcMode = "kAgcModeAdaptiveAnalog" THEN TenPercent ELSE in
           vol == IF firstCall = 0 THEN level ELSE micVol
           asked == IF level = maxAnalog /\ vol > maxAnalog THEN vol ELSE level
<1>1. /\ TenPercent \in Int /\ TenPercent <= maxLevel /\ MinOutput \in Int
      /\ in \in Int /\ in <= maxLevel /\ micVol \in Int /\ micVol <= maxLevel
      /\ maxAnalog \in Int /\ maxLevel \in Int
  BY TenPercentRange, OutputRange DEF IInv, Typed, TopInv, IdleInv
<1>2. level \in Int /\ level <= maxLevel /\ vol \in Int /\ vol <= maxLevel
  BY <1>1
<1>3. asked \in Int /\ asked <= maxLevel
  BY <1>1, <1>2
<1>4. EntryVol(in) = CASE asked = vol -> vol
                       [] asked # vol /\ asked < MinOutput -> TenPercent
                       [] asked # vol /\ asked >= MinOutput ->
                            IF in = lastInMicLevel THEN vol ELSE asked
  BY DEF EntryVol
<1>5. ASSUME in = outMicLevel, firstCall = 1, agcMode = "kAgcModeAdaptiveAnalog"
      PROVE  asked = vol /\ vol = micVol
  <2>1. in = Lower(micVol, maxAnalog)
    BY <1>5 DEF IInv, AnswerInv
  <2> QED
    BY <1>1, <1>5, <2>1 DEF Lower
<1> HIDE DEF level, vol, asked
<1>6. EntryVol(in) \in Int /\ EntryVol(in) <= maxLevel
  BY <1>1, <1>2, <1>3, <1>4
<1> QED
  BY <1>4, <1>5, <1>6

LEMMA EnterStep ==
  ASSUME IInv, NEW in, Enter(in)
  PROVE  IInv' /\ maxLevel' = maxLevel
<1>1. /\ pc = "idle" /\ in \in minLevel..maxAnalog /\ firstCall' = 1 /\ lastInMicLevel' = in
      /\ micVol' = EntryVol(in) /\ lastMicVol' = micVol' /\ maxLevel' = Upper(maxLevel, micVol')
      /\ pc' = "saturation" /\ zeroCtrlMax' = zeroCtrlMax
      /\ msTooHigh' = msTooHigh /\ slow' = slow /\ blk' = blk /\ outMicLevel' = outMicLevel
      /\ UNCHANGED setup
  BY DEF Enter, counters
<1>2. /\ agcMode' = agcMode /\ minLevel' = minLevel /\ maxAnalog' = maxAnalog
      /\ MaxInit' = MaxInit /\ MinOutput' = MinOutput /\ DigitalInv'
  BY <1>1, SameSetup DEF IInv
<1>3. micVol' \in Int /\ micVol' <= maxLevel
  BY <1>1, EntryVolRange
<1>4. maxLevel' = maxLevel
  BY <1>1, <1>3 DEF Upper, IInv, Typed
<1>5. Typed'
  BY <1>1, <1>2, <1>3, <1>4 DEF IInv, Typed, Pcs
<1>6. TopInv' /\ BeforeInv' /\ RaisedInv' /\ AnswerInv' /\ IdleInv'
  BY <1>1, <1>2, <1>3, <1>4 DEF IInv, TopInv, BeforeInv, RaisedInv, AnswerInv, IdleInv
<1> QED
  BY <1>2, <1>4, <1>5, <1>6 DEF IInv
------------------------------------------------------------------------------
(* Inside a frame. *)

LEMMA ShiftInt ==
  ASSUME NEW w \in Int, NEW x \in Int
  PROVE  UMulShift15(w, x) \in Int /\ UMulShift14(w, x) \in Int
<1>1. w * x \in Int
  OBVIOUS
<1>2. ASSUME NEW n \in Int
      PROVE  (n \div 32768) % 131072 \in Int /\ (n \div 16384) % 262144 \in Int
  OBVIOUS
<1> QED
  BY <1>1, <1>2 DEF UMulShift15, UMulShift14

LEMMA CurveRange ==
  ASSUME NEW v
  PROVE  ExpCurve(v) \in 1..8
<1> DEFINE S == {i \in 1..7 : v > CurveLimits[i]}
<1>1. IsFiniteSet(1..7) /\ Cardinality(1..7) = 7
  <2>1. 1 \in Int /\ 7 \in Int
    OBVIOUS
  <2>2. IsFiniteSet(1..7) /\ Cardinality(1..7) = IF 1 > 7 THEN 0 ELSE 7 - 1 + 1
    BY <2>1, FS_Interval, Zenon
  <2> QED
    BY <2>2
<1>2. S \in SUBSET (1..7)
  OBVIOUS
<1>3. IsFiniteSet(S) /\ Cardinality(S) <= 7
  BY <1>1, <1>2, FS_Subset
<1>4. Cardinality(S) \in Nat
  BY <1>3, FS_CardinalityType
<1>5. ExpCurve(v) = 1 + Cardinality(S)
  BY DEF ExpCurve
<1> HIDE DEF S
<1> QED
  BY <1>3, <1>4, <1>5

LEMMA LineInt ==
  ASSUME NEW o \in Int, NEW k \in Int, NEW v \in Int
  PROVE  o - (k * v) \div 8192 \in Int
OBVIOUS

LEMMA WeightInt ==
  ASSUME Typed, DigitalInv, NEW zone
  PROVE  Weight(zone) \in Int
<1>1. VolNorm \in Int
  <2>1. /\ MaxInit \in Int /\ minLevel \in Int /\ micVol \in Int
        /\ MaxInit # minLevel => MaxInit - minLevel > 0
    BY OutputRange DEF Typed
  <2>2. ASSUME NEW a \in Int, NEW b \in Int, b > 0 PROVE TruncDiv(a, b) \in Int
    BY <2>2 DEF TruncDiv
  <2>3. (micVol - minLevel) * 16384 \in Int /\ MaxInit - minLevel \in Int
    BY <2>1
  <2> QED
    BY <2>1, <2>2, <2>3 DEF VolNorm
<1>2. ExpCurve(VolNorm) \in 1..8
  BY CurveRange
<1>3. ASSUME NEW i \in 1..8
      PROVE  kOffset1[i] \in Int /\ kSlope1[i] \in Int /\ kOffset2[i] \in Int /\ kSlope2[i] \in Int
  BY DEF kOffset1, kSlope1, kOffset2, kSlope2
<1> DEFINE i == ExpCurve(VolNorm)
           V == VolNorm
<1> HIDE DEF i, V
<1>4. V \in Int /\ i \in 1..8
  BY <1>1, <1>2 DEF i, V
<1>5. kOffset1[i] \in Int /\ kSlope1[i] \in Int /\ kOffset2[i] \in Int /\ kSlope2[i] \in Int
  BY <1>3, <1>4
<1>6. /\ kOffset1[i] - (kSlope1[i] * V) \div 8192 \in Int
      /\ kOffset2[i] - (kSlope2[i] * V) \div 8192 \in Int
  BY <1>4, <1>5, LineInt
<1> QED
  BY <1>6 DEF Weight, i, V

\* What keeps the invariant at a step inside a frame.
LEMMA InsideStep ==
  ASSUME IInv, UNCHANGED setup, firstCall' = firstCall, lastInMicLevel' = lastInMicLevel,
         outMicLevel' = outMicLevel, lastMicVol' = lastMicVol, slow' \in BOOLEAN,
         micVol' \in Int, maxLevel' \in Int, zeroCtrlMax' \in Int, msTooHigh' \in Int,
         maxAnalog <= maxLevel', maxLevel' <= maxLevel, zeroCtrlMax' <= maxLevel',
         pc' \in {"zero", "block", "finish"}, blk' \in 1..Blocks,
         pc' = "zero" => micVol' <= maxLevel' /\ lastMicVol <= maxLevel',
         pc' = "block" => micVol' <= maxLevel' \/ msTooHigh' <= blk' - 1
  PROVE  IInv'
<1>1. /\ agcMode' = agcMode /\ minLevel' = minLevel /\ maxAnalog' = maxAnalog
      /\ MaxInit' = MaxInit /\ MinOutput' = MinOutput /\ DigitalInv'
  BY SameSetup DEF IInv
<1>2. Typed'
  BY <1>1 DEF IInv, Typed, Pcs
<1>3. TopInv'
  <2>1. MaxInit \in Int
    BY OutputRange DEF IInv
  <2> QED
    BY <1>1, <2>1 DEF IInv, Typed, TopInv
<1>4. BeforeInv' /\ RaisedInv' /\ AnswerInv' /\ IdleInv'
  BY DEF BeforeInv, RaisedInv, AnswerInv, IdleInv
<1> QED
  BY <1>1, <1>2, <1>3, <1>4 DEF IInv

LEMMA SaturatedStep ==
  ASSUME IInv, Saturated \/ NotSaturated
  PROVE  IInv' /\ maxLevel' = maxLevel
<1>1. /\ UNCHANGED setup /\ firstCall' = firstCall /\ lastInMicLevel' = lastInMicLevel
      /\ outMicLevel' = outMicLevel /\ lastMicVol' = lastMicVol /\ maxLevel' = maxLevel
      /\ pc = "saturation" /\ pc' = "zero" /\ blk' = blk
  BY DEF Saturated, NotSaturated, entry
<1>2. /\ micVol \in Int /\ minLevel \in Int /\ lastMicVol \in Int /\ maxLevel \in Int
      /\ zeroCtrlMax \in Int /\ msTooHigh \in Int /\ slow \in BOOLEAN /\ blk \in 1..Blocks
      /\ maxAnalog <= maxLevel /\ zeroCtrlMax <= maxLevel
      /\ micVol <= maxLevel /\ lastMicVol <= maxLevel
  BY <1>1 DEF IInv, Typed, TopInv, BeforeInv
<1>3. CASE Saturated
  <2>1. /\ zeroCtrlMax' = micVol /\ msTooHigh' = -HoldOff
        /\ micVol' = Lower(UMulShift15(29591, micVol - minLevel) + minLevel, lastMicVol - 2)
    BY <1>3 DEF Saturated
  <2>2. UMulShift15(29591, micVol - minLevel) \in Int
    BY <1>2, ShiftInt
  <2>3. micVol' \in Int /\ micVol' <= maxLevel
    BY <1>2, <2>1, <2>2 DEF Lower
  <2>4. msTooHigh' \in Int /\ zeroCtrlMax' \in Int /\ zeroCtrlMax' <= maxLevel'
    BY <1>1, <1>2, <2>1, TimerAssumption
  <2>5. slow' = FALSE
    BY <1>3 DEF Saturated
  <2>6. slow' \in BOOLEAN
    BY <2>5
  <2> QED
    BY <1>1, <1>2, <2>3, <2>4, <2>6, InsideStep
<1>4. CASE NotSaturated
  <2>1. /\ zeroCtrlMax' = zeroCtrlMax /\ msTooHigh' = msTooHigh /\ slow' = slow
        /\ micVol' = micVol
    BY <1>4 DEF NotSaturated, counters
  <2> QED
    BY <1>1, <1>2, <2>1, InsideStep
<1> QED
  BY <1>3, <1>4

LEMMA ZeroCtrlStep ==
  ASSUME IInv, NEW speech \in BOOLEAN, ZeroCtrl(speech)
  PROVE  IInv' /\ maxLevel' = maxLevel
<1>1. /\ UNCHANGED setup /\ firstCall' = firstCall /\ lastInMicLevel' = lastInMicLevel
      /\ outMicLevel' = outMicLevel /\ lastMicVol' = lastMicVol /\ maxLevel' = maxLevel
      /\ zeroCtrlMax' = zeroCtrlMax /\ msTooHigh' = msTooHigh /\ slow' = slow
      /\ pc = "zero" /\ pc' \in {"block", "finish"} /\ blk' = blk
      /\ \/ micVol' = Lower((1126 * micVol) \div 1024, zeroCtrlMax)
         \/ micVol' = micVol
  BY DEF ZeroCtrl, entry, counters
<1>2. /\ micVol \in Int /\ maxLevel \in Int /\ zeroCtrlMax \in Int /\ msTooHigh \in Int
      /\ slow \in BOOLEAN /\ blk \in 1..Blocks
      /\ maxAnalog <= maxLevel /\ zeroCtrlMax <= maxLevel /\ micVol <= maxLevel
  BY <1>1 DEF IInv, Typed, TopInv, BeforeInv
<1>3. micVol' \in Int /\ micVol' <= maxLevel
  BY <1>1, <1>2 DEF Lower
<1> QED
  BY <1>1, <1>2, <1>3, InsideStep

LEMMA BlockStep ==
  ASSUME IInv, pc = "block", NextBlock
  PROVE  /\ pc' \in {"block", "finish"} /\ blk' \in 1..Blocks /\ blk \in Int /\ blk >= 1
         /\ pc' = "block" => blk' = blk + 1
BY TimerAssumption DEF NextBlock, IInv, Typed

LEMMA ThresholdLong ==
  ASSUME NEW zone
  PROVE  Threshold(zone) \in Nat /\ Threshold(zone) >= Blocks
BY TimerAssumption DEF Threshold

\* The level can be lowered only when it is below the top: the top comes down.
LEMMA TooHighStep ==
  ASSUME IInv, NEW zone, TooHigh(zone)
  PROVE  IInv' /\ maxLevel' <= maxLevel
<1>1. /\ UNCHANGED setup /\ firstCall' = firstCall /\ lastInMicLevel' = lastInMicLevel
      /\ outMicLevel' = outMicLevel /\ lastMicVol' = lastMicVol
      /\ pc = "block" /\ NextBlock
  BY DEF TooHigh, entry
<1>2. /\ micVol \in Int /\ maxLevel \in Int /\ zeroCtrlMax \in Int /\ msTooHigh \in Int
      /\ lastMicVol \in Int /\ minLevel \in Int /\ maxAnalog \in Int
      /\ blk \in 1..Blocks
      /\ maxAnalog <= maxLevel /\ zeroCtrlMax <= maxLevel
      /\ micVol <= maxLevel \/ msTooHigh <= blk - 1
  BY <1>1 DEF IInv, Typed, TopInv, RaisedInv
<1>3. pc' \in {"block", "finish"} /\ blk' \in 1..Blocks
  BY <1>1, BlockStep
<1>next. blk \in Int /\ blk >= 1 /\ (pc' = "block" => blk' = blk + 1)
  BY <1>1, BlockStep
<1>slow. slow' \in BOOLEAN
  BY DEF TooHigh, IInv, Typed
<1>4. CASE msTooHigh' = msTooHigh + 1 /\ UNCHANGED <<micVol, maxLevel, zeroCtrlMax>>
  <2>1. /\ msTooHigh' \in Int /\ micVol' = micVol /\ maxLevel' = maxLevel
        /\ zeroCtrlMax' = zeroCtrlMax
        /\ micVol' \in Int /\ maxLevel' \in Int /\ zeroCtrlMax' \in Int
        /\ maxAnalog <= maxLevel' /\ maxLevel' <= maxLevel /\ zeroCtrlMax' <= maxLevel'
    BY <1>2, <1>4
  <2>2. micVol <= maxLevel \/ msTooHigh <= blk - 1
    BY <1>2
  <2>3. msTooHigh \in Int /\ msTooHigh' = msTooHigh + 1
    BY <1>2, <1>4
  <2>4. pc' = "block" => micVol' <= maxLevel' \/ msTooHigh' <= blk' - 1
    BY <1>next, <2>1, <2>2, <2>3
  <2> QED
    BY <1>1, <1>3, <1>slow, <2>1, <2>4, InsideStep
<1>5. CASE /\ msTooHigh + 1 > Threshold(zone) /\ msTooHigh' = 0
           /\ maxLevel' = Upper((15 * maxLevel + micVol) \div 16, maxAnalog)
           /\ zeroCtrlMax' = micVol
           /\ micVol' = LET w == IF zone = "above2" THEN 31130 ELSE 31621
                        IN  Lower(UMulShift15(w, micVol - minLevel) + minLevel, lastMicVol - 1)
  <2>1. micVol <= maxLevel
    BY <1>2, <1>5, ThresholdLong, TimerAssumption
  <2>2. /\ maxLevel' \in Int /\ maxAnalog <= maxLevel' /\ maxLevel' <= maxLevel
        /\ micVol <= maxLevel'
    BY <1>2, <1>5, <2>1 DEF Upper
  <2>3. micVol' \in Int
    <3>1. ASSUME NEW w \in Int PROVE UMulShift15(w, micVol - minLevel) \in Int
      BY <1>2, ShiftInt
    <3> QED
      BY <1>2, <1>5, <3>1 DEF Lower
  <2>4. msTooHigh' \in Int /\ zeroCtrlMax' \in Int /\ zeroCtrlMax' <= maxLevel'
    BY <1>2, <1>5, <2>2
  <2>5. pc' = "block" => msTooHigh' <= blk' - 1
    <3>1. msTooHigh' = 0
      BY <1>5
    <3> QED
      BY <1>next, <3>1
  <2> QED
    BY <1>1, <1>3, <1>slow, <2>2, <2>3, <2>4, <2>5, InsideStep
<1> QED
  BY <1>4, <1>5 DEF TooHigh

LEMMA TooLowStep ==
  ASSUME IInv, NEW zone, TooLow(zone)
  PROVE  IInv' /\ maxLevel' = maxLevel
<1>1. /\ UNCHANGED setup /\ firstCall' = firstCall /\ lastInMicLevel' = lastInMicLevel
      /\ outMicLevel' = outMicLevel /\ lastMicVol' = lastMicVol
      /\ maxLevel' = maxLevel /\ zeroCtrlMax' = zeroCtrlMax /\ msTooHigh' = 0
      /\ pc = "block" /\ NextBlock
      /\ \/ micVol' = micVol
         \/ micVol' = Upper(UMulShift14(Weight(zone), micVol - minLevel) + minLevel,
                            lastMicVol + IF zone = "below2" THEN 2 ELSE 1)
  BY DEF TooLow, entry
<1>2. /\ micVol \in Int /\ maxLevel \in Int /\ zeroCtrlMax \in Int
      /\ lastMicVol \in Int /\ minLevel \in Int /\ maxAnalog \in Int
      /\ blk \in 1..Blocks
      /\ maxAnalog <= maxLevel /\ zeroCtrlMax <= maxLevel
  BY DEF IInv, Typed, TopInv
<1>3. pc' \in {"block", "finish"} /\ blk' \in 1..Blocks
  BY <1>1, BlockStep
<1>next. blk \in Int /\ blk >= 1 /\ (pc' = "block" => blk' = blk + 1)
  BY <1>1, BlockStep
<1>4. micVol' \in Int
  <2>1. UMulShift14(Weight(zone), micVol - minLevel) \in Int
    BY <1>2, WeightInt, ShiftInt DEF IInv
  <2> QED
    BY <1>1, <1>2, <2>1 DEF Upper
<1>5. msTooHigh' \in Int /\ (pc' = "block" => msTooHigh' <= blk' - 1)
  <2>1. msTooHigh' = 0
    BY <1>1
  <2> QED
    BY <1>next, <2>1
<1>6. slow' \in BOOLEAN
  BY DEF TooLow, IInv, Typed
<1>7. /\ maxLevel' \in Int /\ zeroCtrlMax' \in Int /\ maxAnalog <= maxLevel'
      /\ maxLevel' <= maxLevel /\ zeroCtrlMax' <= maxLevel'
  BY <1>1, <1>2
<1> QED
  BY <1>1, <1>3, <1>4, <1>5, <1>6, <1>7, InsideStep

LEMMA InRangeStep ==
  ASSUME IInv, NEW zone, InRange(zone)
  PROVE  IInv' /\ maxLevel' = maxLevel
<1>1. /\ UNCHANGED setup /\ firstCall' = firstCall /\ lastInMicLevel' = lastInMicLevel
      /\ outMicLevel' = outMicLevel /\ lastMicVol' = lastMicVol
      /\ maxLevel' = maxLevel /\ zeroCtrlMax' = zeroCtrlMax /\ msTooHigh' = 0
      /\ micVol' = micVol /\ pc = "block" /\ NextBlock
  BY DEF InRange, entry
<1>2. /\ micVol \in Int /\ maxLevel \in Int /\ zeroCtrlMax \in Int
      /\ blk \in 1..Blocks /\ maxAnalog <= maxLevel /\ zeroCtrlMax <= maxLevel
  BY DEF IInv, Typed, TopInv
<1>3. pc' \in {"block", "finish"} /\ blk' \in 1..Blocks
  BY <1>1, BlockStep
<1>next. blk \in Int /\ blk >= 1 /\ (pc' = "block" => blk' = blk + 1)
  BY <1>1, BlockStep
<1>4. slow' \in BOOLEAN
  BY DEF InRange, IInv, Typed
<1>5. msTooHigh' \in Int /\ (pc' = "block" => msTooHigh' <= blk' - 1)
  <2>1. msTooHigh' = 0
    BY <1>1
  <2> QED
    BY <1>next, <2>1
<1>6. /\ micVol' \in Int /\ maxLevel' \in Int /\ zeroCtrlMax' \in Int
      /\ maxAnalog <= maxLevel' /\ maxLevel' <= maxLevel /\ zeroCtrlMax' <= maxLevel'
  BY <1>1, <1>2
<1> QED
  BY <1>1, <1>3, <1>4, <1>5, <1>6, InsideStep

LEMMA FinishStep ==
  ASSUME IInv, NEW echo, Finish(echo)
  PROVE  IInv' /\ maxLevel' = maxLevel
<1> DEFINE vol == IF Guarded(echo) THEN Lower(micVol, lastMicVol) ELSE micVol
<1>1. /\ micVol' = IF vol > maxLevel THEN maxLevel ELSE Upper(vol, MinOutput)
      /\ outMicLevel' = Lower(micVol', maxAnalog)
      /\ pc' = "idle" /\ lastMicVol' = 0 /\ maxLevel' = maxLevel /\ zeroCtrlMax' = zeroCtrlMax
      /\ firstCall' = firstCall /\ lastInMicLevel' = lastInMicLevel
      /\ msTooHigh' = msTooHigh /\ slow' = slow /\ blk' = blk /\ UNCHANGED setup
  BY DEF Finish, entry, counters
<1>2. /\ agcMode' = agcMode /\ minLevel' = minLevel /\ maxAnalog' = maxAnalog
      /\ MaxInit' = MaxInit /\ MinOutput' = MinOutput /\ DigitalInv'
  BY <1>1, SameSetup DEF IInv
<1>3. /\ micVol \in Int /\ lastMicVol \in Int /\ maxLevel \in Int /\ MinOutput \in Int
      /\ maxAnalog \in Int /\ MinOutput <= maxLevel
  BY OutputRange DEF IInv, Typed, TopInv
<1>4. vol \in Int
  BY <1>3 DEF Lower
<1> HIDE DEF vol
<1>5. micVol' \in Int /\ MinOutput <= micVol' /\ micVol' <= maxLevel
  BY <1>1, <1>3, <1>4 DEF Upper
<1>6. outMicLevel' \in Int
  BY <1>1, <1>3, <1>5 DEF Lower
<1>7. Typed'
  BY <1>1, <1>2, <1>5, <1>6 DEF IInv, Typed, Pcs
<1>8. TopInv' /\ BeforeInv' /\ RaisedInv' /\ IdleInv'
  BY <1>1, <1>2, <1>5 DEF IInv, TopInv, BeforeInv, RaisedInv, IdleInv
<1>9. AnswerInv'
  BY <1>1, <1>2 DEF AnswerInv, Lower
<1> QED
  BY <1>1, <1>2, <1>7, <1>8, <1>9 DEF IInv

LEMMA InLevelsInt ==
  ASSUME IInv, NEW in \in InLevels
  PROVE  in \in Int
BY InputAssumption DEF InLevels, IInv, Typed

\* One step of the inductive argument: every action keeps the invariant, and
\* none but WebRtcAgc_Init raises the top of the range.
LEMMA NextIInv ==
  ASSUME IInv, [Next]_vars
  PROVE  IInv' /\ (maxLevel' > maxLevel => maxLevel' = MaxInit' /\ firstCall' = 0)
<1> SUFFICES /\ IInv'
             /\ \/ maxLevel' = MaxInit' /\ firstCall' = 0
                \/ maxLevel' \in Int /\ maxLevel \in Int /\ maxLevel' <= maxLevel
  OBVIOUS
<1>1. maxLevel \in Int /\ (IInv' => maxLevel' \in Int)
  BY DEF IInv, Typed
<1>2. ASSUME NEW s \in Setups, Reinit(s)
      PROVE  IInv' /\ maxLevel' = MaxInit' /\ firstCall' = 0
  BY <1>2, ReinitStep
<1>3. CASE FrameStep
  BY <1>1, <1>3, FrameSteps
<1>4. ASSUME NEW in \in InLevels, ProcessDigitalOnly(in)
      PROVE  IInv' /\ maxLevel' = maxLevel
  BY <1>4, InLevelsInt, DigitalOnlyStep
<1>5. ASSUME NEW in \in InLevels, Enter(in)
      PROVE  IInv' /\ maxLevel' = maxLevel
  BY <1>5, EnterStep
<1>6. CASE Saturated \/ NotSaturated
  BY <1>1, <1>6, SaturatedStep
<1>7. ASSUME NEW speech \in Speech, ZeroCtrl(speech)
      PROVE  IInv' /\ maxLevel' = maxLevel
  <2>1. speech \in BOOLEAN
    BY InputAssumption
  <2> QED
    BY <1>7, <2>1, ZeroCtrlStep
<1>8. ASSUME NEW zone \in zones, TooHigh(zone) \/ TooLow(zone) \/ InRange(zone)
      PROVE  IInv' /\ maxLevel' <= maxLevel
  BY <1>1, <1>8, TooHighStep, TooLowStep, InRangeStep
<1>9. ASSUME NEW echo \in Echo, Finish(echo)
      PROVE  IInv' /\ maxLevel' = maxLevel
  BY <1>9, FinishStep
<1>10. CASE UNCHANGED vars
  BY <1>1, <1>10 DEF vars, setup, entry, counters, mute, mic, queue, IInv, Typed, TopInv,
     DigitalInv, BeforeInv, RaisedInv, AnswerInv, IdleInv, MaxInit, MinOutput
<1> QED
  BY <1>1, <1>2, <1>3, <1>4, <1>5, <1>6, <1>7, <1>8, <1>9, <1>10 DEF Next, ProcessStep

LEMMA IInvAlways == Spec => []IInv
<1>1. IInv /\ [Next]_vars => IInv'
  BY NextIInv
<1> QED
  BY InitIInv, <1>1, PTL DEF Spec

\* For every volume range, every timer and every share: between two calls the
\* level and the level answered are in the range that Process promises, and
\* the top of the range is between the analog maximum and its initial value.
THEOREM LevelAlwaysInRange == Spec => []LevelInRange
<1>1. IInv => LevelInRange
  <2> SUFFICES ASSUME IInv
               PROVE  LevelInRange
    OBVIOUS
  <2>1. maxAnalog <= maxLevel /\ maxLevel <= MaxInit
    BY DEF IInv, TopInv
  <2>2. pc = "idle" => MinOutput <= micVol /\ micVol <= maxLevel
    BY DEF IInv, IdleInv
  <2>3. ASSUME pc = "idle", firstCall = 1, agcMode = "kAgcModeAdaptiveAnalog"
        PROVE  MinOutput <= outMicLevel /\ outMicLevel <= maxAnalog
    <3>1. outMicLevel = Lower(micVol, maxAnalog)
      BY <2>3 DEF IInv, AnswerInv
    <3>2. MinOutput \in Int /\ MinOutput <= maxAnalog /\ micVol \in Int /\ maxAnalog \in Int
      BY OutputRange DEF IInv, Typed
    <3> QED
      BY <2>2, <2>3, <3>1, <3>2 DEF Lower
  <2> QED
    BY <2>1, <2>2, <2>3 DEF LevelInRange
<1> QED
  BY IInvAlways, <1>1, PTL

\* Only WebRtcAgc_Init raises the top of the range.
THEOREM TopOnlyRaisedByInit == Spec => TopNeverRises
<1>1. IInv /\ [Next]_vars
        => [maxLevel' > maxLevel => maxLevel' = MaxInit' /\ firstCall' = 0]_vars
  BY NextIInv
<1> QED
  BY IInvAlways, <1>1, PTL DEF Spec, TopNeverRises

\* A level fed back unchanged leaves the level the handle asked for, the part
\* above the analog maximum included.
THEOREM FedBackLevelKept == Spec => FeedbackKeepsLevel
<1> DEFINE Kept == /\ pc = "idle" /\ pc' = "saturation" /\ firstCall = 1
                   /\ agcMode = "kAgcModeAdaptiveAnalog" /\ lastInMicLevel' = outMicLevel
                   => micVol' = micVol
<1>1. IInv /\ [Next]_vars => [Kept]_vars
  <2> SUFFICES ASSUME IInv, Next, pc = "idle", pc' = "saturation", firstCall = 1,
                      agcMode = "kAgcModeAdaptiveAnalog", lastInMicLevel' = outMicLevel
               PROVE  micVol' = micVol
    OBVIOUS
  <2>1. \A s \in Setups : ~ Reinit(s)
    BY DEF Reinit
  <2>2. ~ FrameStep
    BY FrameSteps
  <2>3. \A in \in InLevels : ~ ProcessDigitalOnly(in)
    BY DEF ProcessDigitalOnly
  <2>4. /\ ~ Saturated /\ ~ NotSaturated
        /\ \A speech \in Speech : ~ ZeroCtrl(speech)
        /\ \A echo \in Echo : ~ Finish(echo)
    BY DEF Saturated, NotSaturated, ZeroCtrl, Finish
  <2>5. \A zone \in zones : ~ TooHigh(zone) /\ ~ TooLow(zone) /\ ~ InRange(zone)
    BY DEF TooHigh, TooLow, InRange
  <2>6. PICK in \in InLevels : Enter(in)
    BY <2>1, <2>2, <2>3, <2>4, <2>5 DEF Next, ProcessStep
  <2>7. in \in minLevel..maxAnalog /\ in = outMicLevel /\ micVol' = EntryVol(in)
    BY <2>6 DEF Enter
  <2> QED
    BY <2>7, EntryVolRange
<1> QED
  BY IInvAlways, <1>1, PTL DEF Spec, FeedbackKeepsLevel

\* The share of a table by a quotient that is at most one stays in the table.
LEMMA QuotientBound ==
  ASSUME NEW g \in Nat, NEW a \in Nat, NEW b \in Nat, b > 0, a <= b
  PROVE  (g * a) \div b \in Int /\ (g * a) \div b <= g
<1>1. g * a \in Nat /\ g * b \in Nat /\ g * a <= g * b
  OBVIOUS
<1>2. ASSUME NEW n \in Nat, n <= g * b, NEW q \in Int, q * b <= n PROVE q <= g
  <2>1. SUFFICES ASSUME q >= g + 1 PROVE FALSE
    OBVIOUS
  <2>2. q * b >= (g + 1) * b
    BY <2>1
  <2>3. (g + 1) * b = g * b + b
    OBVIOUS
  <2> QED
    BY <1>1, <1>2, <2>2, <2>3
<1>3. ASSUME NEW n \in Nat PROVE n \div b \in Int /\ (n \div b) * b <= n
  OBVIOUS
<1> QED
  BY <1>1, <1>2, <1>3

\* Between two calls AddMic accepts every frame: its digital gain never
\* divides by zero and never leaves its table.
THEOREM DigitalGainAlwaysInTable == Spec => []DigitalGainInTable
<1>1. IInv => DigitalGainInTable
  <2> SUFFICES ASSUME IInv, pc = "idle", micVol > maxAnalog
               PROVE  maxLevel > maxAnalog /\ TargetGainIdx(micVol) < GainTableLen
    BY DEF DigitalGainInTable, AddMicAccepts
  <2> DEFINE a == micVol - maxAnalog
             b == maxLevel - maxAnalog
             g == GainTableLen - 1
  <2>1. /\ a \in Nat /\ b \in Nat /\ b > 0 /\ a <= b /\ g \in Nat /\ GainTableLen \in Int
        /\ maxLevel > maxAnalog
    BY TimerAssumption DEF IInv, Typed, IdleInv
  <2>2. TargetGainIdx(micVol) = (g * a) \div b
    BY DEF TargetGainIdx
  <2>3. g < GainTableLen
    BY <2>1
  <2> HIDE DEF a, b, g
  <2>4. (g * a) \div b \in Int /\ (g * a) \div b <= g
    BY <2>1, QuotientBound
  <2> QED
    BY <2>1, <2>2, <2>3, <2>4
<1> QED
  BY IInvAlways, <1>1, PTL
------------------------------------------------------------------------------
(* The fields the levels do not depend on. *)

Kinds == {"zero", "normal", "loud"}

CountersInv == lastInMicLevel \in Nat /\ msTooLow \in Nat /\ changeToSlowMode \in Nat
MuteInv == msZero \in 0..ZeroAfter /\ muteGuardMs \in 0..MuteGuard
QueueInv == /\ inQueue \in 0..2 /\ Len(env) = Upper(inQueue, 1)
            /\ env \in Seq(Kinds)
GainInv == gainTableIdx \in 0..(GainTableLen - 1)

FieldsInv == CountersInv /\ MuteInv /\ QueueInv /\ GainInv

LEMMA InitFields == Init => FieldsInv
<1> SUFFICES ASSUME Init
             PROVE  FieldsInv
  OBVIOUS
<1>1. CountersInv /\ MuteInv
  BY TimerAssumption DEF Init, CountersInv, MuteInv
<1>2. env = <<"zero">> /\ inQueue = 0
  BY DEF Init
<1>3. QueueInv
  BY <1>2 DEF QueueInv, Upper, Kinds
<1>4. GainInv
  BY TimerAssumption DEF Init, GainInv
<1> QED
  BY <1>1, <1>3, <1>4 DEF FieldsInv

\* One step of the digital gain stays in its table.
LEMMA ApproachInTable ==
  ASSUME IInv, GainInv, NEW vol \in Int, vol <= maxLevel
  PROVE  Approach(vol) \in 0..(GainTableLen - 1)
<1> DEFINE a == vol - maxAnalog
           b == maxLevel - maxAnalog
           g == GainTableLen - 1
           t == TargetGainIdx(vol)
<1>1. maxAnalog \in Int /\ maxLevel \in Int /\ g \in Nat
  BY TimerAssumption DEF IInv, Typed
<1>2. gainTableIdx \in 0..g
  BY DEF GainInv
<1>3. CASE vol <= maxAnalog
  BY <1>1, <1>3 DEF Approach
<1>4. CASE vol > maxAnalog
  <2>1. a \in Nat /\ b \in Nat /\ b > 0 /\ a <= b
    BY <1>1, <1>4
  <2>2. t = (g * a) \div b
    BY DEF TargetGainIdx
  <2>3. ~ (vol <= maxAnalog)
    BY <1>1, <1>4
  <2>4. Approach(vol) = IF gainTableIdx < t THEN gainTableIdx + 1
                        ELSE IF gainTableIdx > t THEN gainTableIdx - 1 ELSE gainTableIdx
    BY <2>3 DEF Approach
  <2> HIDE DEF a, b, t
  <2>5. t \in Int /\ t <= g
    BY <1>1, <2>1, <2>2, QuotientBound
  <2>6. t >= 0
    <3>1. ASSUME NEW n \in Nat PROVE n \div b >= 0
      BY <2>1
    <3>2. g * a \in Nat
      BY <1>1, <2>1
    <3> QED
      BY <2>2, <3>1, <3>2
  <2> HIDE DEF g
  <2>7. Approach(vol) \in 0..g
    BY <1>1, <1>2, <2>4, <2>5, <2>6
  <2> QED
    BY <2>7 DEF g
<1> QED
  BY <1>1, <1>3, <1>4

LEMMA AddFrameFields ==
  ASSUME IInv, QueueInv, GainInv, NEW vol \in Int, vol <= maxLevel, NEW f \in Frames,
         AddFrame(vol, f)
  PROVE  QueueInv' /\ GainInv'
<1>1. GainInv'
  BY ApproachInTable DEF AddFrame, GainInv
<1>2. f \in Kinds
  BY InputAssumption DEF Kinds
<1>3. CASE inQueue = 0
  <2>1. env' = <<f>> /\ inQueue' = 1
    BY <1>3 DEF AddFrame
  <2> QED
    BY <1>1, <1>2, <2>1 DEF QueueInv, Upper
<1>4. CASE inQueue # 0
  <2>1. inQueue > 0
    BY <1>4 DEF QueueInv
  <2>2. env' = <<env[1], f>> /\ inQueue' = 2
    BY <1>4, <2>1 DEF AddFrame
  <2>3. Len(env) >= 1 /\ env \in Seq(Kinds)
    BY <2>1 DEF QueueInv, Upper
  <2>4. env[1] \in Kinds
    BY <2>3
  <2> QED
    BY <1>1, <1>2, <2>2, <2>4 DEF QueueInv, Upper
<1> QED
  BY <1>3, <1>4

LEMMA FrameFields ==
  ASSUME IInv, FieldsInv, FrameStep
  PROVE  FieldsInv'
<1>1. UNCHANGED <<entry, counters, mute>> /\ pc = "idle"
  BY DEF FrameStep, AddMic, VirtualMic
<1>2. CountersInv' /\ MuteInv'
  BY <1>1 DEF FieldsInv, CountersInv, MuteInv, entry, counters, mute
<1>3. micVol \in Int /\ micVol <= maxLevel
  BY <1>1 DEF IInv, Typed, IdleInv
<1>4. PICK f \in Frames, vol \in {micVol, MidLevel} :
        AddFrame(vol, f) /\ (vol = micVol \/ agcMode = "kAgcModeAdaptiveDigital")
  BY DEF FrameStep, AddMic, VirtualMic
<1>5. vol \in Int /\ vol <= maxLevel
  <2>1. MidLevel \in Nat /\ DigitalMax = 2 * MidLevel + 1
    BY DigitalAssumption
  <2>2. agcMode = "kAgcModeAdaptiveDigital" => maxAnalog = DigitalMax
    BY DEF IInv, DigitalInv
  <2> QED
    BY <1>3, <1>4, <2>1, <2>2 DEF IInv, TopInv, Typed
<1> QED
  BY <1>2, <1>4, <1>5, AddFrameFields DEF FieldsInv

LEMMA NextFrameFields ==
  ASSUME QueueInv, NextFrame
  PROVE  QueueInv'
<1>1. CASE inQueue > 1
  <2>1. inQueue = 2 /\ Len(env) = 2 /\ env \in Seq(Kinds)
    BY <1>1 DEF QueueInv, Upper
  <2>2. env[2] \in Kinds /\ env' = <<env[2]>> /\ inQueue' = 1
    BY <1>1, <2>1 DEF NextFrame, Upper
  <2> QED
    BY <2>2 DEF QueueInv, Upper
<1>2. CASE ~ (inQueue > 1)
  <2>1. env' = env /\ inQueue' = 0 /\ Len(env) = 1 /\ env \in Seq(Kinds)
    BY <1>2 DEF NextFrame, QueueInv, Upper
  <2> QED
    BY <2>1 DEF QueueInv, Upper
<1> QED
  BY <1>1, <1>2

LEMMA ZeroCtrlFields ==
  ASSUME MuteInv, NEW speech, ZeroCtrl(speech)
  PROVE  MuteInv'
<1> DEFINE silent == IF env[1] = "zero" THEN msZero + 1 ELSE 0
<1>1. /\ msZero' = IF silent > ZeroAfter THEN 0 ELSE silent
      /\ muteGuardMs' = IF silent > ZeroAfter THEN MuteGuard ELSE Upper(muteGuardMs - 1, 0)
  BY DEF ZeroCtrl
<1>2. silent \in Nat
  BY TimerAssumption DEF MuteInv
<1> HIDE DEF silent
<1> QED
  BY <1>1, <1>2, TimerAssumption DEF MuteInv, Upper

LEMMA NextFields ==
  ASSUME IInv, FieldsInv, [Next]_vars
  PROVE  FieldsInv'
<1> USE DEF FieldsInv
<1>1. ASSUME NEW s \in Setups, Reinit(s)
      PROVE  FieldsInv'
  <2>1. /\ lastInMicLevel' = 0 /\ msTooLow' = 0 /\ changeToSlowMode' = 0
        /\ msZero' = 0 /\ muteGuardMs' = 0 /\ gainTableIdx' = 0
        /\ env' = <<"zero">> /\ inQueue' = 0
    BY <1>1 DEF Reinit
  <2>2. CountersInv' /\ MuteInv' /\ GainInv'
    BY <2>1, TimerAssumption DEF CountersInv, MuteInv, GainInv
  <2>3. QueueInv'
    BY <2>1 DEF QueueInv, Upper, Kinds
  <2> QED
    BY <2>2, <2>3
<1>2. CASE FrameStep
  BY <1>2, FrameFields
<1>3. ASSUME NEW in \in InLevels, ProcessDigitalOnly(in)
      PROVE  FieldsInv'
  <2>1. UNCHANGED <<entry, counters, mute, mic>> /\ NextFrame
    BY <1>3 DEF ProcessDigitalOnly
  <2> QED
    BY <2>1, NextFrameFields DEF CountersInv, MuteInv, GainInv, entry, counters, mute, mic
<1>4. ASSUME NEW in \in InLevels, Enter(in)
      PROVE  FieldsInv'
  <2>1. UNCHANGED <<counters, mute, mic, queue>> /\ lastInMicLevel' = in
        /\ in \in minLevel..maxAnalog
    BY <1>4 DEF Enter
  <2>2. in \in Nat
    BY <2>1 DEF IInv, Typed
  <2> QED
    BY <2>1, <2>2 DEF CountersInv, MuteInv, GainInv, QueueInv, counters, mute, mic, queue
<1>5. CASE Saturated
  <2>1. /\ UNCHANGED <<entry, msTooLow, msZero, mic, queue>>
        /\ changeToSlowMode' = 0 /\ muteGuardMs' = 0
    BY <1>5 DEF Saturated
  <2> QED
    BY <2>1, TimerAssumption
       DEF CountersInv, MuteInv, GainInv, QueueInv, entry, mic, queue
<1>6. CASE NotSaturated
  BY <1>6 DEF NotSaturated, CountersInv, MuteInv, GainInv, QueueInv, entry, counters, mute,
     mic, queue
<1>7. ASSUME NEW speech \in Speech, ZeroCtrl(speech)
      PROVE  FieldsInv'
  <2>1. UNCHANGED <<entry, counters, mic, queue>>
    BY <1>7 DEF ZeroCtrl
  <2>2. MuteInv'
    BY <1>7, ZeroCtrlFields
  <2> QED
    BY <2>1, <2>2 DEF CountersInv, GainInv, QueueInv, entry, counters, mic, queue
<1>8. ASSUME NEW zone \in zones, TooHigh(zone) \/ TooLow(zone) \/ InRange(zone)
      PROVE  FieldsInv'
  <2>1. /\ UNCHANGED <<entry, mute, mic, queue>>
        /\ msTooLow' \in {0, msTooLow, msTooLow + 1}
        /\ changeToSlowMode' \in {0, changeToSlowMode, changeToSlowMode + 1}
    BY <1>8 DEF TooHigh, TooLow, InRange
  <2> QED
    BY <2>1 DEF CountersInv, MuteInv, GainInv, QueueInv, entry, mute, mic, queue
<1>9. ASSUME NEW echo \in Echo, Finish(echo)
      PROVE  FieldsInv'
  <2>1. UNCHANGED <<entry, counters, mute, mic>> /\ NextFrame
    BY <1>9 DEF Finish
  <2> QED
    BY <2>1, NextFrameFields DEF CountersInv, MuteInv, GainInv, entry, counters, mute, mic
<1>10. CASE UNCHANGED vars
  BY <1>10 DEF vars, CountersInv, MuteInv, GainInv, QueueInv, entry, counters, mute, mic, queue
<1> QED
  BY <1>1, <1>2, <1>3, <1>4, <1>5, <1>6, <1>7, <1>8, <1>9, <1>10 DEF Next, ProcessStep

\* Every field stays in its range: the queue of AddMic never holds more than
\* two frames, the digital gain index never leaves its table, the timers of
\* ZeroCtrl stay in their periods, for every range, timer and table length.
THEOREM AgcTyped == Spec => []TypeOK
<1>1. IInv /\ FieldsInv => TypeOK
  <2> SUFFICES ASSUME IInv, FieldsInv
               PROVE  TypeOK
    OBVIOUS
  <2>1. /\ agcMode \in AgcModes /\ minLevel \in Nat /\ maxAnalog \in Nat
        /\ micVol \in Int /\ maxLevel \in Nat /\ zeroCtrlMax \in Int
        /\ firstCall \in {0, 1} /\ slow \in BOOLEAN /\ msTooHigh \in Int
        /\ pc \in {"idle", "saturation", "zero", "block", "finish"} /\ blk \in 1..Blocks
    BY DEF IInv, Typed, TopInv, Pcs
  <2>2. /\ lastInMicLevel \in Nat /\ msTooLow \in Nat /\ changeToSlowMode \in Nat
        /\ msZero \in 0..ZeroAfter /\ muteGuardMs \in 0..MuteGuard
        /\ gainTableIdx \in 0..(GainTableLen - 1)
    BY DEF FieldsInv, CountersInv, MuteInv, GainInv
  <2>3. /\ inQueue \in 0..2 /\ Len(env) = Upper(inQueue, 1)
        /\ \A i \in DOMAIN env : env[i] \in {"zero", "normal", "loud"}
    BY DEF FieldsInv, QueueInv, Kinds
  <2> QED
    BY <2>1, <2>2, <2>3 DEF TypeOK
<1>2. IInv /\ FieldsInv /\ [Next]_vars => FieldsInv'
  BY NextFields
<1> QED
  BY IInvAlways, InitFields, <1>1, <1>2, PTL DEF Spec
==============================================================================
