------------------------------ MODULE LegacyAgc ------------------------------
(***************************************************************************)
(* digital_agc/analog_agc.c: one LegacyAgc handle, the machine that moves  *)
(* the microphone level.  AddMic or VirtualMic queue a 10 ms frame,        *)
(* Process analyses the oldest queued one and answers a level.             *)
(*                                                                         *)
(* Levels are modelled exactly, the 32-bit wrap of their products          *)
(* included.  Signals are abstracted to what the code asks of them: is the *)
(* frame silent ("zero"), does it hold a subframe near full scale          *)
(* ("loud"), is the speech detector above its threshold, and in which zone *)
(* between the limits is the slow energy measure at each 2 ms block.       *)
(* Milliseconds of speech are counted in blocks, milliseconds of silence   *)
(* in frames.                                                              *)
(*                                                                         *)
(* ProcessAnalog is sequential; its stages are steps of their own so that  *)
(* its invariants can be stated between them.  inMicLevelTmp equals micVol *)
(* from the end of the first stage on, and is not a variable.              *)
(***************************************************************************)
EXTENDS Integers, Sequences, FiniteSets

CONSTANTS Setups,       \* triples <<agcMode, minLevel, maxLevel>> given to Init
          DigitalMax,   \* upper level in adaptive digital mode, 255
          MidLevel,     \* the restart level of the virtual microphone, 127
          GainTableLen, \* GAIN_TBL_LEN, 32
          MinQ8,        \* lowest output level: 10 / 256 of the range
          StartQ9,      \* level to start from: 51 / 512 of the range
          UserLevels,   \* levels the application may have or set by itself
          UserMoves,    \* does it set one while the handle runs?
          Frames,       \* kinds of frames: subset of {"zero", "normal", "loud"}
          Speech, Echo, \* subsets of BOOLEAN
          Talks,        \* sets of zones: how the person at the microphone may talk
          Blocks,       \* blocks of a frame, 5
          Outer, Inner, SlowOuter, SlowInner,   \* msecSpeech*Change, in blocks
          SlowAfter,    \* changeToSlowMode limit, in blocks
          HoldOff,      \* the 100 ms after a saturation, in blocks
          ZeroAfter,    \* the 500 ms of silence, in frames
          MuteGuard     \* kMuteGuardTimeMs, in frames

AllZones == {"above2", "above", "in", "below", "below2"}
AgcModes == {"kAgcModeAdaptiveAnalog", "kAgcModeAdaptiveDigital", "kAgcModeFixedDigital"}

ASSUME SetupAssumption ==
  \A s \in Setups : s \in AgcModes \X Nat \X Nat /\ s[2] <= s[3]
ASSUME DigitalAssumption == MidLevel \in Nat /\ DigitalMax = 2 * MidLevel + 1
ASSUME ShareAssumption == MinQ8 \in 0..64 /\ StartQ9 \in 0..512
ASSUME InputAssumption ==
  /\ UserLevels \subseteq Nat /\ UserMoves \in BOOLEAN
  /\ Frames \subseteq {"zero", "normal", "loud"}
  /\ Speech \subseteq BOOLEAN /\ Echo \subseteq BOOLEAN /\ Talks \subseteq SUBSET AllZones
\* No level change can follow another within one frame.
ASSUME TimerAssumption ==
  /\ Blocks \in Nat \ {0} /\ GainTableLen \in Nat \ {0}
  /\ \A n \in {Outer, Inner, SlowOuter, SlowInner} : n \in Nat /\ n >= Blocks
  /\ SlowAfter \in Nat /\ HoldOff \in Nat /\ ZeroAfter \in Nat /\ MuteGuard \in Nat \ {0}

VARIABLES agcMode, minLevel, maxAnalog,      \* fixed by Init
          zones,                             \* where the measure may be
          micVol, maxLevel, zeroCtrlMax, lastInMicLevel, firstCall,
          msTooLow, msTooHigh, changeToSlowMode,
          slow,                              \* msecSpeech*Change are the slow ones
          msZero, muteGuardMs,
          env, inQueue,                      \* the queued frames; a second one only
                                             \* while inQueue is 2
          gainTableIdx,
          micRef, micGainIdx, lowLevelSignal,  \* virtual microphone
          pc, blk, lastMicVol,               \* the call of Process in progress
          outMicLevel

setup == <<agcMode, minLevel, maxAnalog, zones>>
entry == <<lastInMicLevel, firstCall>>
counters == <<msTooLow, msTooHigh, changeToSlowMode, slow>>
mute == <<msZero, muteGuardMs>>
mic == <<gainTableIdx, micRef, micGainIdx, lowLevelSignal>>
queue == <<env, inQueue>>
vars == <<setup, micVol, maxLevel, zeroCtrlMax, entry, counters, mute, mic, queue,
          pc, blk, lastMicVol, outMicLevel>>

Lower(a, b) == IF a <= b THEN a ELSE b
Upper(a, b) == IF a <= b THEN b ELSE a

MaxInit == maxAnalog + (maxAnalog - minLevel) \div 4
\* 4% above the lowest level, of the initial range.
MinOutput == minLevel + ((MaxInit - minLevel) * MinQ8) \div 256
\* 10% above the lowest level, of the current range.
TenPercent == minLevel + ((maxLevel - minLevel) * StartQ9) \div 512

\* ((uint32_t)w * (uint32_t)x) >> 15, and >> 14: the product is taken modulo
\* 2^32, so the result is the quotient modulo 2^17, or 2^18.
UMulShift15(w, x) == ((w * x) \div 32768) % 131072
UMulShift14(w, x) == ((w * x) \div 16384) % 262144
------------------------------------------------------------------------------
(* WebRtcAgc_Init, which also serves as the initial state. *)

InitFrom(s) ==
  LET min == IF s[1] = "kAgcModeAdaptiveDigital" THEN 0 ELSE s[2]
      max == IF s[1] = "kAgcModeAdaptiveDigital" THEN DigitalMax ELSE s[3]
      vol == IF s[1] = "kAgcModeAdaptiveDigital" THEN MidLevel ELSE max
  IN  <<s[1], min, max, max + (max - min) \div 4, vol>>

Init ==
  /\ \E s \in Setups : LET i == InitFrom(s) IN
       /\ agcMode = i[1] /\ minLevel = i[2] /\ maxAnalog = i[3]
       /\ maxLevel = i[4] /\ micVol = i[5]
       /\ zeroCtrlMax = i[3] /\ micRef = i[5]
  /\ outMicLevel \in UserLevels    \* where the application's level is
  /\ zones \in Talks
  /\ lastInMicLevel = 0 /\ firstCall = 0
  /\ msTooLow = 0 /\ msTooHigh = 0 /\ changeToSlowMode = 0 /\ slow = FALSE
  /\ msZero = 0 /\ muteGuardMs = 0
  /\ env = <<"zero">> /\ inQueue = 0
  /\ gainTableIdx = 0 /\ micGainIdx = MidLevel /\ lowLevelSignal = 0
  /\ pc = "idle" /\ blk = 1 /\ lastMicVol = 0

\* A later WebRtcAgc_Init on the same handle; the level answered last is the
\* application's and stays.
Reinit(s) ==
  LET i == InitFrom(s)
  IN  /\ pc = "idle"
      /\ agcMode' = i[1] /\ minLevel' = i[2] /\ maxAnalog' = i[3]
      /\ maxLevel' = i[4] /\ micVol' = i[5]
      /\ zeroCtrlMax' = i[3] /\ micRef' = i[5]
      /\ lastInMicLevel' = 0 /\ firstCall' = 0
      /\ msTooLow' = 0 /\ msTooHigh' = 0 /\ changeToSlowMode' = 0 /\ slow' = FALSE
      /\ msZero' = 0 /\ muteGuardMs' = 0
      /\ env' = <<"zero">> /\ inQueue' = 0
      /\ gainTableIdx' = 0 /\ micGainIdx' = MidLevel /\ lowLevelSignal' = 0
      /\ UNCHANGED <<zones, pc, blk, lastMicVol, outMicLevel>>
------------------------------------------------------------------------------
(* Frames come in. *)

\* Mutant: the length of the table is taken for its last index.
TargetGainIdxPastEnd(vol) ==
  (GainTableLen * (vol - maxAnalog)) \div (maxLevel - maxAnalog)

\* Target of the slowly varying digital gain, for the part of the level
\* above the analog maximum.
TargetGainIdx(vol) ==
  ((GainTableLen - 1) * (vol - maxAnalog)) \div (maxLevel - maxAnalog)

\* The two checks of AddMic: no division by zero, no index past the table.
AddMicAccepts(vol) ==
  vol > maxAnalog => maxLevel > maxAnalog /\ TargetGainIdx(vol) < GainTableLen

\* One step towards the target; the gain is dropped at once below maxAnalog.
Approach(vol) ==
  IF vol <= maxAnalog THEN 0
  ELSE IF gainTableIdx < TargetGainIdx(vol) THEN gainTableIdx + 1
  ELSE IF gainTableIdx > TargetGainIdx(vol) THEN gainTableIdx - 1
  ELSE gainTableIdx

\* Mutant: the frames are counted, whatever their number.
AddFrameUncapped(vol, f) ==
  /\ AddMicAccepts(vol)
  /\ gainTableIdx' = Approach(vol)
  /\ env' = IF inQueue > 0 THEN <<env[1], f>> ELSE <<f>>
  /\ inQueue' = inQueue + 1

\* The frame goes to the first free of the two places, or over the second.
AddFrame(vol, f) ==
  /\ AddMicAccepts(vol)
  /\ gainTableIdx' = Approach(vol)
  /\ env' = IF inQueue > 0 THEN <<env[1], f>> ELSE <<f>>
  /\ inQueue' = IF inQueue = 0 THEN 1 ELSE 2

AddMic(f) ==
  /\ pc = "idle" /\ agcMode = "kAgcModeAdaptiveAnalog"
  /\ AddFrame(micVol, f)
  /\ UNCHANGED <<setup, micVol, maxLevel, zeroCtrlMax, entry, counters, mute, micRef,
                 micGainIdx, lowLevelSignal, pc, blk, lastMicVol, outMicLevel>>

\* The index falls by one for every sample that clips, and none clips with a
\* gain of one or less.
IndexFloor(i) == IF i > MidLevel THEN MidLevel - 1 ELSE i

VirtualMic(f, micLevelIn) ==
  LET restart == micLevelIn # micRef
      vol == IF restart THEN MidLevel ELSE micVol
      first == IF restart THEN MidLevel ELSE Lower(micVol, maxAnalog)
  IN  /\ pc = "idle" /\ agcMode = "kAgcModeAdaptiveDigital"
      /\ micRef' = micLevelIn
      /\ micVol' = vol
      /\ lowLevelSignal' \in {0, 1}
      /\ micGainIdx' \in IF f = "loud" THEN IndexFloor(first)..first ELSE {first}
      /\ AddFrame(vol, f)
      /\ UNCHANGED <<setup, maxLevel, zeroCtrlMax, entry, counters, mute, pc, blk, lastMicVol,
                     outMicLevel>>
------------------------------------------------------------------------------
(* WebRtcAgc_Process and WebRtcAgc_ProcessAnalog. *)

\* The queue moves up at the end of a successful Process.
NextFrame ==
  /\ env' = IF inQueue > 1 THEN <<env[2]>> ELSE env
  /\ inQueue' = Upper(inQueue - 1, 0)

Analog == \/ agcMode = "kAgcModeAdaptiveAnalog"
          \/ agcMode = "kAgcModeAdaptiveDigital" /\ lowLevelSignal = 0

\* Nothing but the digital part runs; the level is answered unchanged.
ProcessDigitalOnly(in) ==
  /\ pc = "idle" /\ ~Analog
  /\ outMicLevel' = in
  /\ NextFrame
  /\ UNCHANGED <<setup, micVol, maxLevel, zeroCtrlMax, entry, counters, mute, mic, pc,
                 blk, lastMicVol>>

\* Mutant: the digital input gain above the analog maximum is forgotten.
EntryVolNoGain(in) ==
  LET level == IF /\ firstCall = 0 /\ in < TenPercent
                  /\ agcMode = "kAgcModeAdaptiveAnalog" THEN TenPercent ELSE in
      vol == IF firstCall = 0 THEN level ELSE micVol
  IN  CASE level = vol -> vol
        [] level # vol /\ level < MinOutput -> TenPercent
        [] level # vol /\ level >= MinOutput -> IF in = lastInMicLevel THEN vol ELSE level

\* The level after manual changes have been taken care of.
EntryVol(in) ==
  LET level == IF /\ firstCall = 0 /\ in < TenPercent
                  /\ agcMode = "kAgcModeAdaptiveAnalog" THEN TenPercent ELSE in
      vol == IF firstCall = 0 THEN level ELSE micVol
      asked == IF level = maxAnalog /\ vol > maxAnalog THEN vol ELSE level
  IN  CASE asked = vol -> vol
        [] asked # vol /\ asked < MinOutput ->
             \* raised to ten percent, whether or not that is what was there
             TenPercent
        [] asked # vol /\ asked >= MinOutput ->
             IF in = lastInMicLevel THEN vol ELSE asked

\* Entry of ProcessAnalog.  A level outside the range is refused: the frame
\* stays in the queue and nothing changes.
Enter(in) ==
  /\ pc = "idle" /\ Analog
  /\ in \in minLevel..maxAnalog
  /\ firstCall' = 1
  /\ lastInMicLevel' = in
  /\ micVol' = EntryVol(in)
  /\ lastMicVol' = micVol'
  /\ maxLevel' = Upper(maxLevel, micVol')
  /\ pc' = "saturation"
  /\ UNCHANGED <<setup, zeroCtrlMax, counters, mute, mic, queue, blk, outMicLevel>>

\* Mutant: the top of the range is among the values reset to the initial ones.
SaturatedResetsTop ==
  /\ pc = "saturation" /\ env[1] = "loud"
  /\ zeroCtrlMax' = micVol
  /\ micVol' = Lower(UMulShift15(29591, micVol - minLevel) + minLevel, lastMicVol - 2)
  /\ maxLevel' = MaxInit
  /\ msTooHigh' = -HoldOff
  /\ slow' = FALSE /\ changeToSlowMode' = 0
  /\ muteGuardMs' = 0
  /\ pc' = "zero"
  /\ UNCHANGED <<setup, entry, msTooLow, msZero, mic, queue, blk, lastMicVol, outMicLevel>>

\* SaturationCtrl; what it adds up is the subject of module SaturationCtrl.
Saturated ==
  /\ pc = "saturation" /\ env[1] = "loud"
  /\ zeroCtrlMax' = micVol
  /\ micVol' = Lower(UMulShift15(29591, micVol - minLevel) + minLevel, lastMicVol - 2)
  /\ msTooHigh' = -HoldOff
  /\ slow' = FALSE /\ changeToSlowMode' = 0
  /\ muteGuardMs' = 0
  /\ pc' = "zero"
  /\ UNCHANGED <<setup, maxLevel, entry, msTooLow, msZero, mic, queue, blk, lastMicVol,
                 outMicLevel>>

NotSaturated ==
  /\ pc = "saturation"
  /\ pc' = "zero"
  /\ UNCHANGED <<setup, micVol, maxLevel, zeroCtrlMax, entry, counters, mute, mic, queue,
                 blk, lastMicVol, outMicLevel>>

\* ZeroCtrl: after a long silence the level is raised, once, and the guard
\* against further raises starts.
ZeroCtrl(speech) ==
  LET silent == IF env[1] = "zero" THEN msZero + 1 ELSE 0
      fires == silent > ZeroAfter
      midVal == (maxAnalog + minLevel + 1) \div 2
  IN  /\ pc = "zero"
      /\ msZero' = IF fires THEN 0 ELSE silent
      /\ muteGuardMs' = IF fires THEN MuteGuard ELSE Upper(muteGuardMs - 1, 0)
      /\ micVol' = IF fires /\ micVol < midVal
                   THEN Lower((1126 * micVol) \div 1024, zeroCtrlMax) ELSE micVol
      /\ pc' = IF speech THEN "block" ELSE "finish"
      /\ UNCHANGED <<setup, maxLevel, zeroCtrlMax, entry, counters, mic, queue, blk, lastMicVol,
                     outMicLevel>>

Threshold(zone) ==
  IF zone \in {"above2", "below2"} THEN IF slow THEN SlowOuter ELSE Outer
                                   ELSE IF slow THEN SlowInner ELSE Inner

NextBlock == /\ blk' = IF blk = Blocks THEN 1 ELSE blk + 1
             /\ pc' = IF blk = Blocks THEN "finish" ELSE "block"

\* Mutant: every block that is too high starts the count again.
TooHighNoCount(zone) ==
  /\ pc = "block" /\ zone \in {"above", "above2"}
  /\ msTooLow' = 0 /\ changeToSlowMode' = 0 /\ msTooHigh' = 0
  /\ NextBlock
  /\ UNCHANGED <<setup, micVol, maxLevel, zeroCtrlMax, entry, slow, mute, mic, queue, lastMicVol,
                 outMicLevel>>

\* A block measured too high: after enough of them the level is lowered, and
\* the top of the range with it, but not below the analog maximum.
TooHigh(zone) ==
  /\ pc = "block" /\ zone \in {"above", "above2"}
  /\ msTooLow' = 0 /\ changeToSlowMode' = 0
  /\ \/ /\ msTooHigh + 1 <= Threshold(zone)
        /\ msTooHigh' = msTooHigh + 1
        /\ UNCHANGED <<micVol, maxLevel, zeroCtrlMax>>
     \/ /\ msTooHigh + 1 > Threshold(zone)
        /\ msTooHigh' = 0
        /\ maxLevel' = Upper((15 * maxLevel + micVol) \div 16, maxAnalog)
        /\ zeroCtrlMax' = micVol
        /\ micVol' = LET w == IF zone = "above2" THEN 31130 ELSE 31621
                     IN  Lower(UMulShift15(w, micVol - minLevel) + minLevel, lastMicVol - 1)
  /\ NextBlock
  /\ UNCHANGED <<setup, entry, slow, mute, mic, queue, lastMicVol, outMicLevel>>

kSlope1 == <<21793, 12517, 7189, 4129, 2372, 1362, 472, 78>>
kOffset1 == <<25395, 23911, 22206, 20737, 19612, 18805, 17951, 17367>>
kSlope2 == <<2063, 1731, 1452, 1218, 1021, 857, 597, 337>>
kOffset2 == <<18432, 18379, 18290, 18177, 18052, 17920, 17670, 17286>>
CurveLimits == <<1311, 2621, 3932, 5243, 6554, 7864, 12124>>

\* The curve of a normalised volume (Q14), from 1.
ExpCurve(volume) == 1 + Cardinality({i \in 1..7 : volume > CurveLimits[i]})

\* C division rounds towards zero.
TruncDiv(a, b) == IF a < 0 THEN -((-a) \div b) ELSE a \div b

VolNorm == IF MaxInit = minLevel THEN 16384
           ELSE TruncDiv((micVol - minLevel) * 16384, MaxInit - minLevel)

\* The weight (Q14) by which a too low level is raised.
Weight(zone) ==
  LET i == ExpCurve(VolNorm)
  IN  IF zone = "below2" THEN kOffset1[i] - (kSlope1[i] * VolNorm) \div 8192
                         ELSE kOffset2[i] - (kSlope2[i] * VolNorm) \div 8192

\* Mutant: no guard against an increment of zero.
TooLowNoStep(zone) ==
  /\ pc = "block" /\ zone \in {"below", "below2"}
  /\ msTooHigh' = 0 /\ changeToSlowMode' = 0
  /\ \/ /\ msTooLow + 1 <= Threshold(zone)
        /\ msTooLow' = msTooLow + 1
        /\ UNCHANGED micVol
     \/ /\ msTooLow + 1 > Threshold(zone)
        /\ msTooLow' = 0
        /\ micVol' = UMulShift14(Weight(zone), micVol - minLevel) + minLevel
  /\ NextBlock
  /\ UNCHANGED <<setup, maxLevel, zeroCtrlMax, entry, slow, mute, mic, queue, lastMicVol,
                 outMicLevel>>

\* A block measured too low: after enough of them the level is raised, by one
\* or two steps at least.
TooLow(zone) ==
  /\ pc = "block" /\ zone \in {"below", "below2"}
  /\ msTooHigh' = 0 /\ changeToSlowMode' = 0
  /\ \/ /\ msTooLow + 1 <= Threshold(zone)
        /\ msTooLow' = msTooLow + 1
        /\ UNCHANGED micVol
     \/ /\ msTooLow + 1 > Threshold(zone)
        /\ msTooLow' = 0
        /\ micVol' = Upper(UMulShift14(Weight(zone), micVol - minLevel) + minLevel,
                           lastMicVol + IF zone = "below2" THEN 2 ELSE 1)
  /\ NextBlock
  /\ UNCHANGED <<setup, maxLevel, zeroCtrlMax, entry, slow, mute, mic, queue, lastMicVol,
                 outMicLevel>>

\* A block inside the desired range; after enough of them the slow mode.
InRange(zone) ==
  /\ pc = "block" /\ zone = "in"
  /\ msTooHigh' = 0 /\ msTooLow' = 0
  /\ \/ /\ changeToSlowMode > SlowAfter
        /\ slow' = TRUE
        /\ UNCHANGED changeToSlowMode
     \/ /\ changeToSlowMode <= SlowAfter
        /\ changeToSlowMode' = changeToSlowMode + 1
        /\ UNCHANGED slow
  /\ NextBlock
  /\ UNCHANGED <<setup, micVol, maxLevel, zeroCtrlMax, entry, mute, mic, queue, lastMicVol,
                 outMicLevel>>

\* Echo, or the guard after a mute event, cancels a raise; the level is
\* limited, answered, and the queue moves up.
Guarded(echo) == echo \/ (muteGuardMs > 0 /\ muteGuardMs < MuteGuard)

\* Mutant: the lower limit of the output is forgotten.
FinishNoMin(echo) ==
  LET vol == IF Guarded(echo) THEN Lower(micVol, lastMicVol) ELSE micVol
  IN  /\ pc = "finish"
      /\ micVol' = Lower(vol, maxLevel)
      /\ outMicLevel' = Lower(micVol', maxAnalog)
      /\ NextFrame
      /\ pc' = "idle" /\ lastMicVol' = 0
      /\ UNCHANGED <<setup, maxLevel, zeroCtrlMax, entry, counters, mute, mic, blk>>

Finish(echo) ==
  LET vol == IF Guarded(echo) THEN Lower(micVol, lastMicVol) ELSE micVol
  IN  /\ pc = "finish"
      /\ micVol' = IF vol > maxLevel THEN maxLevel ELSE Upper(vol, MinOutput)
      /\ outMicLevel' = Lower(micVol', maxAnalog)
      /\ NextFrame
      /\ pc' = "idle" /\ lastMicVol' = 0
      /\ UNCHANGED <<setup, maxLevel, zeroCtrlMax, entry, counters, mute, mic, blk>>
------------------------------------------------------------------------------
\* The application feeds back the answered level, or sets one of its own; the
\* virtual microphone answers for itself.
InLevels == {outMicLevel}
            \cup (IF agcMode = "kAgcModeAdaptiveDigital" THEN {micGainIdx} ELSE {})
            \cup (IF agcMode # "kAgcModeAdaptiveDigital" /\ UserMoves THEN UserLevels ELSE {})

ProcessStep ==
  \/ \E in \in InLevels : ProcessDigitalOnly(in)
  \/ \E in \in InLevels : Enter(in)
  \/ Saturated \/ NotSaturated
  \/ \E speech \in Speech : ZeroCtrl(speech)
  \/ \E zone \in zones : TooHigh(zone) \/ TooLow(zone) \/ InRange(zone)
  \/ \E echo \in Echo : Finish(echo)

FrameStep ==
  \/ \E f \in Frames : AddMic(f)
  \/ \E f \in Frames, l \in UserLevels : VirtualMic(f, l)

Next == (\E s \in Setups : Reinit(s)) \/ FrameStep \/ ProcessStep

Spec == Init /\ [][Next]_vars

\* A handle that is left alone and whose application goes on calling Process.
RunningSpec == Init /\ [][FrameStep \/ ProcessStep]_vars /\ WF_vars(ProcessStep)
------------------------------------------------------------------------------
(* Properties. *)

\* Ranges of the fields: the queue of AddMic holds two frames at most, the
\* gain index stays in its table, the two timers of ZeroCtrl in their periods.
TypeOK ==
  /\ agcMode \in AgcModes /\ minLevel \in Nat /\ maxAnalog \in Nat
  /\ micVol \in Int /\ maxLevel \in Nat /\ zeroCtrlMax \in Int
  /\ lastInMicLevel \in Nat /\ firstCall \in {0, 1} /\ slow \in BOOLEAN
  /\ msTooLow \in Nat /\ msTooHigh \in Int /\ changeToSlowMode \in Nat
  /\ msZero \in 0..ZeroAfter /\ muteGuardMs \in 0..MuteGuard
  /\ inQueue \in 0..2 /\ Len(env) = Upper(inQueue, 1)
  /\ \A i \in DOMAIN env : env[i] \in {"zero", "normal", "loud"}
  /\ gainTableIdx \in 0..(GainTableLen - 1)
  /\ pc \in {"idle", "saturation", "zero", "block", "finish"} /\ blk \in 1..Blocks

\* Between two calls the level is inside the range that Process promises, the
\* level answered too, and the top of the range, which also carries the
\* digital gain, has only come down towards the analog maximum.
LevelInRange ==
  /\ maxAnalog <= maxLevel /\ maxLevel <= MaxInit
  /\ pc = "idle" => MinOutput <= micVol /\ micVol <= maxLevel
  /\ pc = "idle" /\ firstCall = 1 /\ agcMode = "kAgcModeAdaptiveAnalog"
       => MinOutput <= outMicLevel /\ outMicLevel <= maxAnalog

\* The comment in AddMic: maxLevel is never below micVol, so that the digital
\* gain never divides by zero and never leaves its table.
DigitalGainInTable == pc = "idle" => AddMicAccepts(micVol)

\* The top of the range is only raised by WebRtcAgc_Init: nobody gets above
\* it by hand, and lowering it to avoid oscillation is never undone.
TopNeverRises ==
  [][maxLevel' > maxLevel => maxLevel' = MaxInit' /\ firstCall' = 0]_vars

\* An application that sets what it was told keeps what the handle asked
\* for, the part above the analog maximum included.
FeedbackKeepsLevel ==
  [][/\ pc = "idle" /\ pc' = "saturation" /\ firstCall = 1
     /\ agcMode = "kAgcModeAdaptiveAnalog" /\ lastInMicLevel' = outMicLevel
     => micVol' = micVol]_vars

\* A level outside the range is refused, call after call.
Accepted == outMicLevel \in minLevel..maxAnalog

\* Speech that stays too low brings the level to the top of the range, by
\* steps that never vanish, and it stays there.
TooLowReachesTop ==
  Accepted /\ zones \subseteq {"below", "below2"} => <>[](pc = "idle" => micVol = maxLevel)

\* Speech that stays too high brings the level to the lowest output and the
\* top of the range to the analog maximum.
TooHighReachesBottom ==
  Accepted /\ zones \subseteq {"above", "above2"} =>
    <>[](pc = "idle" => micVol = MinOutput /\ maxLevel = maxAnalog)
==============================================================================
