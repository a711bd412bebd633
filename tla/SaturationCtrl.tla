--------------------------- MODULE SaturationCtrl ---------------------------
(***************************************************************************)
(* WebRtcAgc_SaturationCtrl (digital_agc/analog_agc.c): the 16-bit         *)
(* accumulator that decides whether the recorded signal is saturated.      *)
(* Each of the ten subframes of a frame whose envelope, scaled to at most  *)
(* 1024, is above 875 is added; a sum above 25000 reports saturation and   *)
(* starts again; the sum decays by 1% per frame.                           *)
(*                                                                         *)
(* The ten envelopes of a frame are abstracted to what they add together.  *)
(* The frames that an instance considers are given by what they add, the   *)
(* constant Sums; the proofs are about any Sums, also about all there are. *)
(***************************************************************************)
EXTENDS Integers

CONSTANTS Sums        \* what a frame may add

Subframes == 10       \* kNumSubframes
Loud == 876           \* the lowest scaled envelope that is added
FullScale == 1023     \* that of a peak of 32767: 32767 * 32767 >> 20
Loudest == 1024       \* that of a peak of -32768: 32768 * 32768 >> 20
Limit == 25000        \* a sum above it is a saturation
Lowest == -32768      \* of an int16_t
Patience == 11        \* full-scale frames that may go unreported in a row

\* What the loud subframes of a frame add: n of them, each with an envelope of
\* its own, add any number between n times the lowest and n times the highest.
Contributions == UNION {(n * Loud)..(n * Loudest) : n \in 0..Subframes}

ASSUME SumsAssumption == Sums \subseteq Contributions

VARIABLES envSum,     \* int16_t
          saturated,  \* what the last frame was found to be
          kind,       \* of the last frame: without a loud subframe, loud, at full scale
          over,       \* did it bring the sum, counted without wrap, above 25000?
          streak      \* how many of the last frames were at full scale and not reported

vars == <<envSum, saturated, kind, over, streak>>

Init == /\ envSum = 0 /\ saturated = FALSE /\ kind = "quiet" /\ over = FALSE
        /\ streak = 0

\* Conversion to int16_t.
Int16(n) == ((n + 32768) % 65536) - 32768

\* Mutant: the decay shifts by 16.
DecayHalf(sum) == Int16((sum * 32440) \div 65536)

\* (int16_t)((envSum * 32440) >> 15)
Decay(sum) == Int16((sum * 32440) \div 32768)

\* Mutant: the sum is not reset when it has been reported.
FrameNoReset(sum) ==
  /\ saturated' = (sum > Limit)
  /\ envSum' = Decay(sum)

\* Mutant: the local saturated is not set to zero before the check.
FrameKeepsFlag(sum) ==
  /\ saturated' = (saturated \/ sum > Limit)
  /\ envSum' = Decay(IF sum > Limit THEN 0 ELSE sum)

\* The threshold, the reset and the decay.
Frame(sum) ==
  \/ sum > Limit /\ saturated' = TRUE /\ envSum' = Decay(0)
  \/ sum <= Limit /\ saturated' = FALSE /\ envSum' = Decay(sum)

\* A frame is at full scale when it adds at least what ten subframes do that
\* all reach 32767: every frame whose subframes reach 32767 or -32768 is.
Kind(c) == CASE c = 0 -> "quiet"
             [] c >= Subframes * FullScale -> "full"
             [] OTHER -> "loud"

\* Counts the full-scale frames that go unreported, up to one too many.
CountStreak ==
  streak' = IF kind' # "full" \/ saturated' THEN 0
            ELSE IF streak <= Patience THEN streak + 1 ELSE streak

Next == \E c \in Sums : /\ kind' = Kind(c)
                        /\ over' = (envSum + c > Limit)
                        /\ Frame(Int16(envSum + c))
                        /\ CountStreak

Spec == Init /\ [][Next]_vars
------------------------------------------------------------------------------
(* Properties. *)

\* Between frames the sum is a 16-bit number below the threshold.
TypeOK ==
  /\ envSum \in Int /\ Lowest <= envSum /\ envSum <= Limit
  /\ saturated \in BOOLEAN /\ over \in BOOLEAN
  /\ kind \in {"quiet", "loud", "full"}
  /\ streak \in 0..(Patience + 1)

\* SaturationCtrl reports saturation only at a frame that is itself loud,
\* never as an echo of earlier ones.
SaturatedNeedsLoud == saturated => kind # "quiet"

\* A signal at full scale is reported within twelve frames, 120 ms, from
\* whatever state of the accumulator, a sum that has just wrapped included.
ReportedInTime == streak <= Patience

\* "Check if the signal is saturated": a sum above the threshold is reported
\* at the frame that brings it there.
NoSaturationMissed == over => saturated
==============================================================================
