------------------------ MODULE SaturationCtrlProofs ------------------------
(* The accumulator of WebRtcAgc_SaturationCtrl, whatever its frames add.    *)
EXTENDS SaturationCtrl, TLAPS

\* What a 16-bit conversion returns.
LEMMA Int16Range ==
  ASSUME NEW n \in Int
  PROVE  Int16(n) \in Int /\ Lowest <= Int16(n) /\ Int16(n) <= 32767
BY DEF Int16, Lowest

\* A number that fits in 16 bits is converted to itself.
LEMMA Int16Fits ==
  ASSUME NEW n \in Int, Lowest <= n, n <= 32767
  PROVE  Int16(n) = n
<1>1. n + 32768 \in Nat /\ n + 32768 < 65536
  BY DEF Lowest
<1>2. ASSUME NEW k \in Nat, k < 65536 PROVE k % 65536 = k
  BY <1>2
<1>3. (n + 32768) % 65536 = n + 32768
  BY <1>1, <1>2
<1> QED
  BY <1>3 DEF Int16

\* The decay takes a sum no further from zero than it was, and one unit below
\* it at most for a negative sum.
LEMMA DecayRange ==
  ASSUME NEW n \in Int, Lowest <= n, n <= Limit
  PROVE  Decay(n) \in Int /\ Lowest <= Decay(n) /\ Decay(n) <= Limit
<1> DEFINE q == (n * 32440) \div 32768
<1>1. q \in Int /\ -32768 <= q /\ q <= 25000
  <2>1. n * 32440 \in Int /\ n * 32440 <= 25000 * 32768 /\ n * 32440 >= (-32768) * 32768
    BY DEF Lowest, Limit
  <2>2. ASSUME NEW k \in Int, k <= 25000 * 32768, k >= (-32768) * 32768
        PROVE  k \div 32768 \in Int /\ k \div 32768 <= 25000 /\ k \div 32768 >= (-32768)
    BY <2>2
  <2> QED
    BY <2>1, <2>2
<1> HIDE DEF q
<1>2. Int16(q) = q
  <2>1. q \in Int /\ Lowest <= q /\ q <= 32767
    BY <1>1 DEF Lowest
  <2> QED
    BY <2>1, Int16Fits
<1>3. Decay(n) = Int16(q)
  BY DEF Decay, q
<1> QED
  BY <1>1, <1>2, <1>3 DEF Lowest, Limit

\* What a frame adds is at most ten times the loudest envelope.
LEMMA SumsRange ==
  ASSUME NEW c \in Sums
  PROVE  c \in Nat /\ c <= 10240
<1>1. c \in Contributions
  BY SumsAssumption
<1>2. PICK k \in 0..Subframes : c \in (k * Loud)..(k * Loudest)
  BY <1>1 DEF Contributions
<1>3. k \in Int /\ 0 <= k /\ k <= 10 /\ c \in (k * 876)..(k * 1024)
  BY <1>2 DEF Subframes, Loud, Loudest
<1>4. c \in Int /\ k * 876 <= c /\ c <= k * 1024
  BY <1>3
<1> QED
  BY <1>3, <1>4

\* The two invariants are inductive together: only a sum that starts at
\* Limit or less cannot pass the threshold without a contribution.
IInv == TypeOK /\ SaturatedNeedsLoud

LEMMA NextIInv == IInv /\ [Next]_vars => IInv'
<1> SUFFICES ASSUME IInv, [Next]_vars
             PROVE  IInv'
  OBVIOUS
<1>1. CASE Next
  <2>1. PICK c \in Sums : /\ kind' = Kind(c)
                          /\ over' = (envSum + c > Limit)
                          /\ Frame(Int16(envSum + c))
                          /\ CountStreak
    BY <1>1 DEF Next
  <2>2. c \in Nat /\ envSum \in Int /\ Lowest <= envSum /\ envSum <= Limit
    BY SumsRange DEF IInv, TypeOK
  <2> DEFINE sum == Int16(envSum + c)
  <2>3. sum \in Int /\ Lowest <= sum /\ sum <= 32767
    BY <2>2, Int16Range
  <2>4. sum = envSum \/ kind' # "quiet"
    <3>1. CASE c = 0
      BY <3>1, <2>2, Int16Fits DEF Lowest, Limit
    <3>2. CASE c # 0
      BY <3>2, <2>1 DEF Kind
    <3> QED
      BY <3>1, <3>2
  <2>5. \/ sum > Limit /\ saturated' = TRUE /\ envSum' = Decay(0)
        \/ sum <= Limit /\ saturated' = FALSE /\ envSum' = Decay(sum)
    BY <2>1 DEF Frame
  <2> HIDE DEF sum
  <2>6. envSum' \in Int /\ Lowest <= envSum' /\ envSum' <= Limit
    <3>1. CASE sum > Limit /\ saturated' = TRUE /\ envSum' = Decay(0)
      <4>1. 0 \in Int /\ Lowest <= 0 /\ 0 <= Limit
        BY DEF Lowest, Limit
      <4> QED
        BY <3>1, <4>1, DecayRange
    <3>2. CASE sum <= Limit /\ saturated' = FALSE /\ envSum' = Decay(sum)
      <4>1. sum \in Int /\ Lowest <= sum /\ sum <= Limit /\ envSum' = Decay(sum)
        BY <3>2, <2>3
      <4> QED
        BY <4>1, DecayRange
    <3> QED
      BY <2>5, <3>1, <3>2, Zenon
  <2>7. saturated' \in BOOLEAN /\ (saturated' => kind' # "quiet")
    <3>1. sum > Limit => kind' # "quiet"
      BY <2>2, <2>3, <2>4 DEF Lowest, Limit
    <3> QED
      BY <3>1, <2>5, Zenon
  <2>8. over' \in BOOLEAN
    BY <2>1
  <2>9. kind' \in {"quiet", "loud", "full"}
    BY <2>1 DEF Kind
  <2>10. streak' \in 0..(Patience + 1)
    BY <2>1 DEF IInv, TypeOK, CountStreak, Patience
  <2> QED
    BY <2>6, <2>7, <2>8, <2>9, <2>10 DEF IInv, TypeOK, SaturatedNeedsLoud
<1>2. CASE UNCHANGED vars
  BY <1>2 DEF vars, IInv, TypeOK, SaturatedNeedsLoud
<1> QED
  BY <1>1, <1>2

LEMMA IInvAlways == Spec => []IInv
<1>1. Init => IInv
  <2> SUFFICES ASSUME Init PROVE IInv
    OBVIOUS
  <2>1. envSum \in Int /\ Lowest <= envSum /\ envSum <= Limit /\ streak \in 0..(Patience + 1)
    BY DEF Init, Lowest, Limit, Patience
  <2>2. saturated \in BOOLEAN /\ over \in BOOLEAN /\ kind = "quiet" /\ ~saturated
    BY Zenon DEF Init
  <2>3. kind \in {"quiet", "loud", "full"}
    BY <2>2
  <2>4. SaturatedNeedsLoud
    BY <2>2, Zenon DEF SaturatedNeedsLoud
  <2>5. TypeOK
    BY <2>1, <2>2, <2>3 DEF TypeOK
  <2> QED
    BY <2>4, <2>5 DEF IInv
<1> QED
  BY <1>1, NextIInv, PTL DEF Spec

\* The sum that WebRtcAgc_SaturationCtrl keeps is a 16-bit number and never
\* above the threshold, whatever wrapped on the way.
THEOREM SumStaysBelow == Spec => []TypeOK
<1>1. IInv => TypeOK
  BY DEF IInv
<1> QED
  BY <1>1, IInvAlways, PTL

\* WebRtcAgc_SaturationCtrl never reports a frame without a loud subframe,
\* whatever came before.
THEOREM OnlyLoudFramesReported == Spec => []SaturatedNeedsLoud
<1>1. IInv => SaturatedNeedsLoud
  BY DEF IInv
<1> QED
  BY <1>1, IInvAlways, PTL

\* Within the limits of the sum the decay is the shifted product itself.
LEMMA DecayValue ==
  ASSUME NEW n \in Int, Lowest <= n, n <= Limit
  PROVE  Decay(n) = (n * 32440) \div 32768
<1> DEFINE q == (n * 32440) \div 32768
<1>1. q \in Int /\ Lowest <= q /\ q <= 32767
  BY DEF Lowest, Limit
<1> HIDE DEF q
<1>2. Int16(q) = q
  BY <1>1, Int16Fits
<1> QED
  BY <1>2 DEF Decay, q

\* A sum that passes the largest 16-bit number comes back from the other end.
LEMMA Int16Wraps ==
  ASSUME NEW n \in Int, 32768 <= n, n <= 65535
  PROVE  Int16(n) = n - 65536
<1>1. n + 32768 - 65536 \in Nat /\ n + 32768 - 65536 < 65536
  OBVIOUS
<1>2. ASSUME NEW k \in Int, k - 65536 \in Nat, k - 65536 < 65536
      PROVE  k % 65536 = k - 65536
  BY <1>2
<1>3. (n + 32768) % 65536 = n + 32768 - 65536
  BY <1>1, <1>2
<1> QED
  BY <1>3 DEF Int16

\* How far the sum has climbed after so many unreported full-scale frames: at
\* least as far as from the lowest number there is. The sixth frame passes
\* the threshold, and is reported unless it wraps.
Climbing ==
  \/ streak = 0
  \/ streak = 1 /\ envSum >= -22313
  \/ streak = 2 /\ envSum >= -11963
  \/ streak = 3 /\ envSum >= -1716
  \/ streak = 4 /\ envSum >= 8428
  \/ streak = 5 /\ envSum >= 18471

\* The six frames after a wrap, which leaves the sum so low that the next one
\* to pass the threshold cannot wrap.
Wrapped ==
  \/ streak <= 6 /\ -32440 <= envSum /\ envSum <= -29993
  \/ streak <= 7 /\ -21988 <= envSum /\ envSum <= -19556
  \/ streak <= 8 /\ -11641 <= envSum /\ envSum <= -9223
  \/ streak <= 9 /\ -1397 <= envSum /\ envSum <= 1006
  \/ streak <= 10 /\ 8744 <= envSum /\ envSum <= 11133
  \/ streak <= 11 /\ 18784 <= envSum /\ envSum <= 21159

StreakInv == Climbing \/ Wrapped

\* A full-scale frame that goes unreported takes the sum one stage further.
LEMMA FullFrameClimbs ==
  ASSUME TypeOK, StreakInv, NEW sum \in Int, sum <= Limit, NEW c \in 10230..10240,
         sum = Int16(envSum + c), envSum' = Decay(sum), streak' = streak + 1
  PROVE  StreakInv'
<1>1. envSum \in Int /\ Lowest <= envSum /\ envSum <= Limit /\ streak \in Nat
  BY DEF TypeOK
<1>2. CASE envSum + c <= 32767
  <2>1. sum = envSum + c
    BY <1>1, <1>2, Int16Fits DEF Lowest
  <2>2. envSum' = ((envSum + c) * 32440) \div 32768
    BY <1>1, <2>1, DecayValue DEF Lowest
  <2>3. envSum + c <= 25000
    BY <2>1 DEF Limit
  <2>4. CASE Climbing
    <3>1. Climbing'
      BY <1>1, <2>2, <2>3, <2>4 DEF Climbing, Lowest
    <3> QED
      BY <3>1 DEF StreakInv
  <2>5. CASE Wrapped
    <3>1. Wrapped'
      BY <1>1, <2>2, <2>3, <2>5 DEF Wrapped
    <3> QED
      BY <3>1 DEF StreakInv
  <2> QED
    BY <2>4, <2>5 DEF StreakInv
<1>3. CASE envSum + c >= 32768
  <2>1. sum = envSum + c - 65536
    BY <1>1, <1>3, Int16Wraps DEF Limit
  <2>2. -32768 <= sum /\ sum <= -30296
    BY <1>1, <1>3, <2>1 DEF Limit
  <2>3. envSum' = (sum * 32440) \div 32768
    BY <2>2, DecayValue DEF Lowest
  <2>4. -32440 <= envSum' /\ envSum' <= -29993
    BY <2>2, <2>3
  <2>5. streak <= 5
    BY <1>1, <1>3 DEF StreakInv, Climbing, Wrapped
  <2>6. Wrapped'
    BY <1>1, <2>4, <2>5 DEF Wrapped
  <2> QED
    BY <2>6 DEF StreakInv
<1> QED
  BY <1>1, <1>2, <1>3

LEMMA NextStreak == TypeOK /\ StreakInv /\ [Next]_vars => StreakInv'
<1> SUFFICES ASSUME TypeOK, StreakInv, [Next]_vars
             PROVE  StreakInv'
  OBVIOUS
<1>1. CASE Next
  <2>1. PICK c \in Sums : /\ kind' = Kind(c)
                          /\ Frame(Int16(envSum + c))
                          /\ CountStreak
    BY <1>1 DEF Next
  <2>2. streak \in Nat /\ streak <= 11 /\ envSum \in Int /\ c \in Nat /\ c <= 10240
    BY SumsRange DEF TypeOK, StreakInv, Climbing, Wrapped
  <2>3. CASE streak' = 0
    BY <2>3 DEF StreakInv, Climbing
  <2>4. CASE streak' # 0
    <3>1. kind' = "full" /\ ~saturated' /\ streak' = streak + 1
      BY <2>1, <2>2, <2>4 DEF CountStreak, Patience
    <3>2. c \in 10230..10240
      BY <2>1, <2>2, <3>1 DEF Kind, Subframes, FullScale
    <3> DEFINE sum == Int16(envSum + c)
    <3>3. sum <= Limit /\ envSum' = Decay(sum)
      BY <2>1, <3>1 DEF Frame
    <3>4. sum \in Int
      BY <2>2, Int16Range
    <3>5. sum = Int16(envSum + c)
      OBVIOUS
    <3> HIDE DEF sum
    <3> QED
      BY <3>1, <3>2, <3>3, <3>4, <3>5, FullFrameClimbs
  <2> QED
    BY <2>3, <2>4
<1>2. CASE UNCHANGED vars
  BY <1>2 DEF vars, StreakInv, Climbing, Wrapped
<1> QED
  BY <1>1, <1>2

\* WebRtcAgc_SaturationCtrl lets at most eleven full-scale frames in a row go
\* unreported, also when the 16-bit sum wraps in the middle of them: the wrap
\* costs six frames and cannot happen twice.
THEOREM FullScaleWithinTwelve == Spec => []ReportedInTime
<1>1. Init => StreakInv
  BY DEF Init, StreakInv, Climbing
<1>2. StreakInv /\ TypeOK => ReportedInTime
  BY DEF StreakInv, Climbing, Wrapped, ReportedInTime, Patience, TypeOK
<1>3. IInv => TypeOK
  BY DEF IInv
<1> QED
  BY <1>1, <1>2, <1>3, NextStreak, IInvAlways, PTL DEF Spec
==============================================================================
