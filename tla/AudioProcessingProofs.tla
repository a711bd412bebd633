------------------------ MODULE AudioProcessingProofs ------------------------
(***************************************************************************)
(* The gain control of agc_spec, for every set of fields, values, limits   *)
(* and levels.  The two properties are proved together: that 20 ms are     *)
(* processed as a whole needs the controller to be the one of the current  *)
(* settings, since its range decides whether a level is refused.           *)
(***************************************************************************)
EXTENDS AudioProcessing, TLAPS

Digital == enabled_ /\ mode_ = "kAdaptiveDigital"

\* What a half holds before, between and after the two functions.
After == IF enabled_ THEN "out" ELSE "in"
Between == IF Digital THEN "mic" ELSE "in"

Typed ==
  /\ alive \in BOOLEAN /\ enabled_ \in BOOLEAN /\ broken \in BOOLEAN /\ mode_ \in Mode
  /\ half \in {1, 2} /\ pc \in {"idle", "analyze", "process"}
  /\ DOMAIN data = {1, 2} /\ data = [h \in {1, 2} |-> data[h]]
  /\ handle = [limits |-> handle.limits, mode |-> handle.mode, config |-> handle.config,
               level |-> handle.level]

Running == pc # "idle" => alive /\ ~broken /\ error = "kNoError"

Progress ==
  /\ pc # "idle" /\ half = 2 => data[1] = After
  /\ pc # "idle" /\ half = 1 => data[2] = "in"
  /\ pc = "analyze" => data[half] = "in"
  /\ pc = "process" => data[half] = Between
  /\ pc = "process" \/ (pc = "analyze" /\ half = 2) =>
       ~(enabled_ /\ mode_ = "kAdaptiveAnalog")
  /\ pc = "process" /\ Digital => handle.level \in 0..DigitalMax

IInv == Typed /\ Running /\ ControllerFollowsSettings /\ Progress

LEMMA InitIInv == Init => IInv
BY DEF Init, Constructed, NewHandle, Untouched, Halves, IInv, Typed, Mode, Running,
       ControllerFollowsSettings, Progress
------------------------------------------------------------------------------
(* The settings. *)

\* What Initialize() leaves when the gain control is enabled.
Current ==
  /\ gain_controller_ = "live"
  /\ handle.mode = mode_ /\ handle.config = config
  /\ handle.limits = HandleLimits(limits, mode_)

LEMMA InitializeCurrent ==
  ASSUME Typed, Initialize
  PROVE  /\ enabled_' => Current'
         /\ handle' = [limits |-> handle'.limits, mode |-> handle'.mode,
                       config |-> handle'.config, level |-> handle'.level]
<1>1. CASE ~enabled_' /\ UNCHANGED controller
  BY <1>1 DEF Typed, controller
<1>2. CASE /\ gain_controller_' = "live"
           /\ handle' = NewHandle'
  BY <1>2 DEF NewHandle, Current
<1> QED
  BY <1>1, <1>2 DEF Initialize

\* Between two calls of ProcessStream only the controller is at stake.
LEMMA IdleStep ==
  ASSUME Typed', pc' = "idle", ControllerFollowsSettings'
  PROVE  IInv'
BY DEF IInv, Running, Progress

LEMMA EnableStep ==
  ASSUME IInv, NEW b \in BOOLEAN, Enable(b)
  PROVE  IInv'
<1>1. /\ pc' = "idle" /\ alive' = alive /\ alive /\ ~broken /\ broken' = broken
      /\ enabled_' = b /\ UNCHANGED <<mode_, limits, config, half, data>>
  BY DEF Enable, Idle, call
<1>2. CASE b /\ ~enabled_ /\ Initialize
  <2>1. Current'
    BY <1>1, <1>2, InitializeCurrent DEF IInv
  <2>2. Typed'
    BY <1>1, <1>2, InitializeCurrent DEF IInv, Typed
  <2> QED
    BY <1>1, <2>1, <2>2, IdleStep DEF Current, ControllerFollowsSettings
<1>3. CASE ~(b /\ ~enabled_) /\ UNCHANGED controller
  <2>1. Typed'
    BY <1>1, <1>3 DEF IInv, Typed, controller
  <2>2. ControllerFollowsSettings'
    BY <1>1, <1>3 DEF IInv, Typed, ControllerFollowsSettings, controller, HandleLimits
  <2> QED
    BY <1>1, <2>1, <2>2, IdleStep
<1> QED
  BY <1>2, <1>3 DEF Enable

LEMMA ModeStep ==
  ASSUME IInv, NEW m \in Mode, set_mode(m)
  PROVE  IInv'
<1>1. /\ pc' = "idle" /\ alive' = alive /\ broken' = broken /\ mode_' = m
      /\ UNCHANGED <<enabled_, half, data>> /\ Initialize
  BY DEF set_mode, Idle, call
<1>2. Typed'
  BY <1>1, InitializeCurrent DEF IInv, Typed
<1>3. ControllerFollowsSettings'
  BY <1>1, InitializeCurrent DEF IInv, Current, ControllerFollowsSettings
<1> QED
  BY <1>1, <1>2, <1>3, IdleStep

LEMMA LimitsStep ==
  ASSUME IInv, NEW l \in Limits, set_analog_level_limits(l)
  PROVE  IInv'
<1>1. /\ pc' = "idle" /\ alive' = alive /\ broken' = broken
      /\ UNCHANGED <<enabled_, mode_, half, data>> /\ Initialize
  BY DEF set_analog_level_limits, Idle, call
<1>2. Typed'
  BY <1>1, InitializeCurrent DEF IInv, Typed
<1>3. ControllerFollowsSettings'
  BY <1>1, InitializeCurrent DEF IInv, Current, ControllerFollowsSettings
<1> QED
  BY <1>1, <1>2, <1>3, IdleStep

\* Configure() reaches the controller in use, or the program is broken.
LEMMA FieldStep ==
  ASSUME IInv, NEW f \in Field, NEW v \in Value, set_field(f, v)
  PROVE  IInv'
<1>1. /\ pc' = "idle" /\ ~broken /\ UNCHANGED <<alive, enabled_, mode_, limits, half, data>>
      /\ broken' = (gain_controller_ # "live") /\ gain_controller_' = gain_controller_
      /\ handle' = [handle EXCEPT !.config = config']
  BY DEF set_field, Idle, call
<1>2. /\ handle'.config = config' /\ handle'.mode = handle.mode
      /\ handle'.limits = handle.limits /\ handle'.level = handle.level
      /\ handle' = [limits |-> handle'.limits, mode |-> handle'.mode,
                    config |-> handle'.config, level |-> handle'.level]
  BY <1>1 DEF IInv, Typed
<1>3. Typed'
  BY <1>1, <1>2 DEF IInv, Typed
<1>4. ControllerFollowsSettings'
  BY <1>1, <1>2 DEF IInv, ControllerFollowsSettings, HandleLimits
<1> QED
  BY <1>1, <1>3, <1>4, IdleStep

LEMMA LevelStep ==
  ASSUME IInv, NEW l \in Level, set_stream_analog_level(l)
  PROVE  IInv'
<1>1. /\ pc' = "idle"
      /\ UNCHANGED <<alive, enabled_, mode_, limits, config, half, data, broken,
                     gain_controller_, handle>>
  BY DEF set_stream_analog_level, Idle, call, controller
<1>2. Typed' /\ ControllerFollowsSettings'
  BY <1>1 DEF IInv, Typed, ControllerFollowsSettings, HandleLimits
<1> QED
  BY <1>1, <1>2, IdleStep

LEMMA LifeSteps ==
  ASSUME IInv, Create \/ Destory
  PROVE  IInv'
<1>1. CASE Create
  <2>1. /\ pc = "idle" /\ enabled_' = FALSE /\ alive' = TRUE /\ mode_' = "kFixedDigital"
        /\ handle' = NewHandle' /\ UNCHANGED <<pc, half, data, broken>>
    BY <1>1 DEF Create, call, IInv, Running, Typed
  <2>2. Typed'
    BY <2>1 DEF IInv, Typed, Mode, NewHandle
  <2>3. ControllerFollowsSettings'
    BY <2>1 DEF ControllerFollowsSettings
  <2> QED
    BY <2>1, <2>2, <2>3, IdleStep
<1>2. CASE Destory
  <2>1. /\ pc' = "idle" /\ alive' = FALSE /\ broken' = (gain_controller_ = "wild")
        /\ UNCHANGED <<enabled_, mode_, half, data, handle>>
    BY <1>2 DEF Destory, Idle, call, settings
  <2>2. Typed' /\ ControllerFollowsSettings'
    BY <2>1 DEF IInv, Typed, ControllerFollowsSettings
  <2> QED
    BY <2>1, <2>2, IdleStep
<1> QED
  BY <1>1, <1>2
------------------------------------------------------------------------------
(* The stream. *)

\* No step of the stream touches what the controller is compared with, and
\* the level of the handle is not part of it.
LEMMA StreamKeepsController ==
  ASSUME IInv, UNCHANGED <<alive, settings, gain_controller_, broken>>,
         \/ handle' = handle
         \/ \E level : handle' = [handle EXCEPT !.level = level]
  PROVE  /\ ControllerFollowsSettings'
         /\ UNCHANGED <<alive, enabled_, mode_, limits, broken>>
         /\ handle' = [limits |-> handle'.limits, mode |-> handle'.mode,
                       config |-> handle'.config, level |-> handle'.level]
<1>1. /\ UNCHANGED <<enabled_, mode_, limits, config>>
      /\ HandleLimits(limits, mode_)' = HandleLimits(limits, mode_)
  BY DEF settings, HandleLimits
<1>2. /\ handle'.limits = handle.limits /\ handle'.mode = handle.mode
      /\ handle'.config = handle.config
      /\ handle' = [limits |-> handle'.limits, mode |-> handle'.mode,
                    config |-> handle'.config, level |-> handle'.level]
  BY DEF IInv, Typed
<1> QED
  BY <1>1, <1>2 DEF IInv, ControllerFollowsSettings

LEMMA ProcessStreamStep ==
  ASSUME IInv, NEW good \in BOOLEAN, ProcessStream(good)
  PROVE  IInv'
<1>1. /\ pc = "idle" /\ alive /\ ~broken /\ half' = 1
      /\ data' = [h \in {1, 2} |-> "in"]
      /\ UNCHANGED <<alive, settings, gain_controller_, handle, broken>>
  BY DEF ProcessStream, Idle, controller, Untouched, Halves
<1>2. \/ pc' = "analyze" /\ error' = "kNoError"
      \/ pc' = "idle"
  BY DEF ProcessStream
<1>3. /\ ControllerFollowsSettings' /\ UNCHANGED <<enabled_, mode_>>
      /\ handle' = [limits |-> handle'.limits, mode |-> handle'.mode,
                    config |-> handle'.config, level |-> handle'.level]
  BY <1>1, StreamKeepsController
<1>4. Typed'
  BY <1>1, <1>2, <1>3 DEF IInv, Typed
<1>5. Running' /\ Progress'
  BY <1>1, <1>2, <1>3 DEF Running, Progress
<1> QED
  BY <1>3, <1>4, <1>5 DEF IInv

LEMMA AnalyzeStep ==
  ASSUME IInv, AnalyzeCaptureAudio
  PROVE  /\ IInv'
         /\ pc' = "idle" => error' # "kNoError" /\ \A h \in Halves : data'[h] = "in"
<1>1. /\ pc = "analyze" /\ UNCHANGED <<alive, settings, gain_controller_, broken>>
      /\ UNCHANGED half
  BY DEF AnalyzeCaptureAudio, Fail
<1>2. \/ handle' = handle
      \/ \E level : handle' = [handle EXCEPT !.level = level]
  BY DEF AnalyzeCaptureAudio
<1>3. /\ ControllerFollowsSettings' /\ UNCHANGED <<alive, enabled_, mode_, broken>>
      /\ handle' = [limits |-> handle'.limits, mode |-> handle'.mode,
                    config |-> handle'.config, level |-> handle'.level]
  BY <1>1, <1>2, StreamKeepsController
<1>4. CASE /\ enabled_ /\ mode_ = "kAdaptiveAnalog"
           /\ Fail("kNotEnabledError")
           /\ UNCHANGED <<data, handle>>
  <2>1. pc' = "idle" /\ error' = "kNotEnabledError" /\ data' = data
    BY <1>4 DEF Fail
  <2>2. half = 1 /\ data[1] = "in" /\ data[2] = "in"
    BY <1>1, <1>4 DEF IInv, Typed, Progress
  <2>3. Typed'
    BY <1>1, <1>3, <2>1 DEF IInv, Typed
  <2> QED
    BY <1>3, <2>1, <2>2, <2>3, IdleStep DEF Halves
<1>5. CASE /\ enabled_ /\ mode_ = "kAdaptiveDigital"
           /\ data' = [data EXCEPT ![half] = "mic"]
           /\ \E level_out \in 0..DigitalMax : handle' = [handle EXCEPT !.level = level_out]
           /\ pc' = "process" /\ UNCHANGED <<half, error>>
  <2>1. handle'.level \in 0..DigitalMax
    BY <1>5 DEF IInv, Typed
  <2>2. data' = [h \in {1, 2} |-> IF h = half THEN "mic" ELSE data[h]]
    BY <1>5 DEF IInv, Typed
  <2>3. Typed'
    BY <1>1, <1>3, <1>5, <2>2 DEF IInv, Typed
  <2>4. Running'
    BY <1>1, <1>3, <1>5 DEF IInv, Running
  <2>5. Progress'
    BY <1>1, <1>3, <1>5, <2>1, <2>2 DEF IInv, Typed, Progress, Digital, After, Between
  <2> QED
    BY <1>3, <1>5, <2>3, <2>4, <2>5 DEF IInv
<1>6. CASE /\ ~enabled_ \/ mode_ = "kFixedDigital"
           /\ pc' = "process" /\ UNCHANGED <<half, error, data, handle>>
  <2>1. Typed'
    BY <1>1, <1>3, <1>6 DEF IInv, Typed
  <2>2. Running'
    BY <1>1, <1>3, <1>6 DEF IInv, Running
  <2>3. Progress'
    BY <1>1, <1>3, <1>6 DEF IInv, Typed, Progress, Digital, After, Between
  <2> QED
    BY <1>3, <1>6, <2>1, <2>2, <2>3 DEF IInv
<1> QED
  BY <1>4, <1>5, <1>6 DEF AnalyzeCaptureAudio

\* A level that VirtualMic answered is never refused.
LEMMA NeverRefused ==
  ASSUME IInv, pc = "process", enabled_
  PROVE  ~Refused
<1>1. handle.mode = mode_ /\ handle.limits = HandleLimits(limits, mode_)
  BY DEF IInv, Running, ControllerFollowsSettings
<1>2. mode_ # "kAdaptiveAnalog"
  BY DEF IInv, Progress
<1>3. CASE mode_ = "kAdaptiveDigital"
  <2>1. handle.limits = <<0, DigitalMax>> /\ handle.level \in 0..DigitalMax
    BY <1>1, <1>3 DEF IInv, Progress, Digital, HandleLimits
  <2> QED
    BY <2>1 DEF Refused
<1>4. CASE mode_ = "kFixedDigital"
  BY <1>1, <1>4 DEF Refused
<1> QED
  BY <1>2, <1>3, <1>4 DEF IInv, Typed, Mode

LEMMA ProcessStep ==
  ASSUME IInv, ProcessCaptureAudio
  PROVE  /\ IInv'
         /\ pc' = "idle" => error' = "kNoError" /\ \A h \in Halves : data'[h] = After
<1>1. pc = "process" /\ UNCHANGED <<alive, settings, gain_controller_, broken>>
  BY DEF ProcessCaptureAudio
<1>2. /\ NextHalf
      /\ \/ handle' = handle
         \/ \E level : handle' = [handle EXCEPT !.level = level]
      /\ data' = [h \in {1, 2} |-> IF h = half THEN After ELSE data[h]]
  <2>1. CASE ~enabled_
    <3>1. NextHalf /\ UNCHANGED <<data, handle>>
      BY <2>1 DEF ProcessCaptureAudio
    <3>2. data[half] = After
      BY <2>1, <1>1 DEF IInv, Progress, After, Between, Digital
    <3>3. data = [h \in {1, 2} |-> IF h = half THEN After ELSE data[h]]
      BY <3>2 DEF IInv, Typed
    <3> QED
      BY <3>1, <3>3
  <2>2. CASE enabled_
    <3>1. mode_ # "kAdaptiveAnalog" /\ ~Refused
      BY <2>2, <1>1, NeverRefused DEF IInv, Progress
    <3>2. /\ NextHalf /\ data' = [data EXCEPT ![half] = "out"]
          /\ \E level : handle' = [handle EXCEPT !.level = level]
      BY <2>2, <3>1 DEF ProcessCaptureAudio
    <3>3. [data EXCEPT ![half] = "out"] = [h \in {1, 2} |-> IF h = half THEN "out" ELSE data[h]]
      BY DEF IInv, Typed
    <3>4. After = "out"
      BY <2>2 DEF After
    <3> QED
      BY <3>2, <3>3, <3>4
  <2> QED
    BY <2>1, <2>2 DEF IInv, Typed
<1>3. /\ ControllerFollowsSettings' /\ UNCHANGED <<alive, enabled_, mode_, broken>>
      /\ handle' = [limits |-> handle'.limits, mode |-> handle'.mode,
                    config |-> handle'.config, level |-> handle'.level]
  BY <1>1, <1>2, StreamKeepsController
<1>4. After' = After
  BY <1>3 DEF After
<1>5. Typed'
  BY <1>2, <1>3 DEF IInv, Typed, NextHalf
<1>6. CASE half = 1
  <2>1. half' = 2 /\ pc' = "analyze" /\ error' = error
    BY <1>2, <1>6 DEF NextHalf
  <2>2. data'[1] = After /\ data'[2] = "in"
    BY <1>1, <1>2, <1>6 DEF IInv, Progress
  <2>3. ~(enabled_' /\ mode_' = "kAdaptiveAnalog")
    BY <1>1, <1>3 DEF IInv, Progress
  <2>4. Running'
    BY <1>1, <1>3, <2>1 DEF IInv, Running
  <2>5. Progress'
    BY <1>4, <2>1, <2>2, <2>3 DEF Progress
  <2> QED
    BY <1>3, <1>5, <2>1, <2>4, <2>5 DEF IInv
<1>7. CASE half = 2
  <2>1. pc' = "idle" /\ error' = "kNoError"
    BY <1>1, <1>2, <1>7 DEF NextHalf, IInv, Running
  <2>2. data'[1] = After /\ data'[2] = After
    BY <1>1, <1>2, <1>7 DEF IInv, Progress
  <2> QED
    BY <1>3, <1>5, <2>1, <2>2, IdleStep DEF Halves
<1> QED
  BY <1>6, <1>7 DEF IInv, Typed
------------------------------------------------------------------------------
LEMMA NextIInv == IInv /\ [Next]_vars => IInv'
<1> SUFFICES ASSUME IInv, [Next]_vars
             PROVE  IInv'
  OBVIOUS
<1>1. CASE Create \/ Destory
  BY <1>1, LifeSteps
<1>2. CASE \E b \in BOOLEAN : Enable(b)
  BY <1>2, EnableStep
<1>3. CASE \E m \in Mode : set_mode(m)
  BY <1>3, ModeStep
<1>4. CASE \E l \in Limits : set_analog_level_limits(l)
  BY <1>4, LimitsStep
<1>5. CASE \E f \in Field, v \in Value : set_field(f, v)
  BY <1>5, FieldStep
<1>6. CASE \E l \in Level : set_stream_analog_level(l)
  BY <1>6, LevelStep
<1>7. CASE \E good \in BOOLEAN : ProcessStream(good)
  BY <1>7, ProcessStreamStep
<1>8. CASE AnalyzeCaptureAudio \/ ProcessCaptureAudio
  BY <1>8, AnalyzeStep, ProcessStep
<1>9. CASE UNCHANGED vars
  BY <1>9 DEF vars, settings, controller, call, IInv, Typed, Running, Progress, Digital,
              After, Between, ControllerFollowsSettings, HandleLimits
<1> QED
  BY <1>1, <1>2, <1>3, <1>4, <1>5, <1>6, <1>7, <1>8, <1>9 DEF Next

LEMMA IInvAlways == Spec => []IInv
BY InitIInv, NextIInv, PTL DEF Spec

\* GainControlImpl of agc_spec: once enabled, its controller exists and is the
\* one of the current settings, whatever was changed before or while it was
\* disabled.
THEOREM ControllerAlwaysFollows == Spec => []ControllerFollowsSettings
<1>1. IInv => ControllerFollowsSettings
  BY DEF IInv
<1> QED
  BY <1>1, IInvAlways, PTL

\* AudioProcessingImpl::ProcessStream never returns with one half of the
\* caller's samples processed and the other not.
THEOREM StreamWholeOrNothing == Spec => WholeOrNothing
<1> DEFINE Whole == pc # "idle" /\ pc' = "idle" =>
                      \A h \in Halves :
                        data'[h] = IF error' = "kNoError" /\ enabled_ THEN "out" ELSE "in"
<1>1. IInv /\ [Next]_vars => [Whole]_vars
  <2> SUFFICES ASSUME IInv, Next, pc # "idle", pc' = "idle"
               PROVE  \A h \in Halves :
                        data'[h] = IF error' = "kNoError" /\ enabled_ THEN "out" ELSE "in"
    OBVIOUS
  <2>1. AnalyzeCaptureAudio \/ ProcessCaptureAudio
    BY DEF Next, Create, Destory, Enable, set_mode, set_analog_level_limits, set_field,
           set_stream_analog_level, ProcessStream, Idle, call, IInv, Running, Typed
  <2>2. CASE AnalyzeCaptureAudio
    BY <2>2, AnalyzeStep
  <2>3. CASE ProcessCaptureAudio
    BY <2>3, ProcessStep DEF After
  <2> QED
    BY <2>1, <2>2, <2>3
<1> QED
  BY <1>1, IInvAlways, PTL DEF Spec, WholeOrNothing
------------------------------------------------------------------------------
(* Types. *)

\* Every range that a handle can be given consists of natural numbers.
LEMMA HandleLimitsTyped ==
  ASSUME NEW l \in Limits, NEW m \in Mode
  PROVE  HandleLimits(l, m) \in Nat \X Nat
BY LimitsAssumption, ValueAssumption DEF HandleLimits

LEMMA InitializeTyped ==
  ASSUME TypeOK, Initialize, enabled_' \in BOOLEAN, mode_' \in Mode, limits' \in Limits,
         config' \in [Field -> Value], analog_capture_level_' \in Nat
  PROVE  /\ gain_controller_' \in {"null", "wild", "live"} /\ leaked' \in 0..MaxLeaks
         /\ handle' \in [limits : Nat \X Nat, mode : Mode, config : [Field -> Value],
                         level : Nat]
<1>1. CASE ~enabled_' /\ UNCHANGED controller
  BY <1>1 DEF TypeOK, controller
<1>2. CASE enabled_' /\ gain_controller_' = "live" /\ handle' = NewHandle'
           /\ leaked' = (IF gain_controller_ = "live" THEN leaked + 1 ELSE leaked)
           /\ leaked' <= MaxLeaks
  <2>1. HandleLimits(limits', mode_') \in Nat \X Nat
    BY HandleLimitsTyped
  <2>2. NewHandle' = [limits |-> HandleLimits(limits', mode_'), mode |-> mode_',
                      config |-> config', level |-> analog_capture_level_']
    BY DEF NewHandle, HandleLimits
  <2>3. leaked' \in 0..MaxLeaks
    BY <1>2, ValueAssumption DEF TypeOK
  <2> QED
    BY <1>2, <2>1, <2>2, <2>3
<1> QED
  BY <1>1, <1>2 DEF Initialize

\* A level of a range of natural numbers is one.
LEMMA LevelTyped ==
  ASSUME NEW l \in Nat \X Nat, NEW v \in l[1]..l[2]
  PROVE  v \in Nat
OBVIOUS

LEMMA NextTyped == TypeOK /\ [Next]_vars => TypeOK'
<1> SUFFICES ASSUME TypeOK, [Next]_vars
             PROVE  TypeOK'
  OBVIOUS
<1> USE DEF TypeOK
<1>1. CASE Create
  <2>1. HandleLimits(limits', mode_') \in Nat \X Nat
    BY <1>1, HandleLimitsTyped, LimitsAssumption DEF Create, Mode
  <2>2. NewHandle' = [limits |-> HandleLimits(limits', mode_'), mode |-> mode_',
                      config |-> config', level |-> analog_capture_level_']
    BY DEF NewHandle, HandleLimits
  <2> QED
    BY <1>1, <2>1, <2>2, LimitsAssumption, ValueAssumption DEF Create, Mode, call
<1>2. CASE Destory
  BY <1>2 DEF Destory, settings, call
<1>3. ASSUME NEW b \in BOOLEAN, Enable(b) PROVE TypeOK'
  <2>1. CASE b /\ ~enabled_
    BY <1>3, <2>1, InitializeTyped DEF Enable, call
  <2>2. CASE ~(b /\ ~enabled_)
    BY <1>3, <2>2 DEF Enable, call, controller
  <2> QED
    BY <2>1, <2>2
<1>4. ASSUME NEW m \in Mode, set_mode(m) PROVE TypeOK'
  BY <1>4, InitializeTyped DEF set_mode, call
<1>5. ASSUME NEW l \in Limits, set_analog_level_limits(l) PROVE TypeOK'
  BY <1>5, InitializeTyped DEF set_analog_level_limits, call
<1>6. ASSUME NEW f \in Field, NEW v \in Value, set_field(f, v) PROVE TypeOK'
  BY <1>6 DEF set_field, call
<1>7. ASSUME NEW l \in Level, set_stream_analog_level(l) PROVE TypeOK'
  BY <1>7, ValueAssumption DEF set_stream_analog_level, call, controller
<1>8. ASSUME NEW good \in BOOLEAN, ProcessStream(good) PROVE TypeOK'
  BY <1>8 DEF ProcessStream, settings, controller, Untouched, Halves, Error
<1>9. CASE AnalyzeCaptureAudio
  BY <1>9, ValueAssumption DEF AnalyzeCaptureAudio, Fail, settings, Error
<1>10. CASE ProcessCaptureAudio
  <2>1. handle' \in [limits : Nat \X Nat, mode : Mode, config : [Field -> Value], level : Nat]
    <3>1. CASE UNCHANGED handle
      BY <3>1
    <3>2. CASE \E out \in IF mode_ = "kFixedDigital" THEN {handle.level}
                          ELSE handle.limits[1]..handle.limits[2] :
                 handle' = [handle EXCEPT !.level = out]
      <4>1. PICK out : /\ out \in IF mode_ = "kFixedDigital" THEN {handle.level}
                                  ELSE handle.limits[1]..handle.limits[2]
                       /\ handle' = [handle EXCEPT !.level = out]
        BY <3>2
      <4>2. out \in Nat
        BY <4>1, LevelTyped
      <4> QED
        BY <4>1, <4>2
    <3> QED
      BY <1>10, <3>1, <3>2 DEF ProcessCaptureAudio
  <2>2. data' \in [Halves -> {"in", "mic", "out"}] /\ stream_is_saturated_' \in BOOLEAN
    BY <1>10 DEF ProcessCaptureAudio
  <2>3. half' \in Halves /\ pc' \in {"idle", "analyze", "process"} /\ error' \in Error
    BY <1>10 DEF ProcessCaptureAudio, Fail, NextHalf, Halves, Error
  <2> QED
    BY <1>10, <2>1, <2>2, <2>3 DEF ProcessCaptureAudio, settings
<1>11. CASE UNCHANGED vars
  BY <1>11 DEF vars, settings, controller, call
<1> QED
  BY <1>1, <1>2, <1>3, <1>4, <1>5, <1>6, <1>7, <1>8, <1>9, <1>10, <1>11 DEF Next

\* Fields, controller and the loop of ProcessStream stay in their ranges, in
\* any order of calls and for any sets of settings.
THEOREM ProcessingTyped == Spec => []TypeOK
<1>1. Init => TypeOK
  <2> SUFFICES ASSUME Init PROVE TypeOK
    OBVIOUS
  <2>1. HandleLimits(limits, mode_) \in Nat \X Nat
    BY HandleLimitsTyped, LimitsAssumption DEF Init, Constructed, Mode
  <2>2. /\ handle = [limits |-> HandleLimits(limits, mode_), mode |-> mode_,
                     config |-> config, level |-> analog_capture_level_]
        /\ mode_ \in Mode /\ config \in [Field -> Value] /\ analog_capture_level_ \in Nat
    BY ValueAssumption DEF Init, Constructed, NewHandle, Mode
  <2>3. data \in [Halves -> {"in", "mic", "out"}] /\ half \in Halves /\ error \in Error
    BY DEF Init, Untouched, Halves, Error
  <2>4. handle \in [limits : Nat \X Nat, mode : Mode, config : [Field -> Value], level : Nat]
    BY <2>1, <2>2
  <2>5. limits \in Limits /\ leaked \in 0..MaxLeaks
    BY LimitsAssumption, ValueAssumption DEF Init, Constructed
  <2>6. /\ alive \in BOOLEAN /\ enabled_ \in BOOLEAN /\ broken \in BOOLEAN
        /\ was_analog_level_set_ \in BOOLEAN /\ stream_is_saturated_ \in BOOLEAN
        /\ gain_controller_ \in {"null", "wild", "live"}
        /\ pc \in {"idle", "analyze", "process"}
    BY DEF Init, Constructed
  <2> QED
    BY <2>2, <2>3, <2>4, <2>5, <2>6 DEF TypeOK
<1> QED
  BY <1>1, NextTyped, PTL DEF Spec
==============================================================================
