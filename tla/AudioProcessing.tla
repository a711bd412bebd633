--------------------------- MODULE AudioProcessing ---------------------------
(***************************************************************************)
(* audio_processing_impl.cc and gain_control_impl.cc: what the program     *)
(* agc_spec drives.  One thread, one channel, 8 kHz: AudioProcessingImpl   *)
(* owns a GainControlImpl, which owns the GainController of the moment.    *)
(*                                                                         *)
(* ProcessStream takes 20 ms and treats it as two halves of 10 ms, each    *)
(* analysed and then processed in place.  The pointer gain_controller_ is  *)
(* not initialised by the constructor: until the first Initialize() of an  *)
(* enabled gain control it is null or wild, and using it breaks the        *)
(* program.                                                                *)
(***************************************************************************)
EXTENDS Integers

CONSTANTS Field,          \* the fields that Configure() pushes
          Value, Default, \* their values, in range, and the constructor's
          Limits,         \* pairs set_analog_level_limits() accepts
          DefaultLimits,  \* <<0, 255>>
          Level,          \* arguments of set_stream_analog_level()
          DigitalMax,     \* upper level of a handle in adaptive digital mode
          MaxLeaks        \* bound: GainControllers dropped without being freed

Mode == {"kAdaptiveAnalog", "kAdaptiveDigital", "kFixedDigital"}
Error == {"kNoError", "kUnspecifiedError", "kUnsupportedFunctionError", "kNullPointerError",
          "kBadParameterError", "kNotEnabledError"}
Halves == {1, 2}
Untouched == [h \in Halves |-> "in"]

ASSUME LimitsAssumption ==
  DefaultLimits \in Limits /\ \A l \in Limits : l \in Nat \X Nat /\ l[1] <= l[2]
ASSUME ValueAssumption ==
  Default \in Value /\ Level \subseteq Nat /\ DigitalMax \in Nat /\ MaxLeaks \in Nat

VARIABLES alive,             \* does the AudioProcessingImpl exist?
          enabled_, mode_, limits, config, analog_capture_level_, was_analog_level_set_,
          stream_is_saturated_,
          gain_controller_,  \* "null", "wild" or "live"
          handle,            \* what a live one was set up with, and its level
          leaked,            \* how many live ones have been overwritten
          data,              \* of each half: "in", after VirtualMic "mic", "out"
          half, pc, error,   \* the call of ProcessStream, and its result
          broken             \* a null or wild pointer has been used

settings == <<enabled_, mode_, limits, config, analog_capture_level_, was_analog_level_set_>>
controller == <<gain_controller_, handle, leaked>>
call == <<data, half, pc, error>>
vars == <<alive, settings, stream_is_saturated_, controller, call, broken>>

Idle == alive /\ pc = "idle" /\ ~broken

Constructed ==
  /\ enabled_ = FALSE /\ mode_ = "kFixedDigital" /\ limits = DefaultLimits
  /\ config = [f \in Field |-> Default]
  /\ analog_capture_level_ = 0 /\ was_analog_level_set_ = FALSE
  /\ stream_is_saturated_ = FALSE

HandleLimits(l, m) == IF m = "kAdaptiveDigital" THEN <<0, DigitalMax>> ELSE l

NewHandle == [limits |-> HandleLimits(limits, mode_), mode |-> mode_, config |-> config,
              level |-> analog_capture_level_]

\* AudioProcessing::Create: Initialize(1, 8000) of a gain control that is not
\* enabled sets the format and nothing else.
Init ==
  /\ alive = TRUE /\ Constructed
  /\ gain_controller_ \in {"null", "wild"} /\ handle = NewHandle /\ leaked = 0
  /\ data = Untouched /\ half = 1 /\ pc = "idle" /\ error = "kNoError"
  /\ broken = FALSE

Create ==
  /\ ~alive /\ ~broken
  /\ alive' = TRUE
  /\ enabled_' = FALSE /\ mode_' = "kFixedDigital" /\ limits' = DefaultLimits
  /\ config' = [f \in Field |-> Default]
  /\ analog_capture_level_' = 0 /\ was_analog_level_set_' = FALSE
  /\ stream_is_saturated_' = FALSE
  /\ gain_controller_' \in {"null", "wild"}
  /\ handle' = NewHandle'
  /\ UNCHANGED <<leaked, call, broken>>

\* ~GainControlImpl: null is checked for.
Destory ==
  /\ Idle
  /\ alive' = FALSE
  /\ broken' = (gain_controller_ = "wild")
  /\ gain_controller_' = "null"
  /\ UNCHANGED <<settings, stream_is_saturated_, handle, leaked, call>>
------------------------------------------------------------------------------
(* The settings. *)

\* Mutant: a controller that exists is kept as it is.
InitializeOnce ==
  \/ /\ ~enabled_' \/ gain_controller_ = "live"
     /\ UNCHANGED controller
  \/ /\ enabled_' /\ gain_controller_ # "live"
     /\ gain_controller_' = "live"
     /\ handle' = NewHandle'
     /\ UNCHANGED leaked

\* Initialize(), which ends with Configure(): the controller in use is
\* replaced by a new one, and not freed.
Initialize ==
  \/ /\ ~enabled_'
     /\ UNCHANGED controller
  \/ /\ enabled_'
     /\ gain_controller_' = "live"
     /\ handle' = NewHandle'
     /\ leaked' = IF gain_controller_ = "live" THEN leaked + 1 ELSE leaked
     /\ leaked' <= MaxLeaks

Enable(b) ==
  /\ Idle
  /\ enabled_' = b
  /\ UNCHANGED <<mode_, limits, config, analog_capture_level_, was_analog_level_set_>>
  /\ IF b /\ ~enabled_ THEN Initialize ELSE UNCHANGED controller
  /\ UNCHANGED <<alive, stream_is_saturated_, call, broken>>

set_mode(m) ==
  /\ Idle
  /\ mode_' = m
  /\ UNCHANGED <<enabled_, limits, config, analog_capture_level_, was_analog_level_set_>>
  /\ Initialize
  /\ UNCHANGED <<alive, stream_is_saturated_, call, broken>>

set_analog_level_limits(l) ==
  /\ Idle
  /\ limits' = l
  /\ UNCHANGED <<enabled_, mode_, config, analog_capture_level_, was_analog_level_set_>>
  /\ Initialize
  /\ UNCHANGED <<alive, stream_is_saturated_, call, broken>>

\* set_target_level_dbfs, set_compression_gain_db and enable_limiter call
\* Configure(), which does not ask whether there is a controller.
set_field(f, v) ==
  /\ Idle
  /\ config' = [config EXCEPT ![f] = v]
  /\ broken' = (gain_controller_ # "live")
  /\ handle' = [handle EXCEPT !.config = config']
  /\ UNCHANGED <<alive, enabled_, mode_, limits, analog_capture_level_,
                 was_analog_level_set_, stream_is_saturated_, gain_controller_, leaked, call>>

\* The flag is set before the level is checked.
set_stream_analog_level(l) ==
  /\ Idle
  /\ was_analog_level_set_' = TRUE
  /\ analog_capture_level_' = IF l \in limits[1]..limits[2] THEN l ELSE analog_capture_level_
  /\ UNCHANGED <<alive, enabled_, mode_, limits, config, stream_is_saturated_, controller,
                 call, broken>>
------------------------------------------------------------------------------
(* The stream. *)

\* ProcessStream: a null pointer or a length other than 160 is refused.
ProcessStream(good) ==
  /\ Idle
  /\ data' = Untouched /\ half' = 1
  /\ IF good THEN pc' = "analyze" /\ error' = "kNoError"
             ELSE pc' = "idle" /\ error' \in {"kNullPointerError", "kBadParameterError"}
  /\ UNCHANGED <<alive, settings, stream_is_saturated_, controller, broken>>

\* The first error ends the call.
Fail(e) == pc' = "idle" /\ error' = e /\ UNCHANGED half

\* Mutant: the level of the virtual microphone is not kept.
AnalyzeNoLevel ==
  /\ pc = "analyze"
  /\ \/ /\ enabled_ /\ mode_ = "kAdaptiveAnalog"
        /\ Fail("kNotEnabledError")
        /\ UNCHANGED <<data, handle>>
     \/ /\ enabled_ /\ mode_ = "kAdaptiveDigital"
        /\ data' = [data EXCEPT ![half] = "mic"]
        /\ pc' = "process" /\ UNCHANGED <<half, error, handle>>
     \/ /\ ~enabled_ \/ mode_ = "kFixedDigital"
        /\ pc' = "process" /\ UNCHANGED <<half, error, data, handle>>
  /\ UNCHANGED <<alive, settings, stream_is_saturated_, gain_controller_, leaked, broken>>

\* AnalyzeCaptureAudio: VirtualMic applies its gain to the half, in place, and
\* answers a level of the range it was initialised with.  It refuses no half
\* of 80 samples at 8 kHz.
AnalyzeCaptureAudio ==
  /\ pc = "analyze"
  /\ \/ /\ enabled_ /\ mode_ = "kAdaptiveAnalog"
        /\ Fail("kNotEnabledError")
        /\ UNCHANGED <<data, handle>>
     \/ /\ enabled_ /\ mode_ = "kAdaptiveDigital"
        /\ data' = [data EXCEPT ![half] = "mic"]
        /\ \E level_out \in 0..DigitalMax : handle' = [handle EXCEPT !.level = level_out]
        /\ pc' = "process" /\ UNCHANGED <<half, error>>
     \/ /\ ~enabled_ \/ mode_ = "kFixedDigital"
        /\ pc' = "process" /\ UNCHANGED <<half, error, data, handle>>
  /\ UNCHANGED <<alive, settings, stream_is_saturated_, gain_controller_, leaked, broken>>

\* On to the second half, or out of the loop.
NextHalf ==
  IF half = 1 THEN half' = 2 /\ pc' = "analyze" /\ UNCHANGED error
              ELSE pc' = "idle" /\ UNCHANGED <<half, error>>

\* WebRtcAgc_Process: the digital gain is applied first, then a level outside
\* the range is refused in the adaptive modes.
Refused == handle.mode # "kFixedDigital" /\ ~(handle.level \in handle.limits[1]..handle.limits[2])

ProcessCaptureAudio ==
  /\ pc = "process"
  /\ IF ~enabled_
     THEN NextHalf /\ UNCHANGED <<data, handle, stream_is_saturated_>>
     ELSE IF mode_ = "kAdaptiveAnalog"
     THEN /\ Fail("kUnsupportedFunctionError")
          /\ UNCHANGED <<data, handle, stream_is_saturated_>>
     ELSE /\ data' = [data EXCEPT ![half] = "out"]
          /\ IF Refused
             THEN /\ Fail("kUnspecifiedError")
                  /\ stream_is_saturated_' = FALSE
                  /\ UNCHANGED handle
             ELSE /\ NextHalf
                  /\ \E out \in IF mode_ = "kFixedDigital" THEN {handle.level}
                                ELSE handle.limits[1]..handle.limits[2] :
                       handle' = [handle EXCEPT !.level = out]
                  /\ stream_is_saturated_' \in
                       IF mode_ = "kFixedDigital" THEN {FALSE} ELSE BOOLEAN
  /\ UNCHANGED <<alive, settings, gain_controller_, leaked, broken>>
------------------------------------------------------------------------------
Next ==
  \/ Create \/ Destory
  \/ \E b \in BOOLEAN : Enable(b)
  \/ \E m \in Mode : set_mode(m)
  \/ \E l \in Limits : set_analog_level_limits(l)
  \/ \E f \in Field, v \in Value : set_field(f, v)
  \/ \E l \in Level : set_stream_analog_level(l)
  \/ \E good \in BOOLEAN : ProcessStream(good)
  \/ AnalyzeCaptureAudio \/ ProcessCaptureAudio

Spec == Init /\ [][Next]_vars
------------------------------------------------------------------------------
(* Properties. *)

\* Ranges of the fields, of the controller and of the call in progress, whose
\* loop never leaves the two halves.
TypeOK ==
  /\ alive \in BOOLEAN /\ enabled_ \in BOOLEAN /\ mode_ \in Mode /\ limits \in Limits
  /\ config \in [Field -> Value] /\ analog_capture_level_ \in Nat
  /\ was_analog_level_set_ \in BOOLEAN /\ stream_is_saturated_ \in BOOLEAN
  /\ gain_controller_ \in {"null", "wild", "live"} /\ leaked \in 0..MaxLeaks
  /\ handle \in [limits : Nat \X Nat, mode : Mode, config : [Field -> Value], level : Nat]
  /\ data \in [Halves -> {"in", "mic", "out"}] /\ half \in Halves
  /\ pc \in {"idle", "analyze", "process"} /\ error \in Error /\ broken \in BOOLEAN

\* An enabled gain control has a controller, set up with the settings of the
\* moment: also after settings were changed while it was disabled, when
\* Initialize() returns early and Configure() reaches the old controller.
ControllerFollowsSettings ==
  alive /\ enabled_ /\ ~broken =>
    /\ gain_controller_ = "live"
    /\ handle.mode = mode_ /\ handle.config = config
    /\ handle.limits = HandleLimits(limits, mode_)

\* ProcessStream treats the 20 ms as a whole: it returns kNoError with both
\* halves processed, or with neither touched when disabled, and it returns an
\* error with neither touched, although it stops at the first error.
WholeOrNothing ==
  [][pc # "idle" /\ pc' = "idle" =>
       \A h \in Halves : data'[h] = IF error' = "kNoError" /\ enabled_ THEN "out" ELSE "in"]_vars
==============================================================================
