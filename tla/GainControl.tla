----------------------------- MODULE GainControl -----------------------------
(***************************************************************************)
(* gain_control_impl_webrtc.cc: GainControlImpl, the front of the legacy   *)
(* AGC, called by threads that change settings, by the capture and render  *)
(* threads, and by the audio processing module that (re)initialises it.    *)
(*                                                                         *)
(* Two recursive locks: crit_render_, always taken first, and              *)
(* crit_capture_, under which every field is read and written.  A setter   *)
(* is two critical sections: it writes its field under crit_capture_ alone *)
(* and lets go, then takes both locks and calls Configure() or             *)
(* Initialize(), which read the fields again.  What happens between the    *)
(* two is the subject of this module.                                      *)
(*                                                                         *)
(* A handle (GainController with its LegacyAgc) is what it was last        *)
(* initialised and configured with, and its capture level.  What the AGC   *)
(* inside computes is the subject of module LegacyAgc; here it answers     *)
(* any level that LegacyAgc guarantees.                                    *)
(***************************************************************************)
EXTENDS Integers, Sequences, FiniteSets

CONSTANTS Control,       \* threads that call the settings API and Initialize
          Audio,         \* capture and render threads
          NoThread,      \* owner of a free lock
          Field,         \* target_level_dbfs_, compression_gain_db_, limiter_enabled_
          Value,         \* values of the configuration fields, in range
          Default,       \* the value WebRtcAgc_Init gives a field
          Limits,        \* pairs <<minimum, maximum>> the API accepts
          DefaultLimits, \* the pair of the constructor, <<0, 255>>
          Level,         \* levels passed to set_stream_analog_level()
          Formats,       \* pairs <<channels, sample rate>> of the audio
          DigitalMax,    \* upper level of a handle in adaptive digital mode
          MaxCalls       \* bound: how many calls each thread makes

Thread == Control \cup Audio
Mode == {"kAdaptiveAnalog", "kAdaptiveDigital", "kFixedDigital"}
Config == [Field -> Value]
DefaultConfig == [f \in Field |-> Default]
AudioOps == {"ProcessRenderAudio", "AnalyzeCaptureAudio", "ProcessCaptureAudio",
             "set_stream_analog_level"}
ControlOps == Field \cup {"set_analog_level_limits", "Initialize", "Enable", "set_mode"}

ASSUME ThreadAssumption == NoThread \notin Thread
ASSUME FieldAssumption ==
  Field \subseteq {"target_level_dbfs_", "compression_gain_db_", "limiter_enabled_"}
ASSUME BoundAssumption == MaxCalls \in [Thread -> Nat]
ASSUME ValueAssumption == Default \in Value
ASSUME FormatAssumption == Formats \subseteq (Nat \ {0}) \X Nat
ASSUME DigitalAssumption == DigitalMax \in Nat
ASSUME LimitsAssumption ==
  DefaultLimits \in Limits /\ \A l \in Limits : l \in Nat \X Nat /\ l[1] <= l[2]

VARIABLES enabled_, mode_, limits, config,
          analog_capture_level_, was_analog_level_set_, stream_is_saturated_,
          num_proc_channels_, sample_rate_hz_,
          gain_controllers_,   \* per channel: what its handle was set up with
          capture_level_,      \* per channel: the level of its GainController
          render, capture,  \* owners of crit_render_ and crit_capture_
          op, arg,          \* the call each thread is in, and its argument
          pc,               \* how far the call has come
          fmt,              \* num_proc_channels_local, sample_rate_hz_local
          snap, idx,        \* Configure(): the local config, the next handle
          apm,              \* format the audio module last initialised with
          calls             \* calls each thread has made

settings == <<enabled_, mode_, limits, config>>
stream == <<analog_capture_level_, was_analog_level_set_, stream_is_saturated_>>
format == <<num_proc_channels_, sample_rate_hz_>>
handles == <<gain_controllers_, capture_level_>>
locks == <<render, capture>>
locals == <<fmt, snap, idx>>
vars == <<settings, stream, format, handles, locks, op, arg, pc, locals,
          apm, calls>>

\* The constructor, and the first Initialize() of the audio module, which the
\* RTC_DCHECKs on num_proc_channels_ require before any other call.
Init ==
  /\ enabled_ = FALSE
  /\ mode_ = "kAdaptiveAnalog"
  /\ limits = DefaultLimits
  /\ config = DefaultConfig
  /\ analog_capture_level_ = 0
  /\ was_analog_level_set_ = FALSE
  /\ stream_is_saturated_ = FALSE
  /\ apm \in Formats
  /\ num_proc_channels_ = apm[1]
  /\ sample_rate_hz_ = apm[2]
  /\ gain_controllers_ = << >>
  /\ capture_level_ = << >>
  /\ render = NoThread /\ capture = NoThread
  /\ op = [t \in Thread |-> "none"]
  /\ arg = [t \in Thread |-> 0]
  /\ pc = [t \in Thread |-> "idle"]
  /\ fmt = [t \in Thread |-> <<0, 0>>]
  /\ snap = [t \in Thread |-> DefaultConfig]
  /\ idx = [t \in Thread |-> 1]
  /\ calls = [t \in Thread |-> 0]
------------------------------------------------------------------------------
(* The handles. *)

\* WebRtcAgc_Init: the levels are fixed in adaptive digital mode; the
\* configuration is the default one; an empty range is reported as an error
\* after everything has been set up.
HandleLimits(l, m) == IF m = "kAdaptiveDigital" THEN <<0, DigitalMax>> ELSE l

Handle == [limits : Nat \X Nat, mode : Mode, rate : Nat, config : Config, error : BOOLEAN]

NewHandle(rate) ==
  LET l == HandleLimits(limits, mode_)
  IN  [limits |-> l, mode |-> mode_, rate |-> rate, config |-> DefaultConfig,
       error |-> l[1] >= l[2]]

\* Samples of a 10 ms band of audio at this rate (split above 16 kHz).
Samples(rate) == IF rate = 8000 THEN 80 ELSE 160

\* AddMic, VirtualMic and Process refuse a frame of the wrong length.
WrongLength(h) == Samples(h.rate) # Samples(apm[2])

\* WebRtcAgc_Process refuses, in the adaptive modes, a level outside the limits.
Refuses(h, level) ==
  \/ WrongLength(h)
  \/ h.mode # "kFixedDigital" /\ ~(level \in h.limits[1]..h.limits[2])

\* The levels WebRtcAgc_Process may answer: LegacyAgc!LevelInRange.
Answers(h, level) == IF h.mode = "kFixedDigital" THEN {level}
                                                 ELSE h.limits[1]..h.limits[2]

\* Mutant: analog_capture_level_ is not reset to 0 before the sum.
SumLevelsNoReset(levels) ==
  LET sum[i \in 0..Len(levels)] == IF i = 0 THEN analog_capture_level_
                                           ELSE sum[i - 1] + levels[i]
  IN  sum[Len(levels)]

\* The sum of the handles' capture levels.
SumLevels(levels) ==
  LET sum[i \in 0..Len(levels)] == IF i = 0 THEN 0 ELSE sum[i - 1] + levels[i]
  IN  sum[Len(levels)]
------------------------------------------------------------------------------
(* Calls and locks. *)

Goto(t, label) == pc' = [pc EXCEPT ![t] = label]

TwoLocks(t) == op[t] \in ControlOps

\* The call returns: the CritScopes release whatever the thread holds, and the
\* locals are gone.
Return(t) ==
  /\ pc' = [pc EXCEPT ![t] = "idle"]
  /\ op' = [op EXCEPT ![t] = "none"]
  /\ capture' = NoThread
  /\ render' = IF TwoLocks(t) THEN NoThread ELSE render
  /\ arg' = [arg EXCEPT ![t] = 0]
  /\ fmt' = [fmt EXCEPT ![t] = <<0, 0>>]
  /\ snap' = [snap EXCEPT ![t] = DefaultConfig]
  /\ idx' = [idx EXCEPT ![t] = 1]
  /\ UNCHANGED calls

Begin(t, o, a, label) ==
  /\ pc[t] = "idle"
  /\ calls[t] < MaxCalls[t]
  /\ calls' = [calls EXCEPT ![t] = @ + 1]
  /\ op' = [op EXCEPT ![t] = o]
  /\ arg' = [arg EXCEPT ![t] = a]
  /\ Goto(t, label)
  /\ UNCHANGED <<settings, stream, format, handles, locks, locals, apm>>

\* Arguments out of range return kBadParameterError before anything happens.
CallSetter(t) == \E f \in Field, v \in Value : Begin(t, f, v, "write")
CallLimits(t) == \E l \in Limits : Begin(t, "set_analog_level_limits", l, "write")
CallInitialize(t) == \E f \in Formats : Begin(t, "Initialize", f, "render")
CallEnable(t) == \E b \in BOOLEAN : Begin(t, "Enable", b, "render")
CallMode(t) == \E m \in Mode : Begin(t, "set_mode", m, "render")
CallLevel(t) == \E l \in Level : Begin(t, "set_stream_analog_level", l, "capture")
CallFrame(t) == \E o \in AudioOps \ {"set_stream_analog_level"} :
                   Begin(t, o, 0, "capture")

LockRender(t) ==
  /\ pc[t] = "render"
  /\ render \in {NoThread, t}
  /\ render' = t
  /\ Goto(t, "capture")
  /\ UNCHANGED <<settings, stream, format, handles, capture, op, arg,
                 locals, apm, calls>>

LockCapture(t) ==
  /\ pc[t] \in {"write", "capture"}
  /\ capture \in {NoThread, t}
  /\ capture' = t
  /\ Goto(t, IF pc[t] = "write" THEN "writing" ELSE "body")
  /\ UNCHANGED <<settings, stream, format, handles, render, op, arg,
                 locals, apm, calls>>
------------------------------------------------------------------------------
(* The first critical section of the setters. *)

\* Mutant: Configure() is called inside the scope of crit_capture_.
WriteFieldInScope(t) ==
  /\ pc[t] = "writing" /\ op[t] \in Field
  /\ config' = [config EXCEPT ![op[t]] = arg[t]]
  /\ Goto(t, "render")
  /\ UNCHANGED <<enabled_, mode_, limits, stream, format, handles, locks,
                 op, arg, locals, apm, calls>>

\* set_target_level_dbfs, set_compression_gain_db, enable_limiter
WriteField(t) ==
  /\ pc[t] = "writing" /\ op[t] \in Field
  /\ config' = [config EXCEPT ![op[t]] = arg[t]]
  /\ capture' = NoThread
  /\ Goto(t, "render")
  /\ UNCHANGED <<enabled_, mode_, limits, stream, format, handles, render,
                 op, arg, locals, apm, calls>>

\* Mutant: the locals are never filled in.
WriteLimitsOnly(t) ==
  /\ pc[t] = "writing" /\ op[t] = "set_analog_level_limits"
  /\ limits' = arg[t]
  /\ capture' = NoThread
  /\ Goto(t, "render")
  /\ UNCHANGED <<enabled_, mode_, config, stream, format, handles, render,
                 op, arg, locals, apm, calls>>

\* set_analog_level_limits
WriteLimits(t) ==
  /\ pc[t] = "writing" /\ op[t] = "set_analog_level_limits"
  /\ limits' = arg[t]
  /\ fmt' = [fmt EXCEPT ![t] = <<num_proc_channels_, sample_rate_hz_>>]
  /\ capture' = NoThread
  /\ Goto(t, "render")
  /\ UNCHANGED <<enabled_, mode_, config, stream, format, handles, render,
                 op, arg, snap, idx, apm, calls>>
------------------------------------------------------------------------------
(* The sections under both locks. *)

\* The arguments of the call to Initialize() that this call makes.
InitArgs(t) == CASE op[t] = "Initialize" -> arg[t]
                 [] op[t] = "set_analog_level_limits" -> fmt[t]
                 [] OTHER -> <<num_proc_channels_, sample_rate_hz_>>

\* Mutant: enabling does not initialise the handles.
EnableOnly(t) ==
  /\ pc[t] = "body" /\ op[t] = "Enable"
  /\ enabled_' = arg[t]
  /\ Return(t)
  /\ UNCHANGED <<mode_, limits, config, stream, format, handles, apm>>

EnableBody(t) ==
  /\ pc[t] = "body" /\ op[t] = "Enable"
  /\ enabled_' = arg[t]
  /\ IF arg[t] /\ ~enabled_ THEN Goto(t, "init") /\ UNCHANGED <<locks, op, arg, locals, calls>>
                            ELSE Return(t)
  /\ UNCHANGED <<mode_, limits, config, stream, format, handles, apm>>

ModeBody(t) ==
  /\ pc[t] = "body" /\ op[t] = "set_mode"
  /\ mode_' = arg[t]
  /\ Goto(t, "init")
  /\ UNCHANGED <<enabled_, limits, config, stream, format, handles, locks,
                 op, arg, locals, apm, calls>>

Initialize(t) ==
  /\ \/ pc[t] = "init"
     \/ pc[t] = "body" /\ op[t] \in {"Initialize", "set_analog_level_limits"}
  /\ num_proc_channels_' = InitArgs(t)[1]
  /\ sample_rate_hz_' = InitArgs(t)[2]
  /\ apm' = IF op[t] = "Initialize" THEN arg[t] ELSE apm
  /\ \/ /\ ~enabled_
        /\ Return(t)
        /\ UNCHANGED handles
     \/ /\ enabled_
        /\ gain_controllers_' = [i \in 1..num_proc_channels_' |-> NewHandle(sample_rate_hz_')]
        /\ capture_level_' = [i \in 1..num_proc_channels_' |-> analog_capture_level_]
        /\ Goto(t, "configure")
        /\ UNCHANGED <<locks, op, arg, locals, calls>>
  /\ UNCHANGED <<settings, stream>>

\* Configure(): the local config is filled once, then pushed to each handle.
ConfigureRead(t) ==
  /\ \/ pc[t] = "configure"
     \/ pc[t] = "body" /\ op[t] \in Field
  /\ snap' = [snap EXCEPT ![t] = config]
  /\ idx' = [idx EXCEPT ![t] = 1]
  /\ Goto(t, "push")
  /\ UNCHANGED <<settings, stream, format, handles, locks, op, arg, fmt, apm,
                 calls>>

\* WebRtcAgc_set_config on one handle: it accepts every value the setters accept.
ConfigurePush(t) ==
  /\ pc[t] = "push"
  /\ idx[t] <= Len(gain_controllers_)
  /\ gain_controllers_' = [gain_controllers_ EXCEPT ![idx[t]].config = snap[t]]
  /\ idx' = [idx EXCEPT ![t] = @ + 1]
  /\ UNCHANGED <<settings, stream, format, capture_level_, locks, op, arg, pc, fmt, snap,
                 apm, calls>>

ConfigureReturn(t) ==
  /\ pc[t] = "push"
  /\ idx[t] > Len(gain_controllers_)
  /\ Return(t)
  /\ UNCHANGED <<settings, stream, format, handles, apm>>
------------------------------------------------------------------------------
(* The stream, under crit_capture_ alone. *)

\* The flag is set before the level is checked.
SetStreamAnalogLevel(t) ==
  /\ pc[t] = "body" /\ op[t] = "set_stream_analog_level"
  /\ was_analog_level_set_' = TRUE
  /\ analog_capture_level_' = IF arg[t] \in limits[1]..limits[2]
                              THEN arg[t] ELSE analog_capture_level_
  /\ Return(t)
  /\ UNCHANGED <<settings, stream_is_saturated_, format, handles, apm>>

\* AddFarend only feeds the far-end VAD of the handles.
ProcessRenderAudio(t) ==
  /\ pc[t] = "body" /\ op[t] = "ProcessRenderAudio"
  /\ Return(t)
  /\ UNCHANGED <<settings, stream, format, handles, apm>>

\* The loop over the handles stops at the first error; every handle it
\* reached has its capture level set, the failing one too.
AnalyzeCaptureAudio(t) ==
  /\ pc[t] = "body" /\ op[t] = "AnalyzeCaptureAudio"
  /\ \/ /\ ~enabled_ \/ mode_ = "kFixedDigital"
        /\ UNCHANGED capture_level_
     \/ /\ enabled_ /\ mode_ # "kFixedDigital"
        /\ \E out \in [DOMAIN gain_controllers_ -> 0..DigitalMax] :
             capture_level_' =
               [i \in DOMAIN gain_controllers_ |->
                 IF \E j \in 1..(i - 1) : WrongLength(gain_controllers_[j])
                 THEN capture_level_[i]
                 ELSE IF mode_ = "kAdaptiveAnalog" THEN analog_capture_level_ ELSE out[i]]
  /\ Return(t)
  /\ UNCHANGED <<settings, stream, format, gain_controllers_, apm>>

\* Handles before the first one that refuses have a new level; an error
\* leaves the analog level and the flag as they are.
ProcessCaptureAudio(t) ==
  /\ pc[t] = "body" /\ op[t] = "ProcessCaptureAudio"
  /\ \/ /\ ~enabled_ \/ (mode_ = "kAdaptiveAnalog" /\ ~was_analog_level_set_)
        /\ UNCHANGED <<stream, capture_level_>>
     \/ /\ enabled_ /\ (mode_ = "kAdaptiveAnalog" => was_analog_level_set_)
        /\ LET n == Len(gain_controllers_)
               Fails(i) == Refuses(gain_controllers_[i], capture_level_[i])
               Out(i) == Answers(gain_controllers_[i], capture_level_[i])
               Stops(i) == \E j \in 1..i : Fails(j)
           IN  \E out \in [1..n -> UNION {Out(i) : i \in 1..n}], saturated \in BOOLEAN :
                 /\ \A i \in 1..n : out[i] \in Out(i)
                 /\ mode_ = "kFixedDigital" \/ Stops(1) => ~saturated
                 /\ stream_is_saturated_' = saturated
                 /\ capture_level_' =
                      [i \in 1..n |-> IF Stops(i) THEN capture_level_[i] ELSE out[i]]
                 /\ was_analog_level_set_' = (was_analog_level_set_ /\ Stops(n))
                 /\ analog_capture_level_' =
                      IF Stops(n) \/ mode_ # "kAdaptiveAnalog" THEN analog_capture_level_
                      ELSE SumLevels(capture_level_') \div num_proc_channels_
  /\ Return(t)
  /\ UNCHANGED <<settings, format, gain_controllers_, apm>>
------------------------------------------------------------------------------
Step(t) ==
  \/ LockRender(t) \/ LockCapture(t)
  \/ WriteField(t) \/ WriteLimits(t)
  \/ EnableBody(t) \/ ModeBody(t) \/ Initialize(t)
  \/ ConfigureRead(t) \/ ConfigurePush(t) \/ ConfigureReturn(t)
  \/ SetStreamAnalogLevel(t) \/ ProcessRenderAudio(t)
  \/ AnalyzeCaptureAudio(t) \/ ProcessCaptureAudio(t)

CallControl(t) ==
  \/ CallSetter(t) \/ CallLimits(t) \/ CallInitialize(t) \/ CallEnable(t) \/ CallMode(t)

CallAudio(t) == CallLevel(t) \/ CallFrame(t)

Next == \/ \E t \in Control : CallControl(t)
        \/ \E t \in Audio : CallAudio(t)
        \/ \E t \in Thread : Step(t)

Spec == Init /\ [][Next]_vars
------------------------------------------------------------------------------
(* Properties. *)

Labels == {"idle", "write", "writing", "render", "capture", "body", "init", "configure",
           "push"}

\* Ranges of the fields, the handles and the calls in progress.
TypeOK ==
  /\ enabled_ \in BOOLEAN /\ mode_ \in Mode /\ limits \in Limits /\ config \in Config
  /\ analog_capture_level_ \in Nat
  /\ was_analog_level_set_ \in BOOLEAN /\ stream_is_saturated_ \in BOOLEAN
  /\ <<num_proc_channels_, sample_rate_hz_>> \in Formats
  /\ gain_controllers_ \in Seq(Handle)
  /\ capture_level_ \in [DOMAIN gain_controllers_ -> Nat]
  /\ render \in Thread \cup {NoThread} /\ capture \in Thread \cup {NoThread}
  /\ op \in [Thread -> ControlOps \cup AudioOps \cup {"none"}]
  /\ pc \in [Thread -> Labels]
  /\ \A t \in Thread : pc[t] = "push" => idx[t] \in 1..(Len(gain_controllers_) + 1)
  /\ apm \in Formats

\* A setter that has written its field and has not yet reached the handles.
Underway(t, o) == op[t] = o /\ pc[t] \in {"render", "capture", "body"}

\* Thread t is in Configure() and has not come to handle i.
ToPush(t, i) == pc[t] = "configure" \/ (pc[t] = "push" /\ idx[t] <= i)

\* Whatever the order in which setters, Initialize() and Enable() interleave,
\* an enabled gain control has one handle per channel, in the current mode
\* and rate, and a handle lags behind a setting only while the call that
\* changed this very setting has still to reach it: no update is lost
\* between the two critical sections of a setter.
HandlesFollowSettings ==
  enabled_ /\ (\A t \in Thread : pc[t] # "init") =>
    /\ Len(gain_controllers_) = num_proc_channels_
    /\ \A i \in 1..num_proc_channels_ :
         LET h == gain_controllers_[i]
         IN  /\ h.mode = mode_ /\ h.rate = sample_rate_hz_
             /\ \/ h.limits = HandleLimits(limits, mode_)
                \/ \E t \in Thread : Underway(t, "set_analog_level_limits")
             /\ \A f \in Field : \/ h.config[f] = config[f]
                                \/ \E t \in Thread : Underway(t, f) \/ ToPush(t, i)

\* The level reported to the application only ever moves to a level inside
\* the limits in force: those of the API for set_stream_analog_level(),
\* those of the handles for the average of their answers.
LevelStaysInLimits ==
  [][analog_capture_level_' # analog_capture_level_ =>
       \/ analog_capture_level_' \in limits[1]..limits[2]
       \/ \E i \in DOMAIN gain_controllers_ :
            LET l == gain_controllers_[i].limits IN analog_capture_level_' \in l[1]..l[2]
    ]_vars

\* Thread t waits for a lock that another thread holds.
Blocked(t) ==
  \/ pc[t] = "render" /\ render \notin {NoThread, t}
  \/ pc[t] \in {"write", "capture"} /\ capture \notin {NoThread, t}

\* The threads inside a call never all wait for each other, whatever locks
\* they hold and re-enter: crit_render_ is always taken before crit_capture_.
NoDeadlock ==
  (\E t \in Thread : pc[t] # "idle") => \E t \in Thread : pc[t] # "idle" /\ ~Blocked(t)

\* RTC_DCHECK_EQ(audio->num_channels(), *num_proc_channels_) in the two
\* capture functions: the audio has as many channels as the gain control.
ChannelsMatchAudio ==
  \A t \in Audio :
    /\ pc[t] = "body" /\ op[t] \in {"AnalyzeCaptureAudio", "ProcessCaptureAudio"}
    /\ enabled_
    => apm[1] = num_proc_channels_
==============================================================================
