-------------------------- MODULE GainControlProofs --------------------------
(***************************************************************************)
(* GainControl for any number of threads, calls, channels and settings.    *)
(*                                                                         *)
(* HandlesFollowSettings is not inductive alone: while a thread pushes the *)
(* local copy of the configuration to the handles, nobody may write a      *)
(* field, so the argument needs that crit_capture_ has one owner           *)
(* (CaptureInv) and that the copy is the current configuration             *)
(* (SnapFresh).  On top of it, RenderInv says who holds crit_render_, from *)
(* which NoDeadlock follows, and SameLimits that the handles agree on      *)
(* their limits, so that the average of their levels is one of them.       *)
(***************************************************************************)
EXTENDS GainControl, WellFoundedInduction, TLAPS

Ops == ControlOps \cup AudioOps \cup {"none"}
Args == Value \cup Limits \cup Formats \cup BOOLEAN \cup Mode \cup Level \cup {0}

\* Types of the fields the argument reads, and of the calls in progress.
FieldsTyped ==
  /\ enabled_ \in BOOLEAN /\ mode_ \in Mode /\ limits \in Limits /\ config \in Config
  /\ num_proc_channels_ \in Nat \ {0} /\ sample_rate_hz_ \in Nat
  /\ <<num_proc_channels_, sample_rate_hz_>> \in Formats
  /\ gain_controllers_ \in Seq(Handle)

CallsTyped ==
  /\ op \in [Thread -> Ops]
  /\ arg \in [Thread -> Args]
  /\ pc \in [Thread -> Labels]
  /\ fmt \in [Thread -> Nat \X Nat]
  /\ snap \in [Thread -> Config]
  /\ idx \in [Thread -> Nat \ {0}]

\* The argument of a call is of the kind its operation takes.
ArgInv ==
  \A t \in Thread :
    /\ op[t] \in Field => arg[t] \in Value
    /\ op[t] = "Initialize" => arg[t] \in Formats
    /\ op[t] = "set_analog_level_limits" => arg[t] \in Limits
    /\ op[t] = "set_analog_level_limits" /\ pc[t] \in {"render", "capture", "body"}
         => fmt[t] \in Formats
    /\ op[t] = "Enable" => arg[t] \in BOOLEAN
    /\ op[t] = "set_mode" => arg[t] \in Mode

\* Where a call may be.
PlaceInv ==
  \A t \in Thread :
    /\ pc[t] = "init" => op[t] \in {"Enable", "set_mode"}
    /\ pc[t] \in {"write", "writing"} => op[t] \in Field \cup {"set_analog_level_limits"}

\* crit_capture_ is held exactly by the thread inside a critical section.
CaptureInv ==
  \A t \in Thread :
    pc[t] \in {"writing", "body", "init", "configure", "push"} <=> capture = t

\* The local config of Configure() is the current configuration.
SnapFresh == \A t \in Thread : pc[t] = "push" => snap[t] = config

IInv == /\ FieldsTyped /\ CallsTyped /\ ArgInv /\ PlaceInv /\ CaptureInv /\ SnapFresh
        /\ HandlesFollowSettings

\* The operations have different names, and the formats are pairs.
LEMMA Names ==
  /\ \A f \in Field : f \notin {"set_analog_level_limits", "Initialize", "Enable",
                                "set_mode", "none"} \cup AudioOps
  /\ \A f \in Formats : f[1] \in Nat \ {0} /\ f[2] \in Nat /\ f = <<f[1], f[2]>>
                        /\ f \in Nat \X Nat
<1>1. \A f \in Field : f \notin {"set_analog_level_limits", "Initialize", "Enable",
                                "set_mode", "none"} \cup AudioOps
  BY FieldAssumption DEF AudioOps
<1>2. \A f \in Formats : f[1] \in Nat \ {0} /\ f[2] \in Nat /\ f = <<f[1], f[2]>>
                        /\ f \in Nat \X Nat
  BY FormatAssumption
<1> QED
  BY <1>1, <1>2

LEMMA InitIInv == Init => IInv
<1> SUFFICES ASSUME Init
             PROVE  IInv
  OBVIOUS
<1>1. FieldsTyped /\ CallsTyped
  <2>1. enabled_ \in BOOLEAN /\ mode_ \in Mode /\ limits \in Limits /\ config \in Config
    BY ValueAssumption, LimitsAssumption DEF Init, Mode, Config, DefaultConfig
  <2>2. /\ num_proc_channels_ \in Nat \ {0} /\ sample_rate_hz_ \in Nat
        /\ <<num_proc_channels_, sample_rate_hz_>> \in Formats
    BY Names DEF Init
  <2>3. gain_controllers_ \in Seq(Handle)
    BY DEF Init
  <2>4. op \in [Thread -> Ops] /\ arg \in [Thread -> Args] /\ pc \in [Thread -> Labels]
    BY DEF Init, Ops, Args, Labels
  <2>5. fmt \in [Thread -> Nat \X Nat] /\ idx \in [Thread -> Nat \ {0}]
    BY DEF Init
  <2>6. snap \in [Thread -> Config]
    BY ValueAssumption DEF Init, Config, DefaultConfig
  <2> QED
    BY <2>1, <2>2, <2>3, <2>4, <2>5, <2>6 DEF FieldsTyped, CallsTyped
<1>2. ArgInv /\ PlaceInv /\ CaptureInv /\ SnapFresh
  BY Names, ThreadAssumption DEF Init, ArgInv, PlaceInv, CaptureInv, SnapFresh
<1>3. HandlesFollowSettings
  BY DEF Init, HandlesFollowSettings
<1> QED
  BY <1>1, <1>2, <1>3 DEF IInv
------------------------------------------------------------------------------
(* What a step must not do to keep HandlesFollowSettings. *)

\* The settings and the handles stay, and no excuse of a lagging handle is
\* lost: this is all that the calls, the locks and the returns need.
Kept ==
  /\ UNCHANGED <<settings, format, gain_controllers_>>
  /\ (\A s \in Thread : pc'[s] # "init") => \A s \in Thread : pc[s] # "init"
  /\ \A s \in Thread, o \in Field \cup {"set_analog_level_limits"} :
       Underway(s, o) => Underway(s, o)'
  /\ \A s \in Thread, i \in 1..Len(gain_controllers_) : ToPush(s, i) => ToPush(s, i)'

LEMMA KeptFollows ==
  ASSUME HandlesFollowSettings, Kept
  PROVE  HandlesFollowSettings'
<1> SUFFICES ASSUME enabled_', \A s \in Thread : pc'[s] # "init"
             PROVE  /\ Len(gain_controllers_') = num_proc_channels_'
                    /\ \A i \in 1..num_proc_channels_' :
                         LET h == gain_controllers_'[i]
                         IN  /\ h.mode = mode_' /\ h.rate = sample_rate_hz_'
                             /\ \/ h.limits = HandleLimits(limits', mode_')
                                \/ \E t \in Thread : Underway(t, "set_analog_level_limits")'
                             /\ \A f \in Field :
                                  \/ h.config[f] = config'[f]
                                  \/ \E t \in Thread : Underway(t, f)' \/ ToPush(t, i)'
  BY DEF HandlesFollowSettings, HandleLimits
<1>1. /\ enabled_' = enabled_ /\ mode_' = mode_ /\ limits' = limits /\ config' = config
      /\ num_proc_channels_' = num_proc_channels_ /\ sample_rate_hz_' = sample_rate_hz_
      /\ gain_controllers_' = gain_controllers_
  BY DEF Kept, settings, format
<1>2. enabled_ /\ \A s \in Thread : pc[s] # "init"
  BY <1>1 DEF Kept
<1>3. Len(gain_controllers_) = num_proc_channels_
  BY <1>2 DEF HandlesFollowSettings
<1> SUFFICES ASSUME NEW i \in 1..num_proc_channels_
             PROVE  /\ gain_controllers_[i].mode = mode_
                    /\ gain_controllers_[i].rate = sample_rate_hz_
                    /\ \/ gain_controllers_[i].limits = HandleLimits(limits, mode_)
                       \/ \E t \in Thread : Underway(t, "set_analog_level_limits")'
                    /\ \A f \in Field :
                         \/ gain_controllers_[i].config[f] = config[f]
                         \/ \E t \in Thread : Underway(t, f)' \/ ToPush(t, i)'
  BY <1>1, <1>3
<1>4. /\ gain_controllers_[i].mode = mode_
      /\ gain_controllers_[i].rate = sample_rate_hz_
      /\ \/ gain_controllers_[i].limits = HandleLimits(limits, mode_)
         \/ \E t \in Thread : Underway(t, "set_analog_level_limits")
      /\ \A f \in Field :
           \/ gain_controllers_[i].config[f] = config[f]
           \/ \E t \in Thread : Underway(t, f) \/ ToPush(t, i)
  BY <1>2 DEF HandlesFollowSettings
<1>5. \A s \in Thread, o \in Field \cup {"set_analog_level_limits"} :
        Underway(s, o) => Underway(s, o)'
  BY DEF Kept
<1>6. \A s \in Thread : ToPush(s, i) => ToPush(s, i)'
  BY <1>3 DEF Kept
<1> QED
  BY <1>4, <1>5, <1>6
------------------------------------------------------------------------------
(* A call begins, takes its locks, and returns. *)

LEMMA BeginStep ==
  ASSUME IInv, NEW t \in Thread, NEW o \in Ops, NEW a \in Args,
         NEW label \in {"write", "render", "capture"}, Begin(t, o, a, label),
         o \in Field => a \in Value,
         o = "Initialize" => a \in Formats,
         o = "set_analog_level_limits" => a \in Limits /\ label = "write",
         o = "Enable" => a \in BOOLEAN,
         o = "set_mode" => a \in Mode,
         label = "write" => o \in Field \cup {"set_analog_level_limits"}
  PROVE  IInv'
<1>1. FieldsTyped'
  BY DEF IInv, FieldsTyped, Begin, settings, format, handles
<1>2. /\ pc[t] = "idle"
      /\ pc' = [pc EXCEPT ![t] = label]
      /\ op' = [op EXCEPT ![t] = o] /\ arg' = [arg EXCEPT ![t] = a]
      /\ fmt' = fmt /\ snap' = snap /\ idx' = idx /\ capture' = capture /\ config' = config
  BY DEF Begin, Goto, locals, locks, settings
<1>3. CallsTyped'
  BY <1>2 DEF IInv, CallsTyped, Labels
<1>4. ArgInv'
  BY <1>2 DEF IInv, ArgInv, CallsTyped
<1>5. PlaceInv' /\ CaptureInv' /\ SnapFresh'
  BY <1>2 DEF IInv, PlaceInv, CaptureInv, SnapFresh, CallsTyped
<1>6. Kept
  <2>1. UNCHANGED <<settings, format, gain_controllers_>>
    BY DEF Begin, handles
  <2>2. (\A s \in Thread : pc'[s] # "init") => \A s \in Thread : pc[s] # "init"
    BY <1>2 DEF IInv, CallsTyped
  <2>3. \A s \in Thread, p \in Field \cup {"set_analog_level_limits"} :
          Underway(s, p) => Underway(s, p)'
    BY <1>2 DEF IInv, CallsTyped, Underway
  <2>4. \A s \in Thread, i \in 1..Len(gain_controllers_) : ToPush(s, i) => ToPush(s, i)'
    BY <1>2 DEF IInv, CallsTyped, ToPush
  <2> QED
    BY <2>1, <2>2, <2>3, <2>4 DEF Kept
<1>7. HandlesFollowSettings'
  BY <1>6, KeptFollows DEF IInv
<1> QED
  BY <1>1, <1>3, <1>4, <1>5, <1>7 DEF IInv

LEMMA LockStep ==
  ASSUME IInv, NEW t \in Thread, LockRender(t) \/ LockCapture(t)
  PROVE  IInv'
<1>1. FieldsTyped'
  BY DEF IInv, FieldsTyped, LockRender, LockCapture, settings, format, handles
<1>2. /\ op' = op /\ arg' = arg /\ fmt' = fmt /\ snap' = snap /\ idx' = idx
      /\ config' = config
      /\ UNCHANGED <<settings, format, gain_controllers_>>
  BY DEF LockRender, LockCapture, locals, settings, handles
<1>3. \/ pc[t] = "render" /\ pc' = [pc EXCEPT ![t] = "capture"] /\ capture' = capture
      \/ /\ pc[t] \in {"write", "capture"} /\ capture \in {NoThread, t} /\ capture' = t
         /\ pc' = [pc EXCEPT ![t] = IF pc[t] = "write" THEN "writing" ELSE "body"]
  BY DEF LockRender, LockCapture, Goto
<1>4. CallsTyped'
  BY <1>2, <1>3 DEF IInv, CallsTyped, Labels
<1>5. ArgInv'
  BY <1>2, <1>3 DEF IInv, ArgInv, PlaceInv, CallsTyped
<1>6. PlaceInv' /\ SnapFresh'
  BY <1>2, <1>3 DEF IInv, PlaceInv, SnapFresh, CallsTyped
<1>7. CaptureInv'
  BY <1>3, ThreadAssumption DEF IInv, CaptureInv, CallsTyped
<1>8. Kept
  <2>1. (\A s \in Thread : pc'[s] # "init") => \A s \in Thread : pc[s] # "init"
    BY <1>3 DEF IInv, CallsTyped
  <2>2. \A s \in Thread, p \in Field \cup {"set_analog_level_limits"} :
          Underway(s, p) => Underway(s, p)'
    BY <1>2, <1>3 DEF IInv, CallsTyped, Underway
  <2>3. \A s \in Thread, i \in 1..Len(gain_controllers_) : ToPush(s, i) => ToPush(s, i)'
    BY <1>2, <1>3 DEF IInv, CallsTyped, ToPush
  <2> QED
    BY <1>2, <2>1, <2>2, <2>3 DEF Kept
<1>9. HandlesFollowSettings'
  BY <1>8, KeptFollows DEF IInv
<1> QED
  BY <1>1, <1>4, <1>5, <1>6, <1>7, <1>9 DEF IInv

\* What a return does to the calls in progress.
LEMMA ReturnCalls ==
  ASSUME IInv, NEW t \in Thread, Return(t), config' = config,
         pc[t] \in {"writing", "body", "init", "configure", "push"}
  PROVE  CallsTyped' /\ ArgInv' /\ PlaceInv' /\ CaptureInv' /\ SnapFresh'
<1>1. /\ pc' = [pc EXCEPT ![t] = "idle"] /\ op' = [op EXCEPT ![t] = "none"]
      /\ arg' = [arg EXCEPT ![t] = 0] /\ fmt' = [fmt EXCEPT ![t] = <<0, 0>>]
      /\ snap' = [snap EXCEPT ![t] = DefaultConfig] /\ idx' = [idx EXCEPT ![t] = 1]
      /\ capture' = NoThread
  BY DEF Return
<1>2. CallsTyped'
  <2>1. op' \in [Thread -> Ops] /\ arg' \in [Thread -> Args] /\ pc' \in [Thread -> Labels]
    BY <1>1 DEF IInv, CallsTyped, Ops, Args, Labels
  <2>2. fmt' \in [Thread -> Nat \X Nat] /\ idx' \in [Thread -> Nat \ {0}]
    BY <1>1 DEF IInv, CallsTyped
  <2>3. DefaultConfig \in Config
    BY ValueAssumption DEF DefaultConfig, Config
  <2>4. snap' \in [Thread -> Config]
    BY <1>1, <2>3 DEF IInv, CallsTyped
  <2> QED
    BY <2>1, <2>2, <2>4 DEF CallsTyped
<1>3. ArgInv' /\ PlaceInv'
  BY <1>1, Names DEF IInv, ArgInv, PlaceInv, CallsTyped
<1>4. CaptureInv'
  BY <1>1, ThreadAssumption DEF IInv, CaptureInv, CallsTyped
<1>5. SnapFresh'
  BY <1>1 DEF IInv, SnapFresh, CallsTyped
<1> QED
  BY <1>2, <1>3, <1>4, <1>5

\* A call that leaves settings and handles alone and whose return removes no
\* excuse returns safely.
LEMMA ReturnStep ==
  ASSUME IInv, NEW t \in Thread, Return(t),
         UNCHANGED <<settings, format, gain_controllers_>>,
         \/ pc[t] = "body" /\ op[t] \in AudioOps \cup {"Enable"}
         \/ pc[t] = "push" /\ idx[t] > Len(gain_controllers_)
  PROVE  IInv'
<1>1. FieldsTyped'
  BY DEF IInv, FieldsTyped, settings, format
<1>2. CallsTyped' /\ ArgInv' /\ PlaceInv' /\ CaptureInv' /\ SnapFresh'
  BY ReturnCalls DEF settings
<1>3. pc' = [pc EXCEPT ![t] = "idle"] /\ op' = [op EXCEPT ![t] = "none"]
      /\ idx' = [idx EXCEPT ![t] = 1]
  BY DEF Return
<1>4. Kept
  <2>1. (\A s \in Thread : pc'[s] # "init") => \A s \in Thread : pc[s] # "init"
    BY <1>3 DEF IInv, CallsTyped
  <2>2. \A s \in Thread, p \in Field \cup {"set_analog_level_limits"} :
          Underway(s, p) => Underway(s, p)'
    BY <1>3, Names DEF IInv, CallsTyped, Underway, AudioOps
  <2>3. \A s \in Thread, i \in 1..Len(gain_controllers_) : ToPush(s, i) => ToPush(s, i)'
    <3> SUFFICES ASSUME NEW s \in Thread, NEW i \in 1..Len(gain_controllers_), ToPush(s, i)
                 PROVE  ToPush(s, i)'
      OBVIOUS
    <3>1. Len(gain_controllers_) \in Nat /\ idx[t] \in Nat
      BY DEF IInv, FieldsTyped, CallsTyped
    <3>2. s # t
      BY <3>1 DEF ToPush
    <3> QED
      BY <1>3, <3>2 DEF ToPush, IInv, CallsTyped
  <2> QED
    BY <2>1, <2>2, <2>3 DEF Kept
<1>5. HandlesFollowSettings'
  BY <1>4, KeptFollows DEF IInv
<1> QED
  BY <1>1, <1>2, <1>5 DEF IInv
------------------------------------------------------------------------------
(* The setters. *)

\* A thread that writes a field becomes the excuse for every handle that now
\* lags behind; nobody else is pushing an older copy, because the writer
\* holds crit_capture_.
LEMMA WriteFieldStep ==
  ASSUME IInv, NEW t \in Thread, WriteField(t)
  PROVE  IInv'
<1>1. /\ pc[t] = "writing" /\ op[t] \in Field
      /\ config' = [config EXCEPT ![op[t]] = arg[t]]
      /\ capture' = NoThread /\ pc' = [pc EXCEPT ![t] = "render"]
      /\ enabled_' = enabled_ /\ mode_' = mode_ /\ limits' = limits
      /\ num_proc_channels_' = num_proc_channels_ /\ sample_rate_hz_' = sample_rate_hz_
      /\ gain_controllers_' = gain_controllers_
      /\ op' = op /\ arg' = arg /\ fmt' = fmt /\ snap' = snap /\ idx' = idx
  BY DEF WriteField, Goto, format, handles, locals
<1>2. FieldsTyped'
  <2>1. arg[t] \in Value
    BY <1>1 DEF IInv, ArgInv
  <2>2. config' \in Config
    BY <1>1, <2>1 DEF IInv, FieldsTyped, Config
  <2> QED
    BY <1>1, <2>2 DEF IInv, FieldsTyped
<1>3. CallsTyped'
  BY <1>1 DEF IInv, CallsTyped, Labels
<1>4. ArgInv' /\ PlaceInv'
  BY <1>1, Names DEF IInv, ArgInv, PlaceInv, CallsTyped
<1>5. CaptureInv'
  BY <1>1, ThreadAssumption DEF IInv, CaptureInv, CallsTyped
<1>6. \A s \in Thread : pc[s] # "push" /\ pc[s] # "configure" /\ pc[s] # "init"
  BY <1>1 DEF IInv, CaptureInv
<1>7. SnapFresh'
  BY <1>1, <1>6 DEF SnapFresh, IInv, CallsTyped
<1>8. HandlesFollowSettings'
  <2> SUFFICES ASSUME enabled_
               PROVE  /\ Len(gain_controllers_) = num_proc_channels_
                      /\ \A i \in 1..num_proc_channels_ :
                           /\ gain_controllers_[i].mode = mode_
                           /\ gain_controllers_[i].rate = sample_rate_hz_
                           /\ \/ gain_controllers_[i].limits = HandleLimits(limits, mode_)
                              \/ \E s \in Thread : Underway(s, "set_analog_level_limits")'
                           /\ \A f \in Field :
                                \/ gain_controllers_[i].config[f] = config'[f]
                                \/ \E s \in Thread : Underway(s, f)'
    BY <1>1 DEF HandlesFollowSettings, HandleLimits
  <2>1. \A s \in Thread, o \in Ops : Underway(s, o) => Underway(s, o)'
    BY <1>1 DEF Underway, IInv, CallsTyped
  <2>2. \A f \in Field : f = op[t] => Underway(t, f)'
    BY <1>1 DEF Underway, IInv, CallsTyped
  <2>3. \A f \in Field : f # op[t] => config'[f] = config[f]
    BY <1>1 DEF IInv, FieldsTyped, Config
  <2>4. \A s \in Thread, i \in 1..num_proc_channels_ : ~ToPush(s, i)
    BY <1>6 DEF ToPush
  <2>5. /\ Len(gain_controllers_) = num_proc_channels_
        /\ \A i \in 1..num_proc_channels_ :
             /\ gain_controllers_[i].mode = mode_
             /\ gain_controllers_[i].rate = sample_rate_hz_
             /\ \/ gain_controllers_[i].limits = HandleLimits(limits, mode_)
                \/ \E s \in Thread : Underway(s, "set_analog_level_limits")
             /\ \A f \in Field :
                  \/ gain_controllers_[i].config[f] = config[f]
                  \/ \E s \in Thread : Underway(s, f) \/ ToPush(s, i)
    BY <1>6 DEF IInv, HandlesFollowSettings
  <2>6. \A f \in Field \cup {"set_analog_level_limits"} : f \in Ops
    BY DEF Ops, ControlOps
  <2>7. \A i \in 1..num_proc_channels_, f \in Field :
          \/ gain_controllers_[i].config[f] = config'[f]
          \/ \E s \in Thread : Underway(s, f)'
    <3> TAKE i \in 1..num_proc_channels_, f \in Field
    <3>1. CASE f = op[t]
      BY <2>2, <3>1
    <3>2. CASE f # op[t]
      <4>1. config'[f] = config[f]
        BY <2>3, <3>2
      <4>2. \/ gain_controllers_[i].config[f] = config[f]
            \/ \E s \in Thread : Underway(s, f)
        BY <2>4, <2>5
      <4> QED
        BY <2>1, <2>6, <4>1, <4>2
    <3> QED
      BY <3>1, <3>2
  <2> QED
    BY <2>1, <2>5, <2>6, <2>7
<1> QED
  BY <1>2, <1>3, <1>4, <1>5, <1>7, <1>8 DEF IInv

LEMMA WriteLimitsStep ==
  ASSUME IInv, NEW t \in Thread, WriteLimits(t)
  PROVE  IInv'
<1>1. /\ pc[t] = "writing" /\ op[t] = "set_analog_level_limits"
      /\ limits' = arg[t]
      /\ fmt' = [fmt EXCEPT ![t] = <<num_proc_channels_, sample_rate_hz_>>]
      /\ capture' = NoThread /\ pc' = [pc EXCEPT ![t] = "render"]
      /\ enabled_' = enabled_ /\ mode_' = mode_ /\ config' = config
      /\ num_proc_channels_' = num_proc_channels_ /\ sample_rate_hz_' = sample_rate_hz_
      /\ gain_controllers_' = gain_controllers_
      /\ op' = op /\ arg' = arg /\ snap' = snap /\ idx' = idx
  BY DEF WriteLimits, Goto, format, handles
<1>2. FieldsTyped'
  <2>1. arg[t] \in Limits
    BY <1>1 DEF IInv, ArgInv
  <2> QED
    BY <1>1, <2>1 DEF IInv, FieldsTyped
<1>3. CallsTyped'
  <2>1. fmt' \in [Thread -> Nat \X Nat]
    BY <1>1 DEF IInv, CallsTyped, FieldsTyped
  <2> QED
    BY <1>1, <2>1 DEF IInv, CallsTyped, Labels
<1>4. ArgInv' /\ PlaceInv'
  BY <1>1, Names DEF IInv, ArgInv, PlaceInv, CallsTyped, FieldsTyped
<1>5. CaptureInv'
  BY <1>1, ThreadAssumption DEF IInv, CaptureInv, CallsTyped
<1>6. \A s \in Thread : pc[s] # "push" /\ pc[s] # "configure" /\ pc[s] # "init"
  BY <1>1 DEF IInv, CaptureInv
<1>7. SnapFresh'
  BY <1>1, <1>6 DEF SnapFresh, IInv, CallsTyped
<1>8. HandlesFollowSettings'
  <2> SUFFICES ASSUME enabled_
               PROVE  /\ Len(gain_controllers_) = num_proc_channels_
                      /\ \A i \in 1..num_proc_channels_ :
                           /\ gain_controllers_[i].mode = mode_
                           /\ gain_controllers_[i].rate = sample_rate_hz_
                           /\ \E s \in Thread : Underway(s, "set_analog_level_limits")'
                           /\ \A f \in Field :
                                \/ gain_controllers_[i].config[f] = config[f]
                                \/ \E s \in Thread : Underway(s, f)'
    BY <1>1 DEF HandlesFollowSettings, HandleLimits
  <2>1. \A s \in Thread, o \in Ops : Underway(s, o) => Underway(s, o)'
    BY <1>1 DEF Underway, IInv, CallsTyped
  <2>2. Underway(t, "set_analog_level_limits")'
    BY <1>1 DEF Underway, IInv, CallsTyped
  <2>3. \A s \in Thread, i \in 1..num_proc_channels_ : ~ToPush(s, i)
    BY <1>6 DEF ToPush
  <2>4. /\ Len(gain_controllers_) = num_proc_channels_
        /\ \A i \in 1..num_proc_channels_ :
             /\ gain_controllers_[i].mode = mode_
             /\ gain_controllers_[i].rate = sample_rate_hz_
             /\ \A f \in Field :
                  \/ gain_controllers_[i].config[f] = config[f]
                  \/ \E s \in Thread : Underway(s, f) \/ ToPush(s, i)
    BY <1>6 DEF IInv, HandlesFollowSettings
  <2>5. \A f \in Field : f \in Ops
    BY DEF Ops, ControlOps
  <2> QED
    BY <2>1, <2>2, <2>3, <2>4, <2>5
<1> QED
  BY <1>2, <1>3, <1>4, <1>5, <1>7, <1>8 DEF IInv
------------------------------------------------------------------------------
(* The sections under both locks. *)

\* An enabled gain control with a thread about to call Initialize() owes
\* nothing yet.
LEMMA ModeStep ==
  ASSUME IInv, NEW t \in Thread, ModeBody(t)
  PROVE  IInv'
<1>1. /\ pc[t] = "body" /\ op[t] = "set_mode" /\ mode_' = arg[t]
      /\ pc' = [pc EXCEPT ![t] = "init"]
      /\ enabled_' = enabled_ /\ limits' = limits /\ config' = config
      /\ num_proc_channels_' = num_proc_channels_ /\ sample_rate_hz_' = sample_rate_hz_
      /\ gain_controllers_' = gain_controllers_ /\ capture' = capture
      /\ op' = op /\ arg' = arg /\ fmt' = fmt /\ snap' = snap /\ idx' = idx
  BY DEF ModeBody, Goto, format, handles, locks, locals
<1>2. FieldsTyped'
  <2>1. mode_' \in Mode
    BY <1>1 DEF IInv, ArgInv
  <2> QED
    BY <1>1, <2>1 DEF IInv, FieldsTyped
<1>3. CallsTyped'
  BY <1>1 DEF IInv, CallsTyped, Labels
<1>4. ArgInv' /\ PlaceInv' /\ CaptureInv' /\ SnapFresh'
  BY <1>1, Names DEF IInv, ArgInv, PlaceInv, CaptureInv, SnapFresh, CallsTyped
<1>5. pc'[t] = "init"
  BY <1>1 DEF IInv, CallsTyped
<1>6. HandlesFollowSettings'
  BY <1>5 DEF HandlesFollowSettings
<1> QED
  BY <1>2, <1>3, <1>4, <1>6 DEF IInv

LEMMA EnableStep ==
  ASSUME IInv, NEW t \in Thread, EnableBody(t)
  PROVE  IInv'
<1>1. /\ pc[t] = "body" /\ op[t] = "Enable" /\ enabled_' = arg[t]
      /\ mode_' = mode_ /\ limits' = limits /\ config' = config
      /\ num_proc_channels_' = num_proc_channels_ /\ sample_rate_hz_' = sample_rate_hz_
      /\ gain_controllers_' = gain_controllers_
  BY DEF EnableBody, format, handles
<1>2. arg[t] \in BOOLEAN /\ enabled_ \in BOOLEAN
  BY <1>1 DEF IInv, ArgInv, FieldsTyped
<1>3. FieldsTyped'
  BY <1>1, <1>2 DEF IInv, FieldsTyped
<1>4. CASE arg[t] /\ ~enabled_
  <2>1. /\ pc' = [pc EXCEPT ![t] = "init"] /\ capture' = capture
        /\ op' = op /\ arg' = arg /\ fmt' = fmt /\ snap' = snap /\ idx' = idx
    BY <1>4 DEF EnableBody, Goto, locks, locals
  <2>2. CallsTyped'
    BY <2>1 DEF IInv, CallsTyped, Labels
  <2>3. ArgInv' /\ PlaceInv' /\ CaptureInv' /\ SnapFresh'
    BY <1>1, <2>1, Names DEF IInv, ArgInv, PlaceInv, CaptureInv, SnapFresh, CallsTyped
  <2>4. pc'[t] = "init"
    BY <2>1 DEF IInv, CallsTyped
  <2>5. HandlesFollowSettings'
    BY <2>4 DEF HandlesFollowSettings
  <2> QED
    BY <1>3, <2>2, <2>3, <2>5 DEF IInv
<1>5. CASE ~(arg[t] /\ ~enabled_)
  <2>1. Return(t)
    BY <1>5 DEF EnableBody
  <2>2. CASE enabled_' = enabled_
    BY <1>1, <2>1, <2>2, ReturnStep DEF settings, format
  <2>3. CASE enabled_' # enabled_
    <3>1. ~enabled_'
      BY <1>1, <1>2, <1>5, <2>3
    <3>2. HandlesFollowSettings'
      BY <3>1 DEF HandlesFollowSettings
    <3> QED
      BY <1>1, <1>3, <2>1, <3>2, ReturnCalls DEF IInv
  <2> QED
    BY <2>2, <2>3
<1> QED
  BY <1>4, <1>5

\* Initialize() builds every handle anew from the current settings and goes
\* on into Configure(), which is then the excuse for their configuration.
LEMMA InitializeStep ==
  ASSUME IInv, NEW t \in Thread, Initialize(t)
  PROVE  IInv'
<1> DEFINE n == InitArgs(t)[1]
           r == InitArgs(t)[2]
<1>1. /\ pc[t] = "init" \/ (pc[t] = "body" /\ op[t] \in {"Initialize", "set_analog_level_limits"})
      /\ num_proc_channels_' = n /\ sample_rate_hz_' = r
      /\ enabled_' = enabled_ /\ mode_' = mode_ /\ limits' = limits /\ config' = config
  BY DEF Initialize, settings
<1>2. InitArgs(t) \in Formats
  <2>1. CASE pc[t] = "init"
    <3>1. op[t] \in {"Enable", "set_mode"}
      BY <2>1 DEF IInv, PlaceInv
    <3> QED
      BY <3>1 DEF InitArgs, IInv, FieldsTyped
  <2>2. CASE op[t] = "Initialize"
    BY <2>2 DEF InitArgs, IInv, ArgInv
  <2>3. CASE pc[t] = "body" /\ op[t] = "set_analog_level_limits"
    BY <2>3 DEF InitArgs, IInv, ArgInv
  <2> QED
    BY <1>1, <2>1, <2>2, <2>3
<1>3. /\ n \in Nat \ {0} /\ r \in Nat /\ <<n, r>> \in Formats
  BY <1>2, Names
<1>4. CASE ~enabled_
  <2>1. Return(t) /\ gain_controllers_' = gain_controllers_
    BY <1>4 DEF Initialize, handles
  <2>2. CallsTyped' /\ ArgInv' /\ PlaceInv' /\ CaptureInv' /\ SnapFresh'
    BY <1>1, <2>1, ReturnCalls
  <2>3. FieldsTyped'
    BY <1>1, <1>3, <2>1 DEF IInv, FieldsTyped
  <2>4. HandlesFollowSettings'
    BY <1>1, <1>4 DEF HandlesFollowSettings
  <2> QED
    BY <2>2, <2>3, <2>4 DEF IInv
<1>5. CASE enabled_
  <2>1. /\ gain_controllers_' = [i \in 1..n |-> NewHandle(r)]
        /\ pc' = [pc EXCEPT ![t] = "configure"] /\ capture' = capture
        /\ op' = op /\ arg' = arg /\ fmt' = fmt /\ snap' = snap /\ idx' = idx
    BY <1>1, <1>5 DEF Initialize, Goto, locks, locals
  <2>2. NewHandle(r) \in Handle
    <3>1. HandleLimits(limits, mode_) \in Nat \X Nat
      BY DigitalAssumption, LimitsAssumption DEF IInv, FieldsTyped, HandleLimits
    <3>2. DefaultConfig \in Config
      BY ValueAssumption DEF DefaultConfig, Config
    <3>3. mode_ \in Mode
      BY DEF IInv, FieldsTyped
    <3>4. (HandleLimits(limits, mode_)[1] >= HandleLimits(limits, mode_)[2]) \in BOOLEAN
      BY <3>1
    <3> QED
      BY <1>3, <3>1, <3>2, <3>3, <3>4 DEF NewHandle, Handle
  <2>3. /\ NewHandle(r).mode = mode_ /\ NewHandle(r).rate = r
        /\ NewHandle(r).limits = HandleLimits(limits, mode_)
    BY DEF NewHandle
  <2>4. gain_controllers_' \in Seq(Handle) /\ Len(gain_controllers_') = n
    BY <1>3, <2>1, <2>2, SMTT(30)
  <2>5. FieldsTyped'
    BY <1>1, <1>3, <2>4 DEF IInv, FieldsTyped
  <2>6. CallsTyped'
    BY <2>1 DEF IInv, CallsTyped, Labels
  <2>7. ArgInv' /\ PlaceInv' /\ CaptureInv' /\ SnapFresh'
    BY <1>1, <2>1, Names DEF IInv, ArgInv, PlaceInv, CaptureInv, SnapFresh, CallsTyped
  <2>8. HandlesFollowSettings'
    <3>1. \A i : ToPush(t, i)'
      BY <2>1 DEF ToPush, IInv, CallsTyped
    <3>2. \A i \in 1..n : gain_controllers_'[i] = NewHandle(r)
      BY <2>1
    <3>3. HandleLimits(limits, mode_)' = HandleLimits(limits, mode_)
      BY <1>1 DEF HandleLimits
    <3> SUFFICES ASSUME NEW i \in 1..n
                 PROVE  /\ gain_controllers_'[i].mode = mode_
                        /\ gain_controllers_'[i].rate = r
                        /\ gain_controllers_'[i].limits = HandleLimits(limits, mode_)
                        /\ \E s \in Thread : ToPush(s, i)'
      BY <1>1, <2>4, <3>3 DEF HandlesFollowSettings
    <3> QED
      BY <2>3, <3>1, <3>2
  <2> QED
    BY <2>5, <2>6, <2>7, <2>8 DEF IInv
<1>6. enabled_ \in BOOLEAN
  BY DEF IInv, FieldsTyped
<1> QED
  BY <1>4, <1>5, <1>6

\* Reading the configuration into the local copy: the excuse of a setter that
\* reaches Configure() turns into the excuse of the push that follows.
LEMMA ConfigureReadStep ==
  ASSUME IInv, NEW t \in Thread, ConfigureRead(t)
  PROVE  IInv'
<1>1. /\ pc[t] = "configure" \/ (pc[t] = "body" /\ op[t] \in Field)
      /\ snap' = [snap EXCEPT ![t] = config] /\ idx' = [idx EXCEPT ![t] = 1]
      /\ pc' = [pc EXCEPT ![t] = "push"]
      /\ capture' = capture /\ op' = op /\ arg' = arg /\ fmt' = fmt
      /\ UNCHANGED <<settings, format, gain_controllers_>> /\ config' = config
  BY DEF ConfigureRead, Goto, handles, locks, settings
<1>2. FieldsTyped'
  BY <1>1 DEF IInv, FieldsTyped, settings, format
<1>3. CallsTyped'
  BY <1>1 DEF IInv, CallsTyped, Labels, FieldsTyped
<1>4. ArgInv' /\ PlaceInv' /\ CaptureInv' /\ SnapFresh'
  BY <1>1, Names DEF IInv, ArgInv, PlaceInv, CaptureInv, SnapFresh, CallsTyped
<1>5. HandlesFollowSettings'
  <2>1. \A s \in Thread : pc[s] # "init"
    BY <1>1 DEF IInv, CaptureInv
  <2>2. \A i \in 1..num_proc_channels_ : ToPush(t, i)'
    BY <1>1 DEF ToPush, IInv, CallsTyped, FieldsTyped
  <2>3. \A s \in Thread : Underway(s, "set_analog_level_limits")
                            => Underway(s, "set_analog_level_limits")'
    BY <1>1, Names DEF Underway, IInv, CallsTyped
  <2> SUFFICES ASSUME enabled_
               PROVE  /\ Len(gain_controllers_) = num_proc_channels_
                      /\ \A i \in 1..num_proc_channels_ :
                           /\ gain_controllers_[i].mode = mode_
                           /\ gain_controllers_[i].rate = sample_rate_hz_
                           /\ \/ gain_controllers_[i].limits = HandleLimits(limits, mode_)
                              \/ \E s \in Thread : Underway(s, "set_analog_level_limits")'
    BY <1>1, <2>2 DEF HandlesFollowSettings, HandleLimits, settings, format
  <2> QED
    BY <2>1, <2>3 DEF IInv, HandlesFollowSettings
<1> QED
  BY <1>2, <1>3, <1>4, <1>5 DEF IInv

\* One handle gets the copy, which is the current configuration; the handles
\* further on keep their excuse.
LEMMA ConfigurePushStep ==
  ASSUME IInv, NEW t \in Thread, ConfigurePush(t)
  PROVE  IInv'
<1> DEFINE k == idx[t]
           old == gain_controllers_
           new == gain_controllers_'
<1>1. /\ pc[t] = "push" /\ k <= Len(old)
      /\ new = [old EXCEPT ![k].config = snap[t]]
      /\ idx' = [idx EXCEPT ![t] = k + 1]
      /\ pc' = pc /\ capture' = capture /\ op' = op /\ arg' = arg /\ fmt' = fmt
      /\ snap' = snap
      /\ UNCHANGED <<settings, format>> /\ config' = config
  BY DEF ConfigurePush, locks, settings
<1>2. k \in 1..Len(old) /\ snap[t] \in Config /\ snap[t] = config /\ Len(old) \in Nat
  BY <1>1 DEF IInv, CallsTyped, FieldsTyped, SnapFresh
<1>3. new \in Seq(Handle) /\ Len(new) = Len(old)
  <2>1. \A i \in 1..Len(old) : old[i] \in Handle
    BY DEF IInv, FieldsTyped
  <2>2. [old[k] EXCEPT !.config = snap[t]] \in Handle
    BY <1>2, <2>1 DEF Handle
  <2>3. new = [old EXCEPT ![k] = [old[k] EXCEPT !.config = snap[t]]]
    BY <1>1, <1>2
  <2> QED
    BY <1>2, <2>2, <2>3 DEF IInv, FieldsTyped
<1>4. /\ \A i \in 1..Len(old) : i # k => new[i] = old[i]
      /\ new[k].mode = old[k].mode /\ new[k].rate = old[k].rate
      /\ new[k].limits = old[k].limits /\ new[k].config = config
  <2>1. old[k] \in Handle
    BY <1>2 DEF IInv, FieldsTyped
  <2>2. new = [old EXCEPT ![k] = [old[k] EXCEPT !.config = config]]
    BY <1>1, <1>2
  <2>3. new[k] = [old[k] EXCEPT !.config = config] /\ \A i \in 1..Len(old) : i # k => new[i] = old[i]
    BY <1>2, <2>2 DEF IInv, FieldsTyped
  <2> HIDE DEF new, old, k
  <2> QED
    BY <2>1, <2>3 DEF Handle
<1>5. FieldsTyped'
  BY <1>1, <1>3 DEF IInv, FieldsTyped, settings, format
<1>6. CallsTyped'
  BY <1>1, <1>2 DEF IInv, CallsTyped
<1>7. ArgInv' /\ PlaceInv' /\ CaptureInv' /\ SnapFresh'
  BY <1>1 DEF IInv, ArgInv, PlaceInv, CaptureInv, SnapFresh
<1>8. HandlesFollowSettings'
  <2>1. \A s \in Thread : pc[s] # "init"
    BY <1>1 DEF IInv, CaptureInv
  <2>2. \A s \in Thread, o \in Ops : Underway(s, o) => Underway(s, o)'
    BY <1>1 DEF Underway
  <2>3. \A s \in Thread, i \in 1..Len(old) : i # k => (ToPush(s, i) => ToPush(s, i)')
    BY <1>1, <1>2 DEF ToPush, IInv, CallsTyped
  <2> SUFFICES ASSUME enabled_
               PROVE  /\ Len(new) = num_proc_channels_
                      /\ \A i \in 1..num_proc_channels_ :
                           /\ new[i].mode = mode_
                           /\ new[i].rate = sample_rate_hz_
                           /\ \/ new[i].limits = HandleLimits(limits, mode_)
                              \/ \E s \in Thread : Underway(s, "set_analog_level_limits")'
                           /\ \A f \in Field :
                                \/ new[i].config[f] = config[f]
                                \/ \E s \in Thread : Underway(s, f)' \/ ToPush(s, i)'
    BY <1>1 DEF HandlesFollowSettings, HandleLimits, settings, format
  <2>4. /\ Len(old) = num_proc_channels_
        /\ \A i \in 1..num_proc_channels_ :
             /\ old[i].mode = mode_
             /\ old[i].rate = sample_rate_hz_
             /\ \/ old[i].limits = HandleLimits(limits, mode_)
                \/ \E s \in Thread : Underway(s, "set_analog_level_limits")
             /\ \A f \in Field :
                  \/ old[i].config[f] = config[f]
                  \/ \E s \in Thread : Underway(s, f) \/ ToPush(s, i)
    BY <2>1 DEF IInv, HandlesFollowSettings
  <2>5. \A f \in Field \cup {"set_analog_level_limits"} : f \in Ops
    BY DEF Ops, ControlOps
  <2> HIDE DEF new, old, k
  <2>6. SUFFICES ASSUME NEW i \in 1..num_proc_channels_
                 PROVE  /\ new[i].mode = mode_
                        /\ new[i].rate = sample_rate_hz_
                        /\ \/ new[i].limits = HandleLimits(limits, mode_)
                           \/ \E s \in Thread : Underway(s, "set_analog_level_limits")'
                        /\ \A f \in Field :
                             \/ new[i].config[f] = config[f]
                             \/ \E s \in Thread : Underway(s, f)' \/ ToPush(s, i)'
    BY <1>3, <2>4
  <2>7. CASE i = k
    BY <1>4, <2>2, <2>4, <2>5, <2>7
  <2>8. CASE i # k
    <3>1. new[i] = old[i]
      BY <1>4, <2>4, <2>8
    <3>2. \A s \in Thread : ToPush(s, i) => ToPush(s, i)'
      BY <2>3, <2>4, <2>8
    <3> QED
      BY <2>2, <2>4, <2>5, <3>1, <3>2
  <2> QED
    BY <2>7, <2>8
<1> QED
  BY <1>5, <1>6, <1>7, <1>8 DEF IInv
------------------------------------------------------------------------------
LEMMA CallStep ==
  ASSUME IInv, NEW t \in Thread, CallControl(t) \/ CallAudio(t)
  PROVE  IInv'
<1>1. CASE CallSetter(t)
  <2> PICK f \in Field, v \in Value : Begin(t, f, v, "write")
    BY <1>1 DEF CallSetter
  <2> QED
    BY BeginStep, Names DEF Ops, ControlOps, Args
<1>2. CASE CallLimits(t)
  <2> PICK l \in Limits : Begin(t, "set_analog_level_limits", l, "write")
    BY <1>2 DEF CallLimits
  <2> QED
    BY BeginStep, Names DEF Ops, ControlOps, Args
<1>3. CASE CallInitialize(t)
  <2> PICK f \in Formats : Begin(t, "Initialize", f, "render")
    BY <1>3 DEF CallInitialize
  <2> QED
    BY BeginStep, Names DEF Ops, ControlOps, Args
<1>4. CASE CallEnable(t)
  <2> PICK b \in BOOLEAN : Begin(t, "Enable", b, "render")
    BY <1>4 DEF CallEnable
  <2> QED
    BY BeginStep, Names DEF Ops, ControlOps, Args
<1>5. CASE CallMode(t)
  <2> PICK m \in Mode : Begin(t, "set_mode", m, "render")
    BY <1>5 DEF CallMode
  <2> QED
    BY BeginStep, Names DEF Ops, ControlOps, Args
<1>6. CASE CallLevel(t)
  <2> PICK l \in Level : Begin(t, "set_stream_analog_level", l, "capture")
    BY <1>6 DEF CallLevel
  <2> QED
    BY BeginStep, Names DEF Ops, AudioOps, Args
<1>7. CASE CallFrame(t)
  <2> PICK o \in AudioOps \ {"set_stream_analog_level"} : Begin(t, o, 0, "capture")
    BY <1>7 DEF CallFrame
  <2> QED
    BY BeginStep, Names DEF Ops, AudioOps, Args
<1> QED
  BY <1>1, <1>2, <1>3, <1>4, <1>5, <1>6, <1>7 DEF CallControl, CallAudio

LEMMA NextIInv == IInv /\ [Next]_vars => IInv'
<1> SUFFICES ASSUME IInv, [Next]_vars
             PROVE  IInv'
  OBVIOUS
<1>1. ASSUME NEW t \in Thread, CallControl(t) \/ CallAudio(t)
      PROVE  IInv'
  BY <1>1, CallStep
<1>2. ASSUME NEW t \in Thread, Step(t)
      PROVE  IInv'
  <2>1. CASE LockRender(t) \/ LockCapture(t)
    BY <2>1, LockStep
  <2>2. CASE WriteField(t)
    BY <2>2, WriteFieldStep
  <2>3. CASE WriteLimits(t)
    BY <2>3, WriteLimitsStep
  <2>4. CASE EnableBody(t)
    BY <2>4, EnableStep
  <2>5. CASE ModeBody(t)
    BY <2>5, ModeStep
  <2>6. CASE Initialize(t)
    BY <2>6, InitializeStep
  <2>7. CASE ConfigureRead(t)
    BY <2>7, ConfigureReadStep
  <2>8. CASE ConfigurePush(t)
    BY <2>8, ConfigurePushStep
  <2>9. CASE ConfigureReturn(t)
    BY <2>9, ReturnStep DEF ConfigureReturn, handles
  <2>10. CASE SetStreamAnalogLevel(t)
    BY <2>10, ReturnStep DEF SetStreamAnalogLevel, handles, AudioOps
  <2>11. CASE ProcessRenderAudio(t)
    BY <2>11, ReturnStep DEF ProcessRenderAudio, handles, AudioOps
  <2>12. CASE AnalyzeCaptureAudio(t)
    BY <2>12, ReturnStep DEF AnalyzeCaptureAudio, AudioOps
  <2>13. CASE ProcessCaptureAudio(t)
    BY <2>13, ReturnStep DEF ProcessCaptureAudio, AudioOps
  <2> QED
    BY <1>2, <2>1, <2>2, <2>3, <2>4, <2>5, <2>6, <2>7, <2>8, <2>9, <2>10, <2>11, <2>12,
       <2>13 DEF Step
<1>3. CASE UNCHANGED vars
  <2>1. FieldsTyped' /\ CallsTyped' /\ ArgInv' /\ PlaceInv' /\ CaptureInv' /\ SnapFresh'
    BY <1>3 DEF IInv, FieldsTyped, CallsTyped, ArgInv, PlaceInv, CaptureInv, SnapFresh,
       vars, settings, format, handles, locks, locals
  <2>2. Kept
    BY <1>3 DEF Kept, vars, settings, format, handles, locks, locals, Underway, ToPush
  <2> QED
    BY <2>1, <2>2, KeptFollows DEF IInv
<1> QED
  BY <1>1, <1>2, <1>3 DEF Next, Thread

\* No update of a setting is ever lost between the two critical sections of a
\* setter (gain_control_impl_webrtc.cc), for any number of threads, calls,
\* channels and settings.
THEOREM SettingsReachHandles == Spec => []HandlesFollowSettings
<1>1. IInv => HandlesFollowSettings
  BY DEF IInv
<1> QED
  BY InitIInv, NextIInv, <1>1, PTL DEF Spec
LEMMA IInvAlways == Spec => []IInv
BY InitIInv, NextIInv, PTL DEF Spec
------------------------------------------------------------------------------
(* The locks.  crit_render_ is held exactly by the calls that take both      *)
(* locks and have got past it; none of them holds crit_capture_ alone.       *)

RenderInv ==
  \A t \in Thread :
    TwoLocks(t) /\ pc[t] \in {"capture", "body", "init", "configure", "push"} <=> render = t

LocksInv ==
  /\ render \in Thread \cup {NoThread} /\ capture \in Thread \cup {NoThread}
  /\ RenderInv
  /\ \A t \in Thread : pc[t] = "render" => TwoLocks(t)

LEMMA BeginLocks ==
  ASSUME IInv, LocksInv, NEW t \in Thread, NEW o, NEW a,
         NEW label \in {"write", "render", "capture"}, Begin(t, o, a, label),
         o \in AudioOps <=> label = "capture", o \in ControlOps \cup AudioOps
  PROVE  LocksInv'
<1>1. /\ pc[t] = "idle" /\ pc' = [pc EXCEPT ![t] = label] /\ op' = [op EXCEPT ![t] = o]
      /\ render' = render /\ capture' = capture
  BY DEF Begin, Goto, locks
<1>2. o \in AudioOps => o \notin ControlOps
  BY Names DEF AudioOps, ControlOps
<1>3. \A s \in Thread : s # t => pc'[s] = pc[s] /\ op'[s] = op[s]
  BY <1>1 DEF IInv, CallsTyped
<1>4. pc'[t] = label /\ op'[t] = o /\ render # t
  BY <1>1 DEF IInv, CallsTyped, LocksInv, RenderInv
<1> QED
  BY <1>1, <1>2, <1>3, <1>4 DEF LocksInv, RenderInv, TwoLocks

LEMMA ReturnLocks ==
  ASSUME IInv, LocksInv, NEW t \in Thread, Return(t),
         pc[t] \in {"body", "init", "configure", "push"}
  PROVE  LocksInv'
<1>1. /\ pc' = [pc EXCEPT ![t] = "idle"] /\ op' = [op EXCEPT ![t] = "none"]
      /\ capture' = NoThread /\ render' = IF TwoLocks(t) THEN NoThread ELSE render
  BY DEF Return
<1>2. \A s \in Thread : s # t => pc'[s] = pc[s] /\ op'[s] = op[s]
  BY <1>1 DEF IInv, CallsTyped
<1>3. pc'[t] = "idle"
  BY <1>1 DEF IInv, CallsTyped
<1>4. TwoLocks(t) <=> render = t
  BY DEF LocksInv, RenderInv
<1> QED
  BY <1>1, <1>2, <1>3, <1>4, ThreadAssumption DEF LocksInv, RenderInv, TwoLocks

\* A step inside a call that moves between two places with the same locks.
LEMMA InsideLocks ==
  ASSUME IInv, LocksInv, NEW t \in Thread, NEW label, pc' = [pc EXCEPT ![t] = label],
         op' = op, render' = render, capture' \in {capture, NoThread},
         \/ /\ pc[t] \in {"body", "init", "configure", "push"}
            /\ label \in {"init", "configure", "push"}
         \/ pc[t] = "writing" /\ label = "render"
  PROVE  LocksInv'
<1>1. \A s \in Thread : s # t => pc'[s] = pc[s]
  BY DEF IInv, CallsTyped
<1>2. pc'[t] = label
  BY DEF IInv, CallsTyped
<1>3. pc[t] = "writing" => TwoLocks(t)
  BY DEF IInv, PlaceInv, TwoLocks, ControlOps
<1> QED
  BY <1>1, <1>2, <1>3 DEF LocksInv, RenderInv, TwoLocks

LEMMA NextLocks == IInv /\ LocksInv /\ [Next]_vars => LocksInv'
<1> SUFFICES ASSUME IInv, LocksInv, [Next]_vars
             PROVE  LocksInv'
  OBVIOUS
<1>1. ASSUME NEW t \in Thread, CallControl(t) \/ CallAudio(t)
      PROVE  LocksInv'
  <2>1. CASE CallSetter(t)
    <3> PICK f \in Field, v \in Value : Begin(t, f, v, "write")
      BY <2>1 DEF CallSetter
    <3> QED
      BY BeginLocks, Names DEF ControlOps
  <2>2. CASE CallLimits(t)
    <3> PICK l \in Limits : Begin(t, "set_analog_level_limits", l, "write")
      BY <2>2 DEF CallLimits
    <3> QED
      BY BeginLocks DEF ControlOps, AudioOps
  <2>3. CASE CallInitialize(t)
    <3> PICK f \in Formats : Begin(t, "Initialize", f, "render")
      BY <2>3 DEF CallInitialize
    <3> QED
      BY BeginLocks DEF ControlOps, AudioOps
  <2>4. CASE CallEnable(t)
    <3> PICK b \in BOOLEAN : Begin(t, "Enable", b, "render")
      BY <2>4 DEF CallEnable
    <3> QED
      BY BeginLocks DEF ControlOps, AudioOps
  <2>5. CASE CallMode(t)
    <3> PICK m \in Mode : Begin(t, "set_mode", m, "render")
      BY <2>5 DEF CallMode
    <3> QED
      BY BeginLocks DEF ControlOps, AudioOps
  <2>6. CASE CallLevel(t)
    <3> PICK l \in Level : Begin(t, "set_stream_analog_level", l, "capture")
      BY <2>6 DEF CallLevel
    <3> QED
      BY BeginLocks DEF AudioOps
  <2>7. CASE CallFrame(t)
    <3> PICK o \in AudioOps \ {"set_stream_analog_level"} : Begin(t, o, 0, "capture")
      BY <2>7 DEF CallFrame
    <3> QED
      BY BeginLocks
  <2> QED
    BY <1>1, <2>1, <2>2, <2>3, <2>4, <2>5, <2>6, <2>7 DEF CallControl, CallAudio
<1>2. ASSUME NEW t \in Thread, Step(t)
      PROVE  LocksInv'
  <2>1. CASE LockRender(t)
    <3>1. /\ pc[t] = "render" /\ pc' = [pc EXCEPT ![t] = "capture"] /\ op' = op
          /\ render \in {NoThread, t} /\ render' = t /\ capture' = capture
      BY <2>1 DEF LockRender, Goto
    <3>2. \A s \in Thread : s # t => pc'[s] = pc[s] /\ render # s
      BY <3>1, ThreadAssumption DEF IInv, CallsTyped
    <3>3. pc'[t] = "capture" /\ TwoLocks(t)
      BY <3>1 DEF IInv, CallsTyped, LocksInv
    <3> QED
      BY <3>1, <3>2, <3>3 DEF LocksInv, RenderInv, TwoLocks
  <2>2. CASE LockCapture(t)
    <3>1. /\ pc[t] \in {"write", "capture"} /\ op' = op /\ render' = render /\ capture' = t
          /\ pc' = [pc EXCEPT ![t] = IF pc[t] = "write" THEN "writing" ELSE "body"]
      BY <2>2 DEF LockCapture, Goto
    <3>2. \A s \in Thread : s # t => pc'[s] = pc[s]
      BY <3>1 DEF IInv, CallsTyped
    <3>3. pc'[t] = IF pc[t] = "write" THEN "writing" ELSE "body"
      BY <3>1 DEF IInv, CallsTyped
    <3> QED
      BY <3>1, <3>2, <3>3 DEF LocksInv, RenderInv, TwoLocks
  <2>3. CASE WriteField(t) \/ WriteLimits(t)
    BY <2>3, InsideLocks DEF WriteField, WriteLimits, Goto
  <2>4. CASE EnableBody(t)
    BY <2>4, InsideLocks, ReturnLocks DEF EnableBody, Goto, locks
  <2>5. CASE ModeBody(t)
    BY <2>5, InsideLocks DEF ModeBody, Goto, locks
  <2>6. CASE Initialize(t)
    BY <2>6, InsideLocks, ReturnLocks DEF Initialize, Goto, locks
  <2>7. CASE ConfigureRead(t)
    BY <2>7, InsideLocks DEF ConfigureRead, Goto, locks
  <2>8. CASE ConfigurePush(t)
    BY <2>8 DEF ConfigurePush, locks, LocksInv, RenderInv, TwoLocks
  <2>9. CASE \/ ConfigureReturn(t) \/ SetStreamAnalogLevel(t) \/ ProcessRenderAudio(t)
             \/ AnalyzeCaptureAudio(t) \/ ProcessCaptureAudio(t)
    <3>1. Return(t) /\ pc[t] \in {"body", "push"}
      BY <2>9 DEF ConfigureReturn, SetStreamAnalogLevel, ProcessRenderAudio,
                  AnalyzeCaptureAudio, ProcessCaptureAudio
    <3> QED
      BY <3>1, ReturnLocks
  <2> QED
    BY <1>2, <2>1, <2>2, <2>3, <2>4, <2>5, <2>6, <2>7, <2>8, <2>9 DEF Step
<1>3. CASE UNCHANGED vars
  BY <1>3 DEF vars, locks, LocksInv, RenderInv, TwoLocks
<1> QED
  BY <1>1, <1>2, <1>3 DEF Next, Thread

LEMMA InitLocks == Init => LocksInv
BY ThreadAssumption DEF Init, LocksInv, RenderInv, TwoLocks

\* The threads inside a call of GainControlImpl never all wait for a lock: the
\* owner of crit_capture_ is not waiting, and if there is none then neither is
\* the owner of crit_render_.
THEOREM LocksNeverDeadlock == Spec => []NoDeadlock
<1>1. ASSUME IInv, LocksInv PROVE NoDeadlock
  <2> SUFFICES ASSUME NEW t \in Thread, pc[t] # "idle"
               PROVE  \E s \in Thread : pc[s] # "idle" /\ ~Blocked(s)
    BY DEF NoDeadlock
  <2>1. CASE capture \in Thread
    <3>1. pc[capture] \in {"writing", "body", "init", "configure", "push"}
      BY <1>1, <2>1 DEF IInv, CaptureInv
    <3> QED
      BY <2>1, <3>1 DEF Blocked
  <2>2. CASE capture = NoThread /\ render \in Thread
    <3>1. pc[render] \in {"capture", "body", "init", "configure", "push"}
      BY <1>1, <2>2 DEF LocksInv, RenderInv
    <3> QED
      BY <2>2, <3>1 DEF Blocked
  <2>3. CASE capture = NoThread /\ render = NoThread
    BY <2>3 DEF Blocked
  <2> QED
    BY <1>1, <2>1, <2>2, <2>3 DEF LocksInv
<1> QED
  BY <1>1, InitLocks, NextLocks, IInvAlways, PTL DEF Spec
------------------------------------------------------------------------------
(* The sum of the levels, and its average. *)

\* Every set of numbers has a least one.
LEMMA Least ==
  ASSUME NEW S \in SUBSET Nat, S # {}
  PROVE  \E n \in S : \A m \in S : n <= m
<1> DEFINE R == OpToRel(<, Nat)
<1>1. R = {ss \in Nat \X Nat : ss[1] < ss[2]}
  BY DEF OpToRel
<1>2. IsWellFoundedOn(R, Nat)
  BY NatLessThanWellFounded
<1> HIDE DEF R
<1>3. PICK n \in S : \A m \in S : ~(<<m, n>> \in R)
  BY <1>2, WFMin, Zenon
<1>4. \A m \in S : ~(m < n)
  BY <1>1, <1>3
<1> QED
  BY <1>4

\* f is the function that adds up the first levels.
Sums(f, levels, n) == f = [i \in 0..n |-> IF i = 0 THEN 0 ELSE f[i - 1] + levels[i]]

\* There is such a function for every number of levels: take the least for
\* which there is none, and extend the function of the one before.
LEMMA SumsExist ==
  ASSUME NEW levels, NEW n \in Nat
  PROVE  \E f : Sums(f, levels, n)
<1> DEFINE Without == {k \in Nat : ~\E f : Sums(f, levels, k)}
<1>1. SUFFICES ASSUME Without # {} PROVE FALSE
  OBVIOUS
<1>2. PICK k \in Without : \A j \in Without : k <= j
  BY <1>1, Least
<1>3. k # 0
  <2>1. Sums([i \in 0..0 |-> 0], levels, 0)
    BY DEF Sums
  <2> QED
    BY <1>2, <2>1
<1>4. k - 1 \in Nat /\ k - 1 \notin Without
  BY <1>2, <1>3
<1>5. PICK f : Sums(f, levels, k - 1)
  BY <1>4
<1> DEFINE g == [i \in 0..k |-> IF i = k THEN f[k - 1] + levels[k] ELSE f[i]]
<1>6. \A i \in 0..(k - 1) : f[i] = IF i = 0 THEN 0 ELSE f[i - 1] + levels[i]
  BY <1>5 DEF Sums
<1>7. \A i \in 0..k : g[i] = IF i = 0 THEN 0 ELSE g[i - 1] + levels[i]
  BY <1>3, <1>4, <1>6
<1>8. Sums(g, levels, k)
  BY <1>7 DEF Sums
<1> QED
  BY <1>2, <1>8

LEMMA SumLevelsIsSum ==
  ASSUME NEW n \in Nat, NEW levels, Len(levels) = n
  PROVE  \E f : Sums(f, levels, n) /\ SumLevels(levels) = f[n]
BY SumsExist DEF Sums, SumLevels

\* As many numbers between lo and hi add up to as many times as much.
LEMMA SumBounds ==
  ASSUME NEW n \in Nat, NEW levels, NEW lo \in Nat, NEW hi \in Nat, NEW f,
         Sums(f, levels, n), \A i \in 1..n : levels[i] \in lo..hi
  PROVE  f[n] \in Nat /\ n * lo <= f[n] /\ f[n] <= n * hi
<1> DEFINE Good(i) == f[i] \in Nat /\ i * lo <= f[i] /\ f[i] <= i * hi
           Wrong == {i \in 0..n : ~Good(i)}
<1>1. SUFFICES ASSUME Wrong # {} PROVE FALSE
  OBVIOUS
<1>2. PICK k \in Wrong : \A j \in Wrong : k <= j
  <2>1. Wrong \in SUBSET Nat
    OBVIOUS
  <2> QED
    BY <1>1, <2>1, Least
<1>3. \A i \in 0..n : f[i] = IF i = 0 THEN 0 ELSE f[i - 1] + levels[i]
  BY DEF Sums
<1>4. k \in 1..n
  <2>1. Good(0)
    BY <1>3
  <2> QED
    BY <1>2, <2>1
<1>5. Good(k - 1)
  BY <1>2, <1>4
<1>6. f[k] = f[k - 1] + levels[k] /\ levels[k] \in lo..hi
  BY <1>3, <1>4
<1>7. k * lo = (k - 1) * lo + lo /\ k * hi = (k - 1) * hi + hi
  BY <1>4
<1>8. (k - 1) * lo \in Nat /\ (k - 1) * hi \in Nat
  BY <1>4
<1> QED
  BY <1>2, <1>5, <1>6, <1>7, <1>8

LEMMA AverageBounds ==
  ASSUME NEW n \in Nat \ {0}, NEW lo \in Nat, NEW hi \in Nat, NEW s \in Nat,
         n * lo <= s, s <= n * hi
  PROVE  s \div n \in lo..hi
<1> DEFINE q == s \div n
<1>1. q \in Nat /\ n * q <= s /\ s < n * q + n
  OBVIOUS
<1> HIDE DEF q
<1>2. q >= lo
  <2> SUFFICES ASSUME q + 1 <= lo PROVE FALSE
    BY <1>1
  <2>1. n * (q + 1) <= n * lo
    BY <1>1
  <2>2. n * (q + 1) = n * q + n
    BY <1>1
  <2> QED
    BY <1>1, <2>1, <2>2
<1>3. q <= hi
  <2> SUFFICES ASSUME hi + 1 <= q PROVE FALSE
    BY <1>1
  <2>1. n * (hi + 1) <= n * q
    BY <1>1
  <2>2. n * (hi + 1) = n * hi + n
    OBVIOUS
  <2> QED
    BY <1>1, <2>1, <2>2
<1> QED
  BY <1>1, <1>2, <1>3 DEF q
------------------------------------------------------------------------------
(* The levels.  Handles are made together, so they have the same limits.     *)

LevelsTyped ==
  /\ analog_capture_level_ \in Nat
  /\ was_analog_level_set_ \in BOOLEAN /\ stream_is_saturated_ \in BOOLEAN
  /\ capture_level_ \in [DOMAIN gain_controllers_ -> Nat]

SameLimits ==
  \A i \in DOMAIN gain_controllers_, j \in DOMAIN gain_controllers_ :
    gain_controllers_[i].limits = gain_controllers_[j].limits

PushInv ==
  \A t \in Thread : pc[t] = "push" => idx[t] \in 1..(Len(gain_controllers_) + 1)

StreamInv == LevelsTyped /\ SameLimits /\ PushInv /\ apm \in Formats

\* One of the limits of the handles.
InHandleLimits(level) ==
  \E i \in DOMAIN gain_controllers_ :
    LET l == gain_controllers_[i].limits IN level \in l[1]..l[2]

LEMMA AnswersTyped ==
  ASSUME NEW h \in Handle, NEW level \in Nat, NEW out \in Answers(h, level)
  PROVE  out \in Nat
<1>1. h.limits[1] \in Nat /\ h.limits[2] \in Nat
  BY DEF Handle
<1> QED
  BY <1>1 DEF Answers

\* The average of the answers: the mode is adaptive analog, so each answer is
\* in the limits of its handle.
LEMMA AverageInLimits ==
  ASSUME IInv, StreamInv, NEW t \in Thread, pc[t] = "body", enabled_,
         mode_ = "kAdaptiveAnalog",
         NEW levels \in [1..Len(gain_controllers_) -> Nat],
         \A i \in 1..Len(gain_controllers_) :
           levels[i] \in Answers(gain_controllers_[i], capture_level_[i])
  PROVE  InHandleLimits(SumLevels(levels) \div num_proc_channels_)
<1> DEFINE n == num_proc_channels_
           l == gain_controllers_[1].limits
<1>1. capture = t
  BY DEF IInv, CaptureInv
<1>2. \A s \in Thread : pc[s] # "init"
  BY <1>1 DEF IInv, CaptureInv
<1>3. Len(gain_controllers_) = n /\ n \in Nat \ {0}
  BY <1>2 DEF IInv, HandlesFollowSettings, FieldsTyped
<1>4. \A i \in 1..n : gain_controllers_[i].mode = "kAdaptiveAnalog"
  BY <1>2, <1>3 DEF IInv, HandlesFollowSettings
<1>5. DOMAIN gain_controllers_ = 1..n /\ 1 \in 1..n
  BY <1>3 DEF IInv, FieldsTyped
<1>6. l \in Nat \X Nat
  <2>1. gain_controllers_[1] \in Handle
    BY <1>3, <1>5 DEF IInv, FieldsTyped
  <2> QED
    BY <2>1 DEF Handle
<1>7. \A i \in 1..n : gain_controllers_[i].limits = l
  BY <1>5 DEF StreamInv, SameLimits
<1>8. \A i \in 1..n : levels[i] \in l[1]..l[2]
  BY <1>3, <1>4, <1>7 DEF Answers
<1>9. Len(levels) = n
  BY <1>3
<1>10. PICK f : Sums(f, levels, n) /\ SumLevels(levels) = f[n]
  BY <1>3, <1>9, SumLevelsIsSum
<1> HIDE DEF n, l
<1>11. l[1] \in Nat /\ l[2] \in Nat
  BY <1>6
<1>12. f[n] \in Nat /\ n * l[1] <= f[n] /\ f[n] <= n * l[2]
  BY <1>3, <1>8, <1>10, <1>11, SumBounds
<1>13. f[n] \div n \in l[1]..l[2]
  BY <1>3, <1>11, <1>12, AverageBounds
<1> QED
  BY <1>5, <1>10, <1>13 DEF InHandleLimits, l, n

\* What ProcessCaptureAudio leaves: levels of the handles, and an average.
LEMMA ProcessLevels ==
  ASSUME IInv, StreamInv, NEW t \in Thread, ProcessCaptureAudio(t)
  PROVE  /\ LevelsTyped'
         /\ analog_capture_level_' # analog_capture_level_ =>
              InHandleLimits(analog_capture_level_')
<1>1. pc[t] = "body" /\ gain_controllers_' = gain_controllers_
  BY DEF ProcessCaptureAudio
<1>2. DOMAIN gain_controllers_ = 1..Len(gain_controllers_) /\ Len(gain_controllers_) \in Nat
  BY DEF IInv, FieldsTyped
<1>3. CASE UNCHANGED <<stream, capture_level_>>
  BY <1>1, <1>3 DEF stream, StreamInv, LevelsTyped
<1>4. CASE enabled_ /\ (mode_ = "kAdaptiveAnalog" => was_analog_level_set_)
  <2> DEFINE n == Len(gain_controllers_)
             Fails(i) == Refuses(gain_controllers_[i], capture_level_[i])
             Out(i) == Answers(gain_controllers_[i], capture_level_[i])
             Stops(i) == \E j \in 1..i : Fails(j)
  <2>1. CASE UNCHANGED <<stream, capture_level_>>
    BY <1>3, <2>1
  <2>2. ASSUME NEW out, NEW saturated \in BOOLEAN,
               \A i \in 1..n : out[i] \in Out(i),
               stream_is_saturated_' = saturated,
               capture_level_' =
                 [i \in 1..n |-> IF Stops(i) THEN capture_level_[i] ELSE out[i]],
               was_analog_level_set_' = (was_analog_level_set_ /\ Stops(n)),
               analog_capture_level_' =
                 IF Stops(n) \/ mode_ # "kAdaptiveAnalog" THEN analog_capture_level_
                 ELSE SumLevels(capture_level_') \div num_proc_channels_
        PROVE  /\ LevelsTyped'
               /\ analog_capture_level_' # analog_capture_level_ =>
                    InHandleLimits(analog_capture_level_')
    <3>1. \A i \in 1..n : capture_level_[i] \in Nat /\ gain_controllers_[i] \in Handle
      BY <1>2 DEF StreamInv, LevelsTyped, IInv, FieldsTyped
    <3>2. \A i \in 1..n : out[i] \in Nat
      <4> TAKE i \in 1..n
      <4>1. out[i] \in Out(i) /\ gain_controllers_[i] \in Handle /\ capture_level_[i] \in Nat
        BY <2>2, <3>1
      <4> QED
        BY <4>1, AnswersTyped
    <3>3. capture_level_' \in [1..n -> Nat]
      <4> HIDE DEF n, Stops
      <4> QED
        BY <2>2, <3>1, <3>2
    <3>4. CASE Stops(n) \/ mode_ # "kAdaptiveAnalog"
      BY <1>1, <1>2, <2>2, <3>3, <3>4 DEF StreamInv, LevelsTyped
    <3>5. CASE ~Stops(n) /\ mode_ = "kAdaptiveAnalog"
      <4>1. \A i \in 1..n : ~Stops(i)
        BY <1>2, <3>5
      <4>2. \A i \in 1..n : capture_level_'[i] \in Out(i)
        <5> HIDE DEF n, Stops, Out
        <5> QED
          BY <2>2, <4>1
      <4>3. analog_capture_level_' = SumLevels(capture_level_') \div num_proc_channels_
        BY <2>2, <3>5
      <4>4. PICK levels \in [1..n -> Nat] : levels = capture_level_'
        BY <3>3
      <4>5. InHandleLimits(SumLevels(levels) \div num_proc_channels_)
        BY <1>1, <1>4, <3>5, <4>2, <4>4, AverageInLimits
      <4>6. InHandleLimits(analog_capture_level_')
        BY <4>3, <4>4, <4>5 DEF SumLevels
      <4>7. analog_capture_level_' \in Nat
        BY <1>2, <3>1, <4>6 DEF InHandleLimits, Handle
      <4> QED
        BY <1>1, <1>2, <2>2, <3>3, <4>6, <4>7 DEF LevelsTyped
    <3> QED
      BY <3>4, <3>5
  <2> QED
    BY <1>4, <2>1, <2>2 DEF ProcessCaptureAudio
<1> QED
  BY <1>3, <1>4 DEF ProcessCaptureAudio

LEMMA AnalyzeLevels ==
  ASSUME IInv, StreamInv, NEW t \in Thread, AnalyzeCaptureAudio(t)
  PROVE  LevelsTyped'
<1>1. UNCHANGED <<stream, gain_controllers_>>
  BY DEF AnalyzeCaptureAudio
<1>2. CASE UNCHANGED capture_level_
  BY <1>1, <1>2 DEF stream, StreamInv, LevelsTyped
<1>3. ASSUME NEW out \in [DOMAIN gain_controllers_ -> 0..DigitalMax],
             capture_level_' =
               [i \in DOMAIN gain_controllers_ |->
                 IF \E j \in 1..(i - 1) : WrongLength(gain_controllers_[j])
                 THEN capture_level_[i]
                 ELSE IF mode_ = "kAdaptiveAnalog" THEN analog_capture_level_ ELSE out[i]]
      PROVE  LevelsTyped'
  <2>1. \A i \in DOMAIN gain_controllers_ :
          out[i] \in Nat /\ capture_level_[i] \in Nat /\ analog_capture_level_ \in Nat
    BY <1>3, DigitalAssumption DEF StreamInv, LevelsTyped
  <2>2. capture_level_' \in [DOMAIN gain_controllers_ -> Nat]
    BY <1>3, <2>1
  <2> QED
    BY <1>1, <2>2 DEF stream, StreamInv, LevelsTyped
<1> QED
  BY <1>2, <1>3 DEF AnalyzeCaptureAudio

LEMMA SetLevels ==
  ASSUME IInv, StreamInv, NEW t \in Thread, SetStreamAnalogLevel(t)
  PROVE  LevelsTyped'
<1>1. /\ was_analog_level_set_' = TRUE /\ UNCHANGED <<stream_is_saturated_, handles>>
      /\ analog_capture_level_' = IF arg[t] \in limits[1]..limits[2]
                                  THEN arg[t] ELSE analog_capture_level_
  BY DEF SetStreamAnalogLevel
<1>2. limits[1] \in Nat /\ limits[2] \in Nat
  BY LimitsAssumption DEF IInv, FieldsTyped
<1> QED
  BY <1>1, <1>2 DEF handles, StreamInv, LevelsTyped

LEMMA InitializeLevels ==
  ASSUME IInv, StreamInv, NEW t \in Thread, Initialize(t)
  PROVE  LevelsTyped' /\ SameLimits' /\ PushInv' /\ apm' \in Formats
<1>1. apm' \in Formats
  BY DEF Initialize, IInv, ArgInv, StreamInv
<1>2. num_proc_channels_' \in Nat
  BY InitializeStep DEF IInv, FieldsTyped
<1>3. \A s \in Thread : s # t => pc[s] # "push"
  BY DEF IInv, CaptureInv, Initialize
<1>4. CASE ~enabled_ /\ Return(t) /\ UNCHANGED handles
  <2>1. pc'[t] = "idle" /\ \A s \in Thread : s # t => pc'[s] = pc[s]
    BY <1>4 DEF Return, IInv, CallsTyped
  <2>2. UNCHANGED stream
    BY DEF Initialize
  <2> QED
    BY <1>1, <1>3, <1>4, <2>1, <2>2
       DEF handles, stream, StreamInv, LevelsTyped, SameLimits, PushInv
<1>5. CASE /\ enabled_
           /\ gain_controllers_' = [i \in 1..num_proc_channels_' |-> NewHandle(sample_rate_hz_')]
           /\ capture_level_' = [i \in 1..num_proc_channels_' |-> analog_capture_level_]
           /\ Goto(t, "configure")
  <2>1. pc'[t] = "configure" /\ \A s \in Thread : s # t => pc'[s] = pc[s]
    BY <1>5 DEF Goto, IInv, CallsTyped
  <2>2. UNCHANGED stream
    BY DEF Initialize
  <2>3. capture_level_' \in [DOMAIN gain_controllers_' -> Nat]
    BY <1>5 DEF StreamInv, LevelsTyped
  <2>4. LevelsTyped'
    BY <2>2, <2>3 DEF stream, StreamInv, LevelsTyped
  <2>5. SameLimits'
    BY <1>5 DEF SameLimits
  <2>6. PushInv'
    BY <1>3, <2>1 DEF PushInv
  <2> QED
    BY <1>1, <2>4, <2>5, <2>6
<1> QED
  BY <1>4, <1>5 DEF Initialize

LEMMA PushLevels ==
  ASSUME IInv, StreamInv, NEW t \in Thread, ConfigurePush(t)
  PROVE  StreamInv'
<1> DEFINE k == idx[t]
           old == gain_controllers_
           new == gain_controllers_'
<1>1. /\ pc[t] = "push" /\ k <= Len(old)
      /\ new = [old EXCEPT ![k].config = snap[t]]
      /\ idx' = [idx EXCEPT ![t] = k + 1] /\ pc' = pc
      /\ UNCHANGED <<stream, capture_level_, apm>>
  BY DEF ConfigurePush
<1>2. k \in 1..Len(old) /\ Len(old) \in Nat /\ DOMAIN old = 1..Len(old)
      /\ \A i \in 1..Len(old) : old[i] \in Handle
  BY <1>1 DEF IInv, CallsTyped, FieldsTyped
<1>3. new = [i \in 1..Len(old) |-> IF i = k THEN [old[k] EXCEPT !.config = snap[t]] ELSE old[i]]
  BY <1>1, <1>2
<1>4. [old[k] EXCEPT !.config = snap[t]].limits = old[k].limits
  <2>1. old[k] \in Handle
    BY <1>2
  <2> QED
    BY <2>1 DEF Handle
<1>5. \A i \in 1..Len(old) : new[i].limits = old[i].limits
  BY <1>2, <1>3, <1>4
<1>6. DOMAIN new = DOMAIN old /\ Len(new) = Len(old)
  BY <1>2, <1>3
<1>7. SameLimits'
  BY <1>2, <1>5, <1>6 DEF StreamInv, SameLimits
<1>8. LevelsTyped'
  BY <1>1, <1>6 DEF stream, StreamInv, LevelsTyped
<1>9. PushInv'
  BY <1>1, <1>2, <1>6 DEF StreamInv, PushInv, IInv, CallsTyped
<1> QED
  BY <1>1, <1>7, <1>8, <1>9 DEF StreamInv

\* The handles and the stream stay as they are, and no thread but t, which is
\* at the first handle, begins to push.
LEMMA QuietLevels ==
  ASSUME IInv, StreamInv, NEW t \in Thread, UNCHANGED <<stream, handles, apm>>, NEW label,
         pc' = [pc EXCEPT ![t] = label], label = "push" => idx'[t] = 1,
         \A s \in Thread : s # t => idx'[s] = idx[s]
  PROVE  StreamInv'
<1>1. Len(gain_controllers_) \in Nat
  BY DEF IInv, FieldsTyped
<1>2. PushInv'
  BY <1>1 DEF handles, StreamInv, PushInv, IInv, CallsTyped
<1> QED
  BY <1>2 DEF stream, handles, StreamInv, LevelsTyped, SameLimits

\* A return of the stream's calls, whatever they did to the levels.
LEMMA ReturnLevels ==
  ASSUME IInv, StreamInv, NEW t \in Thread, Return(t), LevelsTyped',
         UNCHANGED <<gain_controllers_, apm>>
  PROVE  StreamInv'
<1>1. pc'[t] = "idle" /\ \A s \in Thread : s # t => pc'[s] = pc[s] /\ idx'[s] = idx[s]
  BY DEF Return, IInv, CallsTyped
<1> QED
  BY <1>1 DEF StreamInv, SameLimits, PushInv

LEMMA NextStream == IInv /\ StreamInv /\ [Next]_vars => StreamInv'
<1> SUFFICES ASSUME IInv, StreamInv, [Next]_vars
             PROVE  StreamInv'
  OBVIOUS
<1>1. ASSUME NEW t \in Thread, CallControl(t) \/ CallAudio(t)
      PROVE  StreamInv'
  <2>1. \E o, a : \E label \in {"write", "render", "capture"} : Begin(t, o, a, label)
    BY <1>1 DEF CallControl, CallAudio, CallSetter, CallLimits, CallInitialize, CallEnable,
                CallMode, CallLevel, CallFrame
  <2>2. PICK label \in {"write", "render", "capture"} :
          pc' = [pc EXCEPT ![t] = label] /\ UNCHANGED <<stream, handles, apm, idx>>
    BY <2>1 DEF Begin, Goto, locals
  <2> QED
    BY <2>2, QuietLevels
<1>2. ASSUME NEW t \in Thread, Step(t)
      PROVE  StreamInv'
  <2>1. CASE \/ LockRender(t) \/ LockCapture(t) \/ WriteField(t) \/ WriteLimits(t)
             \/ ModeBody(t)
    <3>1. \E label : /\ label # "push" /\ pc' = [pc EXCEPT ![t] = label]
                     /\ UNCHANGED <<stream, handles, apm, idx>>
      BY <2>1 DEF LockRender, LockCapture, WriteField, WriteLimits, ModeBody, Goto, locals
    <3> QED
      BY <3>1, QuietLevels
  <2>2. CASE EnableBody(t)
    <3>1. UNCHANGED <<stream, handles, apm>>
      BY <2>2 DEF EnableBody
    <3>2. CASE Return(t)
      BY <3>1, <3>2, ReturnLevels DEF stream, handles, StreamInv, LevelsTyped
    <3>3. CASE Goto(t, "init") /\ UNCHANGED locals
      BY <3>1, <3>3, QuietLevels DEF Goto, locals
    <3> QED
      BY <2>2, <3>2, <3>3 DEF EnableBody
  <2>3. CASE Initialize(t)
    BY <2>3, InitializeLevels DEF StreamInv
  <2>4. CASE ConfigureRead(t)
    <3>1. /\ pc' = [pc EXCEPT ![t] = "push"] /\ idx' = [idx EXCEPT ![t] = 1]
          /\ UNCHANGED <<stream, handles, apm>>
      BY <2>4 DEF ConfigureRead, Goto
    <3>2. idx'[t] = 1 /\ \A s \in Thread : s # t => idx'[s] = idx[s]
      BY <3>1 DEF IInv, CallsTyped
    <3> QED
      BY <3>1, <3>2, QuietLevels
  <2>5. CASE ConfigurePush(t)
    BY <2>5, PushLevels
  <2>6. CASE ConfigureReturn(t) \/ ProcessRenderAudio(t)
    BY <2>6, ReturnLevels DEF ConfigureReturn, ProcessRenderAudio, stream, handles,
                              StreamInv, LevelsTyped
  <2>7. CASE SetStreamAnalogLevel(t)
    BY <2>7, SetLevels, ReturnLevels DEF SetStreamAnalogLevel, handles
  <2>8. CASE AnalyzeCaptureAudio(t)
    BY <2>8, AnalyzeLevels, ReturnLevels DEF AnalyzeCaptureAudio
  <2>9. CASE ProcessCaptureAudio(t)
    BY <2>9, ProcessLevels, ReturnLevels DEF ProcessCaptureAudio
  <2> QED
    BY <1>2, <2>1, <2>2, <2>3, <2>4, <2>5, <2>6, <2>7, <2>8, <2>9 DEF Step
<1>3. CASE UNCHANGED vars
  BY <1>3 DEF vars, stream, handles, locals, StreamInv, LevelsTyped, SameLimits, PushInv
<1> QED
  BY <1>1, <1>2, <1>3 DEF Next, Thread

LEMMA InitStream == Init => StreamInv
<1> SUFFICES ASSUME Init
             PROVE  StreamInv
  OBVIOUS
<1>1. DOMAIN gain_controllers_ = {} /\ capture_level_ \in [{} -> Nat]
  BY DEF Init
<1>2. LevelsTyped
  <2>1. capture_level_ \in [DOMAIN gain_controllers_ -> Nat]
    BY <1>1
  <2> QED
    BY <2>1 DEF Init, LevelsTyped
<1>3. SameLimits
  BY <1>1 DEF SameLimits
<1>4. PushInv /\ apm \in Formats
  BY DEF Init, PushInv
<1> QED
  BY <1>2, <1>3, <1>4 DEF StreamInv

\* Fields, handles, levels and calls of GainControlImpl stay in their ranges, in
\* every interleaving; in particular the average of the levels is a level, and
\* Configure() never goes past the last handle.
THEOREM GainControlTyped == Spec => []TypeOK
<1>1. IInv /\ LocksInv /\ StreamInv => TypeOK
  BY DEF IInv, FieldsTyped, CallsTyped, Ops, LocksInv, StreamInv, LevelsTyped, PushInv, TypeOK
<1> QED
  BY <1>1, IInvAlways, InitLocks, NextLocks, InitStream, NextStream, PTL DEF Spec

\* The reported level only moves to a level inside the limits of the API or of
\* a handle, for any number of channels: also when a frame was stopped by an
\* error, or the limits have changed since its levels were set.
THEOREM LevelAlwaysInLimits == Spec => LevelStaysInLimits
<1> DEFINE Within == analog_capture_level_' # analog_capture_level_ =>
                       \/ analog_capture_level_' \in limits[1]..limits[2]
                       \/ InHandleLimits(analog_capture_level_')
<1>1. IInv /\ StreamInv /\ [Next]_vars => [Within]_vars
  <2> SUFFICES ASSUME IInv, StreamInv, Next, analog_capture_level_' # analog_capture_level_
               PROVE  \/ analog_capture_level_' \in limits[1]..limits[2]
                      \/ InHandleLimits(analog_capture_level_')
    OBVIOUS
  <2>1. PICK t \in Thread : SetStreamAnalogLevel(t) \/ ProcessCaptureAudio(t)
    <3>1. ASSUME NEW t \in Thread, CallControl(t) \/ CallAudio(t)
          PROVE  FALSE
      BY <3>1 DEF CallControl, CallAudio, CallSetter, CallLimits, CallInitialize,
                  CallEnable, CallMode, CallLevel, CallFrame, Begin, stream
    <3>2. ASSUME NEW t \in Thread, Step(t), ~SetStreamAnalogLevel(t), ~ProcessCaptureAudio(t)
          PROVE  FALSE
      BY <3>2 DEF Step, LockRender, LockCapture, WriteField, WriteLimits, EnableBody,
                  ModeBody, Initialize, ConfigureRead, ConfigurePush, ConfigureReturn,
                  ProcessRenderAudio, AnalyzeCaptureAudio, stream
    <3> QED
      BY <3>1, <3>2 DEF Next, Thread
  <2>2. CASE SetStreamAnalogLevel(t)
    BY <2>2 DEF SetStreamAnalogLevel
  <2>3. CASE ProcessCaptureAudio(t)
    BY <2>3, ProcessLevels
  <2> QED
    BY <2>1, <2>2, <2>3
<1>2. [Within]_vars => [analog_capture_level_' # analog_capture_level_ =>
         \/ analog_capture_level_' \in limits[1]..limits[2]
         \/ \E i \in DOMAIN gain_controllers_ :
              LET l == gain_controllers_[i].limits IN analog_capture_level_' \in l[1]..l[2]]_vars
  BY DEF InHandleLimits
<1> QED
  BY <1>1, <1>2, IInvAlways, InitStream, NextStream, PTL DEF Spec, LevelStaysInLimits
==============================================================================
