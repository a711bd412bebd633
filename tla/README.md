# Verification of the AGC simulation

The repository simulates the automatic gain control (AGC) of WebRTC. It builds
two programs:

* `agc_spec` (`spec/agc_spec.cc`): reads a WAV file, hands it to
  `AudioProcessing::ProcessStream` 20 ms at a time, writes the result;
* the unit tests (`gtest_spec/`, `gain_control_unittest.cc`), which drive the multi-channel, locked
  `GainControlImpl` of `gain_control_impl_webrtc.cc` with the WebRTC support
  code it needs (`audio_buffer.cc`, `common_audio/`, `base/`).

Both rest on the same C code, `digital_agc/analog_agc.c` and
`digital_agc/digital_agc.c`.

This directory holds TLA+ modules that model the gain control, the program
around it with its WAV files, and the queues and threads of the support code;
TLC configurations that check them on small instances; and TLAPS proofs of their
safety properties for every value of the constants. `PROJECT.json` maps each
definition to the lines it models and lists runs, mutants, findings, hazards
and theorems.

    tlc -config GainControl.cfg MCGainControl      # one run
    tlapm GainControlProofs.tla                    # the proofs of one module

## 1. Inventory

### The system's parts

| Part | State | Operations | Module |
|---|---|---|---|
| `GainControlImpl` (`gain_control_impl_webrtc.cc`) | settings, analog level and its flags, one `GainController` per channel, two recursive locks shared with its owner | setters, `Enable`, `Initialize`, `Configure`, `set_stream_analog_level`, `ProcessRenderAudio`, `AnalyzeCaptureAudio`, `ProcessCaptureAudio` | `GainControl` |
| `LegacyAgc` (`analog_agc.c`) | level, its range, timers, the queue of two frames, digital gain index, virtual microphone | `WebRtcAgc_Init`, `AddMic`, `VirtualMic`, `Process`, `set_config` | `LegacyAgc` |
| `SaturationCtrl` (`analog_agc.c`) | a 16-bit accumulator | one call per frame | `SaturationCtrl` |
| `AudioProcessingImpl`, single-channel `GainControlImpl` (`audio_processing_impl.cc`, `gain_control_impl.cc`) | settings, a raw pointer to the `GainController` of the moment | `Create`, `Destory`, setters, `ProcessStream` | `AudioProcessing` |
| `SwapQueue` (`base/swap_queue.h`) | a ring of items, two indices, a count | `Insert`, `Remove`, `Clear` | `SwapQueue`, `BoundedFifo` |
| `agc_spec` and its WAV files (`spec/agc_spec.cc`, `wav_file.cc`, `wav_header.cc`) | file positions, sample counts, the buffered output | open, read, process, write, `Close` | `AgcSpec`, `WavHeader` |
| Message queues, threads (`base/messagequeue.cc`, `thread.cc`, `event.cc`, `nullsocketserver.cc`) | queue, delayed messages, send list, stop flag, event | `Post`, `PostDelayed`, `Dispose`, `Get`, `ProcessMessages`, `Send`, `ReceiveSends`, `Clear`, `Quit`, `Stop`, `Start` | `Threads`, `Rendezvous` |
| `AsyncInvoker` (`base/asyncinvoker.cc`) | count of pending closures, an event, the flag `destroying_` | `AsyncInvoke`, `OnMessage`, `Flush`, `Clear`, destructor | `AsyncInvoker` |
| Digital AGC (`digital_agc.c`) | gain table, limiter, VAD | `CalculateGainTable`, `ProcessDigital`, `ProcessVad` | not modelled |
| `AudioBuffer`, resamplers, byte buffers, `SignalThread`, sockets, TLS, logging, strings, signal processing, test helpers | | | not modelled, see section 8 |

### How they interact

`AudioProcessing::ProcessStream` calls `AnalyzeCaptureAudio` and
`ProcessCaptureAudio` for each half of its 20 ms. A `GainControlImpl` owns one
`GainController` per channel and with it one `LegacyAgc` handle. Settings reach
a handle through `WebRtcAgc_Init` (level range and mode, by `Initialize`) and
`WebRtcAgc_set_config` (by `Configure`). A frame reaches it through `AddMic`
(adaptive analog) or `VirtualMic` (adaptive digital), then `Process`, which
answers the level that the application should set; the application feeds it back
with `set_stream_analog_level`. `Process` asks `SaturationCtrl` about every
frame. `SwapQueue` hands render audio from one thread to another in the tests'
library.

`agc_spec` is sequential: it enables the gain control, opens the output and then
the input, and hands one frame after the other to `ProcessStream`; what it writes
passes through the buffer of a `FILE`.

Threads share their queues. A `Post` or `Send` puts a message into the queue or the
send list of another thread and signals its event; the other one takes it in
`Get()`. A thread that waits in `Send` handles what is sent to it meanwhile, so
calls of several threads are nested on each other's stacks. `AsyncInvoker` posts
closures to such threads, and its destructor waits until none is left.

### What is hard

* **Two critical sections per setter.** A setter writes its field under
  `crit_capture_`, releases it, then takes both locks for `Configure()` or
  `Initialize()`. Anything may happen in between.
* **Lock order.** Both locks are recursive and taken in nested scopes by
  setters, the audio module and both audio threads.
* **A long-running control loop with integer arithmetic.** The level is moved by
  truncating products, unsigned 32-bit products that wrap for a negative operand, and
  eight counters; several controllers act on one frame.
* **An in-place loop with early returns** (`ProcessStream`), and a **pointer that
  is never initialised** (`gain_controller_`).
* **An accumulator at the limit of its width** (`envSum`).
* **A ring buffer**: three counters, wrap-around, `Clear` at any moment, items
  written without a lock by whoever owns them.

* **One event for every purpose.** A thread waits for posts, for sent messages, for
  the answer to its own `Send` and for the order to stop on one auto-reset event; a
  wait at one level of its stack can take a wake-up meant for another.
* **Flags tested outside locks.** `Post` and `Send` test `stop_`, and the closures of
  `AsyncInvoker` test `destroying_`, before they act; the answer of a `Send` goes
  through a pointer into the stack of the sender.
* **A file whose header comes last.** The output begins with a blank header until
  `Close()`; the program can be killed at any time with part of its output buffered.
  The input is not checked, and a count of samples can be uninitialised.

`PROJECT.json` lists each hazard at its line, with the properties that cover it.

### What makes each part correct

* `GainControl`: no update of a setting is lost; the reported level only moves
  inside limits that were in force; the threads never wait for each other in a
  circle.
* `LegacyAgc`: the level stays in the promised range; the top of the range only
  comes down; a level that is fed back keeps what the handle asked for; the
  digital gain stays in its table; speech that stays too low or too high moves
  the level to the end of its range.
* `SaturationCtrl`: only loud frames are reported; of twelve full-scale frames in a
  row, one is.
* `AudioProcessing`: an enabled gain control has a current controller; 20 ms are
  processed as a whole or not at all.
* `SwapQueue`: it is a bounded FIFO queue, and no item has two owners.
* `Threads`: no wake-up is lost; a `Send` is answered once, while it waits, and
  returns, never before its message was handled or cleared; delayed messages keep their order; a running worker empties its queue.
* `AsyncInvoker`: the destructor is woken when the last closure is gone and returns,
  and only then; `Flush`
  waits for what was in the queue.
* `AgcSpec`: a readable output header counts the samples that are there; a finished
  run has processed every whole frame; no frame makes `ProcessStream` fail; nothing
  behind the audio is read; every run ends.

## 2. Modules and code

### GainControl (`gain_control_impl_webrtc.cc`)

The fields carry the names of the source; `limits` is the pair
`minimum_capture_level_`, `maximum_capture_level_`, and `config` the three fields
that `Configure()` pushes. A handle is the record of what it was last initialised
and configured with. `render` and `capture` are the owners of the two locks. A
call of a thread is `op`, `arg` and a label `pc`:

    setters:            write -> writing -> render -> capture -> body -> ...
    Initialize, Enable, set_mode:           render -> capture -> body -> ...
    audio functions, set_stream_analog_level:         capture -> body

`init`, `configure` and `push` are the calls of `Initialize()` and `Configure()`
made from `body`, with one step per handle. `fmt`, `snap` and `idx` are the locals
of `set_analog_level_limits` and `Configure()`. `apm` is the format of the audio
that arrives: the one the audio module last initialised the gain control with.

Arguments that the setters refuse are not generated, since the early return
changes nothing; `set_stream_analog_level`, which refuses after setting its flag,
is modelled with both outcomes. What the AGC inside a handle answers is any level
that `LegacyAgc!LevelInRange` allows. `AddFarend` only feeds the VAD of the far
end, so `ProcessRenderAudio` changes nothing here. The split in bands and the
samples themselves are left out; the length of a frame is not, because `AddMic`,
`VirtualMic` and `Process` refuse a wrong one.

### LegacyAgc (`analog_agc.c`)

One handle. Levels, the constants of the level control and the volume curves are
exact, 32-bit products included (`UMulShift15`, `UMulShift14`). A signal is what
the code asks of it: a frame is silent, normal or loud; the speech detector is
above its threshold or not; the slow energy measure is in one of five zones at
each 2 ms block. The variable `zones` says which zones may occur, as long as the
behaviour lasts.

`Process` in the adaptive modes is a chain of stages: `Enter` (manual changes),
`Saturated` or `NotSaturated`, `ZeroCtrl`, five blocks of `TooHigh`, `TooLow` or
`InRange`, and `Finish` (echo and mute guard, limits, answer, queue). They are
steps because the invariants that make the proof work live between them.
Milliseconds of speech are counted in blocks and those of silence in frames. A
level outside the range is refused: `Enter` is not enabled, nothing changes.
`ProcessDigital`, which `Process` calls first, changes no state of this module.

A frame counts as saturated when it is loud and the accumulator says so; both
`Saturated` and `NotSaturated` are enabled for a loud frame, and `SaturationCtrl`
models the accumulator alone.

### SaturationCtrl (`analog_agc.c`)

`envSum` with its conversion to `int16_t`, threshold, reset and decay. A frame is what
its loud subframes add together: `n` of them, each between 876 and 1024, add any number
between `n * 876` and `n * 1024` (`Contributions`); the constant `Sums` says which of these
may occur. A peak of 32767 is scaled to 1023 and one of -32768, to which `AddMic` also
clips, to 1024, so a frame is at full scale when it adds 10230 to 10240. `over` compares the
sum counted without wrap. `streak` counts the full-scale frames since the last report, up
to one more than `Patience` = 11.

### AudioProcessing (`audio_processing_impl.cc`, `gain_control_impl.cc`)

One thread. `gain_controller_` is `"null"` or `"wild"` after the constructor,
which does not initialise it, and `"live"` after an `Initialize()` that got past
the test for `enabled_`; using it otherwise sets `broken`, after which the program
does nothing. `leaked` counts controllers that were replaced without being freed.
`ProcessStream` is a loop over two halves, whose contents are `"in"`, `"mic"` after
`VirtualMic`, or `"out"`.

### SwapQueue and BoundedFifo (`base/swap_queue.h`)

`Insert`, `Remove` and `Clear` hold `crit_queue_` throughout and are one step each.
An item is a heap object (`buf`) with contents (`data`), which travel together in a
swap. `Fill` is the client's write to the item it owns. `BoundedFifo` is the
abstract queue; `SwapQueue!ImplementsFifo` is the refinement with `Contents`, the
ring read from the read index. A queue may have no slot at all, as in
`swap_queue_unittest.cc:206`: it is then full and empty at once.

### Threads (`base/messagequeue.cc`, `thread.cc`, `event.cc`, `nullsocketserver.cc`)

A thread is a stack of calls (`frame[t]`, `depth[t]`), because a thread that waits in
`Send` runs handlers, which may send again. A call is a record with the label `at`:

    run                             user code: main, or a message handler
    post -> wake                    Post: test of stop_, push; then WakeUp
    send -> sendwake -> check -> sendrecv -> sendwait -> check ...    Send
    recv -> scan -> pop -> got, or quit -> wait -> recv ...           ProcessMessages, Get
    stop -> join                    Stop

What happens under `crit_` is one step, and what happens between two critical sections
is a step each. The lists `msgq_`, `dmsgq_` and `sendlist_` are sets whose entries carry
the number under which they were appended, so that the first entry is the one with
the lowest number. A delayed message has its trigger time and `num`, which counts the
delayed posts before it; the `num_` of the code is its remainder (`Number`), since
`dmsgq_next_num_` is a `uint32_t`: `Numbers` is 2^32 in the code. The assertion behind the
increment is compiled out of a release build, so the number does wrap. Messages with
equal times and equal numbers leave the heap in either order (`Orders`). The clock is
`Tick`. `signaled` is the event. `Backlog` is a message that was posted to a
worker before it started. `NestedLoops` says whether a handler may call
`ProcessMessages(0)` itself.

`Rendezvous` is what `Send` promises, without lists, events or stacks: calls that wait
(`waiting`), those whose message nobody has taken (`asked`) and those whose message is
being handled (`served`). `Threads!SendsRendezvous` is the refinement: a call is the
sender, its place on the stack and the target; `InSend` reads `waiting` from the
stacks of the senders, `InList` reads `asked` from the send lists and `InHandler` reads
`served` from the stacks of the targets. Three parts of the state that the code keeps
in step by pointers and flags are thereby compared at every step.

### AsyncInvoker (`base/asyncinvoker.cc`)

A closure has a `status` (made, queued, taken, running, being deleted, dead, or lost when
it was posted to a thread that quits) and the thread it is `on`. The counter, the event and
the tests of `destroying_` are steps of their own. `job`, `made`, `doomed` and `flushing`
are the closures a thread is running, posting, deleting or flushing. The threads are
those of `Threads` seen from outside: a post is a test and a push, a thread takes one
message at a time, and one that quits may leave messages behind. `before` records what
was in the queue when `Flush` was called.

### WavHeader and AgcSpec (`wav_header.cc`, `wav_file.cc`, `spec/agc_spec.cc`)

A file is the record of its header and its length in bytes. `WavHeader` holds
`CheckWavParameters`, `WriteWavHeader` and `ReadWavHeader`, with the 16- and 32-bit
widths of the fields as `Word16` and `Word32`. `AgcSpec` is `main()`, one action per
step, with `AudioProcessing` instantiated for the calls it makes. `out` is the output as
the program has written it and `disk` what the system holds; `Flush` moves any part
of the difference at any time, and `Kill` ends the process. What an early return of
`ReadWavHeader` leaves uninitialised is any member of `Garbage`, and the header that
`WriteWavHeader` does not write any of `StackBytes`.

## 3. Runs

| Run | Result | Shows |
|---|---|---|
| `gain_control` | pass, 2,489,985 states | Two setting threads and a capture thread in every interleaving: `HandlesFollowSettings`, `NoDeadlock`, `LevelStaysInLimits` |
| `legacy_agc_levels` | pass, 2,127,982 states | `LevelInRange`, `DigitalGainInTable`, `TopNeverRises`, `FeedbackKeepsLevel` in all three modes, with re-initialisation from one to another |
| `legacy_agc_steady` | pass, 880,288 states | `TooLowReachesTop`, `TooHighReachesBottom` on the real range |
| `saturation_ctrl` | pass, 324,139 states | `SaturatedNeedsLoud`, `ReportedInTime` |
| `audio_processing` | pass, 121,260 states | `ControllerFollowsSettings`, `WholeOrNothing` |
| `swap_queue` | pass, 552,960 states | `IndicesAgree`, `NoSharedItem`, refinement `ImplementsFifo` |
| `threads` | pass, 339,990 states | `NoLostWakeUp`, `SenderWakesUp`, `SendsAccountedFor`, `DueOrder`, `SendsReturn`, `QueueDrains`, refinement `SendsRendezvous` |
| `async_invoker` | pass, 341,898 states | `SafeDestruction`, `FlushWaits`, `DestructorWakesUp`, `DestructorReturns` |
| `agc_spec` | pass, 110,065 states | `HeaderNeverLies`, `OutputComplete`, `ReadsOnlyAudio`, `FramesProcessed`, `NearsTheEnd`, `ProgramEnds` |
| `gain_control_channels` | violation | `ChannelsMatchAudio`, see section 4 |
| `saturation_ctrl_overflow` | violation | `NoSaturationMissed` |
| `threads_pending` | violation | `PendingDelivered` |

The passing runs also check the `TypeOK` of their module, except `audio_processing` and
`swap_queue`, whose types are only proved, and `legacy_agc_steady`, which shares its module
with `legacy_agc_levels`.

### Bounds, and why they are enough

* **`gain_control`**: two control threads with two calls and one, a capture thread
  with three. Enable, a setter, and another setter or `Initialize` in the middle of
  it need three control calls; setting a level, `AnalyzeCaptureAudio` and
  `ProcessCaptureAudio` need three capture calls. Two formats (one and two channels,
  8 and 16 kHz) make frames of the wrong length possible; the limits `0..2` and
  `2..3` make stale levels illegal. All its properties are proved without any of these
  bounds.
* **`legacy_agc_levels`**: analog range `1..5`, digital range `0..3`, two blocks per
  frame and timers scaled to match (no timer shorter than a frame, as in the code).
  The level passes through every region: below the lowest output, analog, and above
  the analog maximum. Frames are silent or loud: a normal frame behaves like a loud one
  that is not reported as saturated. Shares of the range are larger than in the code
  (`MinQ8` 64, `StartQ9` 200) so that the lowest output differs from the minimum in so
  small a range. The same properties are proved for every range, timer and share.
* **`legacy_agc_steady`**: the real range `0..255`, and `0..9`, where rounding can make
  an increment vanish; the code's curves, shares and table length. Only the timers are
  scaled (the shortest, 340 ms, to the five blocks of a frame, the others above it): they
  decide when a level changes, not by how much. Speech only, in the two low zones
  or in the two high ones.
* **`saturation_ctrl`**: frames that add nothing, one subframe at each end of the loud
  range, three values in between, and full-scale frames of peaks at 32767, at -32768 and
  of both, with the last value below full scale (10229). Almost every value that `envSum`
  can hold is reached, wrapped ones included. `Patience` (11) is no bound of the run but the
  number of full-scale frames that may go unreported in a row, which do occur: five that
  lead up to a wrap and six after it. The properties are proved for any `Sums`.
* **`audio_processing`**: two fields with two values, limits inside and beyond the
  range of the adaptive digital mode, levels in and out of range, at most two
  replaced controllers (`MaxLeaks`).
* **`swap_queue`**: three slots, two producers, one consumer, one payload beside the
  empty item, so that the ring wraps and the consumer's item comes back in.
* **`threads`**, **`threads_pending`**: a worker and a main thread, one handler, three
  calls of user code (`MaxOps`) on top of the message in the backlog, stacks of three
  calls, delays of 0 and 1, and numbers that wrap at two (`Numbers`). That is enough for the two threads to send to each other
  and to handle the other's message inside their own wait, for two delayed messages due
  at the same time on either side of a wrap and for two with the same number, and for a `Clear`, `Quit` or `Stop` at every point of a `Post` or
  `Send`. The safety properties are proved for any numbers.
* **`async_invoker`**: two workers, the owner and three closures: one that runs, one
  that it invokes while the destructor is under way, one in another queue.
* **`agc_spec`**: frames of two samples and header fields of six bits in place of 16 and
  32, so that a file of 14 samples is too long for its header; input files that are
  sound, cut off at every part of the header and of a frame, followed by metadata, with
  8 bits per sample, with an extension, or with unsound headers. The proofs hold for
  the widths of the code.

Deadlock is not checked where calls are bounded (`GainControl`, `Threads`,
`AsyncInvoker`), where the program ends (`AgcSpec`) or may break (`AudioProcessing`), and in
`SwapQueue`, whose operations may be called or not.

### Fairness

* `LegacyAgc!RunningSpec`: weak fairness of `ProcessStep`. The audio stream calls
  `Process` every 10 ms and `Process` is sequential code. `Accepted` restricts the two
  liveness properties to an application whose level is in range, since `Process`
  refuses any other level, call after call.
* `Threads!FairSpec`: weak fairness of `Step(t)` for each thread, and of `Tick`. `Step(t)` is
  what a thread does inside a call: the operating system schedules it, and time passes.
  User code need not make any call, and a wait is no step until the event is signaled
  or the deadline has come.
* `AsyncInvoker!FairSpec`: weak fairness of `Step(t)` for each thread, for the same reason.
* `AgcSpec!FairSpec`: weak fairness of `Step`; nothing is assumed of `Flush` and `Kill`.

## 4. Findings

| Run | Where | What |
|---|---|---|
| `gain_control_channels` | `gain_control_impl_webrtc.cc:330` | `set_analog_level_limits` re-initialises with a channel count and a rate it read before it released the lock. An `Initialize()` of another thread in between is undone, and the next frame fails `RTC_DCHECK_EQ(audio->num_channels(), *num_proc_channels_)`. |
| `saturation_ctrl_overflow` | `analog_agc.c:471` | A full-scale frame can carry the 16-bit sum past 32767; it turns negative and the frame is not reported. `saturation_ctrl` shows what limits this: from whatever value of the sum, a signal that stays at full scale is reported within twelve frames. |
| `threads_pending` | `base/messagequeue.cc:312` | `messagequeue.h:214-216` promises that ready posts and pending sends are delivered before `Get` returns false. `Get` scans the queue, lets go of the lock and then looks at `stop_`: what is pushed in between stays behind. |

Observations without a run of their own:

* Equal limits are accepted by `set_analog_level_limits` and refused by `WebRtcAgc_Init`,
  against `RTC_DCHECK_EQ(0, error)` (`gain_control_impl_webrtc.cc:313`).
* A saturated frame may still raise the level: the counter held back is the one for
  decreasing it (`analog_agc.c:724`, comment at 686).
* The cap `zeroCtrlMax` may be older than the level and lower it after silence
  (`analog_agc.c:517`, comment at 746).
* A slider that stands below the lowest output and does not follow a request has the
  request overwritten with ten percent of the range (`analog_agc.c:650`) before the code
  that restores it is reached.
* `LegacyAgc!TopNeverRises` shows that the branch of `ProcessAnalog` that lets a user
  raise `maxLevel` is never taken.
* With `NestedLoops = TRUE` and stacks of four calls `SenderWakesUp` does not hold: a
  handler that runs during the wait of a `Send` and calls `ProcessMessages(0)` takes the
  wake-up of that `Send` and gives none back. The test at `thread_unittest.cc:379` pumps
  messages inside a handler, but not below a `Send` of the same thread.
* A closure posted to a thread that is quitting is neither run nor deleted, and the
  destructor of its `AsyncInvoker` waits for ever (`asyncinvoker.cc:86`). The two properties
  of the destructor exempt threads that were told to quit: they show that there is no
  other way to be left waiting.
* A setter called before the first `Enable(true)` uses `gain_controller_` uninitialised
  (`gain_control_impl.cc:428`), and so does the destructor; `ControllerFollowsSettings` is
  about enabled controls.
* Delayed messages with equal times change places when `dmsgq_next_num_` wraps between
  their posts, as the comment at `messagequeue.cc:424` expects; `DueOrder` shows that no
  others do.
* Samples are counted in units of the header and read in units of 16 bits: of an 8-bit
  file twice the audio is read, metadata included (`wav_file.cc:41-47`, 73). After an
  early return of `ReadWavHeader` `num_samples_` is uninitialised; the loop still ends,
  with the file. A header for more samples than 32 bits can count is written from
  uninitialised memory (`wav_header.cc:80`).
* The output is opened before the input (`agc_spec.cc:41`): one name for both destroys the
  file.
* `Peek` tests and sets `fPeekKeep_` without a lock (`messagequeue.cc:231`).

## 5. Proofs

Each theorem holds for every value of the constants that satisfies the named
`ASSUME`s of its module. Every invariant and every action property of the passing runs is
proved.

**`GainControlProofs`**: for any number of threads, calls, channels and settings.
`SettingsReachHandles`, `Spec => []HandlesFollowSettings`. The property is not inductive: a
push of the local configuration to the handles would undo a concurrent write. The
inductive invariant `IInv` adds that `crit_capture_` is held exactly by the thread inside a
critical section (`CaptureInv`), that the local copy of `Configure()` is therefore
still the current configuration (`SnapFresh`), that arguments are of the kind their call
takes (`ArgInv`) and where a call may be (`PlaceInv`), with types. One lemma per action;
`KeptFollows` serves every action that leaves settings and handles alone.
`LocksNeverDeadlock` adds who holds `crit_render_` (`RenderInv`): the owner of the render
lock waits at most for the capture lock, and the owner of that one waits for nothing.
`LevelAlwaysInLimits` adds that all handles have the same limits between two critical
sections (`SameLimits`) and that an average of levels in a range is in the range; the sum
over the channels is a recursive function, and its bounds are proved from the least
channel that would break them (`Least`, `SumsExist`). `GainControlTyped` is `[]TypeOK`.

**`LegacyAgcProofs`**: `LevelAlwaysInRange`, `TopOnlyRaisedByInit`, `FedBackLevelKept`,
`DigitalGainAlwaysInTable`, `AgcTyped`. The difficulty is inside a frame. A raise may carry
`micVol` above `maxLevel` until the end of the call; were it lowered again in the same
frame, the truncated average would raise `maxLevel`. `RaisedInv` says why this cannot be:
when the level is above the top, fewer too high blocks have been counted than blocks of
this frame have passed. `TimerAssumption` (no timer is shorter than a frame; in the
code the shortest is 340 ms against 10 ms) closes the argument. `ShareAssumption` bounds
the two shares of the range; the code's are 10/256 and 51/512. Wrapped 32-bit products
need no case of their own: the minimum with `lastMicVol` and the final limits do the
work, so it suffices that they are integers. `AgcTyped` (`[]TypeOK`) adds the queue of
frames, the timers and the gain index (`FieldsInv`); the index needs that its target is a
share of the table, which is where the level has to be below the top.

**`SaturationCtrlProofs`**: `SumStaysBelow` (`[]TypeOK`: between two frames the sum is at
most 25000, wrapped or not) and `OnlyLoudFramesReported`, by mutual induction, for
frames that add any of the numbers that ten envelopes can. `FullScaleWithinTwelve` is `[]ReportedInTime`: of twelve full-scale
frames in a row one is reported, whatever the sum was before. The count alone is not
inductive; `StreakInv` relates it to the sum. Either the frames have climbed from wherever
the sum was, at most five of them before the threshold or a wrap (`Climbing`), or one has
wrapped it, which leaves it in a narrow range (`Wrapped`): six frames take that range past
the threshold, and none of them can wrap it again.

**`AudioProcessingProofs`**: `ControllerAlwaysFollows`, `StreamWholeOrNothing` and `ProcessingTyped`
(`[]TypeOK`). The first two are proved together: that no second half fails after a first was processed needs that the
controller has the range of the current mode, so that the level of the virtual
microphone is never refused. `Progress` says what each half holds at each point of the
loop.

**`SwapQueueProofs`**: `SwapQueueTyped`, `IndicesAlwaysAgree`, `ItemsNeverShared` and
`RingImplementsFifo`, for every size, zero included, and any number of threads. The refinement rests on
`InsertAppends` and `RemoveTakesOldest`, which compute the abstract queue after a step.

**`ThreadsProofs`**: for any number of threads, handlers, delays and calls and any depth of
the stacks. `ThreadsTyped`, `SendsAreAccountedFor`, `NoWakeUpIsLost`, `SendersWakeUp`,
`DelayedInOrder`. The common part is `Core`: types, which call may stand on which in a stack
(`Shape`), and that every `Send` that waits unanswered is in one send list or has one
handler running for it, and every such entry or handler belongs to one `Send`
(`Account`, `Once`). On top of it:

* `Watchful`, for `NoLostWakeUp`: from the scan on, a thread on its way to the wait knows
  that its queues are empty, or its event is signaled or about to be. The property alone
  says nothing about the steps before the wait, where the pushes come in.
* `Answered`, for `SenderWakesUp`: a `Send` that was answered finds the event signaled, or
  a `Send` above it on the same stack has waited and will hand the wake-up on. This is
  proved for `~NestedLoops` only, since it is false otherwise (section 4).
* `Ordered`, for `DueOrder`: what was appended later has the higher number, in both lists
  and between them. The number of the code decides only among equal times, and as long
  as it has not wrapped in between it grows with the posts (`LaterNumber`); so the messages
  that a scan moves stay in order whatever order it chooses for ties (`MovedInOrder`).

`SendIsRendezvous` is the refinement `Spec => SendsRendezvous`: the lists, the stacks and
the ready flags implement `Rendezvous`. `Core` suffices as the invariant. `Members` says
call by call what it means to be in each of the three mapped sets, and one lemma per
action (`*Meets`) shows its step to be an abstract step or a stutter. `CheckReady` maps to
`Return`, which may not happen while the message is listed or handled: by `Account`, every
entry and every handler belongs to a `Send` that is not ready. `ReceiveSends` and `SendHandled`
map to `Serve`, `Answer` or `AnswerAndServe`, where `Once` makes the entry or the handler
that goes away the only one of its `Send`. Whatever touches none of the three sets is
covered by `SteadyMeets`. The proof does not exclude nested loops.

**`AsyncInvokerProofs`**: `InvokerTyped`, `DestructionIsSafe`, `FlushAlwaysWaits`,
`DestructorIsWoken`, for any number of threads and closures. The counter is the number of closures that are not dead
(`Counted`); a thread inside a call holds such a closure (`Locals`, `Held`), which no other
thread holds (`Apart`). A counter of zero then means that no thread is inside a call,
which is what the destructor concludes from it. For `Flush`, `Tracked` says where the
closures are that were in the queue at its call. `DestructorIsWoken` (`[]DestructorWakesUp`)
adds that a closure which is counted and in no queue is in the hands of some thread
(`Kept`), that one is lost only on a thread that was told to quit (`Left`, `Gone`), and that
a worker posts only from inside a functor (`FromFunctor`), after which it sets the event.

**`AgcSpecProofs`**: `ProgramTyped`, `HeaderIsTrue`, `OutputIsComplete`, `MetadataIsNotRead`,
`EveryFrameProcessed`, `EveryStepNearer`, for every input file, frame length and width. The header is blank, on disk too, until
`Close()` has emptied the buffer (`Blank`); the length of the output is that of the samples
counted (`Lengths`), so that the header written last is read back as those samples
(`Closed`). `Accounted` relates the position in the input, the samples written and those
still to be read; `Frames` says that whole frames are written and, at the end, all of
them. `EveryFrameProcessed` (`[]FramesProcessed`) reasons through the composition with
`AudioProcessing`: the program never leaves the fixed digital mode and its controller is the
one for the current settings (`Settings`), so no half is refused (`Untroubled`), and the
halves before the current one are processed (`Treated`). `EveryStepNearer` proves the action
property `NearsTheEnd`: `Rank`, a natural number that is zero only at the end, falls with
every step but `Flush`. What is left of the input weighs more than the steps of one frame;
a header that promises more than the file holds does not matter, as an empty read
leaves the loop.

## 6. Only model-checked

* Liveness (`TooLowReachesTop`, `TooHighReachesBottom`, `SendsReturn`, `QueueDrains`,
  `DestructorReturns`, `ProgramEnds`): temporal reasoning under fairness is out of the
  prover's reach. For four of them the part that is a matter of safety is proved:
  `NearsTheEnd` gives the measure behind `ProgramEnds`; `DestructorWakesUp`, `SenderWakesUp` and `NoLostWakeUp` say
  that the waits behind `DestructorReturns`, `SendsReturn` and `QueueDrains` are not for
  something that has already been lost. What is left to TLC is that fair threads go on.
* The violations of section 4: they are shown by their counterexamples.

## 7. What could still be added

1. **Threads**: the destruction of a queue and its registration at `MessageQueueManager`, `Peek`,
   `ProcessAllMessageQueues`; then a refinement of `Threads` to the view of a thread that
   `AsyncInvoker` takes, and `SignalThread` and `GuardedAsyncInvoker` on top of it.
2. **Digital AGC**: the gain table as an operator against a reference definition. It needs
   the tables and the logarithms of the code over ranges TLC can enumerate, and says little
   about the level control.
3. **Byte buffers**: the free list of `BufferQueue`, sharing in `CopyOnWriteBuffer`.

## 8. Not modelled

* In `LegacyAgc`: how the energy measure arises (its zone is an input), the threshold for
  an inactive speaker, `set_config`, `get_config` and `AddFarend`.
* In `Threads`: `Peek`, `PostAt`, the destruction of queues and `MessageQueueManager`,
  `WrapCurrent`, socket servers other than `NullSocketServer`. In `AsyncInvoker`:
  `GuardedAsyncInvoker`, `Flush` from a functor, the filter by id.
* In `AgcSpec`: a write that fails, the copies of the file names. After a short
  `fwrite`, `WriteSamples` writes through an uninitialised pointer; where that ends the
  program, `Kill` covers it. The results of the calls in `Close()` are not tested by the code.
* Samples: filters, resampling kernels, the digital gain and its VAD, band splitting. Their
  state space is the audio itself.
* `AudioBuffer` beyond the channel count and the frame length: its flags are set and tested
  within single calls of one thread.
* `SignalThread`, byte buffers, sockets, TLS adapters, logging, strings, time and platform
  helpers of `base/`: containers and wrappers of the operating system or of OpenSSL that
  neither program uses for its gain control.
* `include/gtest`, `include/gmock`, `sslroots.h`, resources and libraries: third-party or
  data. With `base/`, they are most of the repository's lines, so the share of lines that
  the map covers is small however much of the gain control is modelled.
* The unit tests themselves; they served to understand how the code is called.
