------------------------------- MODULE AgcSpec -------------------------------
(***************************************************************************)
(* spec/agc_spec.cc with common_audio/wav_file.cc: the program, which      *)
(* reads a WAV file in frames of kNumSamples, has AudioProcessing treat    *)
(* each frame and writes it to a second WAV file.                          *)
(*                                                                         *)
(* Both files are records of module WavHeader.  What is written goes       *)
(* through the buffer of the FILE: out is the file as the program has      *)
(* written it, disk what the system holds of it.  The buffer empties       *)
(* itself at any time, as far as it likes, and a process that is killed    *)
(* loses what is left of it.  Samples have 16 bits, whatever the header    *)
(* says: the checks of the format are commented out.                       *)
(***************************************************************************)
EXTENDS WavHeader

CONSTANTS kNumSamples,  \* samples of a frame: 160
          Rate,         \* sample rate of the output: 8000
          Input,        \* the files the program is started with
          Garbage,      \* what an uninitialised size_t may hold
          StackBytes    \* what an uninitialised header may hold

kBytesPerSample == 2

ASSUME FrameAssumption == kNumSamples \in Nat /\ kNumSamples > 0
ASSUME RateAssumption ==
  Rate \in Nat /\ CheckWavParameters(1, Rate, kWavFormatPcm, kBytesPerSample, 0)
ASSUME InputAssumption == Input \subseteq [header : Header, bytes : Nat]
ASSUME GarbageAssumption == Garbage \subseteq Nat /\ Garbage # {}
ASSUME StackAssumption == StackBytes \subseteq Header /\ StackBytes # {}

VARIABLES alive, enabled_, mode_, limits, config, analog_capture_level_,
          was_analog_level_set_, stream_is_saturated_, gain_controller_, handle, leaked,
          data, half, pc, error, broken

\* The default settings are the only ones that agc_spec uses.
apm == INSTANCE AudioProcessing
         WITH Field <- {"config"}, Value <- {"default"}, Default <- "default",
              Limits <- {<<0, 255>>}, DefaultLimits <- <<0, 255>>, Level <- {},
              DigitalMax <- 255, MaxLeaks <- 0

VARIABLES main,       \* where main() stands
          status,     \* "running", "done", "failed" (return -1) or "killed"
          input,      \* the file that is read
          num_samples_remaining_,  \* of the WavReader
          position,   \* how far it has read the file
          num_samples_,            \* of the WavWriter
          out, disk   \* the file that is written

processing == <<alive, enabled_, mode_, limits, config, analog_capture_level_,
                was_analog_level_set_, stream_is_saturated_, gain_controller_, handle,
                leaked, data, half, pc, error, broken>>
reader == <<input, num_samples_remaining_, position>>
writer == <<num_samples_, out, disk>>
vars == <<processing, main, status, reader, writer>>

Smaller(a, b) == IF a <= b THEN a ELSE b

\* The 16-bit samples after the header of an output file.
Samples(f) == (f.bytes - kWavHeaderSize) \div kBytesPerSample

\* Create() has returned; there is no output file yet.
Init ==
  /\ apm!Init
  /\ main = "enable" /\ status = "running"
  /\ input \in Input
  /\ num_samples_remaining_ = 0 /\ position = 0
  /\ num_samples_ = 0
  /\ out = [header |-> BlankHeader, bytes |-> 0]
  /\ disk = [header |-> BlankHeader, bytes |-> 0]

Running(label) == status = "running" /\ main = label

\* Mutant: the argument is inverted.
EnableGainControlNot ==
  /\ Running("enable")
  /\ apm!Enable(FALSE)
  /\ main' = "writer"
  /\ UNCHANGED <<status, reader, writer>>

EnableGainControl ==
  /\ Running("enable")
  /\ apm!Enable(TRUE)
  /\ main' = "writer"
  /\ UNCHANGED <<status, reader, writer>>

\* WavWriter::WavWriter.  It writes through a wild pointer if the file cannot
\* be opened.
OpenWriter(opened) ==
  /\ Running("writer")
  /\ IF opened
     THEN /\ out' = [header |-> BlankHeader, bytes |-> kWavHeaderSize]
          /\ main' = "reader"
          /\ UNCHANGED status
     ELSE status' = "killed" /\ UNCHANGED <<main, out>>
  /\ UNCHANGED <<processing, reader, num_samples_, disk>>

\* Mutant: the payload is taken for a number of samples.
OpenReaderBytes(opened) ==
  /\ Running("reader")
  /\ IF opened
     THEN /\ num_samples_remaining_' \in IF Parsed(input) THEN {input.header.data_size} ELSE Garbage
          /\ position' = Consumed(input)
          /\ main' = "read"
          /\ UNCHANGED status
     ELSE status' = "killed" /\ UNCHANGED <<main, num_samples_remaining_, position>>
  /\ UNCHANGED <<processing, input, writer>>

\* WavReader::WavReader.  Nobody asks what ReadWavHeader returns, and it may
\* not have assigned num_samples_.  A file that cannot be opened is read
\* through a null pointer.
OpenReader(opened) ==
  /\ Running("reader")
  /\ IF opened
     THEN /\ num_samples_remaining_' \in IF Parsed(input) THEN {NumSamples(input)} ELSE Garbage
          /\ position' = Consumed(input)
          /\ main' = "read"
          /\ UNCHANGED status
     ELSE status' = "killed" /\ UNCHANGED <<main, num_samples_remaining_, position>>
  /\ UNCHANGED <<processing, input, writer>>

\* There could be metadata after the audio.
Wanted == Smaller(kNumSamples, num_samples_remaining_)

\* Mutant: the loop goes on as long as the header promises samples.
ReadSamplesRetries ==
  LET read == Smaller(Wanted, (input.bytes - position) \div kBytesPerSample)
  IN /\ Running("read")
     /\ num_samples_remaining_' = num_samples_remaining_ - read
     /\ position' = position + kBytesPerSample * read
     /\ main' = IF read = kNumSamples THEN "process"
                ELSE IF num_samples_remaining_' > 0 THEN "read" ELSE "close"
     /\ UNCHANGED <<processing, status, input, writer>>

\* Mutant: the loop ends with the last sample read, which is not processed.
ReadSamplesEndsEarly ==
  LET read == Smaller(Wanted, (input.bytes - position) \div kBytesPerSample)
  IN /\ Running("read")
     /\ num_samples_remaining_' = num_samples_remaining_ - read
     /\ position' = position + kBytesPerSample * read
     /\ main' = IF read = kNumSamples /\ num_samples_remaining_' > 0 THEN "process" ELSE "close"
     /\ UNCHANGED <<processing, status, input, writer>>

\* Mutant: the loop does not ask how many samples were read.
ReadSamplesUnchecked ==
  LET read == Smaller(Wanted, (input.bytes - position) \div kBytesPerSample)
  IN /\ Running("read")
     /\ num_samples_remaining_' = num_samples_remaining_ - read
     /\ position' = position + kBytesPerSample * read
     /\ main' = IF num_samples_remaining_ > 0 THEN "process" ELSE "close"
     /\ UNCHANGED <<processing, status, input, writer>>

\* WavReader::ReadSamples in the condition of the loop.
ReadSamples ==
  LET read == Smaller(Wanted, (input.bytes - position) \div kBytesPerSample)
  IN /\ Running("read")
     /\ num_samples_remaining_' = num_samples_remaining_ - read
     /\ position' = position + kBytesPerSample * read
     /\ main' = IF read = kNumSamples THEN "process" ELSE "close"
     /\ UNCHANGED <<processing, status, input, writer>>

ProcessStream ==
  /\ Running("process")
  /\ apm!ProcessStream(TRUE)
  /\ main' = "wait"
  /\ UNCHANGED <<status, reader, writer>>

ProcessHalf ==
  /\ Running("wait")
  /\ apm!AnalyzeCaptureAudio \/ apm!ProcessCaptureAudio
  /\ UNCHANGED <<main, status, reader, writer>>

\* ProcessStream returns.  An error ends the program, and its end empties the
\* buffer; otherwise WavWriter::WriteSamples.
WriteSamples ==
  /\ Running("wait") /\ pc = "idle"
  /\ IF error # "kNoError"
     THEN status' = "failed" /\ disk' = out /\ UNCHANGED <<main, num_samples_, out>>
     ELSE /\ out' = [out EXCEPT !.bytes = @ + kBytesPerSample * kNumSamples]
          /\ num_samples_' = num_samples_ + kNumSamples
          /\ main' = "read"
          /\ UNCHANGED <<status, disk>>
  /\ UNCHANGED <<processing, reader>>

\* Mutant: the header is rewritten before the buffer is empty.
CloseSeeksLate ==
  /\ Running("close")
  /\ disk' = [disk EXCEPT !.header =
                WriteWavHeader(1, Rate, kWavFormatPcm, kBytesPerSample, num_samples_)]
  /\ main' = "header"
  /\ UNCHANGED <<processing, status, reader, num_samples_, out>>

\* WavWriter::Close: fseek empties the buffer.
CloseSeeks ==
  /\ Running("close")
  /\ disk' = out
  /\ main' = "header"
  /\ UNCHANGED <<processing, status, reader, num_samples_, out>>

\* WriteWavHeader, fwrite and fclose.  Parameters that are refused leave the
\* header uninitialised.
CloseWrites ==
  /\ Running("header")
  /\ \E h \in IF CheckWavParameters(1, Rate, kWavFormatPcm, kBytesPerSample, num_samples_)
              THEN {WriteWavHeader(1, Rate, kWavFormatPcm, kBytesPerSample, num_samples_)}
              ELSE StackBytes :
       out' = [out EXCEPT !.header = h]
  /\ disk' = out'
  /\ main' = "closed"
  /\ UNCHANGED <<processing, status, reader, num_samples_>>

Destory ==
  /\ Running("closed")
  /\ apm!Destory
  /\ status' = "done"
  /\ UNCHANGED <<main, reader, writer>>
------------------------------------------------------------------------------
\* The buffer is written out, in whole or in part.
Flush ==
  /\ status = "running" /\ main \in {"reader", "read", "process", "wait"}
  /\ \E n \in disk.bytes..out.bytes :
       n % kBytesPerSample = 0 /\ disk' = [out EXCEPT !.bytes = n]
  /\ UNCHANGED <<processing, main, status, reader, num_samples_, out>>

Kill ==
  /\ status = "running"
  /\ status' = "killed"
  /\ UNCHANGED <<processing, main, reader, writer>>

Step ==
  \/ EnableGainControl
  \/ \E opened \in BOOLEAN : OpenWriter(opened) \/ OpenReader(opened)
  \/ ReadSamples \/ ProcessStream \/ ProcessHalf \/ WriteSamples
  \/ CloseSeeks \/ CloseWrites \/ Destory

Next == Step \/ Flush \/ Kill

Spec == Init /\ [][Next]_vars

\* The program runs; the buffer need not empty itself.
FairSpec == Spec /\ WF_vars(Step)
------------------------------------------------------------------------------
(* Properties. *)

\* Ranges of the variables, and how main() and the buffer stand to each other.
TypeOK ==
  /\ main \in {"enable", "writer", "reader", "read", "process", "wait", "close", "header",
               "closed"}
  /\ status \in {"running", "done", "failed", "killed"}
  /\ input \in Input
  /\ num_samples_remaining_ \in Nat /\ position \in 0..input.bytes
  /\ num_samples_ \in Nat
  /\ out \in [header : Header, bytes : Nat] /\ disk \in [header : Header, bytes : Nat]
  /\ disk.bytes <= out.bytes

\* A file that fits the 32-bit sizes of its header.
Fits(f) == f.bytes - kChunkHeader < Word32

\* Whatever moment the program is killed at, and however it ends: if the header
\* of the output file is one that ReadWavHeader accepts, it counts the samples
\* that are in the file.
HeaderNeverLies ==
  Fits(disk) /\ ReadWavHeader(disk) => NumSamples(disk) = Samples(disk)

\* A program that reaches its end has turned every whole frame of the audio in
\* its input into a frame of the output, and left a header that ReadWavHeader
\* accepts.
AllFrames(f) ==
  LET there == Smaller(NumSamples(f), (f.bytes - Consumed(f)) \div kBytesPerSample)
  IN there - (there % kNumSamples)

OutputComplete ==
  status = "done" =>
    /\ Parsed(input) => Samples(disk) = AllFrames(input)
    /\ Fits(disk) => ReadWavHeader(disk)

\* "There could be metadata after the audio; ensure we don't read it": of a
\* file whose header is accepted and says 16 bits, no byte after the audio is
\* read.
ReadsOnlyAudio ==
  ReadWavHeader(input) /\ BytesPerSample(input) = kBytesPerSample =>
    position <= HeaderBytes(input) + input.header.data_size

\* ProcessStream refuses no frame of any input, so that main() never returns
\* -1, and what it has returned, WriteSamples writes, went through the gain
\* control as a whole.
FramesProcessed ==
  /\ status # "failed"
  /\ main = "wait" /\ pc = "idle" => error = "kNoError" /\ \A h \in apm!Halves : data[h] = "out"

\* How far main() is from its end: what is left of the input counts for more
\* than the steps that treat a frame.
Stage ==
  IF main = "wait" /\ pc # "idle"
  THEN 2 * (2 - half) + IF pc = "analyze" THEN 7 ELSE 6
  ELSE [enable |-> 7, writer |-> 6, reader |-> 5, read |-> 4, process |-> 10, wait |-> 5,
        close |-> 3, header |-> 2, closed |-> 1][main]

Rank == IF status # "running" THEN 0 ELSE 4 * (input.bytes - position) + Stage

\* Every step of the program, the emptying of its buffer aside, brings it
\* nearer to its end: the loop of main() reads on or stops, also when the
\* header promised more samples than there are or num_samples_ is garbage.
NearsTheEnd == [][Flush \/ (Rank' \in Nat /\ Rank' < Rank)]_vars

\* The program comes to an end and does not return -1, whatever its input:
\* also when num_samples_ is not initialised.
ProgramEnds == <>(status \in {"done", "killed"})
==============================================================================
