---------------------------- MODULE AgcSpecProofs ----------------------------
(***************************************************************************)
(* The program and its files, for the widths of the code, every length of  *)
(* the frame and every input.  The header of the output is blank until     *)
(* Close() has emptied the buffer; what is written over it then is read    *)
(* back as the samples that were counted, as long as the file fits into    *)
(* 32 bits.  The reader accounts for every sample: what it has read and    *)
(* what it has left are the samples that the header of the input promised. *)
(***************************************************************************)
EXTENDS AgcSpec, TLAPS

\* The header Close() writes, and whether it writes one.
Final == WriteWavHeader(1, Rate, kWavFormatPcm, kBytesPerSample, num_samples_)
Accepted == CheckWavParameters(1, Rate, kWavFormatPcm, kBytesPerSample, num_samples_)

\* Before Close() has written the header there is none.
Blank == main # "closed" => out.header = BlankHeader /\ disk.header = BlankHeader

\* The length of the output is that of the samples counted.
Lengths ==
  /\ main \in {"enable", "writer", "reader"} => num_samples_ = 0
  /\ main \in {"enable", "writer"} => out.bytes = 0
  /\ main \notin {"enable", "writer"} => out.bytes = kWavHeaderSize + 2 * num_samples_

Closed == main = "closed" => disk = out /\ (Accepted => out.header = Final)

\* The samples of the input: read, written and still to be read.
Accounted ==
  /\ main \in {"enable", "writer", "reader"} => position = 0
  /\ Parsed(input) /\ main \notin {"enable", "writer", "reader"} =>
       position + 2 * num_samples_remaining_ = Consumed(input) + 2 * NumSamples(input)
  /\ Parsed(input) /\ main = "read" => num_samples_remaining_ + num_samples_ = NumSamples(input)
  /\ Parsed(input) /\ main \in {"process", "wait"} =>
       num_samples_remaining_ + num_samples_ + kNumSamples = NumSamples(input)

\* Whole frames are written, and all of them.
Frames ==
  /\ num_samples_ % kNumSamples = 0
  /\ Parsed(input) /\ main \in {"close", "header", "closed"} => num_samples_ = AllFrames(input)

\* A program that is done has come to its end.
Ended == status = "done" => main = "closed"

IInv == TypeOK /\ Blank /\ Lengths /\ Closed /\ Accounted /\ Frames /\ Ended

USE WordAssumption, FrameAssumption, RateAssumption, InputAssumption, GarbageAssumption,
    StackAssumption
USE DEF kBytesPerSample, kWavHeaderSize, kChunkHeader, kFmtSubchunkSize, kExtSize,
        kWavFormatPcm
------------------------------------------------------------------------------
(* Remainders. *)

\* Dividing with a remainder.
LEMMA Division ==
  ASSUME NEW n \in Nat, NEW d \in Nat, d > 0
  PROVE  n = d * (n \div d) + (n % d) /\ n % d \in 0..(d - 1) /\ n \div d \in Nat
OBVIOUS

LEMMA OneRemainder ==
  ASSUME NEW d \in Nat, d > 0, NEW p \in Nat, NEW q \in Nat, NEW r \in Nat, NEW s \in Nat,
         r < d, s < d, d * p + r = d * q + s
  PROVE  r = s
OBVIOUS

\* What is added to whole frames and is shorter than one is the remainder.
LEMMA RestOfFrames ==
  ASSUME NEW k \in Nat, NEW d \in Nat, d > 0, k % d = 0, NEW r \in Nat, r < d
  PROVE  (k + r) % d = r
<1>1. k = d * (k \div d) + 0 /\ k \div d \in Nat
  BY Division
<1>2. k + r = d * ((k + r) \div d) + ((k + r) % d) /\ (k + r) \div d \in Nat
      /\ (k + r) % d \in 0..(d - 1)
  BY Division
<1>3. d * (k \div d) + r = d * ((k + r) \div d) + ((k + r) % d)
  BY <1>1, <1>2
<1> QED
  BY <1>1, <1>2, <1>3, OneRemainder, SMTT(30)

LEMMA OneMoreFrame ==
  ASSUME NEW k \in Nat, NEW d \in Nat, d > 0, k % d = 0
  PROVE  (k + d) % d = 0
<1> DEFINE q == k \div d
           p == (k + d) \div d
           r == (k + d) % d
<1>1. k = d * q + 0 /\ q \in Nat
  BY Division
<1>2. k + d \in Nat
  OBVIOUS
<1>3. k + d = d * p + r /\ r \in 0..(d - 1) /\ p \in Nat
  BY <1>2, Division
<1> HIDE DEF q, p, r
<1>4. d * p + r = d * (q + 1) + 0 /\ q + 1 \in Nat /\ r \in Nat /\ r < d
  BY <1>1, <1>3
<1>5. r = 0
  BY <1>3, <1>4, OneRemainder
<1> QED
  BY <1>5 DEF r
------------------------------------------------------------------------------
(* What is written to a header is read back. *)

LEMMA FinalRead ==
  ASSUME NEW n \in Nat, 36 + 2 * n < Word32
  PROVE  LET h == WriteWavHeader(1, Rate, kWavFormatPcm, kBytesPerSample, n)
             f == [header |-> h, bytes |-> 44 + 2 * n]
         IN /\ CheckWavParameters(1, Rate, kWavFormatPcm, kBytesPerSample, n)
            /\ h \in Header
            /\ NumSamples(f) = n /\ Samples(f) = n
            /\ ReadWavHeader(f)
<1> DEFINE h == WriteWavHeader(1, Rate, kWavFormatPcm, kBytesPerSample, n)
           f == [header |-> h, bytes |-> 44 + 2 * n]
<1>1. /\ Rate \in Nat /\ Rate > 0 /\ 2 * Rate < Word32 /\ Rate < Word32
  BY DEF CheckWavParameters
<1>2. CheckWavParameters(1, Rate, kWavFormatPcm, kBytesPerSample, n)
  BY <1>1 DEF CheckWavParameters
<1>3. /\ h.RIFF /\ h.WAVE /\ h.fmt /\ h.data /\ h.fmt_size = 16 /\ h.AudioFormat = 1
      /\ h.ext_size = 0
      /\ h.riff_size = RiffChunkSize(2 * n) /\ h.NumChannels = 1 % Word16
      /\ h.SampleRate = Rate % Word32 /\ h.ByteRate = ByteRate(1, Rate, 2)
      /\ h.BlockAlign = BlockAlign(1, 2) /\ h.BitsPerSample = 16 % Word16
      /\ h.data_size = (2 * n) % Word32
  BY DEF WriteWavHeader
<1>4. /\ 1 % Word16 = 1 /\ 16 % Word16 = 16 /\ Rate % Word32 = Rate
      /\ (2 * n) % Word32 = 2 * n
  BY <1>1
<1>5. h.NumChannels = 1 /\ h.BitsPerSample = 16 /\ h.SampleRate = Rate /\ h.data_size = 2 * n
  BY <1>3, <1>4
<1>6. /\ RiffChunkSize(2 * n) \in Nat /\ ByteRate(1, Rate, 2) \in Nat /\ BlockAlign(1, 2) \in Nat
  BY <1>1 DEF RiffChunkSize, ByteRate, BlockAlign
<1>7. h \in Header
  BY <1>1, <1>4, <1>6 DEF WriteWavHeader, Header
<1>8. AsInt(Rate) = Rate
  BY <1>1 DEF AsInt
<1> HIDE DEF h
<1>9. f.header = h /\ f.bytes = 44 + 2 * n
  OBVIOUS
<1> HIDE DEF f
<1>10. BytesPerSample(f) = 2
  BY <1>5, <1>9 DEF BytesPerSample
<1>11. NumSamples(f) = n /\ Samples(f) = n
  BY <1>5, <1>9, <1>10 DEF NumSamples, Samples
<1>12. Parsed(f)
  BY <1>3, <1>5, <1>9 DEF Parsed, HasFmt, HeaderBytes, FirstRead
<1>13. /\ f.header.RIFF /\ f.header.WAVE /\ f.header.fmt /\ f.header.data
       /\ f.header.riff_size = RiffChunkSize(f.header.data_size)
       /\ AsInt(f.header.SampleRate) = Rate /\ f.header.NumChannels = 1
       /\ f.header.ByteRate = ByteRate(1, Rate, 2) /\ f.header.BlockAlign = BlockAlign(1, 2)
       /\ f.header.AudioFormat = 1 /\ f.header.riff_size \in Nat
  BY <1>3, <1>5, <1>6, <1>8, <1>9
<1>14. ReadWavHeader(f)
  BY <1>2, <1>10, <1>11, <1>12, <1>13 DEF ReadWavHeader
<1> QED
  BY <1>2, <1>7, <1>11, <1>14 DEF f, h

\* The blank header is refused.
LEMMA BlankRefused ==
  ASSUME NEW f, f.header = BlankHeader
  PROVE  ~ReadWavHeader(f)
BY DEF ReadWavHeader, BlankHeader

\* A header is read within the file.
LEMMA HeaderWithinFile ==
  ASSUME NEW f \in [header : Header, bytes : Nat]
  PROVE  /\ Consumed(f) \in 0..f.bytes
         /\ Parsed(f) => Consumed(f) = HeaderBytes(f)
         /\ Parsed(f) => NumSamples(f) \in Nat
<1>1. Consumed(f) \in 0..f.bytes
  BY DEF Consumed, HeaderBytes, FirstRead
<1>2. Parsed(f) => Consumed(f) = HeaderBytes(f)
  BY DEF Consumed, HeaderBytes, Parsed
<1>3. ASSUME Parsed(f) PROVE NumSamples(f) \in Nat
  <2>1. f.header.BitsPerSample \in Nat /\ f.header.BitsPerSample >= 8 /\ f.header.data_size \in Nat
    BY <1>3 DEF Parsed, Header
  <2>2. BytesPerSample(f) \in Nat /\ BytesPerSample(f) > 0
    BY <2>1 DEF BytesPerSample
  <2> QED
    BY <2>1, <2>2, Division DEF NumSamples
<1> QED
  BY <1>1, <1>2, <1>3
------------------------------------------------------------------------------
(* The invariant. *)

LEMMA InitIInv == Init => IInv
<1> SUFFICES ASSUME Init PROVE IInv
  OBVIOUS
<1>1. BlankHeader \in Header
  BY DEF BlankHeader, Header
<1>2. 0 % kNumSamples = 0
  BY Division
<1> QED
  BY <1>1, <1>2 DEF Init, IInv, TypeOK, Blank, Lengths, Closed, Accounted, Frames, Ended

\* Steps that leave the files alone and stay in the loop or before it.
LEMMA EnableStep ==
  ASSUME IInv, EnableGainControl
  PROVE  IInv'
BY DEF EnableGainControl, Running, reader, writer, IInv, TypeOK, Blank, Lengths, Closed,
       Accounted, Frames, Ended, Final, Accepted

LEMMA ProcessStep ==
  ASSUME IInv, ProcessStream \/ ProcessHalf
  PROVE  IInv'
BY DEF ProcessStream, ProcessHalf, Running, reader, writer, IInv, TypeOK, Blank, Lengths,
       Closed, Accounted, Frames, Ended, Final, Accepted

LEMMA KillStep ==
  ASSUME IInv, Kill
  PROVE  IInv'
BY DEF Kill, reader, writer, IInv, TypeOK, Blank, Lengths, Closed, Accounted, Frames, Ended,
       Final, Accepted

LEMMA DestoryStep ==
  ASSUME IInv, Destory
  PROVE  IInv'
BY DEF Destory, Running, reader, writer, IInv, TypeOK, Blank, Lengths, Closed, Accounted,
       Frames, Ended, Final, Accepted

LEMMA OpenWriterStep ==
  ASSUME IInv, NEW opened \in BOOLEAN, OpenWriter(opened)
  PROVE  IInv'
<1> USE DEF OpenWriter, Running, reader, IInv, TypeOK
<1>1. CASE opened
  <2>1. BlankHeader \in Header
    BY DEF BlankHeader, Header
  <2>2. out' = [header |-> BlankHeader, bytes |-> 44] /\ main' = "reader"
    BY <1>1
  <2>3. out'.header = BlankHeader /\ out'.bytes = 44 /\ num_samples_ = 0
    BY <2>2 DEF Lengths
  <2>4. TypeOK'
    BY <1>1, <2>1, <2>2, <2>3 DEF Lengths
  <2>5. Blank' /\ Lengths' /\ Closed' /\ Ended'
    BY <1>1, <2>2, <2>3 DEF Blank, Lengths, Closed, Ended
  <2>6. Accounted' /\ Frames'
    BY <1>1, <2>2 DEF Accounted, Frames
  <2> QED
    BY <2>4, <2>5, <2>6
<1>2. CASE ~opened
  BY <1>2 DEF Blank, Lengths, Closed, Accounted, Frames, Ended
<1> QED
  BY <1>1, <1>2

LEMMA OpenReaderStep ==
  ASSUME IInv, NEW opened \in BOOLEAN, OpenReader(opened)
  PROVE  IInv'
<1> USE DEF OpenReader, Running, writer, IInv, TypeOK
<1>1. CASE opened
  <2>1. input \in [header : Header, bytes : Nat]
    OBVIOUS
  <2>2. Consumed(input) \in 0..input.bytes /\ (Parsed(input) => NumSamples(input) \in Nat)
    BY <2>1, HeaderWithinFile
  <2>3. /\ num_samples_remaining_' \in Nat
        /\ Parsed(input) => num_samples_remaining_' = NumSamples(input)
    BY <1>1, <2>2
  <2>4. position' = Consumed(input) /\ main' = "read" /\ input' = input
    BY <1>1
  <2>5. TypeOK'
    BY <1>1, <2>2, <2>3, <2>4
  <2>6. Accounted'
    BY <1>1, <2>2, <2>3, <2>4 DEF Accounted, Lengths
  <2> QED
    BY <1>1, <2>4, <2>5, <2>6 DEF Blank, Lengths, Closed, Frames, Ended
<1>2. CASE ~opened
  BY <1>2 DEF Blank, Lengths, Closed, Accounted, Frames, Ended
<1> QED
  BY <1>1, <1>2

LEMMA ReadSamplesStep ==
  ASSUME IInv, ReadSamples
  PROVE  IInv'
<1> DEFINE left == (input.bytes - position) \div 2
           read == Smaller(Wanted, left)
<1> USE DEF Running, writer, IInv, TypeOK
<1>1. /\ main = "read" /\ status = "running"
      /\ num_samples_remaining_' = num_samples_remaining_ - read
      /\ position' = position + 2 * read
      /\ main' = IF read = kNumSamples THEN "process" ELSE "close"
      /\ UNCHANGED <<status, input, num_samples_, out, disk>>
  BY DEF ReadSamples
<1>2. left \in Nat /\ 2 * left <= input.bytes - position
  OBVIOUS
<1>3. /\ read \in Nat /\ read <= kNumSamples /\ read <= num_samples_remaining_ /\ read <= left
      /\ read \in {kNumSamples, num_samples_remaining_, left}
  BY <1>2 DEF Smaller, Wanted
<1> HIDE DEF read
<1>4. TypeOK'
  BY <1>1, <1>2, <1>3
<1>5. Blank' /\ Lengths' /\ Closed' /\ Ended'
  BY <1>1 DEF Blank, Lengths, Closed, Ended
<1>6. Accounted'
  BY <1>1, <1>3 DEF Accounted
<1>7. Frames'
  <2>1. CASE read = kNumSamples
    BY <1>1, <2>1 DEF Frames
  <2>2. CASE read # kNumSamples
    <3>1. SUFFICES ASSUME Parsed(input) PROVE num_samples_ = AllFrames(input)
      BY <1>1 DEF Frames
    <3>2. /\ num_samples_remaining_ + num_samples_ = NumSamples(input)
          /\ position = Consumed(input) + 2 * num_samples_
      <4>1. Consumed(input) \in Nat /\ NumSamples(input) \in Nat
        BY <3>1, HeaderWithinFile
      <4> QED
        BY <1>1, <3>1, <4>1 DEF Accounted
    <3> DEFINE all == (input.bytes - Consumed(input)) \div 2
               there == Smaller(NumSamples(input), all)
    <3>3. all = left + num_samples_
      <4>1. Consumed(input) \in Nat /\ Consumed(input) + 2 * num_samples_ <= input.bytes
        BY <3>2, HeaderWithinFile
      <4> QED
        BY <3>2, <4>1
    <3>4. there = num_samples_ + read
      BY <1>2, <1>3, <2>2, <3>2, <3>3 DEF Smaller
    <3>5. there % kNumSamples = read
      BY <1>3, <2>2, <3>4, RestOfFrames, SMTT(30) DEF Frames
    <3>6. AllFrames(input) = there - (there % kNumSamples)
      BY DEF AllFrames
    <3> QED
      BY <1>3, <3>4, <3>5, <3>6
  <2> QED
    BY <2>1, <2>2
<1> QED
  BY <1>4, <1>5, <1>6, <1>7

LEMMA WriteSamplesStep ==
  ASSUME IInv, WriteSamples
  PROVE  IInv'
<1> USE DEF WriteSamples, Running, reader, IInv, TypeOK
<1>1. CASE error # "kNoError"
  BY <1>1 DEF Blank, Lengths, Closed, Accounted, Frames, Ended
<1>2. CASE error = "kNoError"
  <2>1. /\ out'.header = out.header /\ out'.bytes = out.bytes + 2 * kNumSamples
        /\ out' \in [header : Header, bytes : Nat]
    BY <1>2
  <2>2. (num_samples_ + kNumSamples) % kNumSamples = 0
    BY OneMoreFrame DEF Frames
  <2>3. TypeOK'
    BY <1>2, <2>1
  <2>4. Blank' /\ Lengths' /\ Closed' /\ Ended'
    BY <1>2, <2>1 DEF Blank, Lengths, Closed, Ended
  <2>5. Accounted' /\ Frames'
    BY <1>2, <2>2 DEF Accounted, Frames
  <2> QED
    BY <2>3, <2>4, <2>5
<1> QED
  BY <1>1, <1>2

LEMMA CloseSeeksStep ==
  ASSUME IInv, CloseSeeks
  PROVE  IInv'
BY DEF CloseSeeks, Running, reader, IInv, TypeOK, Blank, Lengths, Closed, Accounted, Frames,
       Ended

LEMMA CloseWritesStep ==
  ASSUME IInv, CloseWrites
  PROVE  IInv'
<1> USE DEF CloseWrites, Running, reader, IInv, TypeOK
<1>1. PICK h \in IF Accepted THEN {Final} ELSE StackBytes :
        out' = [out EXCEPT !.header = h] /\ disk' = out'
  BY DEF Accepted, Final
<1>2. Accepted => Final \in Header
  <2>1. Accepted => 36 + 2 * num_samples_ < Word32
    BY DEF Accepted, CheckWavParameters
  <2> QED
    BY <2>1, FinalRead DEF Final
<1>3. h \in Header
  BY <1>1, <1>2
<1>4. out'.header = h /\ out'.bytes = out.bytes /\ out' \in [header : Header, bytes : Nat]
  BY <1>1, <1>3
<1>5. TypeOK'
  BY <1>1, <1>4
<1>6. Closed'
  BY <1>1, <1>4 DEF Closed, Accepted, Final
<1>7. Blank' /\ Lengths' /\ Accounted' /\ Frames' /\ Ended'
  BY <1>4 DEF Blank, Lengths, Accounted, Frames, Ended
<1> QED
  BY <1>5, <1>6, <1>7

LEMMA FlushStep ==
  ASSUME IInv, Flush
  PROVE  IInv'
<1> USE DEF Flush, reader, IInv, TypeOK
<1>1. PICK n \in disk.bytes..out.bytes : disk' = [out EXCEPT !.bytes = n]
  OBVIOUS
<1>2. /\ disk'.header = out.header /\ disk'.bytes = n
      /\ disk' \in [header : Header, bytes : Nat]
  BY <1>1
<1> QED
  BY <1>1, <1>2 DEF Blank, Lengths, Closed, Accounted, Frames, Ended

LEMMA NextIInv == IInv /\ [Next]_vars => IInv'
<1> SUFFICES ASSUME IInv, [Next]_vars PROVE IInv'
  OBVIOUS
<1>1. CASE UNCHANGED vars
  BY <1>1 DEF vars, reader, writer, IInv, TypeOK, Blank, Lengths, Closed, Accounted, Frames,
              Ended, Accepted, Final
<1>2. CASE Next
  BY <1>2, EnableStep, OpenWriterStep, OpenReaderStep, ReadSamplesStep, ProcessStep,
     WriteSamplesStep, CloseSeeksStep, CloseWritesStep, DestoryStep, FlushStep, KillStep
     DEF Next, Step
<1> QED
  BY <1>1, <1>2
------------------------------------------------------------------------------
\* A file that is closed and fits holds a header that is read back as the
\* samples counted.
LEMMA ClosedIsRead ==
  ASSUME IInv, main = "closed", Fits(disk)
  PROVE  ReadWavHeader(disk) /\ NumSamples(disk) = num_samples_ /\ Samples(disk) = num_samples_
<1> USE DEF IInv, TypeOK
<1>1. disk = out /\ disk.bytes = 44 + 2 * num_samples_
  BY DEF Closed, Lengths
<1>2. 36 + 2 * num_samples_ < Word32
  BY <1>1 DEF Fits
<1>3. Accepted
  BY <1>2, FinalRead DEF Accepted
<1>4. disk.header = Final
  BY <1>1, <1>3 DEF Closed
<1>5. disk = [header |-> Final, bytes |-> 44 + 2 * num_samples_]
  BY <1>1, <1>4
<1> QED
  BY <1>2, <1>5, FinalRead DEF Final

\* Every state of the program is well-typed.
THEOREM ProgramTyped == Spec => []TypeOK
<1>1. IInv => TypeOK
  BY DEF IInv
<1> QED
  BY <1>1, InitIInv, NextIInv, PTL DEF Spec

\* At every moment a header on disk that ReadWavHeader accepts counts the
\* samples behind it, for every input and every frame length.
THEOREM HeaderIsTrue == Spec => []HeaderNeverLies
<1>1. IInv => HeaderNeverLies
  <2>1. SUFFICES ASSUME IInv, Fits(disk), ReadWavHeader(disk)
                 PROVE  NumSamples(disk) = Samples(disk)
    BY DEF HeaderNeverLies
  <2>2. main = "closed"
    BY <2>1, BlankRefused DEF IInv, Blank
  <2> QED
    BY <2>1, <2>2, ClosedIsRead
<1> QED
  BY <1>1, InitIInv, NextIInv, PTL DEF Spec

\* A program that is done has written every whole frame of its input, and a
\* header that ReadWavHeader accepts.
THEOREM OutputIsComplete == Spec => []OutputComplete
<1>1. IInv => OutputComplete
  <2>1. SUFFICES ASSUME IInv, status = "done"
                 PROVE  /\ Parsed(input) => Samples(disk) = AllFrames(input)
                        /\ Fits(disk) => ReadWavHeader(disk)
    BY DEF OutputComplete
  <2>2. main = "closed"
    BY <2>1 DEF IInv, Ended
  <2>3. disk.bytes = 44 + 2 * num_samples_ /\ num_samples_ \in Nat
    BY <2>1, <2>2 DEF IInv, Closed, Lengths, TypeOK
  <2>4. Samples(disk) = num_samples_
    BY <2>3 DEF Samples
  <2> QED
    BY <2>1, <2>2, <2>4, ClosedIsRead DEF IInv, Frames
<1> QED
  BY <1>1, InitIInv, NextIInv, PTL DEF Spec

\* Of a sound file of 16 bits no byte after the audio is read.
THEOREM MetadataIsNotRead == Spec => []ReadsOnlyAudio
<1>1. IInv => ReadsOnlyAudio
  <2>1. SUFFICES ASSUME IInv, ReadWavHeader(input), BytesPerSample(input) = 2
                 PROVE  position <= HeaderBytes(input) + input.header.data_size
    BY DEF ReadsOnlyAudio
  <2>2. Parsed(input) /\ input \in [header : Header, bytes : Nat]
    BY <2>1 DEF ReadWavHeader, IInv, TypeOK
  <2>3. Consumed(input) = HeaderBytes(input) /\ HeaderBytes(input) \in Nat
    BY <2>2, HeaderWithinFile DEF HeaderBytes
  <2>4. input.header.data_size \in Nat /\ NumSamples(input) = input.header.data_size \div 2
    BY <2>1, <2>2 DEF NumSamples, Header
  <2>5. CASE main \in {"enable", "writer", "reader"}
    BY <2>1, <2>3, <2>4, <2>5 DEF IInv, Accounted
  <2>6. CASE main \notin {"enable", "writer", "reader"}
    BY <2>1, <2>2, <2>3, <2>4, <2>6 DEF IInv, Accounted, TypeOK
  <2> QED
    BY <2>5, <2>6
<1> QED
  BY <1>1, InitIInv, NextIInv, PTL DEF Spec
------------------------------------------------------------------------------
(* The frames.  The settings never change once the gain control is enabled, *)
(* and in the fixed digital mode nothing is refused.                        *)

Settings ==
  /\ mode_ = "kFixedDigital" /\ handle = apm!NewHandle
  /\ main # "enable" => enabled_ = TRUE

Untroubled == error = "kNoError" /\ status # "failed"

Treated ==
  /\ data \in [apm!Halves -> {"in", "mic", "out"}] /\ half \in apm!Halves
  /\ pc \in {"idle", "analyze", "process"}
  /\ main # "wait" => pc = "idle"
  /\ main = "wait" /\ pc = "idle" => data[1] = "out" /\ data[2] = "out"
  /\ main = "wait" /\ pc # "idle" /\ half = 2 => data[1] = "out"

StreamInv == Settings /\ Untroubled /\ Treated

LEMMA InitStream == Init => StreamInv
<1> SUFFICES ASSUME Init PROVE StreamInv
  OBVIOUS
<1>1. apm!Init /\ main = "enable" /\ status = "running"
  BY DEF Init
<1>2. Settings
  BY <1>1 DEF apm!Init, apm!Constructed, Settings
<1>3. Untroubled
  BY <1>1 DEF apm!Init, Untroubled
<1>4. Treated
  BY <1>1 DEF apm!Init, Treated, apm!Untouched, apm!Halves
<1> QED
  BY <1>2, <1>3, <1>4 DEF StreamInv

\* Steps that leave AudioProcessing and main() to each other.
LEMMA SettingsStay ==
  ASSUME Settings, UNCHANGED apm!settings, handle' = handle, main # "enable"
  PROVE  Settings'
<1>1. apm!NewHandle' = apm!NewHandle
  BY DEF apm!settings, apm!NewHandle, apm!HandleLimits
<1> QED
  BY <1>1 DEF Settings, apm!settings

LEMMA EnableStream ==
  ASSUME StreamInv, EnableGainControl
  PROVE  StreamInv'
<1>1. /\ main' = "writer" /\ status' = status /\ main = "enable"
      /\ enabled_' = TRUE /\ mode_' = mode_
      /\ UNCHANGED <<limits, config, analog_capture_level_, data, half, pc, error>>
  BY DEF EnableGainControl, Running, apm!Enable, apm!call
<1>2. handle' = apm!NewHandle'
  <2>1. apm!Initialize \/ handle' = handle
    BY DEF EnableGainControl, apm!Enable, apm!controller
  <2>2. CASE apm!Initialize
    BY <1>1, <2>2 DEF apm!Initialize
  <2>3. CASE handle' = handle
    BY <1>1, <2>3 DEF StreamInv, Settings, apm!NewHandle, apm!HandleLimits
  <2> QED
    BY <2>1, <2>2, <2>3
<1>3. Settings'
  BY <1>1, <1>2 DEF StreamInv, Settings
<1>4. Untroubled' /\ Treated'
  BY <1>1 DEF StreamInv, Untroubled, Treated
<1> QED
  BY <1>3, <1>4 DEF StreamInv

LEMMA ProcessStreamStream ==
  ASSUME StreamInv, ProcessStream
  PROVE  StreamInv'
<1>1. /\ main = "process" /\ main' = "wait" /\ status' = status
      /\ data' = apm!Untouched /\ half' = 1 /\ pc' = "analyze" /\ error' = "kNoError"
      /\ UNCHANGED apm!settings /\ handle' = handle
  BY DEF ProcessStream, Running, apm!ProcessStream, apm!controller
<1>2. Settings'
  BY <1>1, SettingsStay DEF StreamInv
<1>3. Untroubled' /\ Treated'
  BY <1>1 DEF StreamInv, Untroubled, Treated, apm!Untouched, apm!Halves
<1> QED
  BY <1>2, <1>3 DEF StreamInv

\* Where the two steps of a half lead.
LEMMA AnalyzeEffect ==
  ASSUME StreamInv, main = "wait", apm!AnalyzeCaptureAudio
  PROVE  /\ pc = "analyze" /\ pc' = "process"
         /\ UNCHANGED <<half, error, data, handle, apm!settings>>
<1>1. enabled_ = TRUE /\ mode_ = "kFixedDigital"
  BY DEF StreamInv, Settings
<1> QED
  BY <1>1 DEF apm!AnalyzeCaptureAudio

LEMMA ProcessEffect ==
  ASSUME StreamInv, main = "wait", apm!ProcessCaptureAudio
  PROVE  /\ pc = "process" /\ data' = [data EXCEPT ![half] = "out"]
         /\ UNCHANGED <<error, handle, apm!settings>>
         /\ \/ half = 1 /\ half' = 2 /\ pc' = "analyze"
            \/ half = 2 /\ half' = 2 /\ pc' = "idle"
<1>1. enabled_ = TRUE /\ mode_ = "kFixedDigital" /\ handle = apm!NewHandle
  BY DEF StreamInv, Settings
<1>2. handle.mode = "kFixedDigital" /\ [handle EXCEPT !.level = handle.level] = handle
  BY <1>1 DEF apm!NewHandle
<1>3. ~apm!Refused
  BY <1>2 DEF apm!Refused
<1>4. /\ pc = "process" /\ data' = [data EXCEPT ![half] = "out"]
      /\ apm!NextHalf /\ UNCHANGED apm!settings
      /\ \E out_ \in {handle.level} : handle' = [handle EXCEPT !.level = out_]
  BY <1>1, <1>3 DEF apm!ProcessCaptureAudio
<1>5. handle' = handle
  BY <1>2, <1>4
<1>6. half \in {1, 2}
  BY DEF StreamInv, Treated, apm!Halves
<1> QED
  BY <1>4, <1>5, <1>6 DEF apm!NextHalf

LEMMA ProcessHalfStream ==
  ASSUME StreamInv, ProcessHalf
  PROVE  StreamInv'
<1>1. main = "wait" /\ main' = "wait" /\ status' = status
  BY DEF ProcessHalf, Running
<1>2. CASE apm!AnalyzeCaptureAudio
  <2>1. /\ pc = "analyze" /\ pc' = "process"
        /\ UNCHANGED <<half, error, data, handle, apm!settings>>
    BY <1>1, <1>2, AnalyzeEffect
  <2>2. Settings'
    BY <1>1, <2>1, SettingsStay DEF StreamInv
  <2>3. Untroubled' /\ Treated'
    BY <1>1, <2>1 DEF StreamInv, Untroubled, Treated
  <2> QED
    BY <2>2, <2>3 DEF StreamInv
<1>3. CASE apm!ProcessCaptureAudio
  <2>1. /\ pc = "process" /\ data' = [data EXCEPT ![half] = "out"]
        /\ UNCHANGED <<error, handle, apm!settings>>
        /\ \/ half = 1 /\ half' = 2 /\ pc' = "analyze"
           \/ half = 2 /\ half' = 2 /\ pc' = "idle"
    BY <1>1, <1>3, ProcessEffect
  <2>2. Settings'
    BY <1>1, <2>1, SettingsStay DEF StreamInv
  <2>3. Untroubled' /\ Treated'
    BY <1>1, <2>1 DEF StreamInv, Untroubled, Treated, apm!Halves
  <2> QED
    BY <2>2, <2>3 DEF StreamInv
<1> QED
  BY <1>2, <1>3 DEF ProcessHalf

LEMMA WriteSamplesStream ==
  ASSUME StreamInv, WriteSamples
  PROVE  StreamInv'
<1>1. error = "kNoError" /\ main = "wait" /\ pc = "idle"
  BY DEF WriteSamples, Running, StreamInv, Untroubled
<1>2. main' = "read" /\ status' = status
  BY <1>1 DEF WriteSamples
<1>3. UNCHANGED <<handle, apm!settings, data, half, pc, error>>
  BY DEF WriteSamples, processing, apm!settings
<1>4. Settings'
  BY <1>1, <1>3, SettingsStay DEF StreamInv
<1> QED
  BY <1>1, <1>2, <1>3, <1>4 DEF StreamInv, Untroubled, Treated

\* The other steps of main() leave AudioProcessing alone and do not wait for
\* it; Destory() only takes it away.
LEMMA OtherStream ==
  ASSUME StreamInv,
         \/ \E opened \in BOOLEAN : OpenWriter(opened) \/ OpenReader(opened)
         \/ ReadSamples \/ CloseSeeks \/ CloseWrites \/ Destory
  PROVE  StreamInv'
<1>1. UNCHANGED <<handle, apm!settings, data, half, pc, error>>
  BY DEF OpenWriter, OpenReader, ReadSamples, CloseSeeks, CloseWrites, Destory, processing,
         apm!Destory, apm!settings, apm!call
<1>2. main \notin {"enable", "wait"} /\ main' \notin {"enable", "wait"} /\ status' # "failed"
  BY DEF OpenWriter, OpenReader, ReadSamples, CloseSeeks, CloseWrites, Destory, Running,
         StreamInv, Untroubled
<1>3. Settings'
  BY <1>1, <1>2, SettingsStay DEF StreamInv
<1> QED
  BY <1>1, <1>2, <1>3 DEF StreamInv, Untroubled, Treated

LEMMA IdleStream ==
  ASSUME StreamInv, Flush \/ Kill \/ UNCHANGED vars
  PROVE  StreamInv'
<1>1. /\ UNCHANGED <<mode_, enabled_, limits, config, analog_capture_level_, handle, data,
                     half, pc, error, main>>
      /\ status' # "failed"
  BY DEF Flush, Kill, vars, processing, StreamInv, Untroubled
<1>2. apm!NewHandle' = apm!NewHandle
  BY <1>1 DEF apm!NewHandle, apm!HandleLimits
<1> QED
  BY <1>1, <1>2 DEF StreamInv, Settings, Untroubled, Treated

LEMMA NextStream == StreamInv /\ [Next]_vars => StreamInv'
BY EnableStream, ProcessStreamStream, ProcessHalfStream, WriteSamplesStream, OtherStream,
   IdleStream DEF Next, Step

\* ProcessStream never fails for agc_spec, and every frame that is written has
\* been processed as a whole.
THEOREM EveryFrameProcessed == Spec => []FramesProcessed
<1>1. StreamInv => FramesProcessed
  BY DEF StreamInv, Untroubled, Treated, FramesProcessed, apm!Halves
<1> QED
  BY <1>1, InitStream, NextStream, PTL DEF Spec
------------------------------------------------------------------------------
(* The end of the program. *)

\* What the rank is made of.
Stages ==
  /\ Stage \in 1..10
  /\ main = "enable" => Stage = 7
  /\ main = "writer" => Stage = 6
  /\ main = "reader" => Stage = 5
  /\ main = "read" => Stage = 4
  /\ main = "process" => Stage = 10
  /\ main = "wait" /\ pc = "idle" => Stage = 5
  /\ main = "wait" /\ pc = "analyze" => Stage = 2 * (2 - half) + 7
  /\ main = "wait" /\ pc = "process" => Stage = 2 * (2 - half) + 6
  /\ main = "close" => Stage = 3
  /\ main = "header" => Stage = 2
  /\ main = "closed" => Stage = 1

LEMMA StageValues == TypeOK /\ StreamInv => Stages
<1> SUFFICES ASSUME TypeOK, StreamInv PROVE Stages
  OBVIOUS
<1>1. half \in {1, 2} /\ pc \in {"idle", "analyze", "process"}
  BY DEF StreamInv, Treated, apm!Halves
<1>2. main \in {"enable", "writer", "reader", "read", "process", "wait", "close", "header",
               "closed"}
  BY DEF TypeOK
<1> QED
  BY <1>1, <1>2 DEF Stage, Stages

LEMMA NextStageValues == TypeOK' /\ StreamInv' => Stages'
BY StageValues, PTL

\* The rank is a natural number, and zero only when the program has ended.
RankCounts == Rank \in Nat /\ (Rank = 0 <=> status # "running")

LEMMA RankNat == TypeOK /\ StreamInv => RankCounts
<1> SUFFICES ASSUME TypeOK, StreamInv PROVE RankCounts
  OBVIOUS
<1>1. Stage \in 1..10
  BY StageValues DEF Stages
<1>2. input.bytes \in Nat /\ position \in Nat /\ position <= input.bytes
  BY DEF TypeOK
<1> QED
  BY <1>1, <1>2 DEF Rank, RankCounts

LEMMA NextRankNat == TypeOK' /\ StreamInv' => RankCounts'
BY RankNat, PTL

\* Steps that read nothing.
LEMMA SameFileNearer ==
  ASSUME TypeOK, TypeOK', StreamInv, StreamInv', status = "running",
         UNCHANGED <<input, position>>, status' = "running" => Stage' < Stage
  PROVE  Rank' < Rank
<1>1. Rank \in Nat /\ Rank > 0
  BY RankNat DEF RankCounts
<1>2. CASE status' # "running"
  BY <1>1, <1>2 DEF Rank
<1>3. CASE status' = "running"
  <2>1. Stage \in 1..10 /\ Stage' \in 1..10
    BY StageValues, NextStageValues DEF Stages
  <2>2. input.bytes - position \in Nat
    BY DEF TypeOK
  <2> QED
    BY <1>3, <2>1, <2>2 DEF Rank
<1> QED
  BY <1>2, <1>3

LEMMA StepNearer ==
  ASSUME IInv, IInv', StreamInv, StreamInv', Step
  PROVE  Rank' < Rank
<1> USE DEF IInv
<1>1. status = "running"
  BY DEF Step, EnableGainControl, OpenWriter, OpenReader, ReadSamples, ProcessStream,
         ProcessHalf, WriteSamples, CloseSeeks, CloseWrites, Destory, Running
<1>2. CASE EnableGainControl \/ ProcessStream \/ CloseSeeks \/ CloseWrites \/ Destory
  <2>1. /\ UNCHANGED <<input, position>>
        /\ \/ main = "enable" /\ main' = "writer"
           \/ main = "process" /\ main' = "wait" /\ pc' = "analyze" /\ half' = 1
           \/ main = "close" /\ main' = "header"
           \/ main = "header" /\ main' = "closed"
           \/ status' = "done"
    BY <1>2 DEF EnableGainControl, ProcessStream, CloseSeeks, CloseWrites, Destory, Running,
                reader, apm!ProcessStream
  <2>2. status' = "running" => Stage' < Stage
    BY <2>1, StageValues, NextStageValues DEF Stages
  <2> QED
    BY <1>1, <2>1, <2>2, SameFileNearer
<1>3. ASSUME NEW opened \in BOOLEAN, OpenWriter(opened) PROVE Rank' < Rank
  <2>1. /\ UNCHANGED <<input, position>>
        /\ (main = "writer" /\ main' = "reader") \/ status' = "killed"
    BY <1>3 DEF OpenWriter, Running, reader
  <2>2. status' = "running" => Stage' < Stage
    BY <2>1, StageValues, NextStageValues DEF Stages
  <2> QED
    BY <1>1, <2>1, <2>2, SameFileNearer
<1>4. CASE ProcessHalf
  <2>1. main = "wait" /\ main' = "wait" /\ UNCHANGED <<input, position>>
    BY <1>4 DEF ProcessHalf, Running, reader
  <2>2. \/ pc = "analyze" /\ pc' = "process" /\ half' = half
        \/ pc = "process" /\ pc' = "analyze" /\ half = 1 /\ half' = 2
        \/ pc = "process" /\ pc' = "idle" /\ half = 2
    BY <1>4, <2>1, AnalyzeEffect, ProcessEffect DEF ProcessHalf
  <2>3. half \in {1, 2}
    BY DEF StreamInv, Treated, apm!Halves
  <2>4. Stage' < Stage
    BY <2>1, <2>2, <2>3, StageValues, NextStageValues DEF Stages
  <2> QED
    BY <1>1, <2>1, <2>4, SameFileNearer
<1>5. CASE WriteSamples
  <2>1. /\ UNCHANGED <<input, position>> /\ main = "wait" /\ pc = "idle"
        /\ main' = "read" \/ status' = "failed"
    BY <1>5 DEF WriteSamples, Running, reader
  <2>2. status' = "running" => Stage' < Stage
    BY <2>1, StageValues, NextStageValues DEF Stages
  <2> QED
    BY <1>1, <2>1, <2>2, SameFileNearer
<1>6. ASSUME NEW opened \in BOOLEAN, OpenReader(opened) PROVE Rank' < Rank
  <2>1. main = "reader" /\ input' = input /\ position = 0
    BY <1>6 DEF OpenReader, Running, Accounted
  <2>2. CASE opened
    <3>1. main' = "read" /\ position' \in Nat /\ position' <= input.bytes /\ input.bytes \in Nat
      BY <1>6, <2>1, <2>2 DEF OpenReader, TypeOK
    <3>2. Stage = 5 /\ Stage' = 4
      BY <2>1, <3>1, StageValues, NextStageValues DEF Stages
    <3> QED
      BY <1>1, <2>1, <3>1, <3>2 DEF Rank
  <2>3. CASE ~opened
    <3>1. status' # "running"
      BY <1>6, <2>3 DEF OpenReader
    <3>2. Rank' = 0 /\ Rank \in Nat /\ Rank > 0
      BY <1>1, <3>1, RankNat DEF Rank, RankCounts
    <3> QED
      BY <3>2
  <2> QED
    BY <2>2, <2>3
<1>7. CASE ReadSamples
  <2> DEFINE read == Smaller(Wanted, (input.bytes - position) \div 2)
  <2>1. /\ main = "read" /\ position' = position + 2 * read /\ status' = "running"
        /\ main' = IF read = kNumSamples THEN "process" ELSE "close"
        /\ input' = input
    BY <1>7 DEF ReadSamples, Running
  <2>2. read \in Nat
    <3>1. /\ num_samples_remaining_ \in Nat /\ input.bytes \in Nat /\ position \in Nat
          /\ position <= input.bytes
      BY DEF TypeOK
    <3> QED
      BY <3>1 DEF Smaller, Wanted
  <2> HIDE DEF read
  <2>3. input.bytes \in Nat /\ position \in Nat /\ position' \in Nat /\ position' <= input.bytes
    BY <2>1 DEF TypeOK
  <2>4. Stage = 4 /\ Stage' = IF read = kNumSamples THEN 10 ELSE 3
    BY <2>1, StageValues, NextStageValues DEF Stages
  <2> QED
    BY <1>1, <2>1, <2>2, <2>3, <2>4 DEF Rank
<1> QED
  BY <1>2, <1>3, <1>4, <1>5, <1>6, <1>7 DEF Step

\* The loop of main() comes to an end for every input, of any length and with
\* any header: a natural number goes down with every step of the program.
THEOREM EveryStepNearer == Spec => NearsTheEnd
<1>1. IInv /\ IInv' /\ StreamInv /\ StreamInv' /\ [Next]_vars
        => [Flush \/ (Rank' \in Nat /\ Rank' < Rank)]_vars
  <2> SUFFICES ASSUME IInv, IInv', StreamInv, StreamInv', Next, ~Flush
               PROVE  Rank' \in Nat /\ Rank' < Rank
    OBVIOUS
  <2>1. Rank \in Nat /\ Rank' \in Nat
    BY RankNat, NextRankNat DEF IInv, RankCounts
  <2>2. CASE Step
    BY <2>1, <2>2, StepNearer
  <2>3. CASE Kill
    <3>1. status = "running" /\ status' = "killed"
      BY <2>3 DEF Kill
    <3>2. Rank > 0 /\ Rank' = 0
      BY <2>1, <3>1, RankNat DEF Rank, RankCounts, IInv
    <3> QED
      BY <2>1, <3>2
  <2> QED
    BY <2>2, <2>3 DEF Next
<1> QED
  BY <1>1, InitIInv, NextIInv, InitStream, NextStream, PTL DEF Spec, NearsTheEnd
==============================================================================
