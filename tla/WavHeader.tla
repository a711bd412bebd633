------------------------------ MODULE WavHeader ------------------------------
(***************************************************************************)
(* common_audio/wav_header.cc: the 44 bytes before the samples of a WAV    *)
(* file, and the check of the parameters they hold.                        *)
(*                                                                         *)
(* A file is its header and its length in bytes; what the bytes after the  *)
(* header say plays no part.  A header is a record of its fields, with a   *)
(* Boolean for each of the four IDs.  The fields wrap at Word16 and        *)
(* Word32, the numbers of values of uint16_t and uint32_t.                 *)
(***************************************************************************)
EXTENDS Integers

CONSTANTS Word16, Word32   \* 2^16 and 2^32

kWavHeaderSize == 44
kChunkHeader == 8
kFmtSubchunkSize == 16
kExtSize == 2              \* sizeof(ext_size)

kWavFormatPcm == 1
kWavFormatALaw == 6
kWavFormatMuLaw == 7

\* Wide enough for the fields that every header has, and for a small payload.
ASSUME WordAssumption ==
  /\ Word16 \in Nat /\ Word32 \in Nat
  /\ Word16 > 2 * kFmtSubchunkSize /\ Word32 > kWavHeaderSize /\ Word32 % 2 = 0

Header == [RIFF : BOOLEAN, WAVE : BOOLEAN, fmt : BOOLEAN, data : BOOLEAN,
           riff_size : Nat, fmt_size : Nat, AudioFormat : Nat, NumChannels : Nat,
           SampleRate : Nat, ByteRate : Nat, BlockAlign : Nat, BitsPerSample : Nat,
           ext_size : Nat, data_size : Nat]

BlankHeader == [RIFF |-> FALSE, WAVE |-> FALSE, fmt |-> FALSE, data |-> FALSE,
                riff_size |-> 0, fmt_size |-> 0, AudioFormat |-> 0, NumChannels |-> 0,
                SampleRate |-> 0, ByteRate |-> 0, BlockAlign |-> 0, BitsPerSample |-> 0,
                ext_size |-> 0, data_size |-> 0]

CheckWavParameters(num_channels, sample_rate, format, bytes_per_sample, num_samples) ==
  /\ num_channels > 0 /\ sample_rate > 0 /\ bytes_per_sample > 0
  /\ sample_rate < Word32
  /\ num_channels < Word16
  /\ bytes_per_sample * 8 < Word16
  /\ sample_rate * num_channels * bytes_per_sample < Word32
  /\ \/ format = kWavFormatPcm /\ bytes_per_sample \in {1, 2}
     \/ format \in {kWavFormatALaw, kWavFormatMuLaw} /\ bytes_per_sample = 1
  /\ num_samples <= (Word32 - 1 - (kWavHeaderSize - kChunkHeader)) \div bytes_per_sample
  /\ num_samples % num_channels = 0

RiffChunkSize(bytes_in_payload) == (bytes_in_payload + kWavHeaderSize - kChunkHeader) % Word32

ByteRate(num_channels, sample_rate, bytes_per_sample) ==
  (num_channels * sample_rate * bytes_per_sample) % Word32

BlockAlign(num_channels, bytes_per_sample) == (num_channels * bytes_per_sample) % Word16

\* What WriteWavHeader puts in the buffer.  It leaves the buffer alone when
\* CheckWavParameters refuses the parameters.
WriteWavHeader(num_channels, sample_rate, format, bytes_per_sample, num_samples) ==
  [RIFF |-> TRUE, WAVE |-> TRUE, fmt |-> TRUE, data |-> TRUE,
   riff_size |-> RiffChunkSize(bytes_per_sample * num_samples),
   fmt_size |-> kFmtSubchunkSize,
   AudioFormat |-> format,
   NumChannels |-> num_channels % Word16,
   SampleRate |-> sample_rate % Word32,
   ByteRate |-> ByteRate(num_channels, sample_rate, bytes_per_sample),
   BlockAlign |-> BlockAlign(num_channels, bytes_per_sample),
   BitsPerSample |-> (8 * bytes_per_sample) % Word16,
   ext_size |-> 0,
   data_size |-> (bytes_per_sample * num_samples) % Word32]
------------------------------------------------------------------------------
(* ReadWavHeader, in the order of its reads. *)

\* A uint32_t assigned to an int.
AsInt(x) == IF x < Word32 \div 2 THEN x ELSE x - Word32

FirstRead == kWavHeaderSize - kChunkHeader

\* Does the file hold the 36 bytes before the data chunk, with or without the
\* extension, and its header?
HasFmt(f) ==
  /\ f.bytes >= FirstRead
  /\ \/ f.header.fmt_size = kFmtSubchunkSize
     \/ f.header.fmt_size = kFmtSubchunkSize + kExtSize
        /\ f.bytes >= FirstRead + kExtSize /\ f.header.ext_size = 0

HeaderBytes(f) ==
  kWavHeaderSize + (IF f.header.fmt_size = kFmtSubchunkSize THEN 0 ELSE kExtSize)

\* Was num_samples assigned?
Parsed(f) ==
  HasFmt(f) /\ f.bytes >= HeaderBytes(f) /\ f.header.BitsPerSample >= 8

\* Mutant: a short file is not noticed.
ConsumedWhole(f) == HeaderBytes(f)

\* How far the file has been read when ReadWavHeader returns.
Consumed(f) ==
  LET ext == f.header.fmt_size = kFmtSubchunkSize + kExtSize
      want == IF HasFmt(f) THEN HeaderBytes(f)
              ELSE IF f.bytes >= FirstRead /\ ext THEN FirstRead + kExtSize
              ELSE FirstRead
  IN IF f.bytes < want THEN f.bytes ELSE want

BytesPerSample(f) == f.header.BitsPerSample \div 8
NumSamples(f) == f.header.data_size \div BytesPerSample(f)

\* The value ReadWavHeader returns.
ReadWavHeader(f) ==
  LET sample_rate == AsInt(f.header.SampleRate)
  IN /\ Parsed(f)
     /\ f.header.RIFF /\ f.header.WAVE /\ f.header.fmt /\ f.header.data
     /\ f.header.riff_size >= RiffChunkSize(f.header.data_size)
     /\ f.header.ByteRate = ByteRate(f.header.NumChannels, sample_rate, BytesPerSample(f))
     /\ f.header.BlockAlign = BlockAlign(f.header.NumChannels, BytesPerSample(f))
     /\ CheckWavParameters(f.header.NumChannels, sample_rate, f.header.AudioFormat,
                           BytesPerSample(f), NumSamples(f))
==============================================================================
