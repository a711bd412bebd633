------------------------------ MODULE MCAgcSpec ------------------------------
(* Sizes of 6 bits in place of 32: a file of 14 samples is too long.         *)
EXTENDS AgcSpec

Sized(bytes_per_sample, n) == WriteWavHeader(1, Rate, kWavFormatPcm, bytes_per_sample, n)

\* Files the program may find: sound ones, with 8 bits per sample, with the
\* extension, with one that is not zero, and headers that are not sound.
Headers ==
  {Sized(2, n) : n \in {0, 1, 4, 5}}
    \cup {Sized(1, 5), Sized(1, 27), BlankHeader}
    \cup {[Sized(2, 4) EXCEPT !.fmt_size = s, !.ext_size = e] : s \in {18, 20}, e \in {0, 1}}
    \cup {[Sized(2, 4) EXCEPT !.BitsPerSample = 4], [Sized(2, 4) EXCEPT !.RIFF = FALSE],
          [Sized(2, 4) EXCEPT !.riff_size = 10], [Sized(2, 4) EXCEPT !.data_size = 63]}

Files == [header : Headers, bytes : {0, 37, 40, 44, 50, 54, 57, 76}]

Uninitialised == {0, 3, 20}
Leftovers == {BlankHeader, Sized(2, 4)}
==============================================================================
