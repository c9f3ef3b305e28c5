-------------------------------- MODULE Fft --------------------------------
(***************************************************************************)
(* src/fft.c.  fftUpdate as sdrReaderThread calls it, with every block     *)
(* that the device happens to deliver: the transform is left out, a        *)
(* spectrum is the samples it is computed from, and a sample its number in *)
(* the stream.  The sliding DFT has no caller; it is an operator, without  *)
(* the frequencies of its bins.                                            *)
(***************************************************************************)
EXTENDS Integers, Sequences

CONSTANTS N,               \* the size of a transform
          Threshold,       \* N * 10, the samples skipped between two of them
          Reads,           \* how many samples a read may deliver
          Most             \* bound: the length of the stream

ASSUME FftAssumption == /\ N \in Nat \ {0} /\ Threshold \in Nat
                        /\ Reads \subseteq Nat \ {0} /\ Most \in Nat

VARIABLES fft,             \* in: the inPtr samples collected; skip: skipCounter
          total,           \* history: the length of the stream so far
          spectra          \* history: all that fftOutput got

spectraVars == <<fft, total, spectra>>
-----------------------------------------------------------------------------
\* fftCreate.
FftNew == [in |-> <<>>, skip |-> 0]

\* One turn of fftUpdate's loop.  Each sample is counted, but the pointer into
\* the block moves only with those collected, so that these are its first.
FftTurnFromStart(s, block) ==               \* a mutant: the pointer starts over with a spectrum
  LET in == Append(s.fft.in, block[s.taken + 1])
  IN  IF s.fft.skip < Threshold THEN [s EXCEPT !.fft.skip = @ + 1]
      ELSE [fft   |-> IF Len(in) < N THEN [in |-> in, skip |-> s.fft.skip + 1] ELSE FftNew,
            taken |-> IF Len(in) < N THEN s.taken + 1 ELSE 0,
            out   |-> IF Len(in) < N THEN s.out ELSE Append(s.out, in)]

FftTurn(s, block) ==
  LET in == Append(s.fft.in, block[s.taken + 1])
  IN  IF s.fft.skip < Threshold THEN [s EXCEPT !.fft.skip = @ + 1]
      ELSE [fft   |-> IF Len(in) < N THEN [in |-> in, skip |-> s.fft.skip + 1] ELSE FftNew,
            taken |-> s.taken + 1,
            out   |-> IF Len(in) < N THEN s.out ELSE Append(s.out, in)]

FftUpdate(block) ==
  LET turn[k \in 0 .. Len(block)] == IF k = 0 THEN [fft |-> fft, taken |-> 0, out |-> <<>>]
                                     ELSE FftTurn(turn[k - 1], block)
  IN  turn[Len(block)]
-----------------------------------------------------------------------------
\* The reader's loop, with a read that delivered count samples.
Read(count) == /\ total + count <= Most
               /\ LET done == FftUpdate([k \in 1 .. count |-> total + k])
                  IN  fft' = done.fft /\ spectra' = spectra \o done.out
               /\ total' = total + count

SpectraInit == fft = FftNew /\ total = 0 /\ spectra = <<>>
SpectraNext == \E count \in Reads : Read(count)
SpectraSpec == SpectraInit /\ [][SpectraNext]_spectraVars
-----------------------------------------------------------------------------
\* However the stream is cut into reads, one spectrum comes with every
\* Threshold + N samples, and has N of them.
Spaced == /\ Len(spectra) = total \div (Threshold + N)
          /\ \A i \in DOMAIN spectra : Len(spectra[i]) = N

\* No sample is in two spectra or twice in one, and all are in the order of
\* the stream, though they are not the ones the counter counted.
Collected == Append(spectra, fft.in)
Ordered == \A i, j \in DOMAIN Collected :
             \A a \in DOMAIN Collected[i], b \in DOMAIN Collected[j] :
               /\ Collected[i][a] \in 1 .. total
               /\ i < j \/ (i = j /\ a < b) => Collected[i][a] < Collected[j][b]

\* The spectra are equally spaced over the stream and in its order.
SpectraFollow == Spaced /\ Ordered
-----------------------------------------------------------------------------
\* sdftCreate links the last item of its queue to a head that is still NULL,
\* here N; sdftSetFreqs sets the first bin only, size times over.
SdftNew == [queue |-> [i \in 0 .. N - 1 |-> 0], head |-> 0, x |-> 0]

\* sdftUpdate, as the first bin sees it; {} is undefined: a second sample in
\* one call is added to what lies behind the bins, and there is no item behind
\* the last one.
SdftUpdate(d, block) ==
  IF block = <<>> THEN {d}
  ELSE IF Len(block) > 1 \/ d.head = N THEN {}
  ELSE {[queue |-> [d.queue EXCEPT ![d.head] = block[1]], head |-> d.head + 1,
         x |-> d.x + block[1] - d.queue[d.head]]}
=============================================================================
