----------------------------- MODULE Resampling -----------------------------
(***************************************************************************)
(* The rate converters of src/samplerate.c (the decimator, the DDC and the *)
(* two forms of the resampler) and the FIR filter of src/filter.c, fed by  *)
(* the reader thread while a client's thread changes rates and tuning.     *)
(*                                                                         *)
(* One object of some kind.  An update copies the object's fields into     *)
(* locals when it is called and stores them when it returns; each turn of  *)
(* its loop is a step.  A setter stores its fields one after the other.    *)
(* Samples are numbered, the line holds 0 where calloc's zero still is,    *)
(* and an accumulator counts units of 1/One, so that every ratio of two    *)
(* Rates is a whole number of units and the arithmetic is exact.           *)
(***************************************************************************)
EXTENDS Filters

CONSTANTS Kinds,      \* the converters modelled
          AskedSize,  \* the FIR size asked for
          BufSize,    \* DECIMATOR_, DDC_ and RESAMPLER_BUFSIZE
          One,        \* units of the accumulator in 1.0
          Rates,      \* sample rates
          Freqs,      \* tunings of the DDC, as angles per sample
          Turn,       \* a full circle
          MaxSamples, \* bound: samples fed
          MaxCall,    \* bound: samples of one call
          MaxOut      \* bound: outputs, beyond what MaxSamples can give

Resamplers == {"resampler", "resamplerC"}
AllKinds   == Resamplers \cup {"decimator", "ddc", "fir"}
Ratio(a, b) == (One * a) \div b

ASSUME KindsAssumption == Kinds \subseteq AllKinds
ASSUME OneAssumption   == One \in Nat \ {0}
ASSUME SizeAssumption  == AskedSize \in Nat \ {0} /\ BufSize \in Nat \ {0}
ASSUME RatesAssumption == /\ Rates \subseteq Nat \ {0}
                          /\ \A a, b \in Rates : a <= b => Ratio(a, b) \in 1 .. One
ASSUME TurnAssumption  == Turn \in Nat \ {0} /\ Freqs \subseteq Int

VARIABLES kind, line,
          head, acc, phase, buf,          \* the object: where it stopped
          inRate, outRate, up, ratio, freq,   \* the object: its settings
          pc, left, l,                    \* the update in progress, its locals
          spc, tune,                      \* the setter in progress
          n, count, handed, taps, at,     \* history: samples, outputs, the latest
          steady, fresh                   \* history: no setter ever; none since Call

place    == <<head, acc, phase, buf>>
settings == <<inRate, outRate, up, ratio, freq>>
update   == <<pc, left, l>>
setter   == <<spc, tune>>
outputs  == <<count, handed, taps, at>>
marks    == <<steady, fresh>>
vars     == <<kind, line, place, settings, update, setter, n, outputs, marks>>

Size == IF kind = "fir" THEN AskedSize ELSE Odd(AskedSize)

Faster(i, o) == o > i                                        \* updown

RatioDown(i, o) == Ratio(o, i)             \* a mutant: always lowRate/highRate

RatioFor(i, o) == IF Faster(i, o) THEN Ratio(i, o) ELSE Ratio(o, i)

NoLocals == [head |-> 0, acc |-> 0, phase |-> 0, buf |-> <<>>, ratio |-> One, up |-> FALSE]

Start == IF kind = "ddc" THEN -One ELSE 0

Init == /\ kind \in Kinds
        /\ line = [i \in 0 .. Size - 1 |-> 0]
        /\ head = 0 /\ phase = Turn \div 4 /\ buf = <<>>
        /\ acc = Start
        /\ inRate \in Rates /\ outRate \in Rates
        /\ kind \notin Resamplers => outRate <= inRate
        /\ up = Faster(inRate, outRate)
        /\ ratio = RatioFor(inRate, outRate)
        /\ freq \in (IF kind = "ddc" THEN Freqs ELSE {0})
        /\ pc = "idle" /\ left = 0
        /\ l = NoLocals
        /\ spc = "idle" /\ tune = freq
        /\ n = 0 /\ count = 0 /\ handed = 0 /\ taps = <<>> /\ at = 0
        /\ steady = TRUE /\ fresh = FALSE
-----------------------------------------------------------------------------
\* The reader thread: one call of decimatorUpdate, ddcUpdate or
\* resamplerUpdate[C] with len samples.

Call(len) == /\ pc = "idle" /\ kind # "fir"
             /\ n + len <= MaxSamples
             /\ pc' = "called" /\ left' = len
             /\ l' = [head |-> head, acc |-> acc, phase |-> phase, buf |-> buf,
                      ratio |-> ratio, up |-> FALSE]
             /\ fresh' = (spc = "idle")
             /\ UNCHANGED <<kind, line, place, settings, setter, n, outputs, steady>>

\* Only the resampler looks at updown, and after it has loaded ratio.
Branch == /\ pc = "called"
          /\ pc' = "loop"
          /\ l' = [l EXCEPT !.up = kind \in Resamplers /\ up]
          /\ UNCHANGED <<kind, line, place, settings, left, setter, n, outputs, marks>>

Due(a) == IF kind = "resampler" THEN a >= 0 ELSE a > 0

SpentAll(a) == 0                            \* a mutant: the remainder is dropped

Spent(a) == a - One

Moved(h) == IF kind = "ddc" THEN LinkNext(Size)[h] ELSE RingBack(h, Size)
TapsAt(ln, h) == IF kind = "ddc" THEN LinkTaps(ln, h, Size) ELSE RingTaps(ln, h, Size)

\* Store the sum of the taps; hand a full buffer to the output function.
Emit(b, ln, h, m) ==
  /\ count' = count + 1
  /\ taps' = TapsAt(ln, h) /\ at' = m
  /\ handed' = IF Len(b) + 1 >= BufSize THEN handed + Len(b) + 1 ELSE handed
Filled(b) == IF Len(b) + 1 >= BufSize THEN <<>> ELSE Append(b, count + 1)

\* Put the next sample into the delay line; the DDC mixes it on the way.
Take == /\ pc = "loop" /\ left > 0
        /\ line' = [line EXCEPT ![l.head] = n + 1]
        /\ n' = n + 1 /\ left' = left - 1
Mixed == IF kind = "ddc" THEN DownSpin(l.phase, freq, Turn) ELSE l.phase

Keep == /\ ~l.up /\ Take
        /\ Due(l.acc + l.ratio)
        /\ l' = [l EXCEPT !.acc = Spent(@ + l.ratio), !.head = Moved(@),
                          !.phase = Mixed, !.buf = Filled(@)]
        /\ Emit(l.buf, line', l.head, n + 1)
        /\ UNCHANGED <<kind, place, settings, pc, setter, marks>>

Skip == /\ ~l.up /\ Take
        /\ ~Due(l.acc + l.ratio)
        /\ l' = [l EXCEPT !.acc = @ + l.ratio, !.head = Moved(@), !.phase = Mixed]
        /\ UNCHANGED <<kind, place, settings, pc, setter, outputs, marks>>

Widen == /\ l.up /\ Take
         /\ l' = [l EXCEPT !.acc = Spent(@)]
         /\ pc' = "fill"
         /\ UNCHANGED <<kind, place, settings, setter, outputs, marks>>

FillNone == /\ pc = "fill" /\ l.acc < 0     \* a mutant: acc += ratio left out
            /\ count < MaxOut
            /\ l' = [l EXCEPT !.buf = Filled(@)]
            /\ Emit(l.buf, line, l.head, n)
            /\ UNCHANGED <<kind, line, place, settings, pc, left, setter, n, marks>>

Fill == /\ pc = "fill" /\ l.acc < 0
        /\ count < MaxOut
        /\ l' = [l EXCEPT !.acc = @ + l.ratio, !.buf = Filled(@)]
        /\ Emit(l.buf, line, l.head, n)
        /\ UNCHANGED <<kind, line, place, settings, pc, left, setter, n, marks>>

FillDone == /\ pc = "fill" /\ l.acc >= 0
            /\ l' = [l EXCEPT !.head = Moved(@)]
            /\ pc' = "loop"
            /\ UNCHANGED <<kind, line, place, settings, left, setter, n, outputs, marks>>

ReturnUnsaved == /\ pc = "loop" /\ left = 0 \* a mutant: bufPtr is not saved
                 /\ head' = l.head /\ acc' = l.acc /\ phase' = l.phase
                 /\ pc' = "idle" /\ l' = NoLocals
                 /\ UNCHANGED <<kind, line, buf, settings, left, setter, n, outputs, marks>>

Return == /\ pc = "loop" /\ left = 0
          /\ head' = l.head /\ acc' = l.acc /\ phase' = l.phase /\ buf' = l.buf
          /\ pc' = "idle" /\ l' = NoLocals
          /\ UNCHANGED <<kind, line, settings, left, setter, n, outputs, marks>>

\* firUpdate and firUpdateC return the sum of one sample's taps.
FirUpdate == /\ kind = "fir" /\ n < MaxSamples
             /\ line' = [line EXCEPT ![head] = n + 1]
             /\ head' = Moved(head)
             /\ n' = n + 1 /\ count' = count + 1 /\ handed' = handed + 1
             /\ taps' = TapsAt(line', head) /\ at' = n + 1
             /\ UNCHANGED <<kind, acc, phase, buf, settings, update, setter, marks>>
-----------------------------------------------------------------------------
\* A client's thread.  firLPCoeffs and firBPCoeffs rewrite the coefficients
\* in place, which changes values and nothing modelled here.

SetInRate(r) == /\ spc = "idle" /\ kind \in Resamplers
                /\ inRate' = r /\ spc' = "up"
                /\ steady' = FALSE /\ fresh' = FALSE
                /\ UNCHANGED <<kind, line, place, outRate, up, ratio, freq, update, tune, n, outputs>>

SetOutRateOnly(r) == /\ spc = "idle" /\ kind \in Resamplers   \* a mutant: no new ratio
                     /\ outRate' = r
                     /\ steady' = FALSE /\ fresh' = FALSE
                     /\ UNCHANGED <<kind, line, place, inRate, up, ratio, freq, update, setter, n, outputs>>

SetOutRate(r) == /\ spc = "idle" /\ kind \in Resamplers
                 /\ outRate' = r /\ spc' = "up"
                 /\ steady' = FALSE /\ fresh' = FALSE
                 /\ UNCHANGED <<kind, line, place, inRate, up, ratio, freq, update, tune, n, outputs>>

SetRates(high, low) ==
               /\ spc = "idle" /\ kind = "decimator"
               /\ inRate' = high /\ outRate' = low
               /\ spc' = "ratio"
               /\ steady' = FALSE /\ fresh' = FALSE
               /\ UNCHANGED <<kind, line, place, up, ratio, freq, update, tune, n, outputs>>

SetFreqs(r, f) == /\ spc = "idle" /\ kind = "ddc"
                  /\ outRate' = r /\ tune' = f
                  /\ spc' = "ratio"
                  /\ steady' = FALSE /\ fresh' = FALSE
                  /\ UNCHANGED <<kind, line, place, inRate, up, ratio, freq, update, n, outputs>>

StoreUp == /\ spc = "up"
           /\ up' = Faster(inRate, outRate)
           /\ spc' = "ratio"
           /\ UNCHANGED <<kind, line, place, inRate, outRate, ratio, freq, update, tune, n, outputs, marks>>

StoreRatio == /\ spc = "ratio"
              /\ ratio' = RatioFor(inRate, outRate)
              /\ spc' = IF kind = "ddc" THEN "freq" ELSE "idle"
              /\ UNCHANGED <<kind, line, place, inRate, outRate, up, freq, update, tune, n, outputs, marks>>

StoreFreq == /\ spc = "freq"
             /\ freq' = tune
             /\ spc' = "idle"
             /\ UNCHANGED <<kind, line, place, inRate, outRate, up, ratio, update, tune, n, outputs, marks>>
-----------------------------------------------------------------------------
Loop   == Branch \/ Keep \/ Skip \/ Widen \/ Fill \/ FillDone \/ Return
Update == (\E len \in 0 .. MaxCall : Call(len)) \/ Loop \/ FirUpdate

\* A decimator or a DDC takes any pair of rates; with the higher one for its
\* output it would put out one sample for each it gets, and its accumulator run
\* away.  A premise of all that follows, of the callers and not of the code: they
\* ask for no more than they feed, as sdrSetDdcFreqs does, whose passband is a
\* small part of the input rate; so does Init.
Narrower == \/ \E high, low \in Rates : low <= high /\ SetRates(high, low)
            \/ \E r \in Rates, f \in Freqs : r <= inRate /\ SetFreqs(r, f)

Setter == \/ \E r \in Rates : SetInRate(r) \/ SetOutRate(r)
          \/ Narrower
          \/ StoreUp \/ StoreRatio \/ StoreFreq
Next == Update \/ Setter

Spec == Init /\ [][Next]_vars

\* A call that began keeps running: it is ordinary code of the reader thread.
LiveSpec == Spec /\ WF_vars(Loop)
-----------------------------------------------------------------------------
TypeOK == /\ kind \in AllKinds
          /\ pc \in {"idle", "called", "loop", "fill"}
          /\ spc \in {"idle", "up", "ratio", "freq"}
          /\ inRate \in Rates /\ outRate \in Rates
          /\ up \in BOOLEAN /\ l.up \in BOOLEAN
          /\ DOMAIN l = {"head", "acc", "phase", "buf", "ratio", "up"}
          /\ acc \in Int /\ l.acc \in Int
          /\ ratio \in Int /\ l.ratio \in Int
          /\ n \in Nat /\ count \in Nat

\* Whatever order the stores of a setter and the loads of an update come in,
\* the ratio an update works with is at most one and never zero: a torn pair
\* gives one call the wrong rate, and no endless interpolation.
RatioSafe == ratio \in 1 .. One /\ l.ratio \in 1 .. One
Narrowing == kind \in {"decimator", "ddc"} => outRate <= inRate

\* The accumulator never runs away, in either direction or when the object
\* changes direction between two calls: the bursts it causes are bounded.
AccBounded == /\ acc \in -One .. One
              /\ pc \in {"called", "loop"} => l.acc \in -One .. One
              /\ pc = "fill" => l.acc \in -2 * One .. One
Bounded == TypeOK /\ RatioSafe /\ Narrowing /\ AccBounded
-----------------------------------------------------------------------------
\* With unchanged rates the outputs stay within one of the inputs times the
\* ratio, for good: no drift, no output lost where one call ends and the
\* next begins (Bresenham's rule, lines 100 to 144 and the other loops).
Near(owed) == owed \in -One .. One
NoDrift ==
  pc = "idle" /\ steady /\ kind # "fir" =>
    IF kind \in Resamplers /\ up THEN Near(count * ratio - n * One)
                                 ELSE Near(n * ratio - count * One)

\* Why: with unchanged rates the accumulator is what is owed, and every call
\* works with the settings and takes up the books where the last one left them.
Current     == IF pc = "idle" THEN acc ELSE l.acc
Widening    == kind \in Resamplers /\ up
OwedUp      == /\ Current = count * ratio - n * One
               /\ Current \in (IF pc = "fill" THEN -One ELSE 0) .. One
OwedDown    == /\ Current = Start + (n * ratio - count * One)
               /\ Current \in -One .. 0
SteadyCalls == /\ spc = "idle"
               /\ pc # "idle" => l.ratio = ratio
               /\ pc \in {"loop", "fill"} => (l.up <=> Widening)
               /\ pc = "fill" => l.up
Books == steady /\ kind # "fir" =>
           SteadyCalls /\ (IF Widening THEN OwedUp ELSE OwedDown)

\* Every output is the sum over the latest Size samples, newest first, with
\* the zeros of creation before the first sample.
Latest(m)   == [k \in 1 .. Size |-> IF m - k + 1 > 0 THEN m - k + 1 ELSE 0]
TapsInOrder == count > 0 => taps = Latest(at)

\* The outputs waiting in buf are those that follow the blocks handed on: none
\* is lost, repeated or handed twice between two calls.
BlocksWhole == pc = "idle" =>
                 /\ Len(buf) < BufSize
                 /\ buf = [i \in 1 .. count - handed |-> handed + i]

\* The mixer's phase is continuous from one call to the next: after n samples
\* at one tuning it has turned n times, with no jump at a block's edge.
PhaseContinuous == kind = "ddc" /\ pc = "idle" /\ steady =>
                     phase = DownSpin(Turn \div 4, n * freq, Turn)

\* However the stream is cut into calls, the output is that of a single one:
\* delay line, waiting outputs and phase carry over from each to the next.
Continuous == TapsInOrder /\ BlocksWhole /\ PhaseContinuous

\* Why: between two samples all but the slot about to be written hold the
\* latest samples, counted from the head in the direction the taps are read;
\* a widening emits before it moves the head.
HeadNow  == IF pc = "idle" THEN head ELSE l.head
BufNow   == IF pc = "idle" THEN buf ELSE l.buf
PhaseNow == IF pc = "idle" THEN phase ELSE l.phase
Slot(h, k) == IF kind = "ddc" THEN (h + Size - (k - 1)) % Size ELSE (h + k - 1) % Size

LineHolds == /\ line \in [0 .. Size - 1 -> Nat] /\ HeadNow \in 0 .. Size - 1
             /\ IF pc = "fill" THEN \A k \in 1 .. Size : line[Slot(l.head, k)] = Latest(n)[k]
                               ELSE \A k \in 2 .. Size : line[Slot(HeadNow, k)] = Latest(n)[k - 1]
BufHolds  == /\ BufNow \in Seq(Nat) /\ handed \in Nat
             /\ Len(BufNow) = count - handed /\ Len(BufNow) < BufSize
             /\ \A i \in 1 .. Len(BufNow) : BufNow[i] = handed + i
PhaseHolds == kind = "ddc" /\ steady => /\ freq \in Int
                                        /\ PhaseNow = DownSpin(Turn \div 4, n * freq, Turn)
FirDirect  == kind = "fir" => pc = "idle" /\ buf = <<>>
FlowInv == TapsInOrder /\ LineHolds /\ BufHolds /\ PhaseHolds /\ FirDirect

\* A call that began after the latest setter returned works with the pair of
\* ratio and direction that belongs to the rates in force.
Settled == fresh /\ pc \in {"loop", "fill"} /\ kind # "fir" =>
             /\ l.ratio = RatioFor(inRate, outRate)
             /\ kind \in Resamplers => l.up = Faster(inRate, outRate)

\* Why: a setter leaves the fields in step when it returns, and a call that no
\* setter met took them over.
SettledInv == /\ spc \in {"idle", "freq"} => ratio = RatioFor(inRate, outRate)
              /\ spc # "up" /\ kind \in Resamplers => up = Faster(inRate, outRate)
              /\ fresh => spc = "idle" /\ (pc # "idle" => l.ratio = ratio)
              /\ fresh /\ pc \in {"loop", "fill"} /\ kind \in Resamplers => l.up = up

\* For every size asked for, each design has linear phase: an odd number of
\* coefficients, symmetric about a centre (size |= 1 is what grants it).
LinearPhase ==
  \A asked \in 2 .. AskedSize + 3, d \in Designs, w \in Windows :
    Symmetric(Fir(d, asked, w), Odd(asked))

\* An update returns: also with the shortest ratio, and with a torn pair.
UpdateReturns == pc # "idle" ~> pc = "idle"
=============================================================================
