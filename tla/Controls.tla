------------------------------ MODULE Controls ------------------------------
(***************************************************************************)
(* The settings of src/sdrlib.c as one controlling thread sees them: its   *)
(* getters and setters over the driver of device-rtl.c, and the command    *)
(* interpreter that src/app/sdrserver.c and sdrcmd.c share.                *)
(*                                                                         *)
(* A library is a record.  sdrStop is the stop that returns; when it does, *)
(* and what other threads see meanwhile, is SdrSession.tla and             *)
(* Receiver.tla.  Gains are in tenths.                                     *)
(***************************************************************************)
EXTENDS Integers, Sequences

CONSTANTS Rate,         \* the device's sample rate
          StartFreq,    \* the 88.7 MHz of sdrStart
          Tunable,      \* what the tuner accepts
          DdcPb         \* the 5000 of sdrCreate

ASSUME RateAssumption == /\ Rate \in Nat \ {0}
                         /\ {StartFreq, DdcPb} \subseteq Int /\ Tunable \subseteq Int

Modes == {"NULL", "AM", "FM", "LSB", "USB"}

Libs == [open : BOOLEAN, running : BOOLEAN, freq : Int, gain : Int, af : Int, vfo : Int, pbLo : Int, pbHi : Int,
         mode : Modes, demod : Modes]

NewLib == [open |-> FALSE, running |-> FALSE, freq |-> 0, gain |-> 0, af |-> 0, vfo |-> 0, pbLo |-> -DdcPb,
           pbHi |-> DdcPb, mode |-> "FM", demod |-> "FM"]

\* rtlsdr_set_center_freq; a refused frequency reads back as 0.
Tuned(f) == IF f \in Tunable THEN f ELSE 0

\* How a start of the device goes: it does not open, or it opens and there is
\* no thread to read it, or a reader.
Outcomes == {"refused", "threadless", "started"}

SdrStartRetunes(l, outcome) ==                \* a mutant: device is not asked
  IF l.running \/ outcome = "refused" THEN l
  ELSE [l EXCEPT !.open = TRUE, !.running = (outcome = "started"), !.gain = 10,
                 !.freq = Tuned(StartFreq)]

SdrStart(l, outcome) ==
  IF l.running \/ l.open \/ outcome = "refused" THEN l
  ELSE [l EXCEPT !.open = TRUE, !.running = (outcome = "started"), !.gain = 10,
                 !.freq = Tuned(StartFreq)]

\* A device without a reader stays open: sdrStop asks running first.
SdrStop(l) == IF l.running THEN [l EXCEPT !.open = FALSE, !.running = FALSE] ELSE l

SampleRate(l)            == IF l.open THEN Rate ELSE 0
CenterFrequency(l)       == IF l.open THEN l.freq ELSE 0
SetCenterFrequency(l, f) == IF l.open THEN [l EXCEPT !.freq = Tuned(f)] ELSE l
SetRfGain(l, g)          == IF l.open THEN [l EXCEPT !.gain = g] ELSE l
SetAfGain(l, g)          == [l EXCEPT !.af = g]

\* ddcSetFreqs gets the passband the DDC has: the arguments lo and hi are not used.
SetDdcFreqs(l, v, lo, hi) == [l EXCEPT !.vfo = v]
SetVfo(l, v)   == SetDdcFreqs(l, v, l.pbLo, l.pbHi)
SetPbLo(l, lo) == SetDdcFreqs(l, l.vfo, lo, l.pbHi)
SetPbHi(l, hi) == SetDdcFreqs(l, l.vfo, l.pbLo, hi)

\* sdrSetMode selects a demodulator; the mode sdrGetMode reads stays.
SetMode(l, m) == IF m \in Modes THEN [l EXCEPT !.demod = m] ELSE l
-----------------------------------------------------------------------------
\* parseAndExecute, on the words of a line: no word at all, a command, or a
\* command with its first argument.  strtod takes "nan" for a number, which
\* is neither below 0 nor above 1.
Numeric(w) == w.kind \in {"number", "nan"}
OutOfRange(w) == w.kind = "number" /\ (w.n < 0 \/ w.n > 10)

\* The setting commands print the setting when there is no second word.
Sets(words) == Len(words) > 1 /\ Numeric(words[2])

Command(l, words, outcome) ==
  LET cmd == words[1].cmd
      n   == words[2].n
  IN  CASE cmd = "start"               -> SdrStart(l, outcome)
        [] cmd = "stop"                -> SdrStop(l)
        [] cmd = "freq" /\ Sets(words) -> SetCenterFrequency(l, n)
        [] cmd = "gain" /\ Sets(words) /\ ~OutOfRange(words[2]) -> SetRfGain(l, n)
        [] cmd = "vfo" /\ Sets(words)  -> SetVfo(l, n)
        [] cmd = "lo" /\ Sets(words)   -> SetPbLo(l, n)
        [] cmd = "hi" /\ Sets(words)   -> SetPbHi(l, n)
        [] OTHER                       -> l

Execute(l, words, outcome) ==
  IF words = <<>> THEN [lib |-> l, ret |-> 1]
  ELSE [lib |-> Command(l, words, outcome), ret |-> IF words[1].cmd = "exit" THEN -1 ELSE 1]
=============================================================================
