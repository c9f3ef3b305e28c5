------------------------------ MODULE Filters ------------------------------
(***************************************************************************)
(* The FIR designs of src/filter.c, with their copies in src/samplerate.c, *)
(* its delay lines, and the phase of src/vfo.c.                            *)
(*                                                                         *)
(* A coefficient is abstracted to the terms it is computed from: sin(w*i)  *)
(* over pi*i has the same value for i and -i, and 1 - cos(x) the same for  *)
(* x and 2*pi - x, so a term is the edge it comes from with the distance   *)
(* of its index from the centre.  An angle is an integer modulo Turn.      *)
(***************************************************************************)
EXTENDS Integers, Sequences

Asked(n) == n                                  \* a mutant: the size as asked for

Odd(n) == IF n % 2 = 0 THEN n + 1 ELSE n                          \* size |= 1

Center(size) == (size - 1) \div 2
Distance(i)  == IF i < 0 THEN -i ELSE i

Edge(name, i) == <<name, Distance(i)>>
LPCoeff(i) == {Edge("omega", i)}
HPCoeff(i) == IF i = 0 THEN {<<"one", 0>>, Edge("-omega", 0)} ELSE {Edge("-omega", i)}
BPCoeff(i) == {Edge("omega2", i), Edge("-omega1", i)}

Designs == {"LP", "HP", "BP"}
Windows == {"HAMMING", "HANN", "BLACKMAN", "none"}

\* 0 / 0 when size is 1: the windows divide by size - 1.
Window(type, size, idx) ==
  IF type = "none" THEN "1"
  ELSE IF size = 1 THEN "NaN" ELSE <<type, Distance(2 * idx - (size - 1))>>

\* firLP, firHP, firBP.  normalize scales its own sum and no coefficient.
Fir(design, asked, type) ==
  LET size == Odd(asked)
  IN  [idx \in 0 .. size - 1 |->
         LET i == idx - Center(size)
         IN  <<CASE design = "LP" -> LPCoeff(i)
                 [] design = "HP" -> HPCoeff(i)
                 [] design = "BP" -> BPCoeff(i),
               Window(type, size, idx)>>]

Symmetric(coeffs, size) ==
  \A idx \in 0 .. size - 1 : coeffs[idx] = coeffs[size - 1 - idx]

\* The phase of vfoUpdate; ddcSetFreqs gives vfoFreq the other sign.
Spin(phase, freq, turn)     == (phase + freq) % turn
DownSpin(phase, freq, turn) == Spin(phase, -freq, turn)
-----------------------------------------------------------------------------
\* firUpdate, firUpdateC and the delay lines indexed by delayIndex: the
\* newest sample at head, older ones at the indexes that follow.
RingTaps(line, head, size) == [k \in 1 .. size |-> line[(head + k - 1) % size]]

RingBack(head, size) == (head + size - 1) % size

\* delayCreate: the loop links size nodes into a ring, each to the one made
\* before it; the DDC walks from newest to oldest along prev.
LinkNext(size) == [i \in 0 .. size - 1 |-> (i + 1) % size]
LinkPrev(size) == [i \in 0 .. size - 1 |-> (i + size - 1) % size]
LinkTaps(line, head, size) ==
  LET walk[k \in 1 .. size] == IF k = 1 THEN head ELSE LinkPrev(size)[walk[k - 1]]
  IN  [k \in 1 .. size |-> line[walk[k]]]
=============================================================================
