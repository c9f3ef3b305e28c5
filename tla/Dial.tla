------------------------------- MODULE Dial -------------------------------
(***************************************************************************)
(* The digits of the frequency dial (src/qt/freqdial.h), which counts in   *)
(* Base (10): digit 0 is the lowest.                                       *)
(***************************************************************************)
EXTENDS Integers

CONSTANTS Digits, Base            \* FREQ_DIGITS and 10

ASSUME DialAssumption == Digits \in Nat \ {0} /\ Base \in Nat /\ Base > 1

Positions == 0 .. Digits - 1

\* getFrequency multiplies power and adds to sum at every digit.
Power[i \in 0 .. Digits] == IF i = 0 THEN 1 ELSE Base * Power[i - 1]
GetFrequency(d) ==
  LET sum[i \in 0 .. Digits] == IF i = 0 THEN 0 ELSE sum[i - 1] + Power[i - 1] * d[i - 1]
  IN  sum[Digits]

\* setFrequency takes the digits off from below, and stops at 0: of a negative
\* frequency it takes the last one only.
Rest(f) == LET rest[i \in 0 .. Digits] == IF i = 0 THEN f ELSE rest[i - 1] \div Base
           IN  rest
SetFrequency(f) == [i \in Positions |-> IF f >= 0 THEN Rest(f)[i] % Base
                                        ELSE IF i = 0 THEN -((-f) % Base) ELSE 0]

\* getIndex; the pixels that the width of a digit leaves over are no digit's.
Indexes == Positions \cup {-1}

\* digitIncr and digitDecr carry to the digits above, and off the last one.
DigitIncr(d, pos) ==
  LET carry[i \in pos .. Digits] == i = pos \/ (carry[i - 1] /\ d[i - 1] >= Base - 1)
  IN  IF pos \notin Positions THEN d
      ELSE [i \in Positions |-> IF i >= pos /\ carry[i]
                                THEN (IF d[i] < Base - 1 THEN d[i] + 1 ELSE 0) ELSE d[i]]

DigitDecr(d, pos) ==
  LET borrow[i \in pos .. Digits] == i = pos \/ (borrow[i - 1] /\ d[i - 1] <= 0)
  IN  IF pos \notin Positions THEN d
      ELSE [i \in Positions |-> IF i >= pos /\ borrow[i]
                                THEN (IF d[i] > 0 THEN d[i] - 1 ELSE Base - 1) ELSE d[i]]
=============================================================================
