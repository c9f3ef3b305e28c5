------------------------------ MODULE Scaling ------------------------------
(***************************************************************************)
(* Waterfall::updatePs (src/qt/waterfall.h): a spectrum of size entries at *)
(* a zoom of 1 / scale on w columns, without the gain and the colours; and *)
(* Sdr::formatFreq (src/qt/sdr.h).                                         *)
(***************************************************************************)
EXTENDS Integers, Sequences

StepsInclusive(acc, w) ==                   \* a mutant: while acc is not positive
  IF acc <= 0 THEN ((-acc) \div w) + 1 ELSE 0

\* How often the inner loop adds w to a negative acc.
Steps(acc, w) == IF acc < 0 THEN ((-acc) + w - 1) \div w ELSE 0

\* acc and the place of ps before each column, if there are fewer of them than
\* entries, and if there are not.
Narrow(shown, w) ==
  LET at[x \in 0 .. w] ==
        IF x = 0 THEN [acc |-> -shown, ps |-> 0]
        ELSE LET k == Steps(at[x - 1].acc, w)
             IN  [acc |-> at[x - 1].acc + k * w - shown, ps |-> at[x - 1].ps + k]
  IN  at

Wide(shown, w) ==
  LET at[x \in 0 .. w] ==
        IF x = 0 THEN [acc |-> -w, ps |-> 0]
        ELSE IF at[x - 1].acc + shown < 0 THEN [acc |-> at[x - 1].acc + shown, ps |-> at[x - 1].ps]
        ELSE [acc |-> at[x - 1].acc + shown - w, ps |-> at[x - 1].ps + 1]
  IN  at

\* The entry each column shows, counted from 0; size is one past the spectrum,
\* and -1 the blank that a wide waterfall begins with.
Zoomed(size, scale) == size \div scale
First(size, scale) == (size - Zoomed(size, scale)) \div 2

Columns(size, scale, w) ==
  LET shown == Zoomed(size, scale)
      start == First(size, scale)
  IN  [x \in 0 .. w - 1 |-> IF shown > w THEN start + Narrow(shown, w)[x + 1].ps
                            ELSE IF Wide(shown, w)[x].ps = 0 THEN -1 ELSE start + Wide(shown, w)[x].ps - 1]
-----------------------------------------------------------------------------
\* updatePs spreads the middle of the spectrum over the columns.  A narrow
\* waterfall reads up to one past what it shows; a wide one is an entry late.
Spreads(size, scale, w) ==
  LET shown == Zoomed(size, scale)
      start == First(size, scale)
  IN  \A x \in 0 .. w - 1 :
        /\ Columns(size, scale, w)[x] =
             IF shown > w THEN start + (((x + 1) * shown + w - 1) \div w)
             ELSE IF x * shown < w THEN -1 ELSE start + ((x * shown) \div w) - 1
        /\ Columns(size, scale, w)[x] \in -1 .. start + shown
-----------------------------------------------------------------------------
\* Sdr::formatFreq, on the characters of a number: a comma follows whenever c
\* is 1, and the last character written is cut off.
FormatFreq(buf) ==
  LET c == 2 - (Len(buf) % 3)
      out[i \in 0 .. Len(buf)] ==
        IF i = 0 THEN <<>> ELSE out[i - 1] \o (IF (c + i - 1) % 3 = 1 THEN <<buf[i], ",">> ELSE <<buf[i]>>)
  IN  SubSeq(out[Len(buf)], 1, Len(out[Len(buf)]) - 1)
=============================================================================
