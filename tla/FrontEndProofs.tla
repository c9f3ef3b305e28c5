--------------------------- MODULE FrontEndProofs ---------------------------
(***************************************************************************)
(* The two front ends.  First the window, for every device, screen and     *)
(* dial.  WindowInv is inductive: the events that change the rate or the   *)
(* zoom pass through Adjust, whose clamp is what InView says.  DialInv is  *)
(* inductive beside it, and says of which frequency the digits were cut.   *)
(* Then arithmetic, by induction along the digits and along the columns:   *)
(* that the dial sums its digits up to the same frequency again            *)
(* (DialReads), that a click adds or takes away the weight of its digit    *)
(* (IncrTurns, DecrTurns), and that acc makes up what the place in the     *)
(* spectrum is ahead of the column (NarrowAt, WideAt).  At last sdrcmd, by *)
(* ConsoleInv: what a command does is read off its words (Effect), and     *)
(* compared with what the history says of the line.                        *)
(***************************************************************************)
EXTENDS FrontEnd, Scaling, Console, WellFoundedInduction, TLAPS

\* The edge of what is in view is a natural number, with and without a device.
LEMMA EdgeNat == ASSUME NEW l \in Libs, NEW s \in Nat \ {0} PROVE Edge(l, s) \in Nat
<1> DEFINE a == SampleRate(l) * EdgeNum
           b == EdgeDen * s
<1>1. a \in Nat /\ b \in Nat /\ b > 0
  <2>1. SampleRate(l) \in Nat
    BY RateAssumption DEF SampleRate, Libs
  <2>2. EdgeNum \in Nat /\ EdgeDen \in Nat /\ EdgeDen > 0 /\ s > 0
    BY ScreenAssumption
  <2>3. \A x, y \in Nat : x * y \in Nat
    OBVIOUS
  <2>4. \A x, y \in Nat : x > 0 /\ y > 0 => x * y > 0
    BY Z3
  <2> QED BY <2>1, <2>2, <2>3, <2>4
<1>2. \A x, y \in Nat : y > 0 => x \div y \in Nat
  BY Z3
<1> HIDE DEF a, b
<1>3. a \div b \in Nat
  BY <1>1, <1>2
<1> QED BY <1>3 DEF a, b, Edge

\* What Adjust leaves is in view, and known to the library, to Sdr once it has
\* been told, and to the display.
LEMMA AdjustKeeps ==
  ASSUME WindowInv, NEW l \in Libs, l.vfo = vfo, NEW s \in Nat \ {0}, NEW text, Adjust(l, s, text)
  PROVE  /\ lib' \in Libs /\ lib'.open = l.open /\ lib'.freq = l.freq /\ lib'.vfo = vfo'
         /\ vfo' \in Int /\ heard' \in BOOLEAN /\ (IF heard' THEN vfoFreq' = vfo' ELSE vfo' = 0)
         /\ display' = ShowVfoFreq(l, vfo') \/ (display' = text /\ vfo' = vfo /\ heard' = heard)
         /\ vfo' \in -Edge(l, s) .. Edge(l, s)
         /\ dragged' = FALSE /\ pbLo' = pbLo /\ pbHi' = pbHi
<1>1. Edge(l, s) \in Nat /\ vfo \in Int
  BY EdgeNat DEF WindowInv, TypeOK
<1>2. vfo' \in Int /\ vfo' \in -Edge(l, s) .. Edge(l, s)
  BY <1>1 DEF Adjust, Clamped
<1>3. CASE vfo' = vfo
  BY <1>2, <1>3 DEF Adjust, WindowInv, TypeOK, VfoAgrees
<1>4. CASE vfo' # vfo
  <2>1. /\ lib' = [l EXCEPT !.vfo = vfo'] /\ heard' = TRUE /\ vfoFreq' = vfo'
        /\ display' = ShowVfoFreq(l, vfo')
    BY <1>4 DEF Adjust, Emit, SetDdcFreqs
  <2> QED BY <1>2, <2>1 DEF Adjust, Libs
<1> QED BY <1>3, <1>4

\* The same width is in view of two libraries with the same device.
LEMMA EdgeSame == ASSUME NEW k, NEW l, NEW s, k.open = l.open PROVE Edge(k, s) = Edge(l, s)
BY DEF Edge, SampleRate

\* Hence an event that ends in Adjust keeps the invariant.
LEMMA AdjustedInv ==
  ASSUME WindowInv, NEW l \in Libs, l.vfo = vfo, scale' \in Nat \ {0},
         NEW text, dialled' /\ heard /\ l.open => text = ShowVfoFreq(l, vfo), Adjust(l, scale', text),
         {button', dialled'} \subseteq BOOLEAN, UNCHANGED <<window, offset, tune, hover>>
  PROVE  WindowInv'
<1>1. /\ lib' \in Libs /\ lib'.open = l.open /\ lib'.freq = l.freq /\ lib'.vfo = vfo'
      /\ vfo' \in Int /\ heard' \in BOOLEAN /\ (IF heard' THEN vfoFreq' = vfo' ELSE vfo' = 0)
      /\ display' = ShowVfoFreq(l, vfo') \/ (display' = text /\ vfo' = vfo /\ heard' = heard)
      /\ vfo' \in -Edge(l, scale') .. Edge(l, scale')
      /\ dragged' = FALSE /\ pbLo' = pbLo /\ pbHi' = pbHi
  BY AdjustKeeps
<1>2. TypeOK'
  BY <1>1 DEF WindowInv, TypeOK
<1>3. VfoAgrees' /\ PassbandKept'
  <2>1. ShowVfoFreq(lib, vfo)' = ShowVfoFreq(l, vfo')
    BY <1>1 DEF ShowVfoFreq, CenterFrequency
  <2>2. dialled' /\ heard' /\ lib'.open => display' = ShowVfoFreq(l, vfo')
    BY <1>1
  <2> QED BY <1>1, <2>1, <2>2 DEF WindowInv, VfoAgrees, PassbandKept
<1>4. Edge(lib, scale)' = Edge(l, scale')
  BY <1>1, EdgeSame
<1>5. InView'
  BY <1>1, <1>4 DEF InView
<1> QED BY <1>2, <1>3, <1>5 DEF WindowInv

\* sdrStart, sdrStop and a change of the center frequency leave the vfo alone.
LEMMA LibrarySteps ==
  ASSUME NEW l \in Libs, NEW f, NEW outcome \in Outcomes
  PROVE  /\ SdrStart(l, outcome) \in Libs /\ SdrStart(l, outcome).vfo = l.vfo
         /\ SdrStop(l) \in Libs /\ SdrStop(l).vfo = l.vfo
         /\ SdrStop(l) = l \/ SdrStop(l).open = FALSE
         /\ SetCenterFrequency(l, f) \in Libs /\ SetCenterFrequency(l, f).vfo = l.vfo
<1>1. \A x : Tuned(x) \in Int
  <2>1. \A x : x \in Tunable => x \in Int
    BY RateAssumption
  <2> QED BY <2>1 DEF Tuned
<1>2. SdrStart(l, outcome) \in Libs /\ SdrStart(l, outcome).vfo = l.vfo
  <2>1. CASE l.running \/ l.open \/ outcome = "refused"
    BY <2>1 DEF SdrStart
  <2>2. CASE ~(l.running \/ l.open \/ outcome = "refused")
    <3> DEFINE t == Tuned(StartFreq)
               reads == outcome = "started"
    <3>1. t \in Int /\ reads \in BOOLEAN
      BY <1>1
    <3>2. SdrStart(l, outcome) = [l EXCEPT !.open = TRUE, !.running = reads, !.gain = 10, !.freq = t]
      BY <2>2 DEF SdrStart
    <3> HIDE DEF t, reads
    <3>3. \A k \in Libs : [k EXCEPT !.gain = 10] \in Libs /\ [k EXCEPT !.gain = 10].vfo = k.vfo
      BY DEF Libs
    <3>4. \A k \in Libs : [k EXCEPT !.freq = t] \in Libs /\ [k EXCEPT !.freq = t].vfo = k.vfo
      BY <3>1 DEF Libs
    <3>5. \A k \in Libs : [k EXCEPT !.open = TRUE] \in Libs /\ [k EXCEPT !.open = TRUE].vfo = k.vfo
      BY DEF Libs
    <3>9. \A k \in Libs : [k EXCEPT !.running = reads] \in Libs /\ [k EXCEPT !.running = reads].vfo = k.vfo
      BY <3>1 DEF Libs
    <3> DEFINE k0 == [l EXCEPT !.open = TRUE]
               k1 == [k0 EXCEPT !.running = reads]
               k2 == [k1 EXCEPT !.gain = 10]
    <3>6. SdrStart(l, outcome) = [k2 EXCEPT !.freq = t]
      BY <3>2
    <3>7. k1 \in Libs /\ k1.vfo = l.vfo
      BY <3>5, <3>9
    <3>8. k2 \in Libs /\ k2.vfo = l.vfo
      BY <3>3, <3>7
    <3> HIDE DEF k1, k2
    <3> QED BY <3>4, <3>6, <3>8
  <2> QED BY <2>1, <2>2
<1>3. SdrStop(l) \in Libs /\ SdrStop(l).vfo = l.vfo /\ (SdrStop(l) = l \/ SdrStop(l).open = FALSE)
  BY DEF SdrStop, Libs
<1>4. SetCenterFrequency(l, f) \in Libs /\ SetCenterFrequency(l, f).vfo = l.vfo
  <2> DEFINE t == Tuned(f)
  <2>1. t \in Int
    BY <1>1
  <2>2. SetCenterFrequency(l, f) \in {l, [l EXCEPT !.freq = t]}
    BY DEF SetCenterFrequency
  <2> HIDE DEF t
  <2> QED BY <2>1, <2>2 DEF Libs
<1> QED BY <1>2, <1>3, <1>4

\* The dial and the legend: setCenterFrequency keeps the invariant.
LEMMA CenterInv ==
  ASSUME WindowInv, NEW f, Center(f),
         UNCHANGED <<window, button, offset, zoom, scale, mouse>>
  PROVE  WindowInv'
<1> DEFINE l == SetCenterFrequency(lib, f - offset)
<1>1. lib \in Libs /\ lib.vfo = vfo /\ scale \in Nat \ {0} /\ lib.open \in BOOLEAN /\ button \in BOOLEAN
  BY DEF WindowInv, TypeOK, VfoAgrees, Libs
<1>2. l \in Libs /\ l.vfo = vfo
  BY <1>1, LibrarySteps DEF Outcomes
<1>3. /\ Adjust(l, scale', ShowVfoFreq(l, vfoFreq)) /\ scale' \in Nat \ {0}
      /\ dialled' \in BOOLEAN /\ button' \in BOOLEAN
  BY <1>1 DEF Center, Retune
<1>4. UNCHANGED <<window, offset, tune, hover>>
  BY DEF mouse
<1>5. heard => ShowVfoFreq(l, vfoFreq) = ShowVfoFreq(l, vfo)
  BY DEF WindowInv, VfoAgrees
<1> HIDE DEF l
<1> QED BY <1>2, <1>3, <1>4, <1>5, AdjustedInv

\* The steps that leave library, waterfall and display as they are.
LEMMA QuietInv ==
  ASSUME WindowInv, UNCHANGED <<lib, window, said, vfo, pbLo, pbHi, scale, dragged>>,
         {button', dialled'} \subseteq BOOLEAN, {tune', hover'} \subseteq TuneModes,
         dialled' => dialled /\ offset' = offset
  PROVE  WindowInv'
<1>1. TypeOK'
  BY DEF WindowInv, TypeOK, said
<1>2. VfoAgrees' /\ PassbandKept'
  BY DEF WindowInv, VfoAgrees, PassbandKept, said, ShowVfoFreq
<1>3. Edge(lib, scale)' = Edge(lib, scale)
  BY DEF Edge, SampleRate
<1>4. InView'
  BY <1>3 DEF WindowInv, InView
<1> QED BY <1>1, <1>2, <1>4 DEF WindowInv

\* A drag of the passband or of the vfo.
LEMMA DragInv ==
  ASSUME WindowInv, NEW x, DragPb(x) \/ DragVfo(x), {vfo', pbLo', pbHi'} \subseteq -Bound .. Bound,
         UNCHANGED <<window, button, offset, zoom, scale, mouse>>
  PROVE  WindowInv'
<1>1. /\ lib \in Libs /\ lib.vfo = vfo /\ pbLo < pbHi /\ {vfo', pbLo', pbHi'} \subseteq Int
      /\ heard \in BOOLEAN /\ (IF heard THEN vfoFreq = vfo ELSE vfo = 0)
      /\ dialled /\ heard /\ lib.open => display = ShowVfoFreq(lib, vfo)
  BY ScreenAssumption DEF WindowInv, TypeOK, VfoAgrees, PassbandKept
<1>2. \A v, lo, hi : v \in Int => SetDdcFreqs(lib, v, lo, hi) \in Libs
  BY <1>1 DEF SetDdcFreqs, Libs
<1>3. \A v, lo, hi : SetDdcFreqs(lib, v, lo, hi).vfo = v /\ SetDdcFreqs(lib, v, lo, hi).open = lib.open
  BY <1>1 DEF SetDdcFreqs, Libs
<1>4. UNCHANGED <<window, button, offset, scale, tune, hover>>
  BY DEF mouse
<1>7. \A v, lo, hi : ShowVfoFreq(SetDdcFreqs(lib, v, lo, hi), v) = ShowVfoFreq(lib, v)
  BY <1>1 DEF SetDdcFreqs, ShowVfoFreq, CenterFrequency, Libs
<1>8. ShowVfoFreq(lib, vfo)' = ShowVfoFreq(lib', vfo')
  BY <1>4 DEF ShowVfoFreq
<1>5. CASE DragPb(x)
  <2>1. vfo' = vfo /\ UNCHANGED <<dialled, dragged>> /\ pbLo' < pbHi'
    BY <1>1, <1>5 DEF DragPb, DragLo, DragHi
  <2>2. \/ UNCHANGED <<lib, vfoFreq, display, heard>>
        \/ /\ \E lo, hi : lib' = SetDdcFreqs(lib, vfo, lo, hi)
           /\ vfoFreq' = vfo /\ heard' = TRUE /\ display' = ShowVfoFreq(lib, vfo)
    BY <1>5 DEF DragPb, DragLo, DragHi, Emit, said
  <2>3. lib' \in Libs /\ lib'.vfo = vfo' /\ lib'.open = lib.open
    BY <1>1, <1>2, <1>3, <2>1, <2>2
  <2>4. heard' \in BOOLEAN /\ VfoAgrees'
    <3>1. CASE UNCHANGED <<lib, vfoFreq, display, heard>>
      BY <1>1, <1>8, <2>1, <3>1 DEF VfoAgrees
    <3>2. CASE ~ UNCHANGED <<lib, vfoFreq, display, heard>>
      BY <1>7, <1>8, <2>1, <2>2, <2>3, <3>2 DEF VfoAgrees
    <3> QED BY <3>1, <3>2
  <2>5. TypeOK'
    BY <1>1, <1>4, <2>1, <2>3, <2>4 DEF WindowInv, TypeOK
  <2>6. Edge(lib, scale)' = Edge(lib, scale)
    BY <1>4, <2>3 DEF Edge, SampleRate
  <2>7. InView'
    BY <1>4, <2>1, <2>6 DEF WindowInv, InView
  <2> QED BY <2>1, <2>4, <2>5, <2>7 DEF WindowInv, PassbandKept
<1>6. CASE DragVfo(x)
  <2>1. /\ lib' = SetDdcFreqs(lib, vfo', pbLo, pbHi) /\ vfoFreq' = vfo' /\ heard' = TRUE
        /\ display' = ShowVfoFreq(lib, vfo') /\ dragged' = TRUE
        /\ UNCHANGED <<pbLo, pbHi, dialled>>
    BY <1>6 DEF DragVfo, Emit
  <2>2. lib' \in Libs /\ lib'.vfo = vfo'
    BY <1>1, <1>2, <1>3, <2>1
  <2>3. TypeOK'
    BY <1>1, <1>4, <2>1, <2>2 DEF WindowInv, TypeOK
  <2>4. InView' /\ PassbandKept' /\ VfoAgrees'
    BY <1>1, <1>7, <1>8, <2>1, <2>2 DEF InView, PassbandKept, VfoAgrees
  <2> QED BY <2>3, <2>4 DEF WindowInv
<1> QED BY <1>5, <1>6

\* Every event of the GUI thread keeps the invariant.
LEMMA WindowStep == WindowInv /\ [Next]_vars => WindowInv'
<1> SUFFICES ASSUME WindowInv, [Next]_vars PROVE WindowInv'
  OBVIOUS
<1>1. /\ lib \in Libs /\ lib.vfo = vfo /\ scale \in Nat \ {0} /\ lib.open \in BOOLEAN
      /\ {button, dialled} \subseteq BOOLEAN /\ {tune, hover} \subseteq TuneModes
  BY DEF WindowInv, TypeOK, VfoAgrees, Libs
<1>2. CASE StartStop
  <2>1. PICK outcome \in Outcomes :
          Adjust(IF button' THEN SdrStart(lib, outcome) ELSE SdrStop(lib), scale, display)
    BY <1>2 DEF StartStop
  <2> DEFINE l == IF button' THEN SdrStart(lib, outcome) ELSE SdrStop(lib)
  <2>2. l \in Libs /\ l.vfo = vfo
    BY <1>1, LibrarySteps
  <2>3. /\ scale' = scale /\ dialled' = FALSE /\ button' \in BOOLEAN
        /\ UNCHANGED <<window, offset, tune, hover>>
    BY <1>1, <1>2 DEF StartStop, mouse
  <2>4. Adjust(l, scale', display)
    BY <2>1, <2>3
  <2> HIDE DEF l
  <2> QED BY <1>1, <2>2, <2>3, <2>4, AdjustedInv
<1>3. ASSUME NEW pos \in Indexes, NEW up \in BOOLEAN, DialClick(pos, up) PROVE WindowInv'
  BY <1>3, CenterInv DEF DialClick
<1>4. ASSUME NEW o \in Offsets, SetOffset(o) PROVE WindowInv'
  BY <1>1, <1>4, QuietInv DEF SetOffset, mouse
<1>5. ASSUME NEW level, Zoom(level) PROVE WindowInv'
  <2>1. scale' \in Nat \ {0} /\ Adjust(lib, scale', display)
    BY <1>1, <1>5, ScreenAssumption DEF Zoom
  <2>2. {button', dialled'} \subseteq BOOLEAN /\ UNCHANGED <<window, offset, tune, hover>>
    BY <1>1, <1>5 DEF Zoom, mouse
  <2>3. dialled' /\ heard /\ lib.open => display = ShowVfoFreq(lib, vfo)
    BY <1>5 DEF Zoom, WindowInv, VfoAgrees
  <2> QED BY <1>1, <2>1, <2>2, <2>3, AdjustedInv
<1>6. ASSUME NEW x \in Xs, NEW legend \in BOOLEAN, Hover(x, legend) PROVE WindowInv'
  <2>1. hover' \in TuneModes
    BY <1>6 DEF Hover, Picks, TuneModes
  <2> QED BY <1>1, <1>6, <2>1, QuietInv DEF Hover
<1>7. ASSUME NEW x \in Xs, Press(x) PROVE WindowInv'
  BY <1>1, <1>7, QuietInv DEF Press
<1>8. CASE Release
  <2>1. tune' \in TuneModes
    BY <1>8 DEF Release, TuneModes
  <2> QED BY <1>1, <1>8, <2>1, QuietInv DEF Release
<1>9. ASSUME NEW x \in Xs, Drag(x) PROVE WindowInv'
  <2>1. CASE DragPb(x) \/ DragVfo(x)
    BY <1>9, <2>1, DragInv DEF Drag
  <2>2. CASE DragLegend(x)
    BY <1>9, <2>2, CenterInv DEF Drag, DragLegend
  <2> QED BY <1>9, <2>1, <2>2 DEF Drag
<1>10. CASE Close
  <2>1. lib' \in Libs /\ lib'.vfo = vfo /\ window' = "closed" /\ (lib' = lib \/ lib'.open = FALSE)
    BY <1>1, <1>10, LibrarySteps DEF Close, Outcomes
  <2>2. UNCHANGED <<button, offset, vfoFreq, display, heard, vfo, pbLo, pbHi, scale, tune, hover,
                    dialled, dragged>>
    BY <1>10 DEF Close, mouse, said
  <2>3. TypeOK'
    BY <2>1, <2>2 DEF WindowInv, TypeOK
  <2>4. VfoAgrees' /\ PassbandKept' /\ InView'
    BY <2>1, <2>2 DEF WindowInv, VfoAgrees, PassbandKept, InView, ShowVfoFreq
  <2> QED BY <2>3, <2>4 DEF WindowInv
<1>11. CASE UNCHANGED vars
  BY <1>1, <1>11, QuietInv DEF vars, mouse
<1> QED BY <1>2, <1>3, <1>4, <1>5, <1>6, <1>7, <1>8, <1>9, <1>10, <1>11 DEF Next

\* A new window: no device, vfo and edge 0.
LEMMA WindowInit == Init => WindowInv
<1> SUFFICES ASSUME Init PROVE WindowInv
  OBVIOUS
<1>1. lib \in Libs /\ lib.vfo = 0
  <2>1. -DdcPb \in Int /\ DdcPb \in Int
    BY RateAssumption
  <2>2. NewLib \in Libs /\ NewLib.vfo = 0
    BY <2>1 DEF NewLib, Libs, Modes
  <2> QED BY <2>2 DEF Init
<1>2. TypeOK
  <2>1. -WaterfallPb \in Int /\ WaterfallPb \in Int
    BY ScreenAssumption
  <2>2. {vfo, pbLo, pbHi} \subseteq Int /\ scale \in Nat \ {0}
    BY <2>1 DEF Init
  <2>3. /\ window \in {"open", "closed"} /\ {button, dialled, dragged, heard} \subseteq BOOLEAN
        /\ tune \in TuneModes /\ hover \in TuneModes
    BY DEF Init, TuneModes
  <2> QED BY <1>1, <2>2, <2>3 DEF TypeOK
<1>3. VfoAgrees /\ PassbandKept
  BY <1>1, ScreenAssumption DEF Init, VfoAgrees, PassbandKept
<1>4. Edge(lib, scale) \in Nat
  BY <1>2, EdgeNat DEF TypeOK
<1>5. InView
  BY <1>4 DEF Init, InView
<1> QED BY <1>2, <1>3, <1>5 DEF WindowInv

\* The inductive invariant holds in every reachable state of the window.
THEOREM WindowSafe == Spec => []WindowInv
BY WindowInit, WindowStep, PTL DEF Spec

\* Library and waterfall agree on the tuning, whichever event of waterfall.h or
\* sdr.cpp changed it; so does Sdr's vfoFreq from the first drag or clamp on,
\* before which nothing has set it; and from then on the display shows it on
\* top of what the dial tuned the running device to.
THEOREM TuningAgrees == Spec => []VfoAgrees
<1>1. WindowInv => VfoAgrees
  BY DEF WindowInv
<1> QED BY <1>1, WindowSafe, PTL

\* The passband drags of waterfall.h never cross each other.
THEOREM PassbandNeverCrosses == Spec => []PassbandKept
<1>1. WindowInv => PassbandKept
  BY DEF WindowInv
<1> QED BY <1>1, WindowSafe, PTL

\* Every event that narrows what is in view (stop, start, zoom, a retune)
\* passes through Waterfall::adjust, so that the vfo stays in it.
THEOREM VfoStaysInView == Spec => []InView
<1>1. WindowInv => InView
  BY DEF WindowInv
<1> QED BY <1>1, WindowSafe, PTL
-----------------------------------------------------------------------------
\* Every set of natural numbers with a member has a least one.
Less == {p \in Nat \X Nat : p[1] < p[2]}

\* Numbers cannot decrease for ever.
LEMMA LessWellFounded == IsWellFoundedOn(Less, Nat)
BY NatLessThanWellFounded DEF OpToRel, Less

\* The smallest of some numbers.
LEMMA Least ==
  ASSUME NEW T, T \subseteq Nat, T # {}
  PROVE  \E m \in T : \A k \in T : m <= k
<1>1. PICK m \in T : \A k \in T : <<k, m>> \notin Less
  BY ONLY LessWellFounded, WFMin, T \subseteq Nat, T # {}, Zenon
<1>2. \A k \in T : ~ (k < m)  BY <1>1 DEF Less
<1> QED  BY <1>2

\* A loop that goes from one value of D to the next with S[i] in its i-th turn
\* has, for any number of turns, the sequence of values it goes through.
Runs(g, z, S, D, N) ==
  g \in [0 .. N -> D] /\ g[0] = z /\ \A i \in 1 .. N : g[i] = S[i][g[i - 1]]

LEMMA LoopRuns ==
  ASSUME NEW N \in Nat, NEW D, NEW z \in D, NEW S \in [1 .. N -> [D -> D]]
  PROVE  \E g : Runs(g, z, S, D, N)
<1> DEFINE T == {n \in 0 .. N : ~ \E g : Runs(g, z, S, D, n)}
<1>1. SUFFICES ASSUME T # {} PROVE FALSE
  <2>1. N \in 0 .. N
    OBVIOUS
  <2> QED BY <2>1
<1>2. PICK m \in T : \A k \in T : m <= k
  <2>1. T \subseteq Nat
    OBVIOUS
  <2> HIDE DEF T
  <2> QED BY <1>1, <2>1, Least
<1>3. CASE m = 0
  <2>1. Runs([i \in 0 .. 0 |-> z], z, S, D, 0)
    BY DEF Runs
  <2> QED BY <1>2, <1>3, <2>1
<1>4. CASE m # 0
  <2>1. m \in 1 .. N /\ m - 1 \in 0 .. N /\ m - 1 \notin T
    BY <1>2, <1>4
  <2>2. PICK g : Runs(g, z, S, D, m - 1)
    BY <2>1
  <2> DEFINE h == [i \in 0 .. m |-> IF i = m THEN S[m][g[m - 1]] ELSE g[i]]
  <2>3. S[m][g[m - 1]] \in D
    BY <2>1, <2>2 DEF Runs
  <2>4. h \in [0 .. m -> D]
    BY <2>1, <2>2, <2>3 DEF Runs
  <2>5. h[0] = z /\ \A i \in 1 .. m : h[i] = S[i][h[i - 1]]
    <3>1. h[0] = z
      BY <2>1, <2>2 DEF Runs
    <3>2. ASSUME NEW i \in 1 .. m PROVE h[i] = S[i][h[i - 1]]
      <4>1. h[i - 1] = g[i - 1]
        BY <2>1
      <4>2. CASE i = m
        BY <2>1, <4>1, <4>2
      <4>3. CASE i # m
        <5>1. i \in 1 .. m - 1 /\ h[i] = g[i]
          BY <2>1, <4>3
        <5> QED BY <2>2, <4>1, <5>1 DEF Runs
      <4> QED BY <4>2, <4>3
    <3> QED BY <3>1, <3>2
  <2> HIDE DEF h
  <2>6. Runs(h, z, S, D, m)
    BY <2>4, <2>5 DEF Runs
  <2> QED BY <1>2, <2>6
<1> QED BY <1>3, <1>4

\* What satisfies a loop's equation turn by turn is that sequence.
LEMMA LoopIs ==
  ASSUME NEW N \in Nat, NEW D, NEW z \in D, NEW S \in [1 .. N -> [D -> D]],
         NEW f, f = [i \in 0 .. N |-> f[i]], f[0] = z,
         \A i \in 1 .. N : f[i - 1] \in D => f[i] = S[i][f[i - 1]]
  PROVE  Runs(f, z, S, D, N)
<1> DEFINE T == {i \in 0 .. N : f[i] \notin D}
<1>1. T = {}
  <2> SUFFICES ASSUME T # {} PROVE FALSE
    OBVIOUS
  <2>1. PICK m \in T : \A k \in T : m <= k
    <3>1. T \subseteq Nat
      OBVIOUS
    <3> HIDE DEF T
    <3> QED BY <3>1, Least
  <2>2. m \in 1 .. N /\ m - 1 \in 0 .. N /\ m - 1 \notin T
    BY <2>1
  <2>3. f[m - 1] \in D /\ S[m] \in [D -> D]
    BY <2>2
  <2>4. f[m] \in D
    BY <2>2, <2>3
  <2> QED BY <2>1, <2>4
<1>2. \A i \in 0 .. N : f[i] \in D
  BY <1>1
<1>3. f \in [0 .. N -> D]
  BY <1>2
<1>4. \A i \in 1 .. N : i - 1 \in 0 .. N
  OBVIOUS
<1> QED BY <1>2, <1>3, <1>4 DEF Runs

-----------------------------------------------------------------------------
\* power, as getFrequency multiplies it.
LEMMA PowerRuns ==
  /\ Power \in [0 .. Digits -> Nat \ {0}] /\ Power[0] = 1
  /\ \A i \in 1 .. Digits : Power[i] = Base * Power[i - 1]
<1> DEFINE D == Nat \ {0}
           S == [i \in 1 .. Digits |-> [x \in D |-> Base * x]]
<1>1. Digits \in Nat /\ 1 \in D /\ S \in [1 .. Digits -> [D -> D]]
  <2>1. \A x \in D : Base * x \in D
    BY DialAssumption
  <2> QED BY <2>1, DialAssumption
<1>2. PICK g : Runs(g, 1, S, D, Digits)
  <2> HIDE DEF D, S
  <2> QED BY <1>1, LoopRuns
<1>3. g = [i \in 0 .. Digits |-> IF i = 0 THEN 1 ELSE Base * g[i - 1]]
  <2>1. ASSUME NEW i \in 0 .. Digits PROVE g[i] = IF i = 0 THEN 1 ELSE Base * g[i - 1]
    <3>1. CASE i # 0
      <4>1. i \in 1 .. Digits /\ i - 1 \in 0 .. Digits
        BY <1>1, <3>1
      <4>2. g[i - 1] \in D /\ g[i] = S[i][g[i - 1]]
        BY <1>2, <4>1 DEF Runs
      <4> QED BY <3>1, <4>1, <4>2
    <3> QED BY <1>2, <3>1 DEF Runs
  <2> QED BY <1>2, <2>1 DEF Runs
<1>4. Power = [i \in 0 .. Digits |-> IF i = 0 THEN 1 ELSE Base * Power[i - 1]]
  BY <1>3 DEF Power
<1>5. \A i \in 1 .. Digits : i # 0 /\ i \in 0 .. Digits
  OBVIOUS
<1>6. Power[0] = 1 /\ \A i \in 1 .. Digits : Power[i] = Base * Power[i - 1]
  BY <1>1, <1>4, <1>5
<1>7. Runs(Power, 1, S, D, Digits)
  <2>1. Power = [i \in 0 .. Digits |-> Power[i]]
    BY <1>4
  <2>2. \A i \in 1 .. Digits : Power[i - 1] \in D => Power[i] = S[i][Power[i - 1]]
    BY <1>6
  <2> HIDE DEF D, S
  <2> QED BY <1>1, <1>6, <2>1, <2>2, LoopIs
<1> QED BY <1>6, <1>7 DEF Runs

\* freq, as setFrequency takes digits off it.
LEMMA RestRuns ==
  ASSUME NEW f \in Nat
  PROVE  /\ Rest(f) \in [0 .. Digits -> Nat] /\ Rest(f)[0] = f
         /\ \A i \in 1 .. Digits : Rest(f)[i] = Rest(f)[i - 1] \div Base
<1> DEFINE S == [i \in 1 .. Digits |-> [x \in Nat |-> x \div Base]]
           r == Rest(f)
<1>1. Digits \in Nat /\ S \in [1 .. Digits -> [Nat -> Nat]]
  <2>1. \A x \in Nat : x \div Base \in Nat
    BY DialAssumption
  <2> QED BY <2>1, DialAssumption
<1>2. PICK g : Runs(g, f, S, Nat, Digits)
  <2> HIDE DEF S
  <2> QED BY <1>1, LoopRuns
<1>3. g = [i \in 0 .. Digits |-> IF i = 0 THEN f ELSE g[i - 1] \div Base]
  <2>1. ASSUME NEW i \in 0 .. Digits PROVE g[i] = IF i = 0 THEN f ELSE g[i - 1] \div Base
    <3>1. CASE i # 0
      <4>1. i \in 1 .. Digits /\ i - 1 \in 0 .. Digits
        BY <1>1, <3>1
      <4>2. g[i - 1] \in Nat /\ g[i] = S[i][g[i - 1]]
        BY <1>2, <4>1 DEF Runs
      <4> QED BY <3>1, <4>1, <4>2
    <3> QED BY <1>2, <3>1 DEF Runs
  <2> QED BY <1>2, <2>1 DEF Runs
<1>4. r = [i \in 0 .. Digits |-> IF i = 0 THEN f ELSE r[i - 1] \div Base]
  BY <1>3 DEF Rest
<1> HIDE DEF r
<1>5. \A i \in 1 .. Digits : i # 0 /\ i \in 0 .. Digits
  OBVIOUS
<1>6. r[0] = f /\ \A i \in 1 .. Digits : r[i] = r[i - 1] \div Base
  BY <1>1, <1>4, <1>5
<1>7. Runs(r, f, S, Nat, Digits)
  <2>1. r = [i \in 0 .. Digits |-> r[i]]
    BY <1>4
  <2>2. \A i \in 1 .. Digits : r[i - 1] \in Nat => r[i] = S[i][r[i - 1]]
    BY <1>6
  <2> HIDE DEF S
  <2> QED BY <1>1, <1>6, <2>1, <2>2, LoopIs
<1> QED BY <1>6, <1>7 DEF Runs, r

\* sum, as getFrequency adds it up.
LEMMA SumRuns ==
  ASSUME NEW D \in {Nat, Int}, NEW d \in [Positions -> D]
  PROVE  \E sum \in [0 .. Digits -> D] :
           /\ sum[0] = 0 /\ \A i \in 1 .. Digits : sum[i] = sum[i - 1] + Power[i - 1] * d[i - 1]
           /\ GetFrequency(d) = sum[Digits]
<1> DEFINE S == [i \in 1 .. Digits |-> [x \in D |-> x + Power[i - 1] * d[i - 1]]]
           sum == CHOOSE s : s = [i \in 0 .. Digits |-> IF i = 0 THEN 0 ELSE s[i - 1] + Power[i - 1] * d[i - 1]]
<1>1. Digits \in Nat /\ 0 \in D /\ S \in [1 .. Digits -> [D -> D]]
  <2>1. ASSUME NEW i \in 1 .. Digits, NEW x \in D PROVE x + Power[i - 1] * d[i - 1] \in D
    <3>1. i - 1 \in Positions /\ i - 1 \in 0 .. Digits
      BY DialAssumption DEF Positions
    <3>2. Power[i - 1] \in Nat /\ d[i - 1] \in D
      BY <3>1, PowerRuns
    <3>3. PICK p \in Nat, e \in D : p = Power[i - 1] /\ e = d[i - 1]
      BY <3>2
    <3>4. p * e \in D
      OBVIOUS
    <3> QED BY <3>3, <3>4
  <2> QED BY <2>1, DialAssumption
<1>2. PICK g : Runs(g, 0, S, D, Digits)
  <2> HIDE DEF S
  <2> QED BY <1>1, LoopRuns
<1>3. g = [i \in 0 .. Digits |-> IF i = 0 THEN 0 ELSE g[i - 1] + Power[i - 1] * d[i - 1]]
  <2>1. ASSUME NEW i \in 0 .. Digits PROVE g[i] = IF i = 0 THEN 0 ELSE g[i - 1] + Power[i - 1] * d[i - 1]
    <3>1. CASE i # 0
      <4>1. i \in 1 .. Digits /\ i - 1 \in 0 .. Digits
        BY <1>1, <3>1
      <4>2. g[i - 1] \in D /\ g[i] = S[i][g[i - 1]]
        BY <1>2, <4>1 DEF Runs
      <4> QED BY <3>1, <4>1, <4>2
    <3> QED BY <1>2, <3>1 DEF Runs
  <2> QED BY <1>2, <2>1 DEF Runs
<1>4. sum = [i \in 0 .. Digits |-> IF i = 0 THEN 0 ELSE sum[i - 1] + Power[i - 1] * d[i - 1]]
  BY <1>3
<1>5. GetFrequency(d) = sum[Digits]
  BY DEF GetFrequency
<1> HIDE DEF sum
<1>6. \A i \in 1 .. Digits : i # 0 /\ i \in 0 .. Digits
  OBVIOUS
<1>7. sum[0] = 0 /\ \A i \in 1 .. Digits : sum[i] = sum[i - 1] + Power[i - 1] * d[i - 1]
  BY <1>1, <1>4, <1>6
<1>8. Runs(sum, 0, S, D, Digits)
  <2>1. sum = [i \in 0 .. Digits |-> sum[i]]
    BY <1>4
  <2>2. \A i \in 1 .. Digits : sum[i - 1] \in D => sum[i] = S[i][sum[i - 1]]
    BY <1>7
  <2> HIDE DEF S
  <2> QED BY <1>1, <1>7, <2>1, <2>2, LoopIs
<1> QED BY <1>5, <1>7, <1>8 DEF Runs

\* Taking the lowest digit off.
LEMMA DigitOff ==
  ASSUME NEW x \in Nat
  PROVE  /\ x % Base \in 0 .. Base - 1 /\ x \div Base \in Nat
         /\ x = Base * (x \div Base) + (x % Base)
<1>1. PICK T \in Nat : T > 0 /\ T = Base
  BY DialAssumption
<1>2. PICK q \in Nat : q = x \div T /\ T * q <= x /\ x < T * (q + 1)
  <2>1. x \div T \in Nat
    BY <1>1
  <2>2. PICK q \in Nat : q = x \div T
    BY <2>1
  <2>3. T * q <= x /\ x < T * (q + 1)
    BY <1>1, <2>2
  <2> QED BY <2>2, <2>3
<1>3. PICK r \in 0 .. T - 1 : x = q * T + r
  <2>1. T * (q + 1) = q * T + T /\ T * q = q * T /\ q * T \in Nat
    OBVIOUS
  <2>2. PICK b \in Nat : b = q * T
    BY <2>1
  <2>3. b <= x /\ x < b + T
    BY <1>2, <2>1, <2>2
  <2>4. x - b \in 0 .. T - 1 /\ x = b + (x - b)
    BY <2>3
  <2> QED BY <2>2, <2>4
<1>4. x % T = r
  BY <1>1, <1>3
<1>5. q * T = T * q
  OBVIOUS
<1> QED BY <1>1, <1>2, <1>3, <1>4, <1>5

\* The dial reads what it was set to, digit by digit: what is summed and what
\* is still to be taken off make up the frequency in every turn.
LEMMA DialReads ==
  ASSUME NEW f \in 0 .. Power[Digits] - 1
  PROVE  GetFrequency(SetFrequency(f)) = f
<1> DEFINE r == Rest(f)
           d == SetFrequency(f)
<1>0. f \in Nat /\ Digits \in Nat /\ Digits > 0 /\ Base \in Nat
  BY PowerRuns, DialAssumption
<1>1. r \in [0 .. Digits -> Nat] /\ r[0] = f /\ \A i \in 1 .. Digits : r[i] = r[i - 1] \div Base
  BY <1>0, RestRuns
<1>2. d \in [Positions -> Nat] /\ \A i \in 1 .. Digits : d[i - 1] = r[i - 1] % Base
  <2>1. \A i \in Positions : i \in 0 .. Digits
    BY <1>0 DEF Positions
  <2>2. d = [i \in Positions |-> r[i] % Base]
    BY <1>0 DEF SetFrequency
  <2>3. ASSUME NEW i \in Positions PROVE r[i] % Base \in Nat
    <3>1. PICK x \in Nat : x = r[i]
      BY <1>1, <2>1
    <3>2. x % Base \in 0 .. Base - 1
      BY DigitOff
    <3> QED BY <1>0, <3>1, <3>2
  <2>4. \A i \in 1 .. Digits : i - 1 \in Positions
    BY <1>0 DEF Positions
  <2> QED BY <2>2, <2>3, <2>4
<1> HIDE DEF r, d
<1>3. PICK sum \in [0 .. Digits -> Nat] :
        /\ sum[0] = 0 /\ \A i \in 1 .. Digits : sum[i] = sum[i - 1] + Power[i - 1] * d[i - 1]
        /\ GetFrequency(d) = sum[Digits]
  BY <1>2, SumRuns
<1>4. \A i \in 0 .. Digits : sum[i] + Power[i] * r[i] = f
  <2> DEFINE T == {i \in 0 .. Digits : sum[i] + Power[i] * r[i] # f}
  <2> SUFFICES ASSUME T # {} PROVE FALSE
    OBVIOUS
  <2>1. PICK m \in T : \A k \in T : m <= k
    <3>1. T \subseteq Nat
      OBVIOUS
    <3> HIDE DEF T
    <3> QED BY <3>1, Least
  <2>2. m # 0
    <3>1. sum[0] + Power[0] * r[0] = f
      BY <1>0, <1>1, <1>3, PowerRuns
    <3> QED BY <2>1, <3>1
  <2>3. m \in 1 .. Digits /\ m - 1 \in 0 .. Digits /\ m \in 0 .. Digits /\ m - 1 \notin T
    BY <1>0, <2>1, <2>2
  <2>4. sum[m - 1] + Power[m - 1] * r[m - 1] = f
    BY <2>3
  <2>5. PICK P \in Nat, s \in Nat, x \in Nat, q \in Nat, e \in Nat :
          /\ P = Power[m - 1] /\ s = sum[m - 1] /\ x = r[m - 1] /\ q = r[m] /\ e = d[m - 1]
          /\ x = Base * q + e
    <3>1. Power[m - 1] \in Nat /\ sum[m - 1] \in Nat /\ r[m - 1] \in Nat /\ r[m] \in Nat
      BY <1>1, <1>3, <2>3, PowerRuns
    <3>2. r[m] = r[m - 1] \div Base /\ d[m - 1] = r[m - 1] % Base
      BY <1>1, <1>2, <2>3
    <3>3. r[m - 1] = Base * r[m] + d[m - 1] /\ d[m - 1] \in Nat
      <4>1. PICK x \in Nat : x = r[m - 1]
        BY <3>1
      <4>2. x % Base \in 0 .. Base - 1 /\ x = Base * (x \div Base) + (x % Base)
        BY DigitOff
      <4>3. x % Base \in Nat
        BY <1>0, <4>2
      <4> QED BY <3>2, <4>1, <4>2, <4>3
    <3> QED BY <3>1, <3>3
  <2>6. Power[m] = Base * P /\ sum[m] = s + P * e
    BY <1>3, <2>3, <2>5, PowerRuns
  <2>7. (s + P * e) + (Base * P) * q = s + P * (Base * q + e)
    <3>1. PICK B \in Nat : B = Base
      BY <1>0
    <3>2. PICK y \in Nat : y = B * q
      OBVIOUS
    <3>3. P * (y + e) = P * y + P * e /\ P * y \in Nat /\ P * e \in Nat
      OBVIOUS
    <3>4. (B * P) * q = P * (B * q)
      OBVIOUS
    <3> QED BY <3>1, <3>2, <3>3, <3>4
  <2> QED BY <2>1, <2>4, <2>5, <2>6, <2>7
<1>5. r[Digits] = 0
  <2>0. Digits \in 0 .. Digits
    BY <1>0
  <2>1. PICK P \in Nat, s \in Nat, x \in Nat : P = Power[Digits] /\ s = sum[Digits] /\ x = r[Digits]
    BY <1>1, <1>3, <2>0, PowerRuns
  <2>2. s + P * x = f /\ f < P
    BY <1>0, <1>4, <2>1
  <2>3. x > 0 => P * x >= P
    OBVIOUS
  <2>4. P * x \in Nat
    OBVIOUS
  <2> QED BY <1>0, <2>1, <2>2, <2>3, <2>4
<1>6. sum[Digits] = f
  <2>1. sum[Digits] + Power[Digits] * 0 = f
    BY <1>0, <1>4, <1>5
  <2>2. Power[Digits] * 0 = 0 /\ sum[Digits] \in Nat
    BY <1>0, <1>3, PowerRuns
  <2> QED BY <2>1, <2>2
<1> QED BY <1>3, <1>6 DEF d

\* Digits are integers, whatever was dialled.
LEMMA DialTypes ==
  /\ \A f \in Int : SetFrequency(f) \in [Positions -> Int]
  /\ \A d \in [Positions -> Int] : GetFrequency(d) \in Int
  /\ \A d \in [Positions -> Int], pos \in Indexes :
       DigitIncr(d, pos) \in [Positions -> Int] /\ DigitDecr(d, pos) \in [Positions -> Int]
<1>1. ASSUME NEW f \in Int PROVE SetFrequency(f) \in [Positions -> Int]
  <2>1. \A x \in Nat : x % Base \in Int
    BY DigitOff, DialAssumption
  <2>2. CASE f >= 0
    <3>1. f \in Nat
      BY <2>2
    <3>2. Rest(f) \in [0 .. Digits -> Nat]
      BY <3>1, RestRuns
    <3>3. \A i \in Positions : i \in 0 .. Digits
      BY DialAssumption DEF Positions
    <3>4. \A i \in Positions : Rest(f)[i] % Base \in Int
      BY <2>1, <3>2, <3>3
    <3> QED BY <2>2, <3>4 DEF SetFrequency
  <2>3. CASE ~(f >= 0)
    <3>1. PICK x \in Nat : x = -f
      BY <2>3
    <3>2. (-f) % Base \in Int
      BY <2>1, <3>1
    <3>3. -((-f) % Base) \in Int
      BY <3>2
    <3> QED BY <2>3, <3>3 DEF SetFrequency
  <2> QED BY <2>2, <2>3
<1>2. ASSUME NEW d \in [Positions -> Int] PROVE GetFrequency(d) \in Int
  <2>1. PICK sum \in [0 .. Digits -> Int] : GetFrequency(d) = sum[Digits]
    BY SumRuns
  <2>2. Digits \in 0 .. Digits
    BY DialAssumption
  <2> QED BY <2>1, <2>2
<1>3. ASSUME NEW d \in [Positions -> Int], NEW pos \in Indexes
      PROVE  DigitIncr(d, pos) \in [Positions -> Int] /\ DigitDecr(d, pos) \in [Positions -> Int]
  <2>1. \A i \in Positions : d[i] + 1 \in Int /\ d[i] - 1 \in Int /\ Base - 1 \in Int
    BY DialAssumption
  <2>2. DigitIncr(d, pos) \in [Positions -> Int]
    BY <2>1 DEF DigitIncr
  <2>3. DigitDecr(d, pos) \in [Positions -> Int]
    BY <2>1 DEF DigitDecr
  <2> QED BY <2>2, <2>3
<1> QED BY <1>1, <1>2, <1>3

\* What the dial shows holds on as long as frequency, offset and digits do.
LEMMA DialQuiet ==
  ASSUME DialInv, UNCHANGED <<offset, digits, down>>, dialled' => dialled,
         lib'.open => lib.open /\ lib'.freq = lib.freq
  PROVE  DialInv'
BY DEF DialInv, SetFrequency, Rest

\* adjust() tunes the DDC and leaves the device alone.
LEMMA AdjustTunes ==
  ASSUME NEW l \in Libs, NEW s, NEW text, Adjust(l, s, text)
  PROVE  lib'.open = l.open /\ lib'.freq = l.freq
BY DEF Adjust, Emit, SetDdcFreqs, Libs

\* setCenterFrequency: the device gets what the dial shows, less the offset,
\* and either takes it or is at 0.
LEMMA CenterDials ==
  ASSUME WindowInv, DialInv, NEW f \in Int, Center(f), UNCHANGED <<offset, down>>
  PROVE  DialInv'
<1> DEFINE l == SetCenterFrequency(lib, f - offset)
<1>1. lib \in Libs /\ offset \in Int /\ f - offset \in Int /\ down.x \in Int /\ down.value \in Int
  BY DEF WindowInv, TypeOK, DialInv
<1>2. l \in Libs
  BY <1>1, LibrarySteps DEF Outcomes
<1>3. lib'.open = l.open /\ lib'.freq = l.freq
  BY <1>2, AdjustTunes DEF Center, Retune
<1>4. l.open = lib.open /\ (l.open => l.freq = Tuned(f - offset))
  BY <1>1 DEF SetCenterFrequency, Libs
<1>5. digits' = SetFrequency(f) /\ SetFrequency(f) \in [Positions -> Int]
  BY DialTypes DEF Center
<1> HIDE DEF l
<1>6. ASSUME lib'.open, lib'.freq # 0 PROVE lib'.freq + offset = f
  <2>1. lib'.freq = f - offset
    BY <1>3, <1>4, <1>6 DEF Tuned
  <2> QED BY <1>1, <2>1
<1>7. ASSUME lib'.open, lib'.freq # 0 PROVE digits' = SetFrequency(lib'.freq + offset')
  BY <1>5, <1>6, <1>7
<1>8. SetFrequency(lib.freq + offset)' = SetFrequency(lib'.freq + offset')
  BY DEF SetFrequency, Rest
<1> QED BY <1>1, <1>5, <1>7, <1>8 DEF DialInv

\* Every event keeps it: those that tune the device go through
\* setCenterFrequency, the others touch neither the device nor the digits.
LEMMA DialStep == WindowInv /\ DialInv /\ [Next]_vars => DialInv'
<1> SUFFICES ASSUME WindowInv, DialInv, [Next]_vars PROVE DialInv'
  OBVIOUS
<1>1. /\ lib \in Libs /\ scale \in Nat \ {0} /\ lib.open \in BOOLEAN /\ {vfo, pbLo, pbHi} \subseteq Int
      /\ lib.freq \in Int /\ hover \in TuneModes
  BY DEF WindowInv, TypeOK, Libs
<1>2. digits \in [Positions -> Int] /\ offset \in Int /\ down.x \in Int /\ down.value \in Int
  BY DEF DialInv
<1>3. CASE StartStop
  BY <1>2, <1>3 DEF StartStop, mouse, DialInv
<1>4. ASSUME NEW pos \in Indexes, NEW up \in BOOLEAN, DialClick(pos, up) PROVE DialInv'
  <2>1. GetFrequency(IF up THEN DigitIncr(digits, pos) ELSE DigitDecr(digits, pos)) \in Int
    BY <1>2, DialTypes
  <2> QED BY <1>4, <2>1, CenterDials DEF DialClick, mouse
<1>5. ASSUME NEW o \in Offsets, SetOffset(o) PROVE DialInv'
  BY <1>2, <1>5, ScreenAssumption DEF SetOffset, mouse, DialInv
<1>6. ASSUME NEW level, Zoom(level) PROVE DialInv'
  <2>1. Adjust(lib, scale', display) /\ UNCHANGED <<offset, digits, down, dialled>>
    BY <1>6 DEF Zoom, mouse
  <2>2. lib'.open = lib.open /\ lib'.freq = lib.freq
    BY <1>1, <2>1, AdjustTunes
  <2> QED BY <2>1, <2>2, DialQuiet
<1>7. ASSUME NEW x \in Xs, NEW legend \in BOOLEAN, Hover(x, legend) PROVE DialInv'
  BY <1>7, DialQuiet DEF Hover
<1>8. ASSUME NEW x \in Xs, Press(x) PROVE DialInv'
  <2>1. CenterFrequency(lib) + offset \in Int
    BY <1>1, <1>2 DEF CenterFrequency
  <2>2. /\ down'.x = x /\ UNCHANGED <<lib, offset, digits, dialled>>
        /\ down'.value \in {pbLo, vfo, pbHi, CenterFrequency(lib) + offset}
    BY <1>1, <1>8 DEF Press, TuneModes
  <2>3. down'.x \in Int /\ down'.value \in Int
    BY <1>1, <2>1, <2>2, ScreenAssumption
  <2> QED BY <2>2, <2>3 DEF DialInv, SetFrequency, Rest
<1>9. ASSUME NEW x \in Xs, Drag(x) PROVE DialInv'
  <2>1. UNCHANGED <<offset, down>>
    BY <1>9 DEF Drag, mouse
  <2>2. CASE DragPb(x) \/ DragVfo(x)
    <3>1. lib' = lib \/ \E v, lo, hi : lib' = SetDdcFreqs(lib, v, lo, hi)
      BY <2>2 DEF DragPb, DragLo, DragHi, DragVfo, Emit
    <3>2. lib'.open = lib.open /\ lib'.freq = lib.freq
      BY <1>1, <3>1 DEF SetDdcFreqs, Libs
    <3>3. UNCHANGED <<digits, dialled>>
      BY <2>2 DEF DragPb, DragVfo
    <3> QED BY <2>1, <3>2, <3>3, DialQuiet
  <2>3. CASE DragLegend(x)
    <3>1. SampleRate(lib) \in Nat /\ x \in Int
      BY RateAssumption, ScreenAssumption DEF SampleRate
    <3>2. PICK a \in Int : a = (x - down.x) * SampleRate(lib)
      BY <1>2, <3>1
    <3>3. PICK b \in Nat : b = Width * scale /\ b > 0
      <4>1. \A p, q \in Nat : p > 0 /\ q > 0 => p * q \in Nat /\ p * q > 0
        BY Z3
      <4> QED BY <1>1, <4>1, ScreenAssumption
    <3>4. a \div b \in Int /\ -((-a) \div b) \in Int
      BY <3>3
    <3>5. Moved(x) \in Int
      BY <3>2, <3>3, <3>4 DEF Moved, Trunc
    <3>6. down.value - Moved(x) \in Int
      BY <1>2, <3>5
    <3> QED BY <2>1, <2>3, <3>6, CenterDials DEF DragLegend
  <2> QED BY <1>9, <2>2, <2>3 DEF Drag
<1>10. CASE Release
  <2>1. UNCHANGED <<lib, offset, digits, dialled>> /\ down'.x \in Int /\ down'.value \in Int
    BY <1>10 DEF Release, Up
  <2> QED BY <2>1 DEF DialInv, SetFrequency, Rest
<1>11. CASE Close
  <2>1. lib' = lib \/ lib'.open = FALSE
    BY <1>1, <1>11, LibrarySteps DEF Close, Outcomes
  <2> QED BY <1>11, <2>1, DialQuiet DEF Close, mouse
<1>12. CASE UNCHANGED vars
  BY <1>12, DialQuiet DEF vars, mouse
<1> QED BY <1>3, <1>4, <1>5, <1>6, <1>7, <1>8, <1>9, <1>10, <1>11, <1>12 DEF Next

\* Nothing is dialled before the window is shown.
LEMMA DialInit == Init => DialInv
BY DialTypes, RateAssumption DEF Init, DialInv, Up

\* Once the dial or the legend of the waterfall has tuned the running device,
\* getFrequency gives the device's frequency plus the offset: setFrequency cuts
\* no digit wrong, and no event changes the one without the other.
THEOREM DialAgrees == Spec => []DialShowsDevice
<1>1. DialInv => DialShowsDevice
  BY DialReads DEF DialInv, DialShowsDevice
<1>2. DialInv /\ WindowInv /\ [Next]_vars => DialInv'
  BY DialStep
<1> QED BY <1>1, <1>2, DialInit, WindowSafe, PTL DEF Spec
-----------------------------------------------------------------------------
\* What stands on a dial that shows no number below zero.
Shown == [Positions -> 0 .. Base - 1]

\* The digits weigh something, each Base times as much as the one below.
LEMMA Weights ==
  /\ Digits \in Nat /\ Digits > 0 /\ Base \in Nat /\ Base > 1
  /\ \A i \in 0 .. Digits : Power[i] \in Nat /\ Power[i] > 0
  /\ \A i \in 0 .. Digits - 1 : Power[i + 1] = Base * Power[i]
<1>1. Digits \in Nat /\ Digits > 0 /\ Base \in Nat /\ Base > 1
  BY DialAssumption
<1>2. \A i \in 0 .. Digits : Power[i] \in Nat
  BY PowerRuns
<1>3. ASSUME NEW i \in 0 .. Digits - 1 PROVE Power[i + 1] = Base * Power[i]
  <2>1. i + 1 \in 1 .. Digits /\ (i + 1) - 1 = i
    BY <1>1
  <2> QED BY <2>1, PowerRuns
<1>4. \A i \in 0 .. Digits : Power[i] > 0
  <2> DEFINE T == {i \in 0 .. Digits : ~(Power[i] > 0)}
  <2> SUFFICES ASSUME T # {} PROVE FALSE
    OBVIOUS
  <2>1. PICK m \in T : \A k \in T : m <= k
    <3>1. T \subseteq Nat
      OBVIOUS
    <3> HIDE DEF T
    <3> QED BY <3>1, Least
  <2>2. m # 0
    BY <2>1, PowerRuns
  <2>3. m - 1 \in 0 .. Digits - 1 /\ m - 1 \in 0 .. Digits /\ m - 1 \notin T /\ (m - 1) + 1 = m
    BY <1>1, <2>1, <2>2
  <2>4. PICK p \in Nat, b \in Nat : p = Power[m - 1] /\ b = Base /\ p > 0 /\ b > 1 /\ Power[m] = b * p
    BY <1>1, <1>2, <1>3, <2>3
  <2>5. b * p > 0
    BY <2>4, Z3
  <2> QED BY <2>1, <2>4, <2>5
<1> QED BY <1>1, <1>2, <1>3, <1>4

\* All digits together count to less than one digit more would weigh.
LEMMA DigitsBelow ==
  ASSUME NEW d \in Shown
  PROVE  GetFrequency(d) \in 0 .. Power[Digits] - 1
<1>1. d \in [Positions -> Nat]
  BY Weights DEF Shown
<1>2. PICK sum \in [0 .. Digits -> Nat] :
        /\ sum[0] = 0 /\ \A i \in 1 .. Digits : sum[i] = sum[i - 1] + Power[i - 1] * d[i - 1]
        /\ GetFrequency(d) = sum[Digits]
  BY <1>1, SumRuns
<1>3. \A i \in 0 .. Digits : sum[i] < Power[i]
  <2> DEFINE T == {i \in 0 .. Digits : ~(sum[i] < Power[i])}
  <2> SUFFICES ASSUME T # {} PROVE FALSE
    OBVIOUS
  <2>1. PICK m \in T : \A k \in T : m <= k
    <3>1. T \subseteq Nat
      OBVIOUS
    <3> HIDE DEF T
    <3> QED BY <3>1, Least
  <2>2. m # 0
    BY <1>2, <2>1, PowerRuns
  <2>3. /\ m \in 1 .. Digits /\ m - 1 \in 0 .. Digits - 1 /\ m - 1 \in 0 .. Digits /\ m - 1 \notin T
        /\ (m - 1) + 1 = m /\ m - 1 \in Positions
    BY Weights, <2>1, <2>2 DEF Positions
  <2>4. PICK p \in Nat, s \in Nat, e \in Nat, b \in Nat :
          /\ p = Power[m - 1] /\ s = sum[m - 1] /\ e = d[m - 1] /\ b = Base /\ e <= b - 1 /\ s < p
    <3>1. d[m - 1] \in 0 .. Base - 1 /\ d[m - 1] \in Nat
      BY <1>1, <2>3 DEF Shown
    <3>2. sum[m - 1] \in Nat /\ Power[m - 1] \in Nat /\ Base \in Nat
      BY <1>2, <2>3, Weights
    <3>3. sum[m - 1] < Power[m - 1]
      BY <2>3
    <3> HIDE DEF T
    <3>4. d[m - 1] <= Base - 1
      BY <3>1, <3>2
    <3> QED BY <3>1, <3>2, <3>3, <3>4
  <2>5. Power[m] = b * p /\ sum[m] = s + p * e
    BY <1>2, <2>3, <2>4, Weights
  <2>6. p * e <= p * (b - 1)
    <3>0. PICK k \in Int : k = (b - 1) - e
      OBVIOUS
    <3>1. PICK c \in Nat : e + c = b - 1
      <4>1. k \in Nat /\ e + k = b - 1
        BY <2>4, <3>0
      <4> QED BY <4>1
    <3>2. p * (e + c) = p * e + p * c /\ p * c \in Nat /\ p * e \in Nat
      OBVIOUS
    <3> QED BY <3>1, <3>2
  <2>7. p * (b - 1) = b * p - p /\ p * e \in Nat /\ b * p \in Nat
    OBVIOUS
  <2>8. s + p * e < b * p
    <3>1. PICK u \in Nat, v \in Nat : u = p * e /\ v = b * p
      BY <2>7
    <3>2. u <= v - p /\ s < p
      BY <2>4, <2>6, <2>7, <3>1
    <3> QED BY <3>1, <3>2
  <2> QED BY <2>1, <2>5, <2>8
<1> QED BY <1>2, <1>3, Weights

\* A carry that begins at pos and goes through the digits where c holds: e has
\* one more than d where it ends, and Base - 1 less where it passes.
Carries(d, e, pos, c) ==
  /\ c \in [pos .. Digits -> BOOLEAN] /\ c[pos]
  /\ \A i \in 0 .. pos - 1 : e[i] = d[i]
  /\ \A i \in pos .. Digits - 1 :
       /\ e[i] = d[i] + (IF c[i] THEN (IF c[i + 1] THEN 1 - Base ELSE 1) ELSE 0)
       /\ c[i + 1] => c[i]

LEMMA Carried ==
  ASSUME NEW d \in Shown, NEW e \in Shown, NEW pos \in Positions, NEW c, Carries(d, e, pos, c)
  PROVE  GetFrequency(e) = GetFrequency(d) + Power[pos] - (IF c[Digits] THEN Power[Digits] ELSE 0)
<1>0. d \in [Positions -> Nat] /\ e \in [Positions -> Nat] /\ pos \in 0 .. Digits - 1 /\ pos \in Nat
  BY Weights DEF Shown, Positions
<1>1. PICK s \in [0 .. Digits -> Nat] :
        /\ s[0] = 0 /\ \A i \in 1 .. Digits : s[i] = s[i - 1] + Power[i - 1] * d[i - 1]
        /\ GetFrequency(d) = s[Digits]
  BY <1>0, SumRuns
<1>2. PICK t \in [0 .. Digits -> Nat] :
        /\ t[0] = 0 /\ \A i \in 1 .. Digits : t[i] = t[i - 1] + Power[i - 1] * e[i - 1]
        /\ GetFrequency(e) = t[Digits]
  BY <1>0, SumRuns
<1>3. \A i \in 0 .. pos : t[i] = s[i]
  <2> DEFINE T == {i \in 0 .. pos : t[i] # s[i]}
  <2> SUFFICES ASSUME T # {} PROVE FALSE
    OBVIOUS
  <2>1. PICK m \in T : \A k \in T : m <= k
    <3>1. T \subseteq Nat
      OBVIOUS
    <3> HIDE DEF T
    <3> QED BY <3>1, Least
  <2>2. m # 0
    BY <1>1, <1>2, <2>1
  <2>3. m \in 1 .. Digits /\ m - 1 \in 0 .. pos - 1 /\ m - 1 \in 0 .. pos /\ m - 1 \notin T
    BY <1>0, <2>1, <2>2, Weights
  <2>4. t[m - 1] = s[m - 1] /\ e[m - 1] = d[m - 1]
    BY <2>3 DEF Carries
  <2>5. t[m] = t[m - 1] + Power[m - 1] * e[m - 1] /\ s[m] = s[m - 1] + Power[m - 1] * d[m - 1]
    BY <1>1, <1>2, <2>3
  <2>6. t[m] = s[m]
    BY <2>4, <2>5, Zenon
  <2> QED BY <2>1, <2>6
<1>4. \A i \in pos .. Digits : t[i] = s[i] + Power[pos] - (IF c[i] THEN Power[i] ELSE 0)
  <2> DEFINE T == {i \in pos .. Digits : ~(t[i] = s[i] + Power[pos] - (IF c[i] THEN Power[i] ELSE 0))}
  <2> SUFFICES ASSUME T # {} PROVE FALSE
    OBVIOUS
  <2>1. PICK m \in T : \A k \in T : m <= k
    <3>1. T \subseteq Nat
      BY <1>0
    <3> HIDE DEF T
    <3> QED BY <3>1, Least
  <2>2. m # pos
    <3>1. t[pos] = s[pos] /\ t[pos] \in Nat /\ Power[pos] \in Nat
      <4>1. pos \in 0 .. pos /\ pos \in 0 .. Digits
        BY <1>0, Weights
      <4> QED BY <1>2, <1>3, <4>1, Weights
    <3>2. t[pos] = s[pos] + Power[pos] - Power[pos]
      BY <1>1, <3>1
    <3> QED BY <2>1, <3>2 DEF Carries
  <2>3. /\ m \in 1 .. Digits /\ m - 1 \in pos .. Digits - 1 /\ m - 1 \in pos .. Digits /\ m - 1 \notin T
        /\ m - 1 \in 0 .. Digits - 1 /\ m - 1 \in 0 .. Digits /\ (m - 1) + 1 = m /\ m - 1 \in Positions
        /\ m \in pos .. Digits /\ m \in 0 .. Digits /\ pos \in 0 .. Digits
    BY <1>0, <2>1, <2>2, Weights DEF Positions
  <2>4. PICK p \in Nat, x \in Nat, y \in Nat, a \in Nat, z \in Nat, b \in Nat, q \in Nat :
          /\ p = Power[m - 1] /\ x = s[m - 1] /\ y = t[m - 1] /\ a = d[m - 1] /\ z = e[m - 1] /\ b = Base
          /\ q = Power[pos]
    BY <1>0, <1>1, <1>2, <2>3, Weights
  <2>5. Power[m] = b * p /\ s[m] = x + p * a /\ t[m] = y + p * z
    BY <1>1, <1>2, <2>3, <2>4, Weights
  <2>6. y = x + q - (IF c[m - 1] THEN p ELSE 0)
    BY <2>3, <2>4
  <2>7. z = a + (IF c[m - 1] THEN (IF c[m] THEN 1 - b ELSE 1) ELSE 0) /\ (c[m] => c[m - 1])
    BY <2>3, <2>4 DEF Carries
  <2>8. t[m] = s[m] + Power[pos] - (IF c[m] THEN Power[m] ELSE 0)
    <3>0. PICK u \in Nat, v \in Nat, r \in Nat : u = p * a /\ v = p * z /\ r = b * p
      OBVIOUS
    <3> HIDE DEF T
    <3>1. CASE c[m]
      <4>1. p * z = p * (a + 1 - b) /\ y = x + q - p
        BY <2>6, <2>7, <3>1
      <4>2. p * (a + 1 - b) = p * a + p - b * p
        OBVIOUS
      <4>3. y + v = (x + u) + q - r
        BY <3>0, <4>1, <4>2
      <4> QED BY <2>4, <2>5, <3>0, <3>1, <4>3
    <3>2. CASE ~c[m] /\ c[m - 1]
      <4>1. p * z = p * (a + 1) /\ y = x + q - p
        BY <2>6, <2>7, <3>2
      <4>2. p * (a + 1) = p * a + p
        OBVIOUS
      <4>3. y + v = (x + u) + q
        BY <3>0, <4>1, <4>2
      <4> QED BY <2>4, <2>5, <3>0, <3>2, <4>3
    <3>3. CASE ~c[m] /\ ~c[m - 1]
      <4>1. p * z = p * a /\ y = x + q
        BY <2>6, <2>7, <3>3
      <4>3. y + v = (x + u) + q
        BY <3>0, <4>1
      <4> QED BY <2>4, <2>5, <3>0, <3>3, <4>3
    <3> QED BY <2>7, <3>1, <3>2, <3>3
  <2> QED BY <2>1, <2>8
<1> QED BY <1>0, <1>1, <1>2, <1>4, Weights

\* The remainder of what is at most one turn off.
LEMMA Around ==
  ASSUME NEW T \in Nat, T > 0, NEW r \in 0 .. T - 1, NEW x \in Int, x = r \/ x = r + T \/ x = r - T
  PROVE  x % T = r
OBVIOUS

\* digitIncr adds the weight of its digit, whatever is carried.
LEMMA IncrTurns ==
  ASSUME NEW d \in Shown, NEW pos \in Positions
  PROVE  /\ DigitIncr(d, pos) \in Shown
         /\ GetFrequency(DigitIncr(d, pos)) = (GetFrequency(d) + Power[pos]) % Power[Digits]
<1> DEFINE carry == CHOOSE c : c = [i \in pos .. Digits |-> i = pos \/ (c[i - 1] /\ d[i - 1] >= Base - 1)]
           w == [i \in pos .. Digits |-> \A k \in pos .. i - 1 : d[k] >= Base - 1]
           e == DigitIncr(d, pos)
<1>0. pos \in Nat /\ pos \in 0 .. Digits - 1 /\ \A i \in Positions : d[i] \in Nat /\ d[i] <= Base - 1
  BY Weights DEF Positions, Shown
<1>1. w = [i \in pos .. Digits |-> i = pos \/ (w[i - 1] /\ d[i - 1] >= Base - 1)]
  <2>1. ASSUME NEW i \in pos .. Digits PROVE w[i] = (i = pos \/ (w[i - 1] /\ d[i - 1] >= Base - 1))
    <3>1. CASE i = pos
      <4>1. pos .. pos - 1 = {}
        BY <1>0
      <4> QED BY <3>1, <4>1
    <3>2. CASE i # pos
      <4>1. i - 1 \in pos .. Digits /\ pos .. i - 1 = (pos .. (i - 1) - 1) \cup {i - 1}
        <5>1. i - 1 \in pos .. Digits
          BY <1>0, <3>2, Weights
        <5>2. \A k \in Int : k \in pos .. i - 1 <=> (k \in pos .. (i - 1) - 1 \/ k = i - 1)
          BY <1>0, <3>2
        <5>3. \A k : k \in pos .. i - 1 => k \in Int
          OBVIOUS
        <5>4. \A k : k \in (pos .. (i - 1) - 1) \cup {i - 1} => k \in Int
          BY <1>0
        <5>5. \A k : k \in pos .. i - 1 <=> k \in (pos .. (i - 1) - 1) \cup {i - 1}
          BY <5>2, <5>3, <5>4, Zenon
        <5>6. pos .. i - 1 = (pos .. (i - 1) - 1) \cup {i - 1}
          BY <5>5, Zenon
        <5> QED BY <5>1, <5>6
      <4>2. w[i] = \A k \in pos .. i - 1 : d[k] >= Base - 1
        OBVIOUS
      <4>3. w[i - 1] = \A k \in pos .. (i - 1) - 1 : d[k] >= Base - 1
        BY <4>1
      <4> HIDE DEF w
      <4> QED BY <3>2, <4>1, <4>2, <4>3
    <3> QED BY <3>1, <3>2
  <2> HIDE DEF w
  <2>2. w = [i \in pos .. Digits |-> w[i]]
    BY DEF w
  <2> QED BY <2>1, <2>2
<1>2. carry = [i \in pos .. Digits |-> i = pos \/ (carry[i - 1] /\ d[i - 1] >= Base - 1)]
  <2> HIDE DEF w
  <2> QED BY <1>1
<1>3. e = [i \in Positions |-> IF i >= pos /\ carry[i]
                               THEN (IF d[i] < Base - 1 THEN d[i] + 1 ELSE 0) ELSE d[i]]
  BY DEF DigitIncr
<1> HIDE DEF carry, w, e
<1>4. carry \in [pos .. Digits -> BOOLEAN] /\ carry[pos]
  <2>1. pos \in pos .. Digits
    BY <1>0, Weights
  <2>2. \A i \in pos .. Digits : (i = pos \/ (carry[i - 1] /\ d[i - 1] >= Base - 1)) \in BOOLEAN
    OBVIOUS
  <2> QED BY <1>2, <2>1, <2>2
<1>5. e \in Shown
  <2>1. \A i \in Positions : d[i] < Base - 1 => d[i] + 1 \in 0 .. Base - 1
    BY <1>0, Weights
  <2>2. \A i \in Positions : d[i] \in 0 .. Base - 1 /\ 0 \in 0 .. Base - 1
    BY Weights DEF Shown
  <2>3. \A i \in Positions : e[i] \in 0 .. Base - 1
    BY <1>3, <2>1, <2>2
  <2> QED BY <1>3, <2>3 DEF Shown
<1>6. \A i \in 0 .. pos - 1 : e[i] = d[i]
  <2>1. \A i \in 0 .. pos - 1 : i \in Positions /\ ~(i >= pos)
    BY <1>0, Weights DEF Positions
  <2> QED BY <1>3, <2>1
<1>7. ASSUME NEW i \in pos .. Digits - 1
      PROVE  /\ e[i] = d[i] + (IF carry[i] THEN (IF carry[i + 1] THEN 1 - Base ELSE 1) ELSE 0)
             /\ carry[i + 1] => carry[i]
  <2>1. i \in Positions /\ i >= pos /\ i \in pos .. Digits /\ i + 1 \in pos .. Digits /\ i + 1 # pos /\ (i + 1) - 1 = i
    BY <1>0, Weights DEF Positions
  <2>2. carry[i + 1] <=> (carry[i] /\ d[i] >= Base - 1)
    <3>1. carry[i + 1] = (i + 1 = pos \/ (carry[(i + 1) - 1] /\ d[(i + 1) - 1] >= Base - 1))
      BY <1>2, <2>1, Zenon
    <3> QED BY <2>1, <3>1, Zenon
  <2>3. e[i] = IF carry[i] THEN (IF d[i] < Base - 1 THEN d[i] + 1 ELSE 0) ELSE d[i]
    BY <1>3, <2>1
  <2>4. d[i] \in Nat /\ Base \in Nat /\ d[i] <= Base - 1
    BY <1>0, <2>1, Weights
  <2>5. CASE carry[i] /\ d[i] >= Base - 1
    <3>1. ~(d[i] < Base - 1) /\ 0 = d[i] + (1 - Base)
      BY <2>4, <2>5
    <3>2. carry[i + 1] /\ e[i] = 0
      BY <2>2, <2>3, <2>5, <3>1, Zenon
    <3> QED BY <2>5, <3>1, <3>2, Zenon
  <2>6. CASE carry[i] /\ ~(d[i] >= Base - 1)
    <3>1. d[i] < Base - 1
      BY <2>4, <2>6
    <3>2. ~carry[i + 1] /\ e[i] = d[i] + 1
      BY <2>2, <2>3, <2>6, <3>1, Zenon
    <3> QED BY <2>6, <3>2, Zenon
  <2>7. CASE ~carry[i]
    <3>1. d[i] = d[i] + 0
      BY <2>4
    <3>2. ~carry[i + 1] /\ e[i] = d[i]
      BY <2>2, <2>3, <2>7, Zenon
    <3> QED BY <2>7, <3>1, <3>2, Zenon
  <2> QED BY <2>5, <2>6, <2>7
<1>8. GetFrequency(e) = GetFrequency(d) + Power[pos] - (IF carry[Digits] THEN Power[Digits] ELSE 0)
  <2>1. Carries(d, e, pos, carry)
    BY <1>4, <1>6, <1>7 DEF Carries
  <2> QED BY <1>5, <2>1, Carried
<1>9. PICK T \in Nat, p \in Nat : T = Power[Digits] /\ T > 0 /\ p = Power[pos]
  BY <1>0, Weights
<1>10. PICK x \in 0 .. T - 1, y \in 0 .. T - 1 : x = GetFrequency(d) /\ y = GetFrequency(e)
  BY <1>5, <1>9, DigitsBelow
<1>11. x + p = y \/ x + p = y + T
  BY <1>8, <1>9, <1>10
<1>12. (x + p) % T = y
  <2>1. PICK z \in Int : z = x + p
    OBVIOUS
  <2> QED BY <1>9, <1>11, <2>1, Around
<1> QED BY <1>5, <1>9, <1>10, <1>12 DEF e
\* digitDecr is digitIncr backwards.
LEMMA DecrTurns ==
  ASSUME NEW d \in Shown, NEW pos \in Positions
  PROVE  /\ DigitDecr(d, pos) \in Shown
         /\ GetFrequency(DigitDecr(d, pos)) = (GetFrequency(d) + (-Power[pos])) % Power[Digits]
<1> DEFINE borrow == CHOOSE c : c = [i \in pos .. Digits |-> i = pos \/ (c[i - 1] /\ d[i - 1] <= 0)]
           w == [i \in pos .. Digits |-> \A k \in pos .. i - 1 : d[k] <= 0]
           e == DigitDecr(d, pos)
<1>0. pos \in Nat /\ pos \in 0 .. Digits - 1 /\ \A i \in Positions : d[i] \in Nat /\ d[i] <= Base - 1
  BY Weights DEF Positions, Shown
<1>1. w = [i \in pos .. Digits |-> i = pos \/ (w[i - 1] /\ d[i - 1] <= 0)]
  <2>1. ASSUME NEW i \in pos .. Digits PROVE w[i] = (i = pos \/ (w[i - 1] /\ d[i - 1] <= 0))
    <3>1. CASE i = pos
      <4>1. pos .. pos - 1 = {}
        BY <1>0
      <4> QED BY <3>1, <4>1
    <3>2. CASE i # pos
      <4>1. i - 1 \in pos .. Digits /\ pos .. i - 1 = (pos .. (i - 1) - 1) \cup {i - 1}
        <5>1. i - 1 \in pos .. Digits
          BY <1>0, <3>2, Weights
        <5>2. \A k \in Int : k \in pos .. i - 1 <=> (k \in pos .. (i - 1) - 1 \/ k = i - 1)
          BY <1>0, <3>2
        <5>3. \A k : k \in pos .. i - 1 => k \in Int
          OBVIOUS
        <5>4. \A k : k \in (pos .. (i - 1) - 1) \cup {i - 1} => k \in Int
          BY <1>0
        <5>5. \A k : k \in pos .. i - 1 <=> k \in (pos .. (i - 1) - 1) \cup {i - 1}
          BY <5>2, <5>3, <5>4, Zenon
        <5>6. pos .. i - 1 = (pos .. (i - 1) - 1) \cup {i - 1}
          BY <5>5, Zenon
        <5> QED BY <5>1, <5>6
      <4>2. w[i] = \A k \in pos .. i - 1 : d[k] <= 0
        OBVIOUS
      <4>3. w[i - 1] = \A k \in pos .. (i - 1) - 1 : d[k] <= 0
        BY <4>1
      <4> HIDE DEF w
      <4> QED BY <3>2, <4>1, <4>2, <4>3
    <3> QED BY <3>1, <3>2
  <2> HIDE DEF w
  <2>2. w = [i \in pos .. Digits |-> w[i]]
    BY DEF w
  <2> QED BY <2>1, <2>2
<1>2. borrow = [i \in pos .. Digits |-> i = pos \/ (borrow[i - 1] /\ d[i - 1] <= 0)]
  <2> HIDE DEF w
  <2> QED BY <1>1
<1>3. e = [i \in Positions |-> IF i >= pos /\ borrow[i]
                               THEN (IF d[i] > 0 THEN d[i] - 1 ELSE Base - 1) ELSE d[i]]
  BY DEF DigitDecr
<1> HIDE DEF borrow, w, e
<1>4. borrow \in [pos .. Digits -> BOOLEAN] /\ borrow[pos]
  <2>1. pos \in pos .. Digits
    BY <1>0, Weights
  <2>2. \A i \in pos .. Digits : (i = pos \/ (borrow[i - 1] /\ d[i - 1] <= 0)) \in BOOLEAN
    OBVIOUS
  <2> QED BY <1>2, <2>1, <2>2
<1>5. e \in Shown
  <2>1. \A i \in Positions : d[i] > 0 => d[i] - 1 \in 0 .. Base - 1
    BY <1>0, Weights
  <2>2. \A i \in Positions : d[i] \in 0 .. Base - 1 /\ Base - 1 \in 0 .. Base - 1
    BY Weights DEF Shown
  <2>3. \A i \in Positions : e[i] \in 0 .. Base - 1
    BY <1>3, <2>1, <2>2
  <2> QED BY <1>3, <2>3 DEF Shown
<1>6. \A i \in 0 .. pos - 1 : d[i] = e[i]
  <2>1. \A i \in 0 .. pos - 1 : i \in Positions /\ ~(i >= pos)
    BY <1>0, Weights DEF Positions
  <2> QED BY <1>3, <2>1
<1>7. ASSUME NEW i \in pos .. Digits - 1
      PROVE  /\ d[i] = e[i] + (IF borrow[i] THEN (IF borrow[i + 1] THEN 1 - Base ELSE 1) ELSE 0)
             /\ borrow[i + 1] => borrow[i]
  <2>1. i \in Positions /\ i >= pos /\ i \in pos .. Digits /\ i + 1 \in pos .. Digits /\ i + 1 # pos /\ (i + 1) - 1 = i
    BY <1>0, Weights DEF Positions
  <2>2. borrow[i + 1] <=> (borrow[i] /\ d[i] <= 0)
    <3>1. borrow[i + 1] = (i + 1 = pos \/ (borrow[(i + 1) - 1] /\ d[(i + 1) - 1] <= 0))
      BY <1>2, <2>1, Zenon
    <3> QED BY <2>1, <3>1, Zenon
  <2>3. e[i] = IF borrow[i] THEN (IF d[i] > 0 THEN d[i] - 1 ELSE Base - 1) ELSE d[i]
    BY <1>3, <2>1
  <2>4. d[i] \in Nat /\ Base \in Nat /\ d[i] <= Base - 1
    BY <1>0, <2>1, Weights
  <2>5. CASE borrow[i] /\ d[i] <= 0
    <3>1. ~(d[i] > 0) /\ d[i] = (Base - 1) + (1 - Base)
      BY <2>4, <2>5
    <3>2. borrow[i + 1] /\ e[i] = Base - 1
      BY <2>2, <2>3, <2>5, <3>1, Zenon
    <3> QED BY <2>5, <3>1, <3>2, Zenon
  <2>6. CASE borrow[i] /\ ~(d[i] <= 0)
    <3>1. d[i] > 0 /\ d[i] = (d[i] - 1) + 1
      BY <2>4, <2>6
    <3>2. ~borrow[i + 1] /\ e[i] = d[i] - 1
      BY <2>2, <2>3, <2>6, <3>1, Zenon
    <3> QED BY <2>6, <3>1, <3>2, Zenon
  <2>7. CASE ~borrow[i]
    <3>1. d[i] = d[i] + 0
      BY <2>4
    <3>2. ~borrow[i + 1] /\ e[i] = d[i]
      BY <2>2, <2>3, <2>7, Zenon
    <3> QED BY <2>7, <3>1, <3>2, Zenon
  <2> QED BY <2>5, <2>6, <2>7
<1>8. GetFrequency(d) = GetFrequency(e) + Power[pos] - (IF borrow[Digits] THEN Power[Digits] ELSE 0)
  <2>1. Carries(e, d, pos, borrow)
    BY <1>4, <1>6, <1>7 DEF Carries
  <2> QED BY <1>5, <2>1, Carried
<1>9. PICK T \in Nat, p \in Nat : T = Power[Digits] /\ T > 0 /\ p = Power[pos]
  BY <1>0, Weights
<1>10. PICK x \in 0 .. T - 1, y \in 0 .. T - 1 : x = GetFrequency(d) /\ y = GetFrequency(e)
  BY <1>5, <1>9, DigitsBelow
<1>11. x + (-p) = y \/ x + (-p) = y - T
  BY <1>8, <1>9, <1>10
<1>12. (x + (-p)) % T = y
  <2>1. PICK z \in Int : z = x + (-p)
    OBVIOUS
  <2> QED BY <1>9, <1>11, <2>1, Around
<1> QED BY <1>5, <1>9, <1>10, <1>12 DEF e

\* DialTurns: what digitIncr or digitDecr makes of the digits stands on the
\* dial again once setCenterFrequency has cut it, and is what the device gets.
THEOREM ClicksTurn == Spec => DialTurns
<1>1. ASSUME WindowInv, DialInv, [Next]_vars PROVE
        \A pos \in Positions, up \in BOOLEAN :
          DialClick(pos, up) /\ digits \in [Positions -> 0 .. Base - 1] =>
            /\ GetFrequency(digits') = Turned(pos, up)
            /\ lib.open => lib'.freq = Tuned(Turned(pos, up) - offset)
  <2> SUFFICES ASSUME NEW pos \in Positions, NEW up \in BOOLEAN, DialClick(pos, up),
                      digits \in [Positions -> 0 .. Base - 1]
               PROVE  /\ GetFrequency(digits') = Turned(pos, up)
                      /\ lib.open => lib'.freq = Tuned(Turned(pos, up) - offset)
    OBVIOUS
  <2>1. digits \in Shown /\ lib \in Libs /\ offset \in Int
    BY <1>1 DEF Shown, WindowInv, TypeOK, DialInv
  <2>2. PICK f : f = GetFrequency(IF up THEN DigitIncr(digits, pos) ELSE DigitDecr(digits, pos))
    OBVIOUS
  <2>3. f = Turned(pos, up) /\ f \in 0 .. Power[Digits] - 1
    <3>1. CASE up
      BY <2>1, <2>2, <3>1, IncrTurns, DigitsBelow DEF Turned
    <3>2. CASE ~up
      BY <2>1, <2>2, <3>2, DecrTurns, DigitsBelow DEF Turned
    <3> QED BY <3>1, <3>2
  <2>4. Center(f)
    BY <2>2 DEF DialClick
  <2>5. digits' = SetFrequency(f)
    BY <2>4 DEF Center
  <2>6. GetFrequency(digits') = GetFrequency(SetFrequency(f))
    BY <2>5 DEF GetFrequency
  <2>7. f \in Int /\ f - offset \in Int
    BY <2>1, <2>3, Weights
  <2>8. PICK l \in Libs : l = SetCenterFrequency(lib, f - offset)
    BY <2>1, <2>7, LibrarySteps DEF Outcomes
  <2>9. lib'.freq = l.freq
    BY <2>4, <2>8, AdjustTunes DEF Center, Retune
  <2>10. lib.open => l.freq = Tuned(f - offset)
    BY <2>1, <2>8 DEF SetCenterFrequency, Libs
  <2> QED BY <2>3, <2>6, <2>9, <2>10, DialReads
<1>2. DialInv /\ WindowInv /\ [Next]_vars => DialInv'
  BY DialStep
<1> QED BY <1>1, <1>2, DialInit, WindowSafe, PTL DEF Spec, DialTurns
-----------------------------------------------------------------------------
\* A quotient is known by its remainder.
LEMMA QuotientIs ==
  ASSUME NEW w \in Nat, w > 0, NEW a \in Nat, NEW q \in Int, NEW r \in 0 .. w - 1, a = q * w + r
  PROVE  a \div w = q
OBVIOUS

\* The inner loop leaves a remainder of w.
LEMMA StepsReach ==
  ASSUME NEW w \in Nat, w > 0, NEW acc \in Int, acc < 0
  PROVE  Steps(acc, w) \in Nat /\ acc + Steps(acc, w) * w \in 0 .. w - 1
<1>1. PICK y \in Nat : y = (-acc) + w - 1
  OBVIOUS
<1>2. PICK k \in Nat : k = y \div w /\ w * k <= y /\ y < w * (k + 1)
  <2>1. y \div w \in Nat
    OBVIOUS
  <2>2. PICK k \in Nat : k = y \div w
    BY <2>1
  <2>3. w * k <= y /\ y < w * (k + 1)
    BY <2>2
  <2> QED BY <2>2, <2>3
<1>3. w * (k + 1) = k * w + w /\ w * k = k * w /\ k * w \in Nat
  OBVIOUS
<1>4. PICK b \in Nat : b = k * w
  BY <1>3
<1>5. acc + b \in 0 .. w - 1
  BY <1>1, <1>2, <1>3, <1>4
<1>6. Steps(acc, w) = k
  BY <1>1, <1>2 DEF Steps
<1> QED BY <1>4, <1>5, <1>6

\* What updatePs keeps from column to column.
Places == [acc : Int, ps : Int]

\* A narrow waterfall, before column x: acc makes up what ps is ahead.
LEMMA NarrowAt ==
  ASSUME NEW w \in Nat, w > 0, NEW n \in Nat, n > w, NEW x \in 0 .. w
  PROVE  LET at == Narrow(n, w)[x]
         IN  at \in Places /\ at.acc \in -n .. w - n - 1 /\ at.acc = at.ps * w - (x + 1) * n
<1> DEFINE start == [acc |-> -n, ps |-> 0]
           turn(s) == [acc |-> s.acc + Steps(s.acc, w) * w - n, ps |-> s.ps + Steps(s.acc, w)]
           S == [i \in 1 .. w |-> [s \in Places |-> turn(s)]]
           at == Narrow(n, w)
           Good(i) == /\ at[i].acc \in -n .. w - n - 1
                      /\ at[i].acc = at[i].ps * w - (i + 1) * n
<1>1. \A a \in Int : Steps(a, w) \in Int
  BY DEF Steps
<1>2. \A s \in Places : turn(s) \in Places
  <2>1. ASSUME NEW s \in Places PROVE turn(s) \in Places
    <3>1. PICK a \in Int, p \in Int : s.acc = a /\ s.ps = p
      BY DEF Places
    <3>2. PICK k \in Int : k = Steps(a, w)
      BY <1>1
    <3>3. a + k * w - n \in Int /\ p + k \in Int
      OBVIOUS
    <3> QED BY <3>1, <3>2, <3>3 DEF Places
  <2> QED BY <2>1
<1>3. start \in Places
  BY DEF Places
<1>4. S \in [1 .. w -> [Places -> Places]]
  BY <1>2
<1> HIDE DEF turn
<1>5. PICK g : Runs(g, start, S, Places, w)
  <2> HIDE DEF S, start
  <2> QED BY <1>3, <1>4, LoopRuns
<1>6. g = [i \in 0 .. w |-> IF i = 0 THEN start ELSE turn(g[i - 1])]
  <2> HIDE DEF start
  <2>1. ASSUME NEW i \in 0 .. w PROVE g[i] = IF i = 0 THEN start ELSE turn(g[i - 1])
    <3>1. CASE i # 0
      <4>1. i \in 1 .. w /\ i - 1 \in 0 .. w
        BY <3>1
      <4>2. g[i - 1] \in Places /\ g[i] = S[i][g[i - 1]]
        BY <1>5, <4>1 DEF Runs
      <4> QED BY <3>1, <4>1, <4>2
    <3> QED BY <1>5, <3>1 DEF Runs
  <2> QED BY <1>5, <2>1 DEF Runs
<1>7. at = [i \in 0 .. w |-> IF i = 0 THEN start ELSE turn(at[i - 1])]
  BY <1>6 DEF Narrow, turn
<1> HIDE DEF at
<1>8. Runs(at, start, S, Places, w)
  <2>1. at = [i \in 0 .. w |-> at[i]] /\ at[0] = start
    BY <1>7
  <2>2. \A i \in 1 .. w : at[i - 1] \in Places => at[i] = S[i][at[i - 1]]
    <3>1. \A i \in 1 .. w : i # 0 /\ i \in 0 .. w
      OBVIOUS
    <3> QED BY <1>7, <3>1
  <2> HIDE DEF S, start
  <2> QED BY <1>3, <1>4, <2>1, <2>2, LoopIs
<1>9. \A i \in 0 .. w : at[i] \in Places
  BY <1>8 DEF Runs
<1>10. Good(0)
  <2>1. at[0].acc = -n /\ at[0].ps = 0
    BY <1>8 DEF Runs
  <2>2. 0 * w - (0 + 1) * n = -n
    OBVIOUS
  <2> QED BY <2>1, <2>2
<1>11. ASSUME NEW i \in 1 .. w, Good(i - 1) PROVE Good(i)
  <2>1. PICK a \in Int, p \in Int : at[i - 1].acc = a /\ at[i - 1].ps = p
    <3>1. i - 1 \in 0 .. w
      OBVIOUS
    <3> QED BY <1>9, <3>1 DEF Places
  <2>2. a \in -n .. w - n - 1 /\ a = p * w - i * n /\ a < 0
    BY <1>11, <2>1
  <2>3. PICK k \in Nat : k = Steps(a, w) /\ a + k * w \in 0 .. w - 1
    BY <2>2, StepsReach
  <2>4. at[i].acc = a + k * w - n /\ at[i].ps = p + k
    <3>1. i # 0 /\ i \in 0 .. w
      OBVIOUS
    <3>2. at[i] = turn(at[i - 1])
      BY <1>7, <3>1
    <3> QED BY <2>1, <2>3, <3>2 DEF turn
  <2>5. (p + k) * w = p * w + k * w /\ (i + 1) * n = i * n + n
    OBVIOUS
  <2>6. PICK b \in Int, c \in Int, d \in Int : b = p * w /\ c = k * w /\ d = i * n
    OBVIOUS
  <2>7. a + c - n \in -n .. w - n - 1 /\ a + c - n = (b + c) - (d + n)
    BY <2>2, <2>3, <2>6
  <2> QED BY <2>4, <2>5, <2>6, <2>7
<1>12. \A i \in 0 .. w : Good(i)
  <2> DEFINE T == {i \in 0 .. w : ~ Good(i)}
  <2> HIDE DEF Good
  <2>1. SUFFICES ASSUME T # {} PROVE FALSE
    OBVIOUS
  <2>2. PICK m \in T : \A k \in T : m <= k
    <3>1. T \subseteq Nat
      OBVIOUS
    <3> HIDE DEF T
    <3> QED BY <2>1, <3>1, Least
  <2>3. m \in 1 .. w /\ m - 1 \in 0 .. w /\ m - 1 \notin T
    BY <1>10, <2>2
  <2> QED BY <1>11, <2>2, <2>3
<1> QED BY <1>9, <1>12 DEF at

\* A wide one, before column x.
LEMMA WideAt ==
  ASSUME NEW w \in Nat, w > 0, NEW n \in Nat, n <= w, NEW x \in 0 .. w
  PROVE  LET at == Wide(n, w)[x]
         IN  at \in Places /\ at.acc \in -w .. -1 /\ at.acc = x * n - (at.ps + 1) * w
<1> DEFINE start == [acc |-> -w, ps |-> 0]
           turn(s) == IF s.acc + n < 0 THEN [acc |-> s.acc + n, ps |-> s.ps]
                      ELSE [acc |-> s.acc + n - w, ps |-> s.ps + 1]
           S == [i \in 1 .. w |-> [s \in Places |-> turn(s)]]
           at == Wide(n, w)
           Good(i) == /\ at[i].acc \in -w .. -1
                      /\ at[i].acc = i * n - (at[i].ps + 1) * w
<1>2. \A s \in Places : turn(s) \in Places
  BY DEF Places
<1>3. start \in Places
  BY DEF Places
<1>4. S \in [1 .. w -> [Places -> Places]]
  BY <1>2
<1> HIDE DEF turn
<1>5. PICK g : Runs(g, start, S, Places, w)
  <2> HIDE DEF S, start
  <2> QED BY <1>3, <1>4, LoopRuns
<1>6. g = [i \in 0 .. w |-> IF i = 0 THEN start ELSE turn(g[i - 1])]
  <2> HIDE DEF start
  <2>1. ASSUME NEW i \in 0 .. w PROVE g[i] = IF i = 0 THEN start ELSE turn(g[i - 1])
    <3>1. CASE i # 0
      <4>1. i \in 1 .. w /\ i - 1 \in 0 .. w
        BY <3>1
      <4>2. g[i - 1] \in Places /\ g[i] = S[i][g[i - 1]]
        BY <1>5, <4>1 DEF Runs
      <4> QED BY <3>1, <4>1, <4>2
    <3> QED BY <1>5, <3>1 DEF Runs
  <2> QED BY <1>5, <2>1 DEF Runs
<1>7. at = [i \in 0 .. w |-> IF i = 0 THEN start ELSE turn(at[i - 1])]
  BY <1>6 DEF Wide, turn
<1> HIDE DEF at
<1>8. Runs(at, start, S, Places, w)
  <2>1. at = [i \in 0 .. w |-> at[i]] /\ at[0] = start
    BY <1>7
  <2>2. \A i \in 1 .. w : at[i - 1] \in Places => at[i] = S[i][at[i - 1]]
    <3>1. \A i \in 1 .. w : i # 0 /\ i \in 0 .. w
      OBVIOUS
    <3> QED BY <1>7, <3>1
  <2> HIDE DEF S, start
  <2> QED BY <1>3, <1>4, <2>1, <2>2, LoopIs
<1>9. \A i \in 0 .. w : at[i] \in Places
  BY <1>8 DEF Runs
<1>10. Good(0)
  <2>1. at[0].acc = -w /\ at[0].ps = 0
    BY <1>8 DEF Runs
  <2>2. 0 * n - (0 + 1) * w = -w
    OBVIOUS
  <2> QED BY <2>1, <2>2
<1>11. ASSUME NEW i \in 1 .. w, Good(i - 1) PROVE Good(i)
  <2>1. PICK a \in Int, p \in Int : at[i - 1].acc = a /\ at[i - 1].ps = p
    <3>1. i - 1 \in 0 .. w
      OBVIOUS
    <3> QED BY <1>9, <3>1 DEF Places
  <2>2. PICK b \in Int, d \in Int : b = (p + 1) * w /\ d = (i - 1) * n /\ i * n = d + n
                                    /\ (p + 1 + 1) * w = b + w
    OBVIOUS
  <2>3. a \in -w .. -1 /\ a = d - b
    BY <1>11, <2>1, <2>2
  <2>4. at[i] = turn(at[i - 1])
    <3>1. i # 0 /\ i \in 0 .. w
      OBVIOUS
    <3> QED BY <1>7, <3>1
  <2>5. CASE a + n < 0
    <3>1. at[i].acc = a + n /\ at[i].ps = p
      BY <2>1, <2>4, <2>5 DEF turn
    <3>2. a + n \in -w .. -1 /\ a + n = (d + n) - b
      BY <2>3, <2>5
    <3> QED BY <2>2, <3>1, <3>2
  <2>6. CASE ~ (a + n < 0)
    <3>1. at[i].acc = a + n - w /\ at[i].ps = p + 1
      BY <2>1, <2>4, <2>6 DEF turn
    <3>2. a + n - w \in -w .. -1 /\ a + n - w = (d + n) - (b + w)
      BY <2>3, <2>6
    <3> QED BY <2>2, <3>1, <3>2
  <2> QED BY <2>5, <2>6
<1>12. \A i \in 0 .. w : Good(i)
  <2> DEFINE T == {i \in 0 .. w : ~ Good(i)}
  <2> HIDE DEF Good
  <2>1. SUFFICES ASSUME T # {} PROVE FALSE
    OBVIOUS
  <2>2. PICK m \in T : \A k \in T : m <= k
    <3>1. T \subseteq Nat
      OBVIOUS
    <3> HIDE DEF T
    <3> QED BY <2>1, <3>1, Least
  <2>3. m \in 1 .. w /\ m - 1 \in 0 .. w /\ m - 1 \notin T
    BY <1>10, <2>2
  <2> QED BY <1>11, <2>2, <2>3
<1> QED BY <1>9, <1>12 DEF at

\* Any spectrum at any zoom is spread evenly over a waterfall of any width, and
\* no column shows what lies more than one entry behind what is zoomed in on.
THEOREM SpectraSpread ==
  \A size \in Nat, z, w \in Nat \ {0} : Spreads(size, z, w)
<1> SUFFICES ASSUME NEW size \in Nat, NEW z \in Nat \ {0}, NEW w \in Nat \ {0}, NEW x \in 0 .. w - 1
             PROVE  LET n == Zoomed(size, z)
                        start == First(size, z)
                    IN  /\ Columns(size, z, w)[x] =
                             IF n > w THEN start + (((x + 1) * n + w - 1) \div w)
                             ELSE IF x * n < w THEN -1 ELSE start + ((x * n) \div w) - 1
                        /\ Columns(size, z, w)[x] \in -1 .. start + n
  BY DEF Spreads
<1>1. PICK n \in Nat : n = Zoomed(size, z) /\ n <= size
  <2>1. size \div z \in Nat /\ size \div z <= size
    OBVIOUS
  <2> QED BY <2>1 DEF Zoomed
<1>2. PICK start \in Nat : start = First(size, z)
  <2>1. (size - n) \div 2 \in Nat
    BY <1>1
  <2> QED BY <1>1, <2>1 DEF First
<1>3. PICK column : column = Columns(size, z, w)[x]
  OBVIOUS
<1>4. column = IF n > w THEN start + Narrow(n, w)[x + 1].ps
               ELSE IF Wide(n, w)[x].ps = 0 THEN -1 ELSE start + Wide(n, w)[x].ps - 1
  BY <1>1, <1>2, <1>3 DEF Columns
<1>5. w \in Nat /\ w > 0 /\ x \in Nat /\ x < w /\ x \in 0 .. w /\ x + 1 \in 0 .. w
  OBVIOUS
<1>6. CASE n > w
  <2>1. PICK a \in Int, p \in Int : /\ p = Narrow(n, w)[x + 1].ps /\ a \in -n .. w - n - 1
                                    /\ a = p * w - (x + 1 + 1) * n
    <3>0. PICK y \in 0 .. w : y = x + 1
      BY <1>5
    <3>1. PICK at : at = Narrow(n, w)[y]
      OBVIOUS
    <3>2. at \in Places /\ at.acc \in -n .. w - n - 1 /\ at.acc = at.ps * w - (y + 1) * n
      BY <1>5, <1>6, <3>1, NarrowAt
    <3>3. at.acc \in Int /\ at.ps \in Int
      BY <3>2 DEF Places
    <3> QED BY <3>0, <3>1, <3>2, <3>3
  <2>2. PICK b \in Nat, c \in Int : b = (x + 1) * n /\ c = p * w /\ (x + 1 + 1) * n = b + n
    <3>1. (x + 1) * n \in Nat /\ (x + 1 + 1) * n = (x + 1) * n + n
      BY <1>5
    <3> QED BY <3>1
  <2>3. PICK r \in 0 .. w - 1 : b + w - 1 = c + r
    <3>1. a = c - (b + n)
      BY <2>1, <2>2
    <3>2. b + w - 1 - c \in 0 .. w - 1 /\ b + w - 1 = c + (b + w - 1 - c)
      BY <1>1, <1>5, <2>1, <2>2, <3>1
    <3> QED BY <2>2, <3>2
  <2>4. (b + w - 1) \div w = p
    <3>1. b + w - 1 \in Nat /\ b + w - 1 = p * w + r
      BY <1>5, <2>2, <2>3
    <3> QED BY <1>5, <2>3, <3>1, QuotientIs
  <2>5. p \in 0 .. n
    <3>1. b <= w * n
      BY <1>5, <2>2, Z3
    <3>2. c <= w * n + w - 1 /\ c >= 0 - (w - 1)
      <4>1. PICK e \in Nat : e = w * n
        OBVIOUS
      <4> QED BY <1>5, <2>2, <2>3, <3>1, <4>1
    <3>3. p > n => c >= w * n + w
      BY <1>5, <2>2, Z3
    <3>4. p < 0 => c <= -w
      BY <1>5, <2>2, Z3
    <3>5. PICK e \in Nat : e = w * n
      OBVIOUS
    <3> QED BY <1>5, <2>2, <3>2, <3>3, <3>4, <3>5
  <2>6. column = start + p /\ start + p \in -1 .. start + n
    BY <1>4, <1>6, <2>1, <2>5
  <2> QED BY <1>1, <1>2, <1>3, <1>6, <2>2, <2>4, <2>6
<1>7. CASE ~ (n > w)
  <2>1. PICK a \in Int, p \in Int : /\ p = Wide(n, w)[x].ps /\ a \in -w .. -1
                                    /\ a = x * n - (p + 1) * w
    <3>1. PICK at : at = Wide(n, w)[x]
      OBVIOUS
    <3>2. n <= w
      BY <1>1, <1>5, <1>7
    <3>3. at \in Places /\ at.acc \in -w .. -1 /\ at.acc = x * n - (at.ps + 1) * w
      BY <1>5, <3>1, <3>2, WideAt
    <3>4. at.acc \in Int /\ at.ps \in Int
      BY <3>3 DEF Places
    <3> QED BY <3>1, <3>3, <3>4
  <2>2. PICK b \in Nat, c \in Int : b = x * n /\ c = p * w /\ (p + 1) * w = c + w
    <3>1. x * n \in Nat /\ (p + 1) * w = p * w + w
      BY <1>5
    <3> QED BY <3>1
  <2>3. PICK r \in 0 .. w - 1 : b = c + r
    <3>1. a = b - (c + w)
      BY <2>1, <2>2
    <3>2. b - c \in 0 .. w - 1 /\ b = c + (b - c)
      BY <1>5, <2>1, <2>2, <3>1
    <3> QED BY <2>2, <3>2
  <2>4. b \div w = p
    <3>1. b = p * w + r
      BY <2>2, <2>3
    <3> QED BY <1>5, <2>3, <3>1, QuotientIs
  <2>5. p \in 0 .. n /\ (p = 0 <=> b < w)
    <3>1. b <= w * n
      BY <1>5, <2>2, Z3
    <3>2. p > n => c >= w * n + w
      BY <1>5, <2>2, Z3
    <3>3. p < 0 => c <= -w
      BY <1>5, <2>2, Z3
    <3>4. p > 0 => c >= w
      BY <1>5, <2>2, Z3
    <3>5. p = 0 => c = 0
      BY <1>5, <2>2
    <3>6. PICK e \in Nat : e = w * n
      OBVIOUS
    <3>7. ~ (p > n)
      BY <1>5, <2>3, <3>1, <3>2, <3>6
    <3>8. ~ (p < 0)
      BY <1>5, <2>3, <3>3
    <3>9. p = 0 <=> b < w
      BY <1>5, <2>3, <3>4, <3>5, <3>8
    <3> QED BY <3>7, <3>8, <3>9
  <2>6. column = IF p = 0 THEN -1 ELSE start + p - 1
    BY <1>4, <1>7, <2>1
  <2>7. column \in -1 .. start + n
    BY <2>5, <2>6
  <2> QED BY <1>1, <1>2, <1>3, <1>7, <2>2, <2>4, <2>5, <2>6, <2>7
<1> QED BY <1>6, <1>7
-----------------------------------------------------------------------------
\* A record with the fields of a library, whatever their values.
Shaped(l) == l = [open |-> l.open, running |-> l.running, freq |-> l.freq, gain |-> l.gain,
                  af |-> l.af, vfo |-> l.vfo, pbLo |-> l.pbLo, pbHi |-> l.pbHi, mode |-> l.mode,
                  demod |-> l.demod]

\* What a command does to that of a library which the properties are about.
Does(l, m, cmd, words, outcome) ==
  /\ Shaped(m)
  /\ cmd = "stop" /\ l.running => m.open = FALSE /\ m.running = FALSE /\ m.gain = l.gain
  /\ cmd = "stop" /\ ~l.running => m = l
  /\ cmd = "start" /\ (l.running \/ l.open \/ outcome = "refused") => m = l
  /\ cmd = "start" /\ ~(l.running \/ l.open \/ outcome = "refused") =>
       m.open = TRUE /\ m.running = (outcome = "started") /\ m.gain = 10 /\ m.freq = Tuned(StartFreq)
  /\ cmd = "freq" /\ Sets(words) /\ l.open =>
       m.open = l.open /\ m.running = l.running /\ m.gain = l.gain /\ m.freq = Tuned(words[2].n)
  /\ cmd = "freq" /\ Sets(words) /\ ~l.open => m = l
  /\ cmd = "gain" /\ Sets(words) => /\ m.open = l.open /\ m.running = l.running /\ m.freq = l.freq
                                    /\ m.gain = l.gain \/ (m.gain = words[2].n /\ ~OutOfRange(words[2]))
  /\ cmd \notin {"start", "stop"} /\ ~(cmd \in {"freq", "gain"} /\ Sets(words)) =>
       m.open = l.open /\ m.running = l.running /\ m.freq = l.freq /\ m.gain = l.gain

\* Every command of parseAndExecute, by the function of the library it calls.
LEMMA Effect ==
  ASSUME NEW l, Shaped(l), NEW words, NEW outcome
  PROVE  Does(l, Command(l, words, outcome), words[1].cmd, words, outcome)
<1>0. PICK cmd, m : cmd = words[1].cmd /\ m = Command(l, words, outcome)
  OBVIOUS
<1> SUFFICES Does(l, m, cmd, words, outcome)
  BY <1>0
<1> USE <1>0 DEF Does
<1>1. l = [open |-> l.open, running |-> l.running, freq |-> l.freq, gain |-> l.gain, af |-> l.af,
           vfo |-> l.vfo, pbLo |-> l.pbLo, pbHi |-> l.pbHi, mode |-> l.mode, demod |-> l.demod]
  BY DEF Shaped
<1>2. CASE cmd = "start"
  <2>1. m = SdrStart(l, outcome)
    BY <1>2 DEF Command
  <2> QED BY <1>1, <1>2, <2>1 DEF SdrStart, Shaped
<1>3. CASE cmd = "stop"
  <2>1. m = SdrStop(l)
    BY <1>3 DEF Command
  <2> QED BY <1>1, <1>3, <2>1 DEF SdrStop, Shaped
<1>4. CASE cmd = "freq" /\ Sets(words)
  <2>1. m = SetCenterFrequency(l, words[2].n)
    BY <1>4 DEF Command
  <2> QED BY <1>1, <1>4, <2>1 DEF SetCenterFrequency, Shaped
<1>5. CASE cmd = "gain" /\ Sets(words)
  <2>1. m = IF OutOfRange(words[2]) THEN l ELSE SetRfGain(l, words[2].n)
    BY <1>5 DEF Command
  <2>2. CASE l.open /\ ~OutOfRange(words[2])
    <3>1. m = [l EXCEPT !.gain = words[2].n]
      BY <2>1, <2>2 DEF SetRfGain
    <3> QED BY <1>1, <1>5, <2>2, <3>1 DEF Shaped
  <2>3. CASE ~(l.open /\ ~OutOfRange(words[2]))
    <3>1. m = l
      BY <2>1, <2>3 DEF SetRfGain
    <3> QED BY <1>5, <3>1
  <2> QED BY <2>2, <2>3
<1>6. CASE cmd \notin {"start", "stop"} /\ ~(cmd \in {"freq", "gain"} /\ Sets(words))
  <2>1. m = l \/ \E x : m = [l EXCEPT !.vfo = x]
    BY <1>6 DEF Command, SetVfo, SetPbLo, SetPbHi, SetDdcFreqs
  <2> QED BY <1>1, <1>6, <2>1 DEF Shaped
<1> QED BY <1>2, <1>3, <1>4, <1>5, <1>6

\* Inductive: the two properties, the shape of the state, and why a stop closes
\* nothing, namely that a start is stuck.
Library(l) == Shaped(l) /\ {l.open, l.running} \subseteq BOOLEAN /\ (l.running => l.open)
Explained  == sdr.open /\ ~sdr.running <=> \E i \in DOMAIN executed : Stuck(i)
ConsoleInv == /\ Library(sdr) /\ inbuf \in Lines
              /\ executed \in Seq([words : Lines, outcome : Outcomes])
              /\ Explained /\ TuningKept /\ GainInRange

\* Nothing was executed, and no device is open.
LEMMA ConsoleInitial == ConsoleInit => ConsoleInv
<1> SUFFICES ASSUME ConsoleInit PROVE ConsoleInv
  OBVIOUS
<1>1. sdr = NewLib /\ inbuf \in Lines /\ executed = <<>>
  BY DEF ConsoleInit
<1>2. sdr.open = FALSE /\ sdr.gain = 0 /\ Library(sdr)
  BY <1>1 DEF NewLib, Shaped, Library
<1>3. Since = {}
  BY <1>1 DEF Since
<1>4. Explained /\ TuningKept /\ GainInRange
  BY <1>1, <1>2, <1>3 DEF Explained, TuningKept, GainInRange
<1>5. <<>> \in Seq([words : Lines, outcome : Outcomes])
  OBVIOUS
<1> QED BY <1>1, <1>2, <1>4, <1>5 DEF ConsoleInv

\* One line more, typed or left in the buffer.
LEMMA TurnKeepsSettings ==
  ASSUME ConsoleInv, NEW words \in Lines, NEW outcome \in Outcomes, Turn(words, outcome)
  PROVE  ConsoleInv'
<1> DEFINE line == [words |-> words, outcome |-> outcome]
           Frequency(d, freq, first) ==
             LET tuned == {j \in DOMAIN d : j > first /\ Gives(d[j], "freq")}
             IN  \/ tuned = {} /\ freq = Tuned(StartFreq)
                 \/ \E last \in tuned : /\ \A j \in tuned : j <= last
                                        /\ freq = Tuned(d[last].words[2].n)
<1>1. PICK n \in Nat : n = Len(executed)
  BY DEF ConsoleInv
<1>2. /\ executed' = Append(executed, line) /\ DOMAIN executed = 1 .. n /\ DOMAIN executed' = 1 .. n + 1
      /\ executed' \in Seq([words : Lines, outcome : Outcomes])
      /\ executed'[n + 1] = line /\ \A i \in 1 .. n : executed'[i] = executed[i]
  BY <1>1 DEF ConsoleInv, Turn
<1>3. inbuf' \in Lines /\ sdr' = Execute(sdr, words, outcome).lib /\ line.words = words /\ line.outcome = outcome
  BY LinesAssumption DEF Turn
<1> HIDE DEF line, Frequency
\* The history with a line more.
<1>16. /\ \A i \in 1 .. n : /\ StopsAfter(i) = {j \in 1 .. n : j > i /\ Is(executed[j], "stop")}
                           /\ StopsAfter(i)' = StopsAfter(i) \cup (IF Is(line, "stop") THEN {n + 1} ELSE {})
       /\ StopsAfter(n + 1)' = {}
  <2>1. \A i : /\ StopsAfter(i) = {j \in 1 .. n : j > i /\ Is(executed[j], "stop")}
               /\ StopsAfter(i)' = {j \in 1 .. n + 1 : j > i /\ Is(executed'[j], "stop")}
    BY <1>2 DEF StopsAfter, Is
  <2>2. \A j : j \in 1 .. n + 1 <=> j \in 1 .. n \/ j = n + 1
    OBVIOUS
  <2>3. \A i \in 1 .. n : n + 1 > i
    OBVIOUS
  <2>4. \A j \in 1 .. n + 1 : ~(j > n + 1)
    OBVIOUS
  <2>5. ASSUME NEW i \in 1 .. n
        PROVE  StopsAfter(i)' = StopsAfter(i) \cup (IF Is(line, "stop") THEN {n + 1} ELSE {})
    <3>1. \A j : j \in StopsAfter(i)' <=> j \in StopsAfter(i) \/ (j = n + 1 /\ Is(line, "stop"))
      BY <1>2, <2>1, <2>2, <2>3
    <3> QED BY <3>1
  <2>6. StopsAfter(n + 1)' = {}
    BY <2>1, <2>4
  <2> QED BY <2>1, <2>5, <2>6
<1>17. /\ \A i \in 1 .. n : Stuck(i)' <=> Stuck(i)
       /\ Stuck(n + 1)' <=> /\ Opens(line) /\ outcome = "threadless"
                            /\ \A h \in 1 .. n : Opens(executed[h]) => StopsAfter(h) # {}
  <2>1. \A i \in 1 .. n : \A j \in StopsAfter(i)' : j < n + 1 => j \in StopsAfter(i)
    BY <1>16
  <2>2. \A i \in 1 .. n : StopsAfter(i) \subseteq StopsAfter(i)' /\ StopsAfter(i) \subseteq 1 .. n
    BY <1>16
  <2>3. ASSUME NEW i \in 1 .. n PROVE Stuck(i)' <=> Stuck(i)
    <3>1. \A h \in 1 .. n : h < i =>
            ((\E j \in StopsAfter(h)' : j < i) <=> (\E j \in StopsAfter(h) : j < i))
      <4>1. \A h \in 1 .. n : \A j \in StopsAfter(h)' : j < i => j \in StopsAfter(h)
        <5>1. \A h \in 1 .. n : \A j \in StopsAfter(h)' : j \in StopsAfter(h) \/ j = n + 1
          BY <1>16
        <5> QED BY <5>1
      <4> QED BY <2>2, <4>1
    <3>2. \A h : h \in 1 .. n + 1 /\ h < i <=> h \in 1 .. n /\ h < i
      OBVIOUS
    <3>3. Stuck(i) <=> /\ Opens(executed[i]) /\ executed[i].outcome = "threadless"
                       /\ \A h \in 1 .. n : h < i /\ Opens(executed[h]) => \E j \in StopsAfter(h) : j < i
      BY <1>2 DEF Stuck
    <3>4. Stuck(i)' <=> /\ Opens(executed'[i]) /\ executed'[i].outcome = "threadless"
                        /\ \A h \in 1 .. n + 1 : h < i /\ Opens(executed'[h]) => \E j \in StopsAfter(h)' : j < i
      BY <1>2 DEF Stuck, Opens, Is
    <3> QED BY <1>2, <3>1, <3>2, <3>3, <3>4
  <2>4. Stuck(n + 1)' <=> /\ Opens(executed'[n + 1]) /\ executed'[n + 1].outcome = "threadless"
                          /\ \A h \in 1 .. n + 1 : h < n + 1 /\ Opens(executed'[h])
                               => \E j \in StopsAfter(h)' : j < n + 1
    BY <1>2 DEF Stuck, Opens, Is
  <2>5. \A h : h \in 1 .. n + 1 /\ h < n + 1 <=> h \in 1 .. n
    OBVIOUS
  <2>6. \A h \in 1 .. n : (\E j \in StopsAfter(h)' : j < n + 1) <=> StopsAfter(h) # {}
    <3>1. \A j \in 1 .. n : j < n + 1
      OBVIOUS
    <3> QED BY <2>1, <2>2, <3>1
  <2> QED BY <1>2, <1>3, <2>3, <2>4, <2>5, <2>6
<1>18. \A i : i \in Since <=> i \in 1 .. n /\ Opens(executed[i]) /\ (StopsAfter(i) = {} \/ Stuck(i))
  BY <1>2 DEF Since
<1>5. /\ Opens(line) => Since' = Since \cup {n + 1}
      /\ Is(line, "stop") => Since' = {i \in Since : Stuck(i)}
      /\ ~Opens(line) /\ ~Is(line, "stop") => Since' = Since
      /\ \A i \in Since : i \in 1 .. n
  <2>1. \A i : i \in Since' <=> i \in 1 .. n + 1 /\ Opens(executed'[i]) /\ (StopsAfter(i)' = {} \/ Stuck(i)')
    BY <1>2 DEF Since, Opens, Is
  <2>2. ~(Opens(line) /\ Is(line, "stop"))
    BY DEF Opens, Is
  <2>3. n + 1 \in Since' <=> Opens(line)
    <3>1. n + 1 \in 1 .. n + 1
      OBVIOUS
    <3> QED BY <1>2, <1>16, <2>1, <3>1
  <2>4. \A i \in 1 .. n : i \in Since' <=> Opens(executed[i]) /\ ((StopsAfter(i) = {} /\ ~Is(line, "stop")) \/ Stuck(i))
    <3>1. \A i \in 1 .. n : StopsAfter(i)' = {} <=> StopsAfter(i) = {} /\ ~Is(line, "stop")
      BY <1>16
    <3>2. \A i \in 1 .. n : i \in 1 .. n + 1
      OBVIOUS
    <3> QED BY <1>2, <1>17, <2>1, <3>1, <3>2
  <2>5. \A i \in 1 .. n + 1 : i \in 1 .. n \/ i = n + 1
    OBVIOUS
  <2>6. ~(n + 1 \in 1 .. n)
    OBVIOUS
  <2>7. \A i : i \in Since' <=> (i \in Since /\ (~Is(line, "stop") \/ Stuck(i))) \/ (i = n + 1 /\ Opens(line))
    BY <1>18, <2>1, <2>3, <2>4, <2>5, <2>6
  <2> QED BY <1>18, <2>2, <2>7
\* What a stuck start says of the others.
<1>19. /\ \A u \in 1 .. n : Stuck(u) => u \in Since
       /\ \A u \in 1 .. n, i \in Since : Stuck(u) /\ ~Stuck(i) => u <= i
       /\ Stuck(n + 1)' /\ Since # {} => \E i \in 1 .. n : Stuck(i)
       /\ Opens(line) /\ outcome = "threadless" /\ Since = {} => Stuck(n + 1)'
  <2>1. \A u \in 1 .. n : Stuck(u) => u \in Since
    BY <1>18 DEF Stuck
  <2>2. ASSUME NEW u \in 1 .. n, NEW i \in Since, Stuck(u), ~Stuck(i) PROVE u <= i
    <3>1. i \in 1 .. n /\ Opens(executed[i]) /\ StopsAfter(i) = {}
      BY <1>18, <2>2
    <3>2. ~(i < u)
      BY <1>2, <2>2, <3>1 DEF Stuck
    <3> QED BY <3>1, <3>2
  <2>3. Stuck(n + 1)' /\ Since # {} => \E i \in 1 .. n : Stuck(i)
    BY <1>17, <1>18
  <2>4. Opens(line) /\ outcome = "threadless" /\ Since = {} => Stuck(n + 1)'
    BY <1>17, <1>18
  <2> QED BY <2>1, <2>2, <2>3, <2>4
<1>20. /\ sdr.open /\ ~sdr.running <=> \E i \in 1 .. n : Stuck(i)
       /\ (sdr'.open /\ ~sdr'.running <=> (\E i \in 1 .. n : Stuck(i)) \/ Stuck(n + 1)') => Explained'
  <2>1. \A i : i \in 1 .. n + 1 <=> i \in 1 .. n \/ i = n + 1
    OBVIOUS
  <2>2. (\E i \in DOMAIN executed' : Stuck(i)') <=> (\E i \in 1 .. n : Stuck(i)) \/ Stuck(n + 1)'
    BY <1>2, <1>17, <2>1
  <2> QED BY <1>2, <2>2 DEF ConsoleInv, Explained
<1>6. ASSUME NEW first \in 1 .. n, NEW freq, Frequency(executed, freq, first), ~Gives(line, "freq")
      PROVE  Frequency(executed', freq, first)
  <2>1. {j \in DOMAIN executed' : j > first /\ Gives(executed'[j], "freq")}
          = {j \in DOMAIN executed : j > first /\ Gives(executed[j], "freq")}
    <3>1. \A j \in 1 .. n + 1 : j \in 1 .. n \/ j = n + 1
      OBVIOUS
    <3>2. \A j \in 1 .. n : j \in 1 .. n + 1
      OBVIOUS
    <3> QED BY <1>2, <1>6, <3>1, <3>2
  <2> QED BY <1>2, <1>6, <2>1 DEF Frequency
<1>7. ASSUME NEW first \in 1 .. n, NEW freq, freq = Tuned(words[2].n), Gives(line, "freq")
      PROVE  Frequency(executed', freq, first)
  <2>1. n + 1 > first /\ n + 1 \in 1 .. n + 1 /\ \A j \in 1 .. n + 1 : j <= n + 1
    OBVIOUS
  <2> QED BY <1>2, <1>3, <1>7, <2>1 DEF Frequency
<1>8. ASSUME NEW freq, freq = Tuned(StartFreq) PROVE Frequency(executed', freq, n + 1)
  <2>1. \A j \in 1 .. n + 1 : ~(j > n + 1)
    OBVIOUS
  <2> QED BY <1>2, <1>8, <2>1 DEF Frequency
<1>9. /\ sdr.open <=> Since # {}
      /\ \A first \in Since : (\A i \in Since : first <= i) => Frequency(executed, sdr.freq, first)
  BY DEF ConsoleInv, TuningKept, Frequency
<1>10. /\ sdr'.open <=> Since' # {}
       /\ \A first \in Since' : (\A i \in Since' : first <= i) => Frequency(executed', sdr'.freq, first)
       => TuningKept'
  BY DEF TuningKept, Frequency
\* The gain of a line more.
<1>11. GainInRange /\ sdr'.gain = sdr.gain => GainInRange'
  <2>1. \A i \in 1 .. n : i \in 1 .. n + 1
    OBVIOUS
  <2> QED BY <1>2, <2>1 DEF GainInRange
<1>12. ASSUME Gives(line, "gain"), sdr'.gain = words[2].n, ~OutOfRange(words[2]) PROVE GainInRange'
  <2>1. CASE words[2].kind = "nan"
    <3>1. n + 1 \in 1 .. n + 1
      OBVIOUS
    <3> QED BY <1>2, <1>3, <1>12, <2>1, <3>1 DEF GainInRange
  <2>2. CASE words[2].kind = "number"
    <3>1. words[2].n \in Int
      BY <1>3, <1>12, <2>2, LinesAssumption DEF Gives, Sets
    <3>2. words[2].n \in 0 .. 10
      BY <1>12, <2>2, <3>1 DEF OutOfRange
    <3> QED BY <1>12, <3>2 DEF GainInRange
  <2> QED BY <1>3, <1>12, <2>1, <2>2 DEF Gives, Sets, Numeric
<1>13. Library(sdr) /\ GainInRange
  BY DEF ConsoleInv
<1> SUFFICES Library(sdr') /\ Explained' /\ TuningKept' /\ GainInRange'
  BY <1>2, <1>3 DEF ConsoleInv
\* A line that leaves the library as it is, and opens or stops nothing.
<1>21. ASSUME sdr'.open = sdr.open, sdr'.running = sdr.running, sdr'.freq = sdr.freq,
              ~Opens(line), ~Is(line, "stop"), ~Gives(line, "freq")
       PROVE  Explained' /\ TuningKept'
  <2>1. Since' = Since /\ ~Stuck(n + 1)'
    BY <1>5, <1>17, <1>21
  <2>2. ASSUME NEW first \in Since, \A i \in Since : first <= i
        PROVE  Frequency(executed', sdr'.freq, first)
    <3>1. first \in 1 .. n /\ Frequency(executed, sdr.freq, first)
      BY <1>5, <1>9, <2>2
    <3> QED BY <1>6, <1>21, <3>1
  <2>3. TuningKept'
    BY <1>9, <1>10, <1>21, <2>1, <2>2
  <2>4. Explained'
    BY <1>20, <1>21, <2>1
  <2> QED BY <2>3, <2>4
\* The cases of parseAndExecute.
<1>14. CASE words = <<>>
  <2>1. sdr' = sdr
    BY <1>3, <1>14 DEF Execute
  <2>2. ~Opens(line) /\ ~Is(line, "stop") /\ ~Gives(line, "freq")
    BY <1>3, <1>14 DEF Opens, Is, Gives
  <2> QED BY <1>11, <1>13, <1>21, <2>1, <2>2
<1>15. CASE words # <<>>
  <2>1. PICK cmd : cmd = words[1].cmd
    OBVIOUS
  <2>2. sdr' = Command(sdr, words, outcome)
    BY <1>3, <1>15 DEF Execute
  <2>4. \A c : Is(line, c) <=> c = cmd
    BY <1>3, <1>15, <2>1 DEF Is
  <2>5. (\A c : Gives(line, c) <=> c = cmd /\ Sets(words)) /\ (Opens(line) <=> cmd = "start" /\ outcome # "refused")
    BY <1>3, <2>4 DEF Gives, Opens
  <2>6. Does(sdr, sdr', cmd, words, outcome) /\ Shaped(sdr') /\ Shaped(sdr)
    <3>1. Shaped(sdr)
      BY <1>13 DEF Library
    <3>2. Does(sdr, sdr', cmd, words, outcome)
      BY <2>1, <2>2, <3>1, Effect
    <3> QED BY <3>1, <3>2 DEF Does
  <2>7. CASE cmd = "stop" /\ sdr.running
    <3>1. sdr'.open = FALSE /\ sdr'.running = FALSE /\ sdr'.gain = sdr.gain
      BY <2>6, <2>7 DEF Does
    <3>2. \A i \in 1 .. n : ~Stuck(i)
      BY <1>20, <2>7
    <3>3. Since' = {} /\ ~Stuck(n + 1)'
      BY <1>5, <1>17, <2>4, <2>5, <2>7, <3>2
    <3>4. TuningKept' /\ Explained'
      BY <1>10, <1>20, <3>1, <3>2, <3>3
    <3> QED BY <1>11, <1>13, <2>6, <3>1, <3>4 DEF Library
  <2>13. CASE cmd = "stop" /\ ~sdr.running
    <3>1. sdr' = sdr
      BY <2>6, <2>13 DEF Does
    <3>2. Since' = {i \in Since : Stuck(i)} /\ ~Stuck(n + 1)' /\ ~Gives(line, "freq")
      BY <1>5, <1>17, <2>4, <2>5, <2>13
    <3>3. sdr.open => \E u \in 1 .. n : Stuck(u) /\ u \in Since'
      BY <1>19, <1>20, <2>13, <3>2
    <3>4. ASSUME NEW first \in Since', \A i \in Since' : first <= i
          PROVE  Frequency(executed', sdr'.freq, first)
      <4>1. first \in Since /\ Stuck(first) /\ first \in 1 .. n
        BY <1>5, <3>2, <3>4
      <4>2. \A i \in Since : first <= i
        BY <1>19, <3>2, <3>4, <4>1
      <4>3. Frequency(executed, sdr.freq, first)
        BY <1>9, <4>1, <4>2
      <4> QED BY <1>6, <3>1, <3>2, <4>1, <4>3
    <3>5. sdr'.open <=> Since' # {}
      BY <1>9, <3>1, <3>2, <3>3
    <3>6. TuningKept' /\ Explained'
      BY <1>10, <1>20, <3>1, <3>2, <3>4, <3>5
    <3> QED BY <1>11, <1>13, <3>1, <3>6
  <2>8. CASE cmd = "start" /\ (sdr.running \/ sdr.open) /\ outcome # "refused"
    <3>1. /\ ~Gives(line, "freq") /\ ~Is(line, "stop") /\ sdr' = sdr /\ Opens(line) /\ sdr.open
          /\ Since' = Since \cup {n + 1} /\ Since # {}
      BY <1>5, <1>9, <1>13, <2>4, <2>5, <2>6, <2>8 DEF Does, Library
    <3>3. ASSUME NEW first \in Since', \A i \in Since' : first <= i
          PROVE  Frequency(executed', sdr'.freq, first)
      <4>1. \A i \in Since : i < n + 1 /\ ~ (n + 1 <= i)
        BY <1>5
      <4>2. first \in Since
        BY <3>1, <3>3, <4>1
      <4>3. first \in 1 .. n /\ Frequency(executed, sdr.freq, first)
        BY <1>5, <1>9, <3>1, <3>3, <4>2
      <4> QED BY <1>6, <3>1, <4>3
    <3>4. TuningKept'
      BY <1>10, <3>1, <3>3
    <3>5. Explained'
      BY <1>19, <1>20, <3>1
    <3> QED BY <1>11, <1>13, <3>1, <3>4, <3>5
  <2>14. CASE cmd = "start" /\ outcome = "refused"
    <3>1. sdr' = sdr /\ ~Opens(line) /\ ~Is(line, "stop") /\ ~Gives(line, "freq")
      BY <2>4, <2>5, <2>6, <2>14 DEF Does
    <3> QED BY <1>11, <1>13, <1>21, <3>1
  <2>9. CASE cmd = "start" /\ ~(sdr.running \/ sdr.open \/ outcome = "refused")
    <3>1. /\ sdr'.open = TRUE /\ sdr'.running = (outcome = "started") /\ sdr'.gain = 10
          /\ sdr'.freq = Tuned(StartFreq)
      BY <2>6, <2>9 DEF Does
    <3>2. Opens(line) /\ Since = {} /\ Since' = {n + 1} /\ \A i \in 1 .. n : ~Stuck(i)
      BY <1>5, <1>9, <1>20, <2>5, <2>9
    <3>3. Frequency(executed', sdr'.freq, n + 1)
      BY <1>8, <3>1
    <3>4. GainInRange'
      BY <3>1 DEF GainInRange
    <3>5. Stuck(n + 1)' <=> outcome = "threadless"
      BY <1>17, <1>19, <3>2
    <3>6. outcome = "threadless" <=> outcome # "started"
      BY <2>9 DEF Outcomes
    <3>7. Explained'
      BY <1>20, <3>1, <3>2, <3>5, <3>6
    <3>8. Library(sdr')
      BY <2>6, <3>1 DEF Library
    <3> QED BY <1>10, <3>1, <3>2, <3>3, <3>4, <3>7, <3>8
  <2>10. CASE cmd = "freq" /\ Sets(words)
    <3>1. /\ Since' = Since /\ ~Stuck(n + 1)' /\ Gives(line, "freq") /\ sdr'.gain = sdr.gain
          /\ sdr'.open = sdr.open /\ sdr'.running = sdr.running
      BY <1>5, <1>17, <2>4, <2>5, <2>6, <2>10 DEF Does
    <3>2. ASSUME NEW first \in Since PROVE Frequency(executed', sdr'.freq, first)
      <4>1. first \in 1 .. n /\ sdr'.freq = Tuned(words[2].n)
        BY <1>5, <1>9, <2>6, <2>10 DEF Does
      <4> QED BY <1>7, <3>1, <4>1
    <3>3. TuningKept'
      BY <1>9, <1>10, <3>1, <3>2
    <3>4. Explained'
      BY <1>20, <3>1
    <3> QED BY <1>11, <1>13, <2>6, <3>1, <3>3, <3>4 DEF Library
  <2>11. CASE /\ cmd # "start" /\ cmd # "stop" /\ ~Gives(line, "freq")
              /\ sdr'.open = sdr.open /\ sdr'.running = sdr.running /\ sdr'.freq = sdr.freq
    <3>3. TuningKept' /\ Explained'
      BY <1>21, <2>4, <2>5, <2>11
    <3>4. Library(sdr')
      BY <1>13, <2>6, <2>11 DEF Library
    <3>5. CASE cmd = "gain" /\ Sets(words) /\ sdr'.gain # sdr.gain
      <4>1. Gives(line, "gain") /\ sdr'.gain = words[2].n /\ ~OutOfRange(words[2])
        BY <2>5, <2>6, <3>5 DEF Does
      <4> QED BY <1>12, <3>3, <3>4, <4>1
    <3>6. CASE sdr'.gain = sdr.gain
      BY <1>11, <1>13, <3>3, <3>4, <3>6
    <3>7. sdr'.gain = sdr.gain \/ (cmd = "gain" /\ Sets(words))
      BY <2>6, <2>11, <2>5 DEF Does
    <3> QED BY <3>5, <3>6, <3>7
  <2>12. \/ cmd = "stop" \/ cmd = "start" \/ (cmd = "freq" /\ Sets(words))
         \/ /\ cmd # "start" /\ cmd # "stop" /\ ~Gives(line, "freq")
            /\ sdr'.open = sdr.open /\ sdr'.running = sdr.running /\ sdr'.freq = sdr.freq
    BY <2>5, <2>6 DEF Does
  <2> QED BY <2>7, <2>8, <2>9, <2>10, <2>11, <2>12, <2>13, <2>14
<1> QED BY <1>14, <1>15

\* Each turn of cmdloop is such a line.
LEMMA ConsoleStep == ConsoleInv /\ [ConsoleNext]_consoleVars => ConsoleInv'
<1> SUFFICES ASSUME ConsoleInv, [ConsoleNext]_consoleVars PROVE ConsoleInv'
  OBVIOUS
<1>1. CASE ReadLine
  BY <1>1, TurnKeepsSettings DEF ReadLine, Ends, Outcomes
<1>2. CASE EndOfInput
  <2>1. inbuf \in Lines
    BY DEF ConsoleInv
  <2> QED BY <1>2, <2>1, TurnKeepsSettings DEF EndOfInput, Ends, Outcomes
<1>3. CASE UNCHANGED consoleVars
  BY <1>3 DEF ConsoleInv, consoleVars, TuningKept, GainInRange, Since, Stuck, StopsAfter, Explained, Library, Shaped
<1> QED BY <1>1, <1>2, <1>3 DEF ConsoleNext

\* The invariant holds for any lines.
LEMMA AlwaysConsole == ConsoleSpec => []ConsoleInv
BY ConsoleInitial, ConsoleStep, PTL DEF ConsoleSpec

\* However many lines cmdloop executes, a device that was started keeps the
\* frequency it was given last, and only a stop with a start after it brings
\* back the one of sdrStart; and parseAndExecute lets no number out of 0 .. 1
\* through to the gain.
THEOREM ConsoleKeeps == ConsoleSpec => []SettingsKept
<1>1. ConsoleInv => SettingsKept
  BY DEF ConsoleInv, SettingsKept
<1> QED BY <1>1, AlwaysConsole, PTL
=============================================================================
