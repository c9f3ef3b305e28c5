------------------------------ MODULE FrontEnd ------------------------------
(***************************************************************************)
(* The Qt window: Sdr (src/qt/sdr.h, sdr.cpp), its frequency dial          *)
(* (freqdial.h, Dial.tla) and its waterfall (waterfall.h), over the        *)
(* library. Every action is one event of the GUI thread, with the signals  *)
(* it emits and the slots they run.                                        *)
(*                                                                         *)
(* Frequencies are integers: rounding in float is left out. Painting is    *)
(* left out, the legend's ticks too.                                       *)
(***************************************************************************)
EXTENDS Controls, Dial

CONSTANTS Width,                   \* of the waterfall, in pixels
          Xs,                      \* where the mouse goes
          Near, Reach, Half,       \* the 10, 25 and 5 pixels of getTuneMode
          MaxZoom, Shift,          \* 10; Shift[level] is 1 << level
          EdgeNum, EdgeDen,        \* 0.45
          WaterfallPb,             \* 50000
          Offsets,                 \* values of the offset box
          Unset,                   \* what the memory of vfoFreq may hold at first
          Bound                    \* bound: of the frequencies a drag reaches

ASSUME ScreenAssumption == /\ {Width, EdgeDen, WaterfallPb} \subseteq Nat \ {0}
                           /\ {EdgeNum, MaxZoom} \subseteq Nat
                           /\ {Xs, Offsets, Unset} \subseteq SUBSET Int /\ Bound \in Nat
                           /\ Shift \in [0 .. MaxZoom -> Nat \ {0}]

VARIABLES lib,                     \* Sdr.sdr, as a record of Controls
          window,                  \* "open" or "closed"
          button,                  \* whether startStopBtn is checked
          offset, vfoFreq,         \* of Sdr
          display,                 \* the number in vfoDisplay, {} while it has none
          digits,                  \* FreqDial
          vfo, pbLo, pbHi,         \* Waterfall
          zoom, scale,             \* zoomLevel; zoomScale is 1 / scale
          hover, tune, down,       \* the mouse: hoverMode, tuneMode, mouseDown...
          dialled, dragged, heard  \* history: the dial set the device last;
                                   \* the vfo was dragged since the last adjust();
                                   \* vfoFreq has been set

mouse == <<hover, tune, down>>
said == <<vfoFreq, display, heard>>               \* what setDdcFreqs sets
vars == <<lib, window, button, offset, said, digits, vfo, pbLo, pbHi, zoom, scale, mouse,
          dialled, dragged>>

TuneModes == {"NONE", "LO", "VFO", "HI", "LEGEND"}
Up == [x |-> 0, value |-> 0]                      \* mouseDown... while they are dead
-----------------------------------------------------------------------------
\* Waterfall::adjust keeps the vfo within 0.45 of the width in view, whose
\* rate is 0 while no device is open.

Edge(l, s) == (SampleRate(l) * EdgeNum) \div (EdgeDen * s)
Clamped(v, l, s) == IF v < -Edge(l, s) THEN -Edge(l, s) ELSE IF v > Edge(l, s) THEN Edge(l, s) ELSE v

\* showVfoFreq; the device's own frequency in actualCfDisplay is left out.
ShowVfoFreq(l, f) == {CenterFrequency(l) + offset + f}

\* setVfoFreq, setPbLo and setPbHi emit frequenciesChanged, which runs
\* setDdcFreqs.
Emit(l, v, lo, hi) == /\ lib' = SetDdcFreqs(l, v, lo, hi)
                      /\ vfoFreq' = v /\ heard' = TRUE /\ display' = ShowVfoFreq(l, v)

\* With text in the display.
Adjust(l, s, text) ==
  /\ vfo' = Clamped(vfo, l, s)
  /\ IF vfo' # vfo THEN Emit(l, vfo', pbLo, pbHi)
     ELSE lib' = l /\ display' = text /\ UNCHANGED <<vfoFreq, heard>>
  /\ dragged' = FALSE /\ UNCHANGED <<pbLo, pbHi>>

\* Sdr::setCenterFrequency.
Retune(l) == Adjust(l, scale, ShowVfoFreq(l, vfoFreq)) /\ dialled' = lib.open

CenterUnoffset(f) ==                    \* a mutant: freqOffset is forgotten
  Retune(SetCenterFrequency(lib, f)) /\ digits' = SetFrequency(f)

Center(f) == Retune(SetCenterFrequency(lib, f - offset)) /\ digits' = SetFrequency(f)
-----------------------------------------------------------------------------
\* Sdr(); nothing is open, so that setting the device's frequency does nothing,
\* and nothing sets vfoFreq.
Init == /\ lib = NewLib /\ window = "open" /\ button = FALSE
        /\ offset = 0 /\ vfoFreq \in Unset /\ display = {} /\ heard = FALSE
        /\ digits = SetFrequency(StartFreq)
        /\ vfo = 0 /\ pbLo = -WaterfallPb /\ pbHi = WaterfallPb
        /\ zoom = 1 /\ scale = 1
        /\ hover = "NONE" /\ tune = "NONE" /\ down = Up
        /\ dialled = FALSE /\ dragged = FALSE

StartStopUnadjusted ==                  \* a mutant: adjust() is left out
  /\ window = "open" /\ button' = ~button
  /\ \E outcome \in Outcomes : lib' = IF button' THEN SdrStart(lib, outcome) ELSE SdrStop(lib)
  /\ dialled' = FALSE
  /\ UNCHANGED <<window, offset, said, digits, vfo, pbLo, pbHi, zoom, scale, mouse, dragged>>

\* startStop; the button stays checked also when nothing started.
StartStop ==
  /\ window = "open" /\ button' = ~button
  /\ \E outcome \in Outcomes :
       Adjust(IF button' THEN SdrStart(lib, outcome) ELSE SdrStop(lib), scale, display)
  /\ dialled' = FALSE
  /\ UNCHANGED <<window, offset, digits, zoom, scale, mouse>>

\* A click or a turn of the wheel on the dial: frequencyChanged runs
\* setCenterFrequency, also where there is no digit to turn.
DialClick(pos, up) ==
  /\ window = "open"
  /\ Center(GetFrequency(IF up THEN DigitIncr(digits, pos) ELSE DigitDecr(digits, pos)))
  /\ UNCHANGED <<window, button, offset, zoom, scale, mouse>>

\* adjustFreqOffset tunes nothing and turns no digit.
SetOffset(o) ==
  /\ window = "open" /\ o # offset /\ offset' = o /\ dialled' = FALSE
  /\ UNCHANGED <<lib, window, button, said, digits, vfo, pbLo, pbHi, zoom, scale, mouse, dragged>>

\* setZoomLevel, from the slider and, one up or down, from the keys.
Levels == (0 .. MaxZoom) \cup {zoom - 1, zoom + 1}

Zoom(level) ==
  /\ window = "open"
  /\ IF level \in 0 .. MaxZoom THEN zoom' = level /\ scale' = Shift[level] ELSE UNCHANGED <<zoom, scale>>
  /\ Adjust(lib, scale', display)
  /\ UNCHANGED <<window, button, offset, digits, mouse, dialled>>
-----------------------------------------------------------------------------
\* The mouse over the waterfall.

Trunc(a, b) == IF a < 0 THEN -((-a) \div b) ELSE a \div b
FreqToX(f) == Trunc(2 * f * scale * Width + Rate * Width, 2 * Rate)
AtMost(a, b) == IF a < b THEN a ELSE b

\* getTuneMode.  With no rate freqToX divides by 0, and the mode is any.
Picks(x, legend) ==
  IF legend THEN {"LEGEND"}
  ELSE IF ~lib.open THEN TuneModes \ {"LEGEND"}
  ELSE LET vfoX == FreqToX(vfo)
           loX  == AtMost(FreqToX(pbLo), -Near) + vfoX
           hiX  == AtMost(FreqToX(vfo + pbHi), Near) + vfoX
       IN  {IF x >= loX - Reach /\ x <= loX THEN "LO"
            ELSE IF x >= hiX /\ x <= hiX + Reach THEN "HI"
            ELSE IF x >= vfoX - Half /\ x <= vfoX + Half THEN "VFO" ELSE "NONE"}

Hover(x, legend) ==
  /\ window = "open" /\ tune = "NONE"
  /\ hover' \in Picks(x, legend)
  /\ UNCHANGED <<lib, window, button, offset, said, digits, vfo, pbLo, pbHi, zoom, scale, tune,
                 down, dialled, dragged>>

Press(x) ==
  /\ window = "open" /\ tune = "NONE" /\ hover # "NONE"
  /\ tune' = hover
  /\ down' = [x |-> x, value |-> CASE hover = "LO" -> pbLo [] hover = "VFO" -> vfo [] hover = "HI" -> pbHi
                                   [] hover = "LEGEND" -> CenterFrequency(lib) + offset]
  /\ UNCHANGED <<lib, window, button, offset, said, digits, vfo, pbLo, pbHi, zoom, scale, hover,
                 dialled, dragged>>

Moved(x) == Trunc((x - down.x) * SampleRate(lib), Width * scale)

\* setPbLo and setPbHi refuse to cross.
DragLo(f) == IF f < pbHi THEN pbLo' = f /\ Emit(lib, vfo, f, pbHi) ELSE UNCHANGED <<pbLo, lib, said>>
DragHi(f) == IF f > pbLo THEN pbHi' = f /\ Emit(lib, vfo, pbLo, f) ELSE UNCHANGED <<pbHi, lib, said>>

DragPb(x) == /\ \/ tune = "LO" /\ DragLo(down.value + Moved(x)) /\ UNCHANGED pbHi
                \/ tune = "HI" /\ DragHi(down.value + Moved(x)) /\ UNCHANGED pbLo
             /\ UNCHANGED <<vfo, digits, dialled, dragged>>

\* setVfoFreq: drags are not clamped.
DragVfoQuiet(x) == /\ tune = "VFO" /\ vfo' = down.value + Moved(x)  \* a mutant: no signal
                   /\ dragged' = TRUE
                   /\ UNCHANGED <<lib, said, pbLo, pbHi, digits, dialled>>
DragVfo(x) == /\ tune = "VFO" /\ vfo' = down.value + Moved(x)
              /\ Emit(lib, vfo', pbLo, pbHi) /\ dragged' = TRUE
              /\ UNCHANGED <<pbLo, pbHi, digits, dialled>>

DragLegend(x) == tune = "LEGEND" /\ Center(down.value - Moved(x))

Drag(x) == /\ window = "open" /\ tune # "NONE"
           /\ DragPb(x) \/ DragVfo(x) \/ DragLegend(x)
           /\ {vfo', pbLo', pbHi'} \subseteq -Bound .. Bound
           /\ UNCHANGED <<window, button, offset, zoom, scale, mouse>>

Release == /\ window = "open" /\ tune # "NONE" /\ tune' = "NONE" /\ down' = Up
           /\ UNCHANGED <<lib, window, button, offset, said, digits, vfo, pbLo, pbHi, zoom, scale,
                          hover, dialled, dragged>>

\* closeEvent stops and deletes the library.  Nothing deletes the window, so
\* ~Sdr does not run: the model ends here.
Close == /\ window = "open" /\ tune = "NONE" /\ window' = "closed" /\ lib' = SdrStop(lib)
         /\ UNCHANGED <<button, offset, said, digits, vfo, pbLo, pbHi, zoom, scale, mouse, dialled,
                        dragged>>
-----------------------------------------------------------------------------
Next == \/ StartStop \/ Release \/ Close
        \/ \E pos \in Indexes, up \in BOOLEAN : DialClick(pos, up)
        \/ \E o \in Offsets : SetOffset(o)
        \/ \E level \in Levels : Zoom(level)
        \/ \E x \in Xs : Press(x) \/ Drag(x) \/ \E legend \in BOOLEAN : Hover(x, legend)

Spec == Init /\ [][Next]_vars
-----------------------------------------------------------------------------
TypeOK == /\ lib \in Libs /\ window \in {"open", "closed"} /\ {button, dialled, dragged, heard} \subseteq BOOLEAN
          /\ {vfo, pbLo, pbHi} \subseteq Int /\ scale \in Nat \ {0}
          /\ tune \in TuneModes /\ hover \in TuneModes

\* The tuning in the library and in the waterfall is the same, whichever of
\* drag, zoom, dial, start or stop changed it, and so is Sdr's once a drag or a
\* clamp has told it; and from then on, while the dial tuned the device last,
\* the display shows the device's frequency plus offset plus that tuning.
\* (Before the first drag or clamp, a click of the dial makes it show a sum
\* with a vfoFreq that nothing has set; and a start, a stop or another offset
\* alone do not renew it.)
VfoAgrees == /\ lib.vfo = vfo
             /\ IF heard THEN vfoFreq = vfo ELSE vfo = 0
             /\ dialled /\ heard /\ lib.open => display = ShowVfoFreq(lib, vfo)

\* Whatever the order of drags and zooms, the passband on screen never turns
\* inside out.
PassbandKept == pbLo < pbHi

\* Whatever changed the rate or the zoom, the vfo is in view until the mouse
\* drags it out.
InView == window = "open" /\ ~dragged => vfo \in -Edge(lib, scale) .. Edge(lib, scale)

\* Once the dial or the legend has tuned the running device, the dial shows
\* the device's frequency plus the offset, as long as the tuner took it.  (A
\* start and a change of the offset leave the two apart until then.)
DialShowsDevice ==
  dialled /\ lib.open /\ lib.freq # 0 /\ lib.freq + offset \in 0 .. Power[Digits] - 1
    => GetFrequency(digits) = lib.freq + offset

\* A click turns the number on the dial by the weight of the digit it hits, with
\* a carry to or a borrow from all digits above, and off the last; and it tunes
\* the device to what the dial then shows.  (From a tuning below zero, which
\* the legend can reach, the dial goes on as its digits do.)
Turned(pos, up) == (GetFrequency(digits) + (IF up THEN Power[pos] ELSE -Power[pos])) % Power[Digits]
DialTurns ==
  [][\A pos \in Positions, up \in BOOLEAN :
       DialClick(pos, up) /\ digits \in [Positions -> 0 .. Base - 1] =>
         /\ GetFrequency(digits') = Turned(pos, up)
         /\ lib.open => lib'.freq = Tuned(Turned(pos, up) - offset)]_vars

\* Why: what the dial shows was cut into its digits when the device was tuned.
DialInv == /\ offset \in Int /\ digits \in [Positions -> Int]
           /\ down.x \in Int /\ down.value \in Int
           /\ dialled /\ lib.open /\ lib.freq # 0 => digits = SetFrequency(lib.freq + offset)

\* The inductive invariant of FrontEndProofs.
WindowInv == TypeOK /\ VfoAgrees /\ PassbandKept /\ InView
=============================================================================
