------------------------------ MODULE Receiver ------------------------------
(***************************************************************************)
(* From a block of the DDC to the codec's pages: the callbacks of          *)
(* sdrReaderThread (src/sdrlib.c), the demodulators (demod.c), the         *)
(* resampler's loads, and codecEncode (codec.c), while clients call        *)
(* sdrlib's setters without a lock.                                        *)
(*                                                                         *)
(* A block that leaves the DDC fills one demodulator buffer: DDC_BUFSIZE   *)
(* and DEMOD_BUFSIZE are both 16384.  Samples count in units.  The         *)
(* resampler hands on one block at the ratio of creation, "one", and       *)
(* WideBlocks at the ratio of any tuning, "wide": sdrSetDdcFreqs keeps the *)
(* passband it finds, so the rate after the DDC is always 10000 (their     *)
(* arithmetic is in Resampling.tla).  audioPlay is one write of the audio  *)
(* ring, which never waits (RingBuffer.tla), and leaves nothing here.      *)
(***************************************************************************)
EXTENDS Integers, Sequences

CONSTANTS Clients,      \* threads that call the setters
          Vfos, FirstVfo,
          Modes,        \* demodulators the clients select
          WideBlocks,
          BlockUnits,   \* DDC_BUFSIZE and RESAMPLER_BUFSIZE
          DemodUnits,   \* DEMOD_BUFSIZE
          FrameUnits,   \* FRAME_SIZE
          Unset,        \* what malloc may leave in a bufPtr
          PagePackets,  \* packets between two headers (16)
          Numbers       \* bound: samples are numbered modulo Numbers

Outside  == -1                                  \* a bufPtr not into its buffer
Pointers == {Outside} \cup 0 .. DemodUnits - 1

ASSUME UnitsAssumption == /\ {BlockUnits, FrameUnits, PagePackets, WideBlocks} \subseteq Nat \ {0}
                          /\ DemodUnits = BlockUnits
                          /\ Numbers \in Nat /\ Numbers > FrameUnits
ASSUME ChoicesAssumption == /\ {"NULL", "FM"} \subseteq Modes /\ FirstVfo \in Vfos
                            /\ Unset \subseteq Pointers

VARIABLES demod, vfo, mixer, up, ratio,     \* sdr, ddc, resampler: settings
          pc, fn, obj, rt, left,            \* the reader: control and locals
          bufPtr,                           \* of each demodulator
          next,                             \* number of the next sample out
          codec,                            \* Codec: inbuf, packetCount, os; and sent:
                                            \* the pages of the last block
          cpc, cv,                          \* the setter each client is in
          asked, overlapped                 \* history: the vfo last set, whether setters
                                            \* ever overlapped

settings == <<demod, vfo, mixer, up, ratio>>
calls    == <<fn, obj, rt>>
reader   == <<pc, calls, left, bufPtr, next, codec>>
clients  == <<cpc, cv>>
history  == <<asked, overlapped>>
vars == <<settings, reader, clients, history>>

Header == <<"OpusHead", "OpusTags">>                          \* sendHeader

\* demodNullCreate does not set bufPtr.
Init == /\ demod = "FM" /\ vfo = FirstVfo /\ mixer = FirstVfo
        /\ up = FALSE /\ ratio = "one"
        /\ pc = "read" /\ fn = "FM" /\ obj = "FM" /\ rt = "one" /\ left = 0 /\ next = 0
        /\ \E unset \in Unset : bufPtr = [[m \in Modes |-> 0] EXCEPT !["NULL"] = unset]
        /\ codec = [inbuf |-> <<>>, packets |-> 0, os |-> Header, sent |-> <<>>]
        /\ cpc = [c \in Clients |-> "idle"] /\ cv = [c \in Clients |-> FirstVfo]
        /\ asked = FirstVfo /\ overlapped = FALSE
-----------------------------------------------------------------------------
\* The reader.  ddcOutput, when the DDC has a block, evaluates sdr->demod
\* twice; the build may load it once.
LoadUpdate == /\ pc = "read"
              /\ fn' = demod /\ obj' = demod /\ codec' = [codec EXCEPT !.sent = <<>>]
              /\ pc' \in {"self", "demodulate"}
              /\ UNCHANGED <<settings, rt, left, bufPtr, next, clients, history>>

LoadSelf == /\ pc = "self"
            /\ obj' = demod
            /\ pc' = "demodulate"
            /\ UNCHANGED <<settings, fn, rt, left, bufPtr, next, codec, clients, history>>

Return == fn' = "FM" /\ obj' = "FM" /\ rt' = "one"     \* the locals of a call end with it

\* nullDemodulate drops the block.
DemodulateNull == /\ pc = "demodulate" /\ fn = "NULL"
                  /\ pc' = "read" /\ Return
                  /\ UNCHANGED <<settings, left, bufPtr, next, codec, clients, history>>

\* The others fill the buffer of obj, which may be another's than fn's; when
\* it is full resamplerUpdate gets it and loads ratio first.
DemodulateUnsaved ==                        \* a mutant: bufPtr not set back to 0
              /\ pc = "demodulate" /\ fn # "NULL"
              /\ bufPtr' = [bufPtr EXCEPT ![obj] = 1]
              /\ pc' = "resample" /\ rt' = ratio
              /\ UNCHANGED <<settings, fn, obj, left, next, codec, clients, history>>

DemodulateLate ==                           \* a mutant: > where the code has >=
              /\ pc = "demodulate" /\ fn # "NULL"
              /\ pc' = "read" /\ rt' = ratio
              /\ UNCHANGED <<settings, fn, obj, left, bufPtr, next, codec, clients, history>>

Demodulate == /\ pc = "demodulate" /\ fn # "NULL" /\ bufPtr[obj] # Outside
              /\ LET n == bufPtr[obj] + BlockUnits
                 IN  /\ bufPtr' = [bufPtr EXCEPT ![obj] = n % DemodUnits]
                     /\ pc' = IF n >= DemodUnits THEN "resample" ELSE "read"
              /\ rt' = ratio
              /\ UNCHANGED <<settings, fn, obj, left, next, codec, clients, history>>

\* With NULL's pointer outside the buffer: beyond it, the first sample is
\* stored there and the buffer handed on as it is; before it, the whole block
\* is stored there; or a store ends the process.  What else it may damage is
\* not followed.
DemodulateOutside ==
              /\ pc = "demodulate" /\ fn # "NULL" /\ bufPtr[obj] = Outside
              /\ \/ /\ bufPtr' = [bufPtr EXCEPT ![obj] = DemodUnits - 1]
                    /\ pc' = "resample" /\ rt' = ratio /\ UNCHANGED <<fn, obj>>
                 \/ /\ \E p \in Unset : bufPtr' = [bufPtr EXCEPT ![obj] = p]
                    /\ pc' = "read" /\ Return
                 \/ /\ pc' = "lost" /\ Return
                    /\ UNCHANGED bufPtr
              /\ UNCHANGED <<settings, left, next, codec, clients, history>>

\* resamplerUpdate tests updown after it loaded ratio.
Resample == /\ pc = "resample"
            /\ left' = IF up /\ rt = "wide" THEN WideBlocks ELSE 1
            /\ pc' = "output" /\ Return
            /\ UNCHANGED <<settings, bufPtr, next, codec, clients, history>>

\* codecEncode, one unit: keep it, complete a frame and put its packet into
\* the stream, or, with the last packet of a page, end the stream, flush it
\* to codecFunc and begin the next.
EncodeNoHeader(c, n) ==                     \* a mutant: sendHeader is left out
  LET frame == Append(c.inbuf, n)
  IN  IF Len(frame) < FrameUnits THEN [c EXCEPT !.inbuf = frame]
      ELSE IF c.packets + 1 < PagePackets
      THEN [c EXCEPT !.inbuf = <<>>, !.packets = @ + 1, !.os = Append(@, frame)]
      ELSE [inbuf |-> <<>>, packets |-> 0, os |-> <<>>,
            sent |-> Append(c.sent, c.os \o <<frame, "end">>)]

Encode(c, n) ==
  LET frame == Append(c.inbuf, n)
  IN  IF Len(frame) < FrameUnits THEN [c EXCEPT !.inbuf = frame]
      ELSE IF c.packets + 1 < PagePackets
      THEN [c EXCEPT !.inbuf = <<>>, !.packets = @ + 1, !.os = Append(@, frame)]
      ELSE [inbuf |-> <<>>, packets |-> 0, os |-> Header,
            sent |-> Append(c.sent, c.os \o <<frame, "end">>)]

\* resamplerOutput: a block for codecEncode, which shares nothing with the
\* clients and so is one step.
Output == /\ pc = "output" /\ left > 0
          /\ LET encoded[i \in 0 .. BlockUnits] ==
                   IF i = 0 THEN [codec EXCEPT !.sent = <<>>]
                   ELSE Encode(encoded[i - 1], (next + i - 1) % Numbers)
             IN  codec' = encoded[BlockUnits]
          /\ next' = (next + BlockUnits) % Numbers
          /\ left' = left - 1
          /\ pc' = IF left = 1 THEN "read" ELSE "output"
          /\ UNCHANGED <<settings, calls, bufPtr, clients, history>>
-----------------------------------------------------------------------------
\* The setters, one store at a time; coefficients and rates are stored with
\* the field that follows them.

Busy == {c \in Clients : cpc[c] # "idle"}
Enter(c, v) == /\ cpc[c] = "idle"
               /\ cpc' = [cpc EXCEPT ![c] = "vfo"] /\ cv' = [cv EXCEPT ![c] = v]
               /\ overlapped' = (overlapped \/ Busy # {})
               /\ UNCHANGED <<settings, reader>>

\* sdrSetVfo, and sdrSetDdcFreqs, whose passband arguments go unused.
SetVfo(c, v) == Enter(c, v) /\ asked' = v

SetPbZero(c) == Enter(c, FirstVfo) /\ UNCHANGED asked     \* a mutant: the vfo is lost

\* sdrSetPbLo and sdrSetPbHi set again the vfo they read.
SetPb(c) == Enter(c, vfo) /\ UNCHANGED asked

Store(c, at, then) == /\ cpc[c] = at /\ cpc' = [cpc EXCEPT ![c] = then]
                      /\ UNCHANGED <<demod, reader, history>>

\* ddcSetFreqs: vfo, then what mixes with it; resamplerSetInRate: updown, ratio.
StoreVfo(c)   == Store(c, "vfo", "mixer") /\ vfo' = cv[c] /\ UNCHANGED <<mixer, up, ratio, cv>>
StoreMixer(c) == /\ Store(c, "mixer", "up") /\ mixer' = cv[c] /\ cv' = [cv EXCEPT ![c] = FirstVfo]
                 /\ UNCHANGED <<vfo, up, ratio>>

StoreUpStale(c) == Store(c, "up", "ratio") /\ UNCHANGED <<vfo, mixer, up, ratio, cv>> \* a mutant

StoreUp(c)    == Store(c, "up", "ratio") /\ up' = TRUE /\ UNCHANGED <<vfo, mixer, ratio, cv>>
StoreRatio(c) == Store(c, "ratio", "idle") /\ ratio' = "wide" /\ UNCHANGED <<vfo, mixer, up, cv>>

SetMode(c, m) == /\ cpc[c] = "idle"
                 /\ demod' = m
                 /\ UNCHANGED <<vfo, mixer, up, ratio, reader, clients, history>>
-----------------------------------------------------------------------------
Reader == \/ LoadUpdate \/ LoadSelf \/ DemodulateNull \/ Demodulate \/ DemodulateOutside
          \/ Resample \/ Output
Setter(c) == \/ \E v \in Vfos : SetVfo(c, v)
             \/ SetPb(c) \/ StoreVfo(c) \/ StoreMixer(c) \/ StoreUp(c) \/ StoreRatio(c)
             \/ \E m \in Modes : SetMode(c, m)
Next == pc # "lost" /\ (Reader \/ \E c \in Clients : Setter(c))

Spec == Init /\ [][Next]_vars

\* The device delivers, so that the reader goes on; no client need call.
LiveSpec == Spec /\ WF_vars(Reader)
-----------------------------------------------------------------------------
TypeOK == /\ demod \in Modes /\ fn \in Modes /\ obj \in Modes
          /\ vfo \in Vfos /\ mixer \in Vfos /\ asked \in Vfos /\ overlapped \in BOOLEAN
          /\ up \in BOOLEAN /\ ratio \in {"one", "wide"} /\ rt \in {"one", "wide"}
          /\ pc \in {"read", "self", "demodulate", "resample", "output", "lost"}
          /\ cpc \in [Clients -> {"idle", "vfo", "mixer", "up", "ratio"}]
          /\ cv \in [Clients -> Vfos] /\ bufPtr \in [Modes -> Pointers]

\* The reader never narrows with the ratio of a widening, although ratio and
\* updown are two fields and no lock joins them: a setter stores updown before
\* ratio, an update loads ratio before updown.
NeverTorn == rt = "wide" \/ ratio = "wide" => up
RatioAfterUp == \A c \in Clients : cpc[c] = "ratio" => up

\* A block goes through one demodulator only: also when the mode changes
\* between the two loads of sdr->demod, no buffer keeps samples of an earlier
\* mode, those of a demodulator that is created with an empty buffer.  NULL's
\* is not: what is handed on from it, when the second load finds NULL, may be
\* samples of any earlier block, or none at all.
OneModePerBlock == \A m \in Modes \ {"NULL"} : bufPtr[m] = 0

\* The tuning the clients read is the one mixed with, and the one last asked
\* for, unless two setters overlapped: sdrSetPbLo and sdrSetPbHi write back
\* the vfo they read, and vfo and vfoFreq are stored apart.
TunedAsAsked == ~overlapped /\ Busy = {} => vfo = asked /\ mixer = vfo
\* Why: a setter that nobody overlaps carries the vfo last asked for.
AloneCarries ==
  ~overlapped => /\ \A c, d \in Busy : c = d
                 /\ \A c \in Busy : /\ cpc[c] \in {"vfo", "mixer"} => cv[c] = asked
                                    /\ cpc[c] # "vfo" => vfo = asked
                                    /\ cpc[c] \in {"up", "ratio"} => mixer = asked
SettersInv == TypeOK /\ NeverTorn /\ RatioAfterUp /\ OneModePerBlock /\ TunedAsAsked /\ AloneCarries

\* What codecFunc gets is a whole stream: its two headers, PagePackets packets
\* and the end, and the samples of its frames in one unbroken sequence, also
\* where a block ends in the middle of a frame.
Sequence(frame, first) == \A k \in 1 .. Len(frame) : frame[k] = (first + k - 1) % Numbers
Frames(p, many, first) == \A j \in 1 .. many : /\ Len(p[j + 2]) = FrameUnits
                                               /\ Sequence(p[j + 2], first + (j - 1) * FrameUnits)
Headed(p) == p[1] = Header[1] /\ p[2] = Header[2]
Whole(p)  == /\ Len(p) = PagePackets + 3 /\ Headed(p) /\ p[Len(p)] = "end"
             /\ Frames(p, PagePackets, p[3][1])
PageWhole == \A i \in DOMAIN codec.sent : Whole(codec.sent[i])

\* Why: the codec is always within a page that is whole so far, and the sample
\* it gets next, n, goes on where the frame in inbuf stops.
InStep(c, n) ==
  \E first \in 0 .. Numbers - 1 :
    /\ Len(c.os) = c.packets + 2 /\ Headed(c.os) /\ Frames(c.os, c.packets, first)
    /\ Sequence(c.inbuf, first + c.packets * FrameUnits)
    /\ n = (first + c.packets * FrameUnits + Len(c.inbuf)) % Numbers
Unfilled(c) == c.packets \in 0 .. PagePackets - 1 /\ Len(c.inbuf) < FrameUnits
PagesInv == next \in 0 .. Numbers - 1 /\ Unfilled(codec) /\ InStep(codec, next) /\ PageWhole

\* Pages keep coming, whatever the clients set meanwhile, once they leave the
\* mode NULL for good, unless NULL's pointer has ended the process.
PagesKeepComing == <>[](demod # "NULL") => []<>(codec.sent # <<>>) \/ <>(pc = "lost")
=============================================================================
