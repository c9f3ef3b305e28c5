------------------------------ MODULE RtlDevice ------------------------------
(***************************************************************************)
(* The RTL driver (src/device/device-rtl.c) between librtlsdr below and    *)
(* the library above: open, close, delete and the settings are called by   *)
(* one controller, read by the reader thread while the device is open (it  *)
(* is created after open and joined before close), and asyncLoop runs in a *)
(* thread of its own, created by each open and joined by nobody.           *)
(*                                                                         *)
(* librtlsdr is external.  rtlsdr_read_async returns at once unless the    *)
(* handle is inactive, then calls back until the stream is cancelled;      *)
(* rtlsdr_cancel_async does nothing to an inactive handle; rtlsdr_close    *)
(* waits until the handle is inactive and frees it.                        *)
(*                                                                         *)
(* The ring is the Channel that RingBuffer.tla implements, but for the     *)
(* callback's conversion loop between wpeek and wadvance.                  *)
(***************************************************************************)
EXTENDS Integers, Sequences

CONSTANTS MaxOpens,   \* bound: times the device is opened
          MaxBlocks,  \* bound: blocks librtlsdr delivers
          Capacity,   \* blocks the ring holds
          Freqs,      \* frequencies asked for
          OpenFreq    \* the 93700000.0 of open

ASSUME BoundsAssumption == MaxOpens \in Nat /\ MaxBlocks \in Nat
ASSUME CapacityAssumption == Capacity \in Nat \ {0}

Loops == 1 .. MaxOpens                \* each open creates a thread and a handle

VARIABLES pc,                         \* the controller
          ctx, isOpen, dev, ring,     \* Context: live, its fields; 0 is NULL, and
                                      \* ring keeps the number of a freed one
          ringLive, chan,             \* the ring that exists, its blocks
          ringless,                   \* history: opens with no memory for a ring
          gen, held, status, freq,    \* librtlsdr: opens, the open handle, its
                                      \* stream, its frequency
          loop, filling,              \* the threads; the callback's slot
          sent, got,                  \* history: blocks delivered; latest one read
          late, misused               \* history: loops not begun at close; loops
                                      \* (or readers) that used what is not there

context == <<ctx, isOpen, dev, ring>>
memory  == <<ringLive, chan, ringless>>
usb     == <<gen, held, status, freq>>
blocks  == <<sent, got>>
vars == <<pc, context, memory, usb, loop, filling, blocks, late, misused>>

Init == /\ pc = "closed"
        /\ ctx = "live" /\ isOpen = FALSE /\ dev = 0 /\ ring = 0    \* memset
        /\ ringLive = 0 /\ chan = <<>> /\ ringless = {}
        /\ gen = 0 /\ held = 0 /\ status = "inactive" /\ freq = OpenFreq
        /\ loop = [t \in Loops |-> "none"] /\ filling = FALSE
        /\ sent = 0 /\ got = 0 /\ late = {} /\ misused = {}

At(a, b) == pc = a /\ pc' = b
-----------------------------------------------------------------------------
\* open, which refuses a device it believes open, and one librtlsdr cannot.

OpenRefused == /\ At("closed", "closed")
               /\ isOpen \/ held # 0
               /\ UNCHANGED <<context, memory, usb, loop, filling, blocks, late, misused>>

\* The result of setCenterFrequency is not looked at.
OpenHandle == /\ At("closed", "opening")
              /\ ~isOpen /\ held = 0 /\ gen < MaxOpens
              /\ gen' = gen + 1 /\ held' = gen + 1 /\ status' = "inactive"
              /\ freq' \in {OpenFreq, freq}
              /\ dev' = gen + 1
              /\ UNCHANGED <<ctx, isOpen, ring, memory, loop, filling, blocks, late, misused>>

OpenFlag == /\ At("opening", "flagged")
            /\ isOpen' = TRUE
            /\ UNCHANGED <<ctx, dev, ring, memory, usb, loop, filling, blocks, late, misused>>

OpenRing == /\ At("flagged", "ringed")
            /\ ring' = gen /\ ringLive' = gen /\ chan' = <<>>
            /\ UNCHANGED <<ctx, isOpen, dev, ringless, usb, loop, filling, blocks, late, misused>>

\* Nobody looks at the NULL that ringbuffer_create returns without memory.
OpenRingFails == /\ At("flagged", "ringed")
                 /\ ring' = 0 /\ ringless' = ringless \cup {gen}
                 /\ UNCHANGED <<ctx, isOpen, dev, ringLive, chan, usb, loop, filling, blocks, late, misused>>

OpenSpawn == /\ At("ringed", "open")
             /\ loop' = [loop EXCEPT ![gen] = "created"]
             /\ UNCHANGED <<context, memory, usb, filling, blocks, late, misused>>

\* isOpen stays set: the device can neither be opened again nor be closed.
OpenSpawnFails == /\ At("ringed", "closed")
                  /\ UNCHANGED <<context, memory, usb, loop, filling, blocks, late, misused>>
-----------------------------------------------------------------------------
\* close and delete, and the settings, which librtlsdr may refuse.

CloseFlag == /\ At("open", "cancelling")
             /\ isOpen' = FALSE
             /\ UNCHANGED <<ctx, dev, ring, memory, usb, loop, filling, blocks, late, misused>>

CloseNoCancel == /\ At("cancelling", "closing") \* a mutant: the stream goes on
                 /\ late' = late \cup {t \in Loops : loop[t] = "created"}
                 /\ UNCHANGED <<context, memory, usb, loop, filling, blocks, misused>>

CloseCancel == /\ At("cancelling", "closing")
               /\ status' = IF status = "running" THEN "cancelled" ELSE status
               /\ late' = late \cup {t \in Loops : loop[t] = "created"}
               /\ UNCHANGED <<context, memory, gen, held, freq, loop, filling, blocks, misused>>

CloseUnwaited == /\ At("closing", "freeing")    \* a mutant: nobody waits for the loop
                 /\ held' = 0
                 /\ UNCHANGED <<context, memory, gen, status, freq, loop, filling, blocks, late, misused>>

CloseHandle == /\ At("closing", "freeing")
               /\ status = "inactive"
               /\ held' = 0
               /\ UNCHANGED <<context, memory, gen, status, freq, loop, filling, blocks, late, misused>>

CloseRing == /\ At("freeing", "closed")
             /\ ringLive' = 0 /\ chan' = <<>>
             /\ UNCHANGED <<context, ringless, usb, loop, filling, blocks, late, misused>>

\* A caller that closed the device, or never got it opened, deletes it.
Delete == /\ At("closed", "deleted")
          /\ ctx' = "freed"
          /\ UNCHANGED <<isOpen, dev, ring, memory, usb, loop, filling, blocks, late, misused>>

SetFreq(f) == /\ At("open", "open")
              /\ freq' \in {f, freq}
              /\ UNCHANGED <<context, memory, gen, held, status, loop, filling, blocks, late, misused>>
-----------------------------------------------------------------------------
\* read: the oldest block, or 0.

ReadNewest == /\ pc = "open" /\ chan # <<>>     \* a mutant: the ring as a stack
              /\ got' = chan[Len(chan)] /\ chan' = SubSeq(chan, 1, Len(chan) - 1)
              /\ UNCHANGED <<pc, context, ringLive, ringless, usb, loop, filling, sent, late, misused>>

Read == /\ pc = "open" /\ chan # <<>>
        /\ got' = Head(chan) /\ chan' = Tail(chan)
        /\ UNCHANGED <<pc, context, ringLive, ringless, usb, loop, filling, sent, late, misused>>

\* A read through a ring that is NULL: undefined.
ReadDead == /\ pc = "open" /\ ring = 0
            /\ misused' = misused \cup {gen}
            /\ UNCHANGED <<pc, context, memory, usb, loop, filling, blocks, late>>
-----------------------------------------------------------------------------
\* asyncLoop reads ctx->dev and calls rtlsdr_read_async.

LoopBegin(t) == /\ loop[t] = "created"
                /\ ctx = "live" /\ dev = held
                /\ IF status = "inactive"
                   THEN status' = "running" /\ loop' = [loop EXCEPT ![t] = "streaming"]
                   ELSE UNCHANGED status /\ loop' = [loop EXCEPT ![t] = "ended"]
                /\ UNCHANGED <<pc, context, memory, gen, held, freq, filling, blocks, late, misused>>

\* A context or a handle that was freed: undefined, and the thread is lost.
LoopBeginDead(t) == /\ loop[t] = "created"
                    /\ ctx # "live" \/ dev # held
                    /\ loop' = [loop EXCEPT ![t] = "ended"]
                    /\ misused' = misused \cup {t}
                    /\ UNCHANGED <<pc, context, memory, usb, filling, blocks, late>>

\* async_read_callback finds a ring that was freed, or none (yet): undefined ...
CallbackDead(t) == /\ loop[t] = "streaming" /\ ~filling
                   /\ ring # ringLive \/ ringLive = 0
                   /\ sent < MaxBlocks /\ sent' = sent + 1
                   /\ misused' = misused \cup {t}
                   /\ UNCHANGED <<pc, context, memory, usb, loop, filling, got, late>>

\* ... or a free slot, for a whole buffer or less (a shorter one leaves the rest
\* of the slot as it was, and is a block like any other from there on), ...
CallbackPeek(t) == /\ loop[t] = "streaming" /\ ~filling
                   /\ sent < MaxBlocks /\ sent' = sent + 1
                   /\ ring = ringLive /\ ringLive # 0 /\ Len(chan) < Capacity
                   /\ filling' = TRUE
                   /\ UNCHANGED <<pc, context, memory, usb, loop, got, late, misused>>

\* ... or no free slot, or more than a buffer, and the block is dropped.
CallbackDrop(t) == /\ loop[t] = "streaming" /\ ~filling
                   /\ ring = ringLive /\ ringLive # 0
                   /\ sent < MaxBlocks /\ sent' = sent + 1
                   /\ UNCHANGED <<pc, context, memory, usb, loop, filling, got, late, misused>>

CallbackAdvance(t) == /\ loop[t] = "streaming" /\ filling
                      /\ filling' = FALSE
                      /\ chan' = Append(chan, sent)
                      /\ UNCHANGED <<pc, context, ringLive, ringless, usb, loop, blocks, late, misused>>

\* The stream ends when cancelled, or when the receiver is unplugged.
StreamEnd(t) == /\ loop[t] = "streaming" /\ ~filling
                /\ status' = "inactive"
                /\ loop' = [loop EXCEPT ![t] = "ended"]
                /\ UNCHANGED <<pc, context, memory, gen, held, freq, filling, blocks, late, misused>>
-----------------------------------------------------------------------------
Opening == OpenRefused \/ OpenHandle \/ OpenFlag \/ OpenRing \/ OpenRingFails \/ OpenSpawn \/ OpenSpawnFails
Closing == CloseCancel \/ CloseHandle \/ CloseRing
Control == Opening \/ CloseFlag \/ Closing \/ Delete \/ \E f \in Freqs : SetFreq(f)
Async(t) == \/ LoopBegin(t) \/ LoopBeginDead(t) \/ CallbackDead(t) \/ CallbackPeek(t)
            \/ CallbackDrop(t) \/ CallbackAdvance(t) \/ StreamEnd(t)
Next == Control \/ Read \/ ReadDead \/ \E t \in Loops : Async(t)

Spec == Init /\ [][Next]_vars

\* Inside close the controller keeps running, and so does a callback; and
\* librtlsdr's event loop notices a cancelled stream.
Cancelled(t) == status = "cancelled" /\ StreamEnd(t)
LiveSpec == /\ Spec /\ WF_vars(Closing)
            /\ \A t \in Loops : WF_vars(CallbackAdvance(t)) /\ WF_vars(Cancelled(t))
-----------------------------------------------------------------------------
TypeOK == /\ pc \in {"closed", "opening", "flagged", "ringed", "open", "cancelling",
                     "closing", "freeing", "deleted"}
          /\ ctx \in {"live", "freed"} /\ isOpen \in BOOLEAN /\ filling \in BOOLEAN
          /\ dev \in 0 .. MaxOpens /\ ring \in 0 .. MaxOpens /\ ringLive \in 0 .. MaxOpens
          /\ gen \in 0 .. MaxOpens /\ held \in 0 .. MaxOpens
          /\ status \in {"inactive", "running", "cancelled"}
          /\ loop \in [Loops -> {"none", "created", "streaming", "ended"}]

Streaming == {t \in Loops : loop[t] = "streaming"}

\* One thread at most streams, it does so from the handle that is open, and
\* librtlsdr knows: a second loop on a reopened device finds the stream taken.
OneStreamer == /\ \A t, u \in Streaming : t = u
               /\ Streaming # {} <=> status # "inactive"
               /\ Streaming # {} => held # 0 /\ dev = held

\* A conversion in progress never loses its ring: close frees it only after
\* rtlsdr_close has seen the last callback return, although nothing joins the
\* thread that makes them, and open replaces it only then.
RingLives == /\ filling => Streaming # {} /\ ringLive # 0 /\ ring = ringLive
             /\ pc = "flagged" \/ (pc \in {"closed", "deleted", "opening"} /\ ~isOpen) => ringLive = 0

\* The controller's progress, the handle and the ring belong together.
Held == /\ held # 0 <=> pc \in {"opening", "flagged", "ringed", "open", "cancelling", "closing"}
                        \/ (pc \in {"closed", "deleted"} /\ isOpen)
        /\ dev = gen /\ (held # 0 => held = gen)
        /\ (held # 0 /\ pc \notin {"opening", "flagged"}) =>
             ring = ringLive /\ ring = IF gen \in ringless THEN 0 ELSE gen
        /\ ringless \subseteq (IF pc \in {"opening", "flagged"} THEN 1 .. gen - 1 ELSE 1 .. gen)
        /\ pc \in {"flagged", "ringed", "open"} => isOpen
        /\ pc \in {"opening", "cancelling", "closing", "freeing"} => ~isOpen
        /\ ctx = "freed" <=> pc = "deleted"

\* Where each loop can be: the ones not yet created, and in which stages of
\* the controller the latest one can stream.
LoopStages == /\ \A t \in Loops : t > gen => loop[t] = "none"
              /\ held # 0 /\ pc \notin {"open", "cancelling", "closing"} => loop[gen] = "none"
              /\ pc = "freeing" \/ held = 0 => Streaming = {}
              /\ \A t \in Streaming : t = gen \/ t \in late

\* The only loop that ever touches a freed handle, context or ring is one that
\* had not begun when close() was called, which nothing makes close() wait for;
\* such a loop may even stream from the next handle before its ring exists.  And
\* without memory for its ring an open device is read through NULL.
OnlyLateStart == misused \subseteq late \cup ringless

\* However often the device is opened and closed, what a callback works with
\* lives as long as the callback, but for those late starters and for a device
\* that got no ring.
Lifetimes == RingLives /\ OnlyLateStart

\* Why: a loop not yet begun outlives the close of its handle only as late.
LateLoops == \A t \in Loops : loop[t] = "created" /\ t \notin late =>
                               t = gen /\ pc \in {"open", "cancelling"}

DeviceInv == TypeOK /\ OneStreamer /\ RingLives /\ Held /\ LoopStages
             /\ OnlyLateStart /\ LateLoops

\* Blocks are read in the order the receiver delivered them, none twice, also
\* across a close and a new open: an old ring's blocks never reappear.
InOrder == /\ \A i, j \in DOMAIN chan : i < j => chan[i] < chan[j]
           /\ \A i \in DOMAIN chan : chan[i] > got /\ chan[i] <= sent - (IF filling THEN 1 ELSE 0)
           /\ got <= sent /\ Len(chan) <= Capacity

\* Why: a slot is peeked before its block is numbered as delivered, so what is
\* being converted is younger than everything read, and finds room.
OrderInv == /\ chan \in Seq(Nat) /\ sent \in Nat /\ got \in Nat
            /\ filling => got < sent /\ Len(chan) < Capacity
            /\ InOrder

\* close() returns, if the loop of the device it closes had begun.  One that
\* begins between rtlsdr_cancel_async and rtlsdr_close is never cancelled.
CloseReturns == (pc = "cancelling" /\ loop[gen] # "created" /\ late = {}) ~> pc = "closed"
=============================================================================
