----------------------------- MODULE RingBuffer -----------------------------
(***************************************************************************)
(* src/ringbuffer.c, with one writer thread and one reader thread: the     *)
(* librtlsdr callback and sdrReaderThread around the device's ring, and    *)
(* sdrReaderThread and the PortAudio callback around the audio ring.       *)
(*                                                                         *)
(* Indexes count elements, where the code counts bytes in multiples of     *)
(* element_size.  memcpy, and the loops that fill or drain a peeked slot,  *)
(* take one step per part of the element, so that a slot used by both      *)
(* threads at once would yield a torn element.  ringbuffer_write and       *)
(* ringbuffer_read are the peek, the copy and the advance in one call;     *)
(* only the writer assigns head and only the reader tail, so the newhead   *)
(* computed before the copy equals the one wadvance computes after it.     *)
(*                                                                         *)
(* There is no fence.  Each thread's stores go into a store buffer of its  *)
(* own, which it reads before memory, and reach memory later, one by one   *)
(* and in order, as on x86.  The writer stores slot after slot, so what    *)
(* its buffer holds is told by how far memory is behind it.                *)
(*                                                                         *)
(* A premise: the writer fills each slot it advances over.  A callback of  *)
(* librtlsdr with less than a buffer would leave the end of its slot as it *)
(* was, the old samples or those of malloc (device-rtl.c:152-169 tests for *)
(* more only); its default buffers, which the driver asks for, fill one.   *)
(***************************************************************************)
EXTENDS Integers, Sequences

CONSTANTS Slots,      \* element_count
          Parts,      \* separately copied parts of an element
          Sample,     \* values of a part
          Garbage,    \* what malloc left in a part nobody wrote
          Nothing     \* the 0 or NULL of a read from an empty ring

ASSUME SlotsAssumption == Slots \in Nat \ {0}
ASSUME PartsAssumption == Parts \in Nat \ {0}
ASSUME GarbageAssumption == Garbage \notin Sample

VARIABLES head, tail, elems,        \* memory
          landed,                   \* parts of the slot at head that reached memory
          whead, welems,            \* head and elems as the writer has stored them
          wpc, item, wpart, wres,   \* the writer: its element, parts stored
          rtail,                    \* tail as the reader has stored it
          rpc, out, rpart, rres     \* the reader: its copy, parts loaded

memory == <<head, tail, elems, landed>>
writer == <<whead, welems, wpc, item, wpart, wres>>
reader == <<rtail, rpc, out, rpart, rres>>
vars   == <<memory, writer, reader>>

Index   == 0 .. Slots - 1
Element == [1 .. Parts -> Sample]
Memory  == [1 .. Parts -> Sample \cup {Garbage}]
Blank   == [p \in 1 .. Parts |-> Garbage]

Advance(i) == (i + 1) % Slots

Init == /\ head = 0 /\ tail = 0 /\ landed = 0
        /\ elems = [i \in Index |-> Blank]
        /\ whead = 0 /\ welems = elems
        /\ wpc = "idle" /\ item = Blank /\ wpart = 0 /\ wres = "none"
        /\ rtail = 0
        /\ rpc = "idle" /\ out = Blank /\ rpart = 0 /\ rres = Nothing
-----------------------------------------------------------------------------
\* Writer: ringbuffer_write, or ringbuffer_wpeek .. ringbuffer_wadvance.

WriteFull == /\ wpc = "idle"
             /\ Advance(whead) = tail
             /\ wres' = "full"
             /\ UNCHANGED <<memory, reader, whead, welems, wpc, item, wpart>>

WriteBeginUnchecked(e) ==                      \* a mutant: overwrite when full
                 /\ wpc = "idle"
                 /\ wpc' = "copying" /\ item' = e /\ wpart' = 0
                 /\ UNCHANGED <<memory, reader, whead, welems, wres>>

WriteBegin(e) == /\ wpc = "idle"
                 /\ Advance(whead) # tail
                 /\ wpc' = "copying" /\ item' = e /\ wpart' = 0
                 /\ UNCHANGED <<memory, reader, whead, welems, wres>>

WritePart == /\ wpc = "copying" /\ wpart < Parts
             /\ welems' = [welems EXCEPT ![whead][wpart + 1] = item[wpart + 1]]
             /\ wpart' = wpart + 1
             /\ UNCHANGED <<memory, reader, whead, wpc, item, wres>>

WriteDone == /\ wpc = "copying" /\ wpart = Parts
             /\ whead' = Advance(whead)
             /\ wpc' = "idle" /\ wres' = "stored"
             /\ UNCHANGED <<memory, reader, welems, item, wpart>>
-----------------------------------------------------------------------------
\* Reader: ringbuffer_read, or ringbuffer_rpeek .. ringbuffer_radvance.

ReadEmpty == /\ rpc = "idle"
             /\ head = rtail
             /\ rres' = Nothing
             /\ UNCHANGED <<memory, writer, rtail, rpc, out, rpart>>

ReadBeginWhenFull == /\ rpc = "idle"           \* a mutant: waits for a full ring
                     /\ Advance(head) = rtail
                     /\ rpc' = "copying" /\ rpart' = 0
                     /\ UNCHANGED <<memory, writer, rtail, out, rres>>

ReadBegin == /\ rpc = "idle"
             /\ head # rtail
             /\ rpc' = "copying" /\ rpart' = 0
             /\ UNCHANGED <<memory, writer, rtail, out, rres>>

ReadPart == /\ rpc = "copying" /\ rpart < Parts
            /\ out' = [out EXCEPT ![rpart + 1] = elems[rtail][rpart + 1]]
            /\ rpart' = rpart + 1
            /\ UNCHANGED <<memory, writer, rtail, rpc, rres>>

ReadDone == /\ rpc = "copying" /\ rpart = Parts
            /\ rtail' = Advance(rtail)
            /\ rpc' = "idle" /\ rres' = out
            /\ UNCHANGED <<memory, writer, out, rpart>>
-----------------------------------------------------------------------------
\* The oldest store of a buffer reaches memory.

\* How many parts of the slot at head the writer has stored.
StoredAtHead == IF head # whead THEN Parts ELSE IF wpc = "copying" THEN wpart ELSE 0

LandPart == /\ landed < StoredAtHead
            /\ elems' = [elems EXCEPT ![head][landed + 1] = welems[head][landed + 1]]
            /\ landed' = landed + 1
            /\ UNCHANGED <<head, tail, writer, reader>>

LandHeadEarly == /\ head # whead               \* a mutant: head stored before the copy
                 /\ head' = Advance(head) /\ landed' = 0
                 /\ UNCHANGED <<tail, elems, writer, reader>>

LandHead == /\ head # whead /\ landed = Parts
            /\ head' = Advance(head) /\ landed' = 0
            /\ UNCHANGED <<tail, elems, writer, reader>>

LandTail == /\ tail # rtail
            /\ tail' = Advance(tail)
            /\ UNCHANGED <<head, elems, landed, writer, reader>>
-----------------------------------------------------------------------------
Writer == WriteFull \/ (\E e \in Element : WriteBegin(e)) \/ WritePart \/ WriteDone
Reader == ReadEmpty \/ ReadBegin \/ ReadPart \/ ReadDone
Land   == LandPart \/ LandHead \/ LandTail
Next   == Writer \/ Reader \/ Land

Spec == Init /\ [][Next]_vars

\* Both readers poll: sdrReaderThread calls read() in a loop and PortAudio
\* calls paCallback for every output buffer.  A copy that began is finished,
\* and a processor empties its store buffer; nothing obliges the writer to
\* begin another copy.
Fairness == /\ WF_vars(Reader) /\ WF_vars(WritePart \/ WriteDone)
            /\ WF_vars(LandPart \/ LandHead) /\ WF_vars(LandTail)

LiveSpec == Spec /\ Fairness
-----------------------------------------------------------------------------
Indices == {head, tail, whead, rtail} \subseteq Index
MemoryTypeOK == elems \in [Index -> Memory] /\ landed \in 0 .. Parts
WriterTypeOK == /\ welems \in [Index -> Memory]
                /\ wpc \in {"idle", "copying"}
                /\ item \in Memory
                /\ wpc = "copying" => item \in Element
                /\ wpart \in 0 .. Parts
                /\ wres \in {"none", "stored", "full"}
ReaderTypeOK == /\ rpc \in {"idle", "copying"}
                /\ out \in Memory
                /\ rpart \in 0 .. Parts
                /\ rres \in Memory \cup {Nothing}

TypeOK == Indices /\ MemoryTypeOK /\ WriterTypeOK /\ ReaderTypeOK

\* How far it is from one index to another, and what lies between them.
Span(i, j)       == IF i <= j THEN j - i ELSE j - i + Slots
Between(i, s, j) == IF i <= j THEN i <= s /\ s < j ELSE i <= s \/ s < j

\* The slot being read is neither the one being written nor one whose stores
\* are still to reach memory, although neither thread tells the other that it
\* is inside memcpy: the free slot kept by ringbuffer_write (line 39) is what
\* separates them.
NoRace == rpc = "copying" => /\ ~Between(head, rtail, whead)
                             /\ ~(wpc = "copying" /\ rtail = whead)

\* Why it holds.  Around the ring from tail come first what the reader is
\* done with, then what it may read, then what is still in the store buffer.
InTurn == Span(tail, rtail) + Span(rtail, head) + Span(head, whead) = Span(tail, whead)

\* The writer only ever works on a slot outside those, and the reader only on
\* the oldest of those it may read.
Separation == /\ wpc = "copying" => Advance(whead) # tail
              /\ rpc = "copying" => head # rtail

\* What the reader has copied so far is what the oldest slot holds: no part
\* of it was overwritten while the reader was at it.
ReadFaithful == rpc = "copying" =>
                  \A p \in 1 .. rpart : out[p] = elems[rtail][p]

\* What the writer has stored so far is what its slot holds.
WriteFaithful == wpc = "copying" =>
                   \A p \in 1 .. wpart : welems[whead][p] = item[p]

\* Memory has what the writer stored: of the slot at head the parts that
\* landed, and all of those a read can reach.
MemoryFaithful == /\ landed <= StoredAtHead
                  /\ \A p \in 1 .. landed : elems[head][p] = welems[head][p]
                  /\ \A s \in Index : Between(rtail, s, head) => elems[s] = welems[s]

\* A slot in use was written whole: no element that can be read contains
\* memory that ringbuffer_create left uninitialised.
UsedAreElements == \A s \in Index : Between(rtail, s, whead) => welems[s] \in Element

IInv == /\ TypeOK /\ InTurn /\ Separation /\ ReadFaithful /\ WriteFaithful
        /\ MemoryFaithful /\ UsedAreElements
-----------------------------------------------------------------------------
\* The code implements the channel: an element is sent when the writer stores
\* head and received when the reader stores tail, and each arrives at the
\* other side when memory has that store; everything else is a stutter.
At(i) == IF rtail + i - 1 < Slots THEN rtail + i - 1 ELSE rtail + i - 1 - Slots
Contents == [i \in 1 .. Span(rtail, whead) |-> welems[At(i)]]

Chan == INSTANCE Channel WITH chan <- Contents, seen <- Span(rtail, head), owed <- Span(tail, rtail),
                              Capacity <- Slots - 1

ImplementsChannel == Chan!Spec

\* The reader never starves: an element the writer has stored is consumed,
\* however the writer, the reader and the store buffers interleave.
Consumed == \A t \in Index : (rtail = t /\ whead # t) ~> (rtail # t)
=============================================================================
