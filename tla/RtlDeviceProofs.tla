-------------------------- MODULE RtlDeviceProofs --------------------------
(***************************************************************************)
(* What the driver's missing join can and cannot harm, for any number of   *)
(* opens, blocks and frequencies.                                          *)
(***************************************************************************)
EXTENDS RtlDevice, TLAPS

LEMMA InitInv == Init => DeviceInv
<1> SUFFICES ASSUME Init PROVE DeviceInv  OBVIOUS
<1>1. Streaming = {}  BY DEF Init, Streaming
<1>2. TypeOK
  <2>1. 0 \in 0 .. MaxOpens  BY BoundsAssumption
  <2>2. loop \in [Loops -> {"none", "created", "streaming", "ended"}]  BY DEF Init
  <2> QED  BY <2>1, <2>2 DEF Init, TypeOK
<1>3. OneStreamer /\ RingLives  BY <1>1 DEF Init, OneStreamer, RingLives
<1>4. Held  BY DEF Init, Held
<1>5. LoopStages  BY <1>1 DEF Init, LoopStages
<1>6. OnlyLateStart /\ LateLoops  BY DEF Init, OnlyLateStart, LateLoops
<1> QED  BY <1>2, <1>3, <1>4, <1>5, <1>6 DEF DeviceInv

\* The stages of open: only OpenSpawn creates a loop, and its handle is fresh.
LEMMA OpeningInv == DeviceInv /\ Opening => DeviceInv'
<1> SUFFICES ASSUME DeviceInv, Opening PROVE DeviceInv'  OBVIOUS
<1> USE BoundsAssumption
    DEF DeviceInv, TypeOK, OneStreamer, RingLives, Held, LoopStages, OnlyLateStart, LateLoops,
        Streaming, Loops, At, context, memory, usb, blocks
<1>1. CASE OpenRefused  BY <1>1 DEF OpenRefused
<1>2. CASE OpenHandle  BY <1>2 DEF OpenHandle
<1>3. CASE OpenFlag  BY <1>3 DEF OpenFlag
<1>4. CASE OpenRing  BY <1>4 DEF OpenRing
<1>5. CASE OpenSpawn  BY <1>5 DEF OpenSpawn
<1>6. CASE OpenSpawnFails  BY <1>6 DEF OpenSpawnFails
<1>7. CASE OpenRingFails  BY <1>7 DEF OpenRingFails
<1> QED  BY <1>1, <1>2, <1>3, <1>4, <1>5, <1>6, <1>7 DEF Opening

\* The stages of close: a loop not begun is recorded as late when they start,
\* and the ring goes after the handle, the handle after the stream.
LEMMA ClosingInv == DeviceInv /\ (CloseFlag \/ Closing) => DeviceInv'
<1> SUFFICES ASSUME DeviceInv, CloseFlag \/ Closing PROVE DeviceInv'  OBVIOUS
<1> USE BoundsAssumption
    DEF DeviceInv, TypeOK, OneStreamer, RingLives, Held, LoopStages, OnlyLateStart, LateLoops,
        Streaming, Loops, At, context, memory, usb, blocks
<1>1. CASE CloseFlag  BY <1>1 DEF CloseFlag
<1>2. CASE CloseCancel  BY <1>2 DEF CloseCancel
<1>3. CASE CloseHandle  BY <1>3 DEF CloseHandle
<1>4. CASE CloseRing  BY <1>4 DEF CloseRing
<1> QED  BY <1>1, <1>2, <1>3, <1>4 DEF Closing

LEMMA CallerInv ==
  ASSUME DeviceInv, Delete \/ Read \/ ReadDead \/ \E f \in Freqs : SetFreq(f)
  PROVE  DeviceInv'
<1> USE BoundsAssumption
    DEF DeviceInv, TypeOK, OneStreamer, RingLives, Held, LoopStages, OnlyLateStart, LateLoops,
        Streaming, Loops, At, context, memory, usb, blocks
<1>1. CASE Delete  BY <1>1 DEF Delete
<1>2. CASE Read  BY <1>2 DEF Read
<1>3. CASE \E f \in Freqs : SetFreq(f)  BY <1>3 DEF SetFreq
<1>4. CASE ReadDead  BY <1>4 DEF ReadDead
<1> QED  BY <1>1, <1>2, <1>3, <1>4

\* The threads nobody joins.
LEMMA AsyncInv ==
  ASSUME DeviceInv, NEW t \in Loops, Async(t)
  PROVE  DeviceInv'
<1> USE BoundsAssumption
    DEF DeviceInv, TypeOK, OneStreamer, RingLives, Held, LoopStages, OnlyLateStart, LateLoops,
        Streaming, Loops, context, memory, usb, blocks
<1>1. CASE LoopBegin(t)
  <2>1. CASE status = "inactive"
    <3>1. held # 0 /\ Streaming = {}  BY <1>1, <2>1 DEF LoopBegin
    <3>2. \A u \in Loops : loop'[u] = IF u = t THEN "streaming" ELSE loop[u]
      BY <1>1, <2>1 DEF LoopBegin
    <3>3. Streaming' = {t}  BY <3>1, <3>2
    <3>4. TypeOK' /\ Held' /\ OnlyLateStart' /\ LateLoops' /\ RingLives'
      BY <1>1, <2>1, <3>1 DEF LoopBegin
    <3>0. loop[t] = "created" /\ UNCHANGED <<pc, isOpen, gen, held, late>>
      BY <1>1 DEF LoopBegin
    <3>00. gen \in Loops  BY <3>0
    <3>a. /\ loop[t] = "created" /\ UNCHANGED <<pc, isOpen, gen, held, late>>
          /\ t # gen => loop'[gen] = loop[gen]
      BY <3>0, <3>00, <3>2
    <3>b. t = gen \/ t \in late  BY <3>a
    <3>c. t = gen => pc \in {"open", "cancelling", "closing"}  BY <3>a, <3>1
    <3>d. t <= gen  BY <3>a
    <3>e. \A u \in Loops : u > gen' => loop'[u] = "none"  BY <3>a, <3>d, <3>2
    <3>f. pc # "freeing"  BY <3>1
    <3>5. LoopStages'
      BY <3>1, <3>3, <3>a, <3>b, <3>c, <3>e, <3>f
    <3>6. OneStreamer'  BY <1>1, <2>1, <3>1, <3>3 DEF LoopBegin
    <3> QED  BY <3>4, <3>5, <3>6
  <2>2. CASE status # "inactive"
    <3>1. /\ loop[t] = "created" /\ loop' = [loop EXCEPT ![t] = "ended"]
          /\ UNCHANGED <<pc, context, memory, usb, filling, blocks, late, misused>>
      BY <1>1, <2>2 DEF LoopBegin
    <3>2. Streaming' = Streaming  BY <3>1
    <3>3. TypeOK' /\ Held' /\ OnlyLateStart' /\ LateLoops'  BY <3>1
    <3>4. RingLives' /\ OneStreamer'  BY <3>1, <3>2
    <3>5. loop[t] # "none" /\ (loop'[gen] = "none" <=> loop[gen] = "none")  BY <3>1
    <3>6. \A u \in Loops : u > gen' => loop'[u] = "none"  BY <3>1
    <3>7. LoopStages'  BY <3>1, <3>2, <3>5, <3>6
    <3> QED  BY <3>3, <3>4, <3>7
  <2> QED  BY <2>1, <2>2
<1>2. CASE LoopBeginDead(t)  BY <1>2 DEF LoopBeginDead
<1>3. CASE CallbackDead(t)  BY <1>3 DEF CallbackDead
<1>4. CASE CallbackPeek(t)  BY <1>4 DEF CallbackPeek
<1>5. CASE CallbackDrop(t)  BY <1>5 DEF CallbackDrop
<1>6. CASE CallbackAdvance(t)  BY <1>6 DEF CallbackAdvance
<1>7. CASE StreamEnd(t)  BY <1>7 DEF StreamEnd
<1> QED  BY <1>1, <1>2, <1>3, <1>4, <1>5, <1>6, <1>7 DEF Async

\* However often the device is opened and closed, one thread at most streams,
\* no conversion loses its ring, and only a loop that had not begun when
\* close() was called ever touches what was freed, or who reads from a device
\* that got no ring.
THEOREM DeviceSafe == Spec => [](DeviceInv /\ Lifetimes)
<1>1. DeviceInv /\ UNCHANGED vars => DeviceInv'
  BY DEF DeviceInv, TypeOK, OneStreamer, RingLives, Held, LoopStages, OnlyLateStart,
         LateLoops, Streaming, vars, context, memory, usb, blocks
<1>2. DeviceInv /\ Next => DeviceInv'
  BY OpeningInv, ClosingInv, CallerInv, AsyncInv DEF Next, Control
<1>3. DeviceInv => Lifetimes  BY DEF DeviceInv, Lifetimes
<1> QED  BY <1>1, <1>2, <1>3, InitInv, PTL DEF Spec
-----------------------------------------------------------------------------
\* The callback that publishes its block: it is the youngest, and fits.
LEMMA AdvanceOrder == ASSUME OrderInv, NEW t \in Loops, CallbackAdvance(t) PROVE OrderInv'
<1>1. /\ filling /\ ~filling' /\ chan' = Append(chan, sent)
      /\ UNCHANGED <<sent, got>>
  BY DEF CallbackAdvance, blocks
<1>2. chan \in Seq(Nat) /\ sent \in Nat /\ got < sent /\ Len(chan) < Capacity /\ InOrder
  BY <1>1 DEF OrderInv
<1>3. /\ chan' \in Seq(Nat) /\ Len(chan') = Len(chan) + 1
      /\ \A i \in 1 .. Len(chan) : chan'[i] = chan[i]
      /\ chan'[Len(chan) + 1] = sent
  BY <1>1, <1>2
<1>4. \A i \in DOMAIN chan' : chan'[i] > got /\ chan'[i] <= sent
  BY <1>1, <1>2, <1>3 DEF InOrder, OrderInv
<1>5. \A i, j \in DOMAIN chan' : i < j => chan'[i] < chan'[j]
  <2> SUFFICES ASSUME NEW i \in DOMAIN chan', NEW j \in DOMAIN chan', i < j
               PROVE  chan'[i] < chan'[j]
    OBVIOUS
  <2>1. i \in 1 .. Len(chan) /\ chan'[i] = chan[i] /\ chan[i] < sent
    BY <1>1, <1>2, <1>3 DEF InOrder
  <2>2. CASE j = Len(chan) + 1  BY <1>3, <2>1, <2>2
  <2>3. CASE j # Len(chan) + 1
    <3>1. j \in 1 .. Len(chan) /\ chan'[j] = chan[j]  BY <1>3, <2>3
    <3> QED  BY <1>2, <2>1, <3>1 DEF InOrder
  <2> QED  BY <2>2, <2>3
<1> QED  BY <1>1, <1>2, <1>3, <1>4, <1>5, CapacityAssumption DEF OrderInv, InOrder

\* The reader that takes the oldest block, which is older than all that stay.
LEMMA ReadOrder == ASSUME OrderInv, Read PROVE OrderInv'
<1>1. /\ chan # <<>> /\ got' = Head(chan) /\ chan' = Tail(chan)
      /\ UNCHANGED <<filling, sent>>
  BY DEF Read
<1>2. /\ chan \in Seq(Nat) /\ sent \in Nat /\ got \in Nat /\ InOrder
      /\ DOMAIN chan = 1 .. Len(chan) /\ \A i \in 1 .. Len(chan) : chan[i] \in Nat
  BY DEF OrderInv
<1>3. /\ chan' \in Seq(Nat) /\ Len(chan') = Len(chan) - 1 /\ Len(chan) > 0
      /\ \A i \in 1 .. Len(chan) - 1 : chan'[i] = chan[i + 1]
      /\ got' = chan[1] /\ got' \in Nat /\ DOMAIN chan' = 1 .. Len(chan) - 1
  BY <1>1, <1>2
<1>4. got' <= sent /\ (filling => got' < sent)
  <2>1. 1 \in DOMAIN chan /\ chan[1] <= sent - (IF filling THEN 1 ELSE 0)
    BY <1>2, <1>3 DEF InOrder
  <2> QED  BY <1>2, <1>3, <2>1
<1>5. \A i \in DOMAIN chan' : chan'[i] > got' /\ chan'[i] <= sent - (IF filling THEN 1 ELSE 0)
  <2> SUFFICES ASSUME NEW i \in 1 .. Len(chan) - 1
               PROVE  chan[i + 1] > chan[1] /\ chan[i + 1] <= sent - (IF filling THEN 1 ELSE 0)
    BY <1>3
  <2>1. 1 \in DOMAIN chan /\ i + 1 \in DOMAIN chan /\ 1 < i + 1  BY <1>2, <1>3
  <2> QED  BY <1>2, <2>1 DEF InOrder
<1>6. \A i, j \in DOMAIN chan' : i < j => chan'[i] < chan'[j]
  <2> SUFFICES ASSUME NEW i \in 1 .. Len(chan) - 1, NEW j \in 1 .. Len(chan) - 1, i < j
               PROVE  chan[i + 1] < chan[j + 1]
    BY <1>3
  <2>1. i + 1 \in DOMAIN chan /\ j + 1 \in DOMAIN chan /\ i + 1 < j + 1  BY <1>2, <1>3
  <2> QED  BY <1>2, <2>1 DEF InOrder
<1> QED  BY <1>1, <1>2, <1>3, <1>4, <1>5, <1>6, CapacityAssumption DEF OrderInv, InOrder

\* Everything else delivers a block, peeks or drops one, replaces the ring by
\* an empty one, or leaves the blocks alone.
LEMMA BlockSteps ==
  Next \/ UNCHANGED vars =>
    \/ Read \/ \E t \in Loops : CallbackAdvance(t)
    \/ /\ got' = got /\ chan' \in {chan, <<>>}
       /\ \/ UNCHANGED <<sent, filling>>
          \/ ~filling /\ sent' = sent + 1 /\ ~filling'
          \/ ~filling /\ sent' = sent + 1 /\ filling' /\ Len(chan) < Capacity /\ chan' = chan
BY DEF Next, Control, Opening, Closing, Async, OpenRefused, OpenHandle, OpenFlag, OpenRing,
       OpenRingFails, ReadDead, OpenSpawn, OpenSpawnFails, CloseFlag, CloseCancel, CloseHandle, CloseRing, Delete, SetFreq,
       LoopBegin, LoopBeginDead, CallbackDead, CallbackPeek, CallbackDrop, StreamEnd,
       vars, context, memory, usb, blocks

LEMMA OrderStep == OrderInv /\ [Next]_vars => OrderInv'
<1> SUFFICES ASSUME OrderInv, [Next]_vars PROVE OrderInv'  OBVIOUS
<1>1. CASE Read  BY <1>1, ReadOrder
<1>2. CASE \E t \in Loops : CallbackAdvance(t)  BY <1>2, AdvanceOrder
<1>3. CASE /\ got' = got /\ chan' \in {chan, <<>>}
           /\ \/ UNCHANGED <<sent, filling>>
              \/ ~filling /\ sent' = sent + 1 /\ ~filling'
              \/ ~filling /\ sent' = sent + 1 /\ filling' /\ Len(chan) < Capacity /\ chan' = chan
  <2>0. <<>> \in Seq(Nat) /\ Len(<<>>) = 0 /\ DOMAIN <<>> = {}
    OBVIOUS
  <2>1. /\ chan' \in Seq(Nat) /\ sent' \in Nat /\ got' \in Nat /\ got <= sent /\ sent <= sent'
        /\ Len(chan) <= Capacity /\ 0 < Capacity /\ Capacity \in Nat
    <3>1. chan' \in Seq(Nat)  BY <1>3, <2>0 DEF OrderInv
    <3>2. sent' \in Nat /\ got' \in Nat /\ sent <= sent'  BY <1>3 DEF OrderInv
    <3>3. got <= sent /\ Len(chan) <= Capacity  BY DEF OrderInv, InOrder
    <3> QED  BY <3>1, <3>2, <3>3, CapacityAssumption
  <2>2. Len(chan') <= Capacity  BY <1>3, <2>0, <2>1
  <2>3. \A i, j \in DOMAIN chan' : i < j => chan'[i] < chan'[j]
    BY <1>3, <2>0, <2>1 DEF OrderInv, InOrder
  <2>4. CASE UNCHANGED <<sent, filling>>
    <3>1. filling' => got' < sent' /\ Len(chan') < Capacity
      BY <1>3, <2>0, <2>1, <2>4 DEF OrderInv
    <3>2. \A i \in DOMAIN chan' : chan'[i] > got' /\ chan'[i] <= sent' - (IF filling' THEN 1 ELSE 0)
      BY <1>3, <2>0, <2>1, <2>4 DEF OrderInv, InOrder
    <3> QED  BY <1>3, <2>1, <2>2, <2>3, <3>1, <3>2 DEF OrderInv, InOrder
  <2>5. CASE ~filling /\ sent' = sent + 1
    <3>1. got' < sent' /\ (filling' => Len(chan') < Capacity)
      BY <1>3, <2>0, <2>1, <2>5 DEF OrderInv
    <3>2. \A i \in DOMAIN chan : chan[i] \in Nat /\ chan[i] > got /\ chan[i] <= sent
      BY <2>1, <2>5 DEF OrderInv, InOrder
    <3>3. \A i \in DOMAIN chan' : chan'[i] > got' /\ chan'[i] <= sent' - (IF filling' THEN 1 ELSE 0)
      BY <1>3, <2>0, <2>1, <2>5, <3>2 DEF OrderInv
    <3> QED  BY <1>3, <2>1, <2>2, <2>3, <3>1, <3>3 DEF OrderInv, InOrder
  <2> QED  BY <1>3, <2>4, <2>5
<1> QED  BY <1>1, <1>2, <1>3, BlockSteps

\* read() returns the receiver's blocks in the order delivered and none twice,
\* whatever is dropped when the ring is full, across any number of closes and
\* opens, and although a late thread may stream into a later open's ring.
THEOREM BlocksInOrder == Spec => []InOrder
<1>1. Init => OrderInv
  BY CapacityAssumption DEF Init, OrderInv, InOrder
<1>2. OrderInv => InOrder  BY DEF OrderInv
<1> QED  BY <1>1, <1>2, OrderStep, PTL DEF Spec
=============================================================================
