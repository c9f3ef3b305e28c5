-------------------------- MODULE RingBufferProofs --------------------------
(***************************************************************************)
(* Proofs about RingBuffer, for every number of slots and parts.           *)
(***************************************************************************)
EXTENDS RingBuffer, SequenceTheorems, TLAPS

\* Advance is the increment that wraps; from here on % is not needed.
LEMMA AdvanceWraps ==
  ASSUME NEW i \in Index
  PROVE  /\ Advance(i) \in Index
         /\ Advance(i) = IF i = Slots - 1 THEN 0 ELSE i + 1
<1>1. CASE i = Slots - 1
  BY <1>1, SlotsAssumption DEF Advance, Index
<1>2. CASE i # Slots - 1
  BY <1>2, SlotsAssumption DEF Advance, Index
<1> QED BY <1>1, <1>2

\* Spans are shorter than the ring; the longest is that of a full ring.
LEMMA SpanBounds ==
  ASSUME NEW i \in Index, NEW j \in Index
  PROVE  /\ Span(i, j) \in 0 .. Slots - 1
         /\ Span(i, j) = 0 <=> i = j
         /\ Span(i, j) = Slots - 1 <=> Advance(j) = i
<1>1. Advance(j) = IF j = Slots - 1 THEN 0 ELSE j + 1
  BY AdvanceWraps
<1> QED BY <1>1, SlotsAssumption DEF Index, Span

\* Advancing the far end lengthens a span by one, the near end shortens it.
LEMMA SpanMoves ==
  ASSUME NEW i \in Index, NEW j \in Index
  PROVE  /\ Advance(j) # i => Span(i, Advance(j)) = Span(i, j) + 1
         /\ i # j => Span(Advance(i), j) = Span(i, j) - 1
<1>1. /\ Advance(j) = IF j = Slots - 1 THEN 0 ELSE j + 1
      /\ Advance(i) = IF i = Slots - 1 THEN 0 ELSE i + 1
  BY AdvanceWraps
<1>2. ASSUME Advance(j) # i PROVE Span(i, Advance(j)) = Span(i, j) + 1
  BY <1>1, <1>2, SlotsAssumption DEF Index, Span
<1>3. ASSUME i # j PROVE Span(Advance(i), j) = Span(i, j) - 1
  BY <1>1, <1>3, SlotsAssumption DEF Index, Span
<1> QED BY <1>2, <1>3

\* And lets one slot in, or out.
LEMMA BetweenMoves ==
  ASSUME NEW i \in Index, NEW j \in Index, NEW s \in Index
  PROVE  /\ Advance(j) # i => (Between(i, s, Advance(j)) <=> Between(i, s, j) \/ s = j)
         /\ i # j => (Between(Advance(i), s, j) <=> Between(i, s, j) /\ s # i)
<1>1. /\ Advance(j) = IF j = Slots - 1 THEN 0 ELSE j + 1
      /\ Advance(i) = IF i = Slots - 1 THEN 0 ELSE i + 1
  BY AdvanceWraps
<1>2. ASSUME Advance(j) # i PROVE Between(i, s, Advance(j)) <=> Between(i, s, j) \/ s = j
  BY <1>1, <1>2, SlotsAssumption DEF Index, Between
<1>3. ASSUME i # j PROVE Between(Advance(i), s, j) <=> Between(i, s, j) /\ s # i
  BY <1>1, <1>3, SlotsAssumption DEF Index, Between
<1> QED BY <1>2, <1>3

\* The near end of what lies between two indices is there, the far end not.
LEMMA BetweenEnds ==
  ASSUME NEW i \in Index, NEW j \in Index
  PROVE  /\ Between(i, i, j) <=> i # j
         /\ ~Between(i, j, j)
BY SlotsAssumption DEF Index, Between

\* Indices in turn: what the reader may use is what arrived and, apart from
\* it, what is on its way; and head and rtail are not the writer's next stop.
LEMMA Turn ==
  ASSUME Indices, InTurn
  PROVE  /\ Span(rtail, whead) = Span(rtail, head) + Span(head, whead)
         /\ Span(tail, whead) = Span(tail, rtail) + Span(rtail, whead)
         /\ \A s \in Index : /\ Between(rtail, s, head) => Between(rtail, s, whead)
                             /\ ~(Between(rtail, s, head) /\ Between(head, s, whead))
         /\ Advance(whead) # tail => Advance(whead) # head /\ Advance(whead) # rtail
<1>1. head \in Index /\ tail \in Index /\ whead \in Index /\ rtail \in Index
  BY DEF Indices
<1>2. Advance(whead) = IF whead = Slots - 1 THEN 0 ELSE whead + 1
  BY <1>1, AdvanceWraps
<1> USE <1>1, SlotsAssumption DEF InTurn, Index, Span
<1>3. Span(rtail, whead) = Span(rtail, head) + Span(head, whead)
  OBVIOUS
<1>4. Span(tail, whead) = Span(tail, rtail) + Span(rtail, whead)
  OBVIOUS
<1>5. \A s \in Index : /\ Between(rtail, s, head) => Between(rtail, s, whead)
                       /\ ~(Between(rtail, s, head) /\ Between(head, s, whead))
  BY DEF Between
<1>6. Advance(whead) # tail => Advance(whead) # head /\ Advance(whead) # rtail
  BY <1>2
<1> QED BY <1>3, <1>4, <1>5, <1>6
-----------------------------------------------------------------------------
\* What is stored, loaded or landed is of the shape of an element.

LEMMA TypeInit == Init => TypeOK
<1> SUFFICES ASSUME Init PROVE TypeOK
  OBVIOUS
<1>1. Blank \in Memory
  BY DEF Blank, Memory
<1>2. Indices
  BY SlotsAssumption DEF Init, Indices, Index
<1>3. MemoryTypeOK
  BY <1>1, PartsAssumption DEF Init, MemoryTypeOK
<1>4. WriterTypeOK /\ ReaderTypeOK
  BY <1>1, PartsAssumption DEF Init, WriterTypeOK, ReaderTypeOK
<1> QED BY <1>2, <1>3, <1>4 DEF TypeOK

LEMMA TypeNext == TypeOK /\ [Next]_vars => TypeOK'
<1> SUFFICES ASSUME TypeOK, [Next]_vars PROVE TypeOK'
  OBVIOUS
<1> USE PartsAssumption DEF TypeOK, Indices, MemoryTypeOK, WriterTypeOK, ReaderTypeOK,
                            memory, writer, reader
<1>1. CASE WriteFull
  BY <1>1 DEF WriteFull
<1>2. ASSUME NEW e \in Element, WriteBegin(e) PROVE TypeOK'
  BY <1>2 DEF WriteBegin, Element, Memory
<1>3. CASE WritePart
  <2>1. item[wpart + 1] \in Sample
    BY <1>3 DEF WritePart, Element
  <2>2. welems' \in [Index -> Memory]
    BY <1>3, <2>1 DEF WritePart, Memory
  <2> QED BY <1>3, <2>2 DEF WritePart
<1>4. CASE WriteDone
  BY <1>4, AdvanceWraps DEF WriteDone
<1>5. CASE ReadEmpty
  BY <1>5 DEF ReadEmpty
<1>6. CASE ReadBegin
  BY <1>6 DEF ReadBegin
<1>7. CASE ReadPart
  <2>1. out' \in Memory
    BY <1>7 DEF ReadPart, Memory
  <2> QED BY <1>7, <2>1 DEF ReadPart
<1>8. CASE ReadDone
  BY <1>8, AdvanceWraps DEF ReadDone
<1>9. CASE LandPart
  <2>1. landed \in Nat /\ landed < Parts
    BY <1>9 DEF LandPart, StoredAtHead
  <2>2. elems' \in [Index -> Memory]
    BY <1>9, <2>1 DEF LandPart, Memory
  <2> QED BY <1>9, <2>1, <2>2 DEF LandPart
<1>10. CASE LandHead
  BY <1>10, AdvanceWraps DEF LandHead
<1>11. CASE LandTail
  BY <1>11, AdvanceWraps DEF LandTail
<1>12. CASE UNCHANGED vars
  BY <1>12 DEF vars
<1> QED BY <1>1, <1>2, <1>3, <1>4, <1>5, <1>6, <1>7, <1>8, <1>9, <1>10, <1>11, <1>12
        DEF Next, Writer, Reader, Land

\* Indexes stay within the ring in memory and in the view of either thread,
\* the writer copies from whole elements, and every read returns a block of
\* the element's shape or nothing.
THEOREM TypeCorrect == Spec => []TypeOK
BY TypeInit, TypeNext, PTL DEF Spec
-----------------------------------------------------------------------------
\* The inductive invariant.

LEMMA InvInit == Init => IInv
<1> SUFFICES ASSUME Init PROVE IInv
  OBVIOUS
<1>1. TypeOK
  BY TypeInit
<1>2. InTurn
  BY SlotsAssumption DEF Init, InTurn, Span
<1>3. Separation /\ ReadFaithful /\ WriteFaithful
  BY DEF Init, Separation, ReadFaithful, WriteFaithful
<1>4. MemoryFaithful
  BY DEF Init, MemoryFaithful, StoredAtHead, Between, Index
<1>5. UsedAreElements
  BY DEF Init, UsedAreElements, Between, Index
<1> QED BY <1>1, <1>2, <1>3, <1>4, <1>5 DEF IInv

\* When the writer moves head on, the slot it leaves behind is complete.
LEMMA WrittenWhole ==
  ASSUME IInv, WriteDone
  PROVE  welems[whead] \in Element /\ welems[whead] \in Memory
<1>1. item \in Element /\ welems[whead] \in Memory
  BY DEF IInv, TypeOK, Indices, WriterTypeOK, WriteDone
<1>2. \A p \in 1 .. Parts : welems[whead][p] = item[p]
  BY DEF IInv, WriteFaithful, WriteDone
<1>3. /\ welems[whead] = [p \in 1 .. Parts |-> welems[whead][p]]
      /\ item = [p \in 1 .. Parts |-> item[p]]
  BY <1>1 DEF Element, Memory
<1>4. welems[whead] = item
  BY <1>2, <1>3
<1> QED BY <1>1, <1>4

\* When memory's head moves on, so is what memory has of that slot.
LEMMA LandedWhole ==
  ASSUME IInv, LandHead
  PROVE  elems[head] = welems[head]
<1>1. elems[head] \in Memory /\ welems[head] \in Memory
  BY DEF IInv, TypeOK, Indices, MemoryTypeOK, WriterTypeOK
<1>2. \A p \in 1 .. Parts : elems[head][p] = welems[head][p]
  BY DEF IInv, MemoryFaithful, LandHead
<1>3. /\ elems[head] = [p \in 1 .. Parts |-> elems[head][p]]
      /\ welems[head] = [p \in 1 .. Parts |-> welems[head][p]]
  BY <1>1 DEF Memory
<1> QED BY <1>2, <1>3

\* The writer stores a part of a slot that is neither readable nor in use,
\* and of which, should memory be at it, that part has not landed.
LEMMA WritePartKeeps == IInv /\ WritePart => IInv'
<1> SUFFICES ASSUME IInv, WritePart PROVE IInv'
  OBVIOUS
<1> USE DEF IInv
<1>0. TypeOK'
  BY TypeNext DEF Next, Writer
<1>1. /\ UNCHANGED <<memory, reader, whead, wpc, item>>
      /\ wpc = "copying" /\ wpart \in Nat /\ wpart < Parts /\ wpart' = wpart + 1
      /\ welems \in [Index -> Memory]
  BY DEF WritePart, TypeOK, WriterTypeOK
<1>2. whead \in Index /\ head \in Index /\ rtail \in Index
  BY DEF TypeOK, Indices
<1>3. \A s \in Index : s # whead => welems'[s] = welems[s]
  BY <1>1 DEF WritePart
<1>4. \A p \in 1 .. Parts :
         welems'[whead][p] = IF p = wpart + 1 THEN item[p] ELSE welems[whead][p]
  BY <1>1, <1>2, PartsAssumption DEF WritePart, Memory
<1>5. InTurn' /\ Separation' /\ ReadFaithful'
  BY <1>1 DEF memory, reader, InTurn, Span, Separation, Advance, ReadFaithful
<1>6. WriteFaithful'
  BY <1>1, <1>4, PartsAssumption DEF WriteFaithful
<1>7. MemoryFaithful'
  <2>1. landed \in Nat /\ landed <= StoredAtHead /\ (head = whead => landed <= wpart)
    BY <1>1 DEF TypeOK, MemoryTypeOK, MemoryFaithful, StoredAtHead
  <2>2. landed' <= StoredAtHead'
    BY <1>1, <2>1 DEF memory, StoredAtHead
  <2>3. \A p \in 1 .. landed : elems[head][p] = welems'[head][p]
    <3>1. CASE head = whead
      BY <1>1, <1>4, <2>1, <3>1, PartsAssumption DEF MemoryFaithful
    <3>2. CASE head # whead
      BY <1>2, <1>3, <3>2 DEF MemoryFaithful
    <3> QED BY <3>1, <3>2
  <2>4. \A s \in Index : Between(rtail, s, head) => s # whead
    <3>1. \A s \in Index : Between(rtail, s, head) => Between(rtail, s, whead)
      BY Turn DEF TypeOK
    <3> QED BY <1>2, <3>1, BetweenEnds
  <2>5. \A s \in Index : Between(rtail, s, head) => elems[s] = welems'[s]
    BY <1>3, <2>4 DEF MemoryFaithful
  <2> QED BY <1>1, <2>2, <2>3, <2>5 DEF memory, reader, MemoryFaithful, Between
<1>8. UsedAreElements'
  BY <1>1, <1>2, <1>3, BetweenEnds DEF reader, UsedAreElements, Between
<1> QED BY <1>0, <1>5, <1>6, <1>7, <1>8

\* The writer moves its head on.
LEMMA WriteDoneKeeps == IInv /\ WriteDone => IInv'
<1> SUFFICES ASSUME IInv, WriteDone PROVE IInv'
  OBVIOUS
<1> USE DEF IInv
<1>0. TypeOK'
  BY TypeNext DEF Next, Writer
<1>1. /\ UNCHANGED <<memory, reader, welems, item, wpart>>
      /\ wpc = "copying" /\ wpart = Parts /\ wpc' = "idle" /\ whead' = Advance(whead)
  BY DEF WriteDone
<1>2. head \in Index /\ tail \in Index /\ whead \in Index /\ rtail \in Index
  BY DEF TypeOK, Indices
<1>3. Advance(whead) # tail /\ Advance(whead) # head /\ Advance(whead) # rtail
  BY <1>1, Turn DEF Separation, TypeOK
<1>4. InTurn'
  <2>1. /\ Span(head, Advance(whead)) = Span(head, whead) + 1
        /\ Span(tail, Advance(whead)) = Span(tail, whead) + 1
    BY <1>2, <1>3, SpanMoves
  <2>2. /\ Span(tail, rtail) \in Nat /\ Span(rtail, head) \in Nat
        /\ Span(head, whead) \in Nat /\ Span(tail, whead) \in Nat
    BY <1>2, SpanBounds, SlotsAssumption
  <2>3. /\ Span(tail, rtail)' = Span(tail, rtail) /\ Span(rtail, head)' = Span(rtail, head)
        /\ Span(head, whead)' = Span(head, Advance(whead))
        /\ Span(tail, whead)' = Span(tail, Advance(whead))
    BY <1>1 DEF memory, reader, Span
  <2> QED BY <2>1, <2>2, <2>3 DEF InTurn
<1>5. Separation' /\ ReadFaithful' /\ WriteFaithful'
  BY <1>1 DEF memory, reader, Separation, ReadFaithful, WriteFaithful
<1>6. MemoryFaithful'
  <2>1. landed' <= StoredAtHead'
    BY <1>1, <1>2, <1>3, PartsAssumption
       DEF memory, MemoryFaithful, StoredAtHead, TypeOK, MemoryTypeOK
  <2> QED BY <1>1, <2>1 DEF memory, reader, MemoryFaithful, Between
<1>7. UsedAreElements'
  <2>1. \A s \in Index : Between(rtail, s, Advance(whead)) <=> Between(rtail, s, whead) \/ s = whead
    BY <1>2, <1>3, BetweenMoves
  <2>2. \A s \in Index : Between(rtail, s, Advance(whead)) => welems[s] \in Element
    BY <2>1, WrittenWhole DEF UsedAreElements
  <2> QED BY <1>1, <2>2 DEF reader, UsedAreElements, Between
<1> QED BY <1>0, <1>4, <1>5, <1>6, <1>7

\* The reader moves its tail on.
LEMMA ReadDoneKeeps == IInv /\ ReadDone => IInv'
<1> SUFFICES ASSUME IInv, ReadDone PROVE IInv'
  OBVIOUS
<1> USE DEF IInv
<1>0. TypeOK'
  BY TypeNext DEF Next, Reader
<1>1. /\ UNCHANGED <<memory, writer>>
      /\ rpc = "copying" /\ rpc' = "idle" /\ rtail' = Advance(rtail)
  BY DEF ReadDone
<1>2. head \in Index /\ tail \in Index /\ whead \in Index /\ rtail \in Index
  BY DEF TypeOK, Indices
<1>3. head # rtail
  BY <1>1 DEF Separation
<1>4. Advance(rtail) # tail /\ whead # rtail
  <2>1. /\ Span(rtail, head) \in Nat /\ Span(head, whead) \in Nat /\ Span(tail, rtail) \in Nat
        /\ Span(tail, whead) \in 0 .. Slots - 1 /\ Slots \in Nat
    BY <1>2, SpanBounds, SlotsAssumption
  <2>2. Span(rtail, head) # 0
    BY <1>2, <1>3, SpanBounds
  <2>3. Span(tail, rtail) # Slots - 1 /\ Span(rtail, whead) # 0
    BY <2>1, <2>2, Turn DEF InTurn, TypeOK
  <2> QED BY <1>2, <2>3, SpanBounds
<1>5. InTurn'
  <2>1. /\ Span(tail, Advance(rtail)) = Span(tail, rtail) + 1
        /\ Span(Advance(rtail), head) = Span(rtail, head) - 1
    BY <1>2, <1>3, <1>4, SpanMoves
  <2>2. /\ Span(tail, rtail) \in Nat /\ Span(rtail, head) \in Nat
        /\ Span(head, whead) \in Nat /\ Span(tail, whead) \in Nat
    BY <1>2, SpanBounds, SlotsAssumption
  <2>3. /\ Span(head, whead)' = Span(head, whead) /\ Span(tail, whead)' = Span(tail, whead)
        /\ Span(tail, rtail)' = Span(tail, Advance(rtail))
        /\ Span(rtail, head)' = Span(Advance(rtail), head)
    BY <1>1 DEF memory, writer, Span
  <2> QED BY <2>1, <2>2, <2>3 DEF InTurn
<1>6. Separation' /\ ReadFaithful' /\ WriteFaithful'
  BY <1>1 DEF memory, writer, Separation, Advance, ReadFaithful, WriteFaithful
<1>7. MemoryFaithful'
  <2>1. \A s \in Index : Between(Advance(rtail), s, head) => Between(rtail, s, head)
    BY <1>2, <1>3, BetweenMoves
  <2>2. \A s \in Index : Between(Advance(rtail), s, head) => elems[s] = welems[s]
    BY <2>1 DEF MemoryFaithful
  <2> QED BY <1>1, <2>2 DEF memory, writer, MemoryFaithful, StoredAtHead, Between
<1>8. UsedAreElements'
  <2>1. \A s \in Index : Between(Advance(rtail), s, whead) => Between(rtail, s, whead)
    BY <1>2, <1>4, BetweenMoves
  <2>2. \A s \in Index : Between(Advance(rtail), s, whead) => welems[s] \in Element
    BY <2>1 DEF UsedAreElements
  <2> QED BY <1>1, <2>2 DEF writer, UsedAreElements, Between
<1> QED BY <1>0, <1>5, <1>6, <1>7, <1>8

\* A part lands in the slot at head, which no read can reach yet.
LEMMA LandPartKeeps == IInv /\ LandPart => IInv'
<1> SUFFICES ASSUME IInv, LandPart PROVE IInv'
  OBVIOUS
<1> USE DEF IInv
<1>0. TypeOK'
  BY TypeNext DEF Next, Land
<1>1. /\ UNCHANGED <<head, tail, writer, reader>>
      /\ landed \in Nat /\ landed < StoredAtHead /\ landed' = landed + 1
      /\ head \in Index /\ rtail \in Index /\ elems \in [Index -> Memory]
  BY DEF LandPart, TypeOK, Indices, MemoryTypeOK
<1>2. \A s \in Index : s # head => elems'[s] = elems[s]
  BY <1>1 DEF LandPart
<1>3. StoredAtHead \in 0 .. Parts
  BY PartsAssumption DEF TypeOK, WriterTypeOK, StoredAtHead
<1>4. \A p \in 1 .. Parts :
         elems'[head][p] = IF p = landed + 1 THEN welems[head][p] ELSE elems[head][p]
  BY <1>1, <1>3, PartsAssumption DEF LandPart, Memory
<1>5. InTurn' /\ Separation' /\ WriteFaithful' /\ UsedAreElements'
  BY <1>1 DEF writer, reader, InTurn, Span, Separation, Advance, WriteFaithful,
              UsedAreElements, Between
<1>6. ReadFaithful'
  BY <1>1, <1>2 DEF reader, ReadFaithful, Separation
<1>7. MemoryFaithful'
  <2>1. StoredAtHead' = StoredAtHead
    BY <1>1 DEF writer, StoredAtHead
  <2>2. landed' <= StoredAtHead'
    BY <1>1, <1>3, <2>1
  <2>3. \A p \in 1 .. landed + 1 : elems'[head][p] = welems[head][p]
    BY <1>1, <1>3, <1>4, PartsAssumption DEF MemoryFaithful
  <2>4. \A s \in Index : Between(rtail, s, head) => elems'[s] = welems[s]
    BY <1>1, <1>2, BetweenEnds DEF MemoryFaithful
  <2> QED BY <1>1, <2>2, <2>3, <2>4 DEF writer, reader, MemoryFaithful, Between
<1> QED BY <1>0, <1>5, <1>6, <1>7

\* Memory's head moves on: one more element within the reader's reach.
LEMMA LandHeadKeeps == IInv /\ LandHead => IInv'
<1> SUFFICES ASSUME IInv, LandHead PROVE IInv'
  OBVIOUS
<1> USE DEF IInv
<1>0. TypeOK'
  BY TypeNext DEF Next, Land
<1>1. /\ UNCHANGED <<tail, elems, writer, reader>>
      /\ head # whead /\ head' = Advance(head) /\ landed' = 0
  BY DEF LandHead
<1>2. head \in Index /\ tail \in Index /\ whead \in Index /\ rtail \in Index
  BY DEF TypeOK, Indices
<1>3. Advance(head) # rtail
  <2>1. /\ Span(rtail, head) \in Nat /\ Span(head, whead) \in Nat
        /\ Span(rtail, whead) \in 0 .. Slots - 1 /\ Slots \in Nat
    BY <1>2, SpanBounds, SlotsAssumption
  <2>2. Span(head, whead) # 0
    BY <1>1, <1>2, SpanBounds
  <2>3. Span(rtail, head) # Slots - 1
    BY <2>1, <2>2, Turn DEF TypeOK
  <2> QED BY <1>2, <2>3, SpanBounds
<1>4. InTurn'
  <2>1. /\ Span(rtail, Advance(head)) = Span(rtail, head) + 1
        /\ Span(Advance(head), whead) = Span(head, whead) - 1
    BY <1>1, <1>2, <1>3, SpanMoves
  <2>2. /\ Span(tail, rtail) \in Nat /\ Span(rtail, head) \in Nat
        /\ Span(head, whead) \in Nat /\ Span(tail, whead) \in Nat
    BY <1>2, SpanBounds, SlotsAssumption
  <2>3. /\ Span(tail, rtail)' = Span(tail, rtail) /\ Span(tail, whead)' = Span(tail, whead)
        /\ Span(rtail, head)' = Span(rtail, Advance(head))
        /\ Span(head, whead)' = Span(Advance(head), whead)
    BY <1>1 DEF writer, reader, Span
  <2> QED BY <2>1, <2>2, <2>3 DEF InTurn
<1>5. Separation'
  BY <1>1, <1>3 DEF writer, reader, Separation, Advance
<1>6. ReadFaithful' /\ WriteFaithful' /\ UsedAreElements'
  BY <1>1 DEF writer, reader, ReadFaithful, WriteFaithful, UsedAreElements, Between
<1>7. MemoryFaithful'
  <2>1. landed' <= StoredAtHead'
    BY <1>0, <1>1, PartsAssumption DEF TypeOK, WriterTypeOK, StoredAtHead
  <2>2. \A s \in Index : Between(rtail, s, Advance(head)) <=> Between(rtail, s, head) \/ s = head
    BY <1>2, <1>3, BetweenMoves
  <2>3. \A s \in Index : Between(rtail, s, Advance(head)) => elems[s] = welems[s]
    BY <2>2, LandedWhole DEF MemoryFaithful
  <2> QED BY <1>1, <2>1, <2>3 DEF writer, reader, MemoryFaithful, Between
<1> QED BY <1>0, <1>4, <1>5, <1>6, <1>7

\* Memory's tail moves on: one more place for the writer.
LEMMA LandTailKeeps == IInv /\ LandTail => IInv'
<1> SUFFICES ASSUME IInv, LandTail PROVE IInv'
  OBVIOUS
<1> USE DEF IInv
<1>0. TypeOK'
  BY TypeNext DEF Next, Land
<1>1. /\ UNCHANGED <<head, elems, landed, writer, reader>>
      /\ tail # rtail /\ tail' = Advance(tail)
  BY DEF LandTail
<1>2. head \in Index /\ tail \in Index /\ whead \in Index /\ rtail \in Index
  BY DEF TypeOK, Indices
<1>3. tail # whead
  <2>1. /\ Span(tail, rtail) \in Nat /\ Span(rtail, whead) \in Nat
    BY <1>2, SpanBounds, SlotsAssumption
  <2>2. Span(tail, rtail) # 0
    BY <1>1, <1>2, SpanBounds
  <2>3. Span(tail, whead) # 0
    BY <2>1, <2>2, Turn DEF TypeOK
  <2> QED BY <1>2, <2>3, SpanBounds
<1>4. InTurn'
  <2>1. /\ Span(Advance(tail), rtail) = Span(tail, rtail) - 1
        /\ Span(Advance(tail), whead) = Span(tail, whead) - 1
    BY <1>1, <1>2, <1>3, SpanMoves
  <2>2. /\ Span(tail, rtail) \in Nat /\ Span(rtail, head) \in Nat
        /\ Span(head, whead) \in Nat /\ Span(tail, whead) \in Nat
    BY <1>2, SpanBounds, SlotsAssumption
  <2>3. /\ Span(rtail, head)' = Span(rtail, head) /\ Span(head, whead)' = Span(head, whead)
        /\ Span(tail, rtail)' = Span(Advance(tail), rtail)
        /\ Span(tail, whead)' = Span(Advance(tail), whead)
    BY <1>1 DEF writer, reader, Span
  <2> QED BY <2>1, <2>2, <2>3 DEF InTurn
<1>5. Separation'
  <2>1. Advance(whead) # Advance(tail)
    BY <1>2, <1>3, AdvanceWraps, SlotsAssumption DEF Index
  <2> QED BY <1>1, <2>1 DEF writer, reader, Separation, Advance
<1>6. ReadFaithful' /\ WriteFaithful' /\ MemoryFaithful' /\ UsedAreElements'
  BY <1>1 DEF writer, reader, ReadFaithful, WriteFaithful, MemoryFaithful, StoredAtHead,
              UsedAreElements, Between
<1> QED BY <1>0, <1>4, <1>5, <1>6

LEMMA InvNext == IInv /\ [Next]_vars => IInv'
<1> SUFFICES ASSUME IInv, [Next]_vars PROVE IInv'
  OBVIOUS
<1>0. TypeOK'
  BY TypeNext DEF IInv
<1> USE DEF IInv, memory, writer, reader, InTurn, Span, Separation, Advance, ReadFaithful,
            WriteFaithful, MemoryFaithful, StoredAtHead, UsedAreElements, Between
<1>1. CASE WriteFull
  BY <1>0, <1>1 DEF WriteFull
<1>2. ASSUME NEW e \in Element, WriteBegin(e) PROVE IInv'
  BY <1>0, <1>2 DEF WriteBegin
<1>3. CASE ReadEmpty
  BY <1>0, <1>3 DEF ReadEmpty
<1>4. CASE ReadBegin
  BY <1>0, <1>4 DEF ReadBegin
<1>5. CASE ReadPart
  <2>1. InTurn' /\ Separation' /\ WriteFaithful' /\ MemoryFaithful' /\ UsedAreElements'
    BY <1>5 DEF ReadPart
  <2>2. ReadFaithful'
    <3>1. /\ rpart \in Nat /\ rpart < Parts /\ rpart' = rpart + 1
          /\ elems' = elems /\ rtail' = rtail /\ rpc = "copying"
      BY <1>5 DEF ReadPart, TypeOK, ReaderTypeOK
    <3>2. \A p \in 1 .. Parts :
            out'[p] = IF p = rpart + 1 THEN elems[rtail][p] ELSE out[p]
      BY <1>5, <3>1 DEF ReadPart, TypeOK, ReaderTypeOK, Memory
    <3> QED BY <3>1, <3>2, PartsAssumption
  <2> QED BY <1>0, <2>1, <2>2
<1>6. CASE UNCHANGED vars
  BY <1>0, <1>6 DEF vars
<1>7. (WritePart \/ WriteDone \/ ReadDone \/ Land) => IInv'
  BY WritePartKeeps, WriteDoneKeeps, ReadDoneKeeps, LandPartKeeps, LandHeadKeeps,
     LandTailKeeps DEF Land
<1> QED BY <1>1, <1>2, <1>3, <1>4, <1>5, <1>6, <1>7 DEF Next, Writer, Reader

\* Whatever a read can reach was written whole and is in memory as the writer
\* stored it, a copy in progress agrees with its slot, and around the ring the
\* two threads' indexes and memory's keep their order.
THEOREM InvariantHolds == Spec => []IInv
BY InvInit, InvNext, PTL DEF Spec

\* The ring needs neither lock nor fence: no slot is read while it is written
\* or while what was written to it is still in a store buffer.
THEOREM RaceFree == Spec => []NoRace
<1>1. IInv => NoRace
  <2> SUFFICES ASSUME IInv, rpc = "copying"
               PROVE  ~Between(head, rtail, whead) /\ ~(wpc = "copying" /\ rtail = whead)
    BY DEF NoRace
  <2>1. head # rtail /\ head \in Index /\ rtail \in Index /\ whead \in Index
    BY DEF IInv, Separation, TypeOK, Indices
  <2>2. Between(rtail, rtail, head)
    BY <2>1, BetweenEnds
  <2>3. ~Between(head, rtail, whead) /\ Between(rtail, rtail, whead)
    BY <2>1, <2>2, Turn DEF IInv, TypeOK
  <2> QED BY <2>1, <2>3, BetweenEnds
<1> QED BY <1>1, InvariantHolds, PTL
-----------------------------------------------------------------------------
\* The refinement: what each step does to the contents of the ring.

LEMMA IntervalLength ==
  ASSUME NEW m \in Nat, NEW n \in Nat, 1 .. m = 1 .. n
  PROVE  m = n
<1>1. m \in 1 .. m \/ m = 0
  OBVIOUS
<1>2. n \in 1 .. n \/ n = 0
  OBVIOUS
<1> QED BY <1>1, <1>2

Stored == Span(rtail, whead)

LEMMA StoredSlots ==
  ASSUME TypeOK
  PROVE  /\ Stored \in 0 .. Slots - 1
         /\ \A i \in 1 .. Stored : At(i) \in Index /\ Between(rtail, At(i), whead)
<1>1. whead \in Index /\ rtail \in Index
  BY DEF TypeOK, Indices
<1> QED BY <1>1, SlotsAssumption DEF Index, Stored, Span, At, Between

ContentsAgree == /\ Contents \in Seq(Memory)
                 /\ Len(Contents) = Stored
                 /\ \A i \in 1 .. Stored : Contents[i] = welems[At(i)]

LEMMA ContentsSeq == TypeOK => ContentsAgree
<1> SUFFICES ASSUME TypeOK PROVE ContentsAgree
  OBVIOUS
<1>1. Stored \in Nat /\ \A i \in 1 .. Stored : At(i) \in Index
  BY StoredSlots, SlotsAssumption
<1>2. welems \in [Index -> Memory]
  BY DEF TypeOK, WriterTypeOK
<1>3. Contents \in [1 .. Stored -> Memory]
  BY <1>1, <1>2 DEF Contents, Stored
<1>4. Contents \in Seq(Memory)
  BY <1>1, <1>3, SeqDef
<1>5. 1 .. Len(Contents) = 1 .. Stored /\ Len(Contents) \in Nat
  BY <1>3, <1>4, LenProperties
<1>6. Len(Contents) = Stored
  BY <1>1, <1>5, IntervalLength
<1> QED BY <1>4, <1>6 DEF Contents, ContentsAgree, Stored

\* A step that keeps both threads' indexes and the slots in use keeps the
\* contents.
LEMMA ContentsKept ==
  ASSUME TypeOK, whead' = whead, rtail' = rtail,
         \A s \in Index : Between(rtail, s, whead) => welems'[s] = welems[s]
  PROVE  Contents' = Contents
<1>1. Stored' = Stored /\ \A i \in 1 .. Stored : At(i)' = At(i)
  BY DEF Stored, Span, At
<1>2. \A i \in 1 .. Stored : welems'[At(i)] = welems[At(i)]
  BY StoredSlots
<1> QED BY <1>1, <1>2 DEF Contents, Stored

LEMMA SendStep ==
  ASSUME IInv, WriteDone, TypeOK'
  PROVE  /\ Contents' = Append(Contents, welems[whead])
         /\ welems[whead] \in Element
         /\ Len(Contents) + Span(tail, rtail) < Slots - 1
<1>1. /\ tail \in Index /\ whead \in Index /\ rtail \in Index
      /\ whead' = Advance(whead) /\ rtail' = rtail /\ welems' = welems
      /\ Advance(whead) # tail /\ Advance(whead) # rtail
      /\ whead' = IF whead = Slots - 1 THEN 0 ELSE whead + 1
  BY AdvanceWraps, Turn DEF IInv, TypeOK, Indices, Separation, WriteDone, reader
<1>2. /\ Stored' = Stored + 1
      /\ \A i \in 1 .. Stored + 1 : At(i)' = IF i = Stored + 1 THEN whead ELSE At(i)
  BY <1>1, SlotsAssumption DEF Index, Stored, Span, At
<1>3. /\ Contents \in Seq(Memory) /\ Len(Contents) = Stored
      /\ \A i \in 1 .. Stored : Contents[i] = welems[At(i)]
  BY ContentsSeq DEF IInv, ContentsAgree
<1>4. /\ Contents' \in Seq(Memory) /\ Len(Contents') = Stored'
      /\ \A i \in 1 .. Stored' : Contents'[i] = welems'[At(i)']
  <2>1. ContentsAgree'
    BY ContentsSeq, PTL
  <2> QED BY <2>1 DEF ContentsAgree, Memory
<1>5. welems[whead] \in Element /\ welems[whead] \in Memory
  BY WrittenWhole
<1>6. Stored \in 0 .. Slots - 1
  BY StoredSlots DEF IInv
<1>7. Stored + Span(tail, rtail) < Slots - 1
  <2>1. Span(tail, whead) \in 0 .. Slots - 1 /\ Span(tail, whead) # Slots - 1
    BY <1>1, SpanBounds
  <2>2. Span(tail, whead) = Span(tail, rtail) + Stored /\ Span(tail, rtail) \in 0 .. Slots - 1
    BY <1>1, SpanBounds, Turn DEF IInv, TypeOK, Stored
  <2> QED BY <1>6, <2>1, <2>2, SlotsAssumption
<1> DEFINE app == Append(Contents, welems[whead])
<1>8. /\ app \in Seq(Memory) /\ Len(app) = Stored + 1
      /\ \A i \in 1 .. Stored : app[i] = Contents[i]
      /\ app[Stored + 1] = welems[whead]
  BY <1>3, <1>5, AppendProperties
<1> HIDE DEF app
<1>9. \A i \in 1 .. Stored + 1 : Contents'[i] = app[i]
  <2> SUFFICES ASSUME NEW i \in 1 .. Stored + 1 PROVE Contents'[i] = app[i]
    OBVIOUS
  <2>1. Contents'[i] = welems[At(i)']
    BY <1>1, <1>2, <1>4
  <2>2. CASE i = Stored + 1
    BY <2>1, <2>2, <1>2, <1>8
  <2>3. CASE i # Stored + 1
    <3>1. i \in 1 .. Stored /\ At(i)' = At(i)
      BY <2>3, <1>2, <1>6, SlotsAssumption
    <3> QED BY <2>1, <3>1, <1>3, <1>8
  <2> QED BY <2>2, <2>3
<1>10. Contents' = app
  BY <1>2, <1>4, <1>8, <1>9, SeqEqual
<1> QED BY <1>3, <1>5, <1>7, <1>10 DEF app

LEMMA ReceiveStep ==
  ASSUME IInv, ReadDone, TypeOK'
  PROVE  /\ Contents' = Tail(Contents) /\ rres' = Head(Contents)
         /\ Span(rtail, head) > 0
         /\ Span(rtail, head)' = Span(rtail, head) - 1
         /\ Span(tail, rtail)' = Span(tail, rtail) + 1
<1>1. /\ head \in Index /\ tail \in Index /\ whead \in Index /\ rtail \in Index
      /\ head # rtail /\ rtail' = Advance(rtail)
      /\ head' = head /\ tail' = tail /\ whead' = whead /\ welems' = welems
      /\ rtail' = IF rtail = Slots - 1 THEN 0 ELSE rtail + 1
  BY AdvanceWraps DEF IInv, TypeOK, Indices, Separation, ReadDone, memory, writer
<1>2. Span(rtail, head) \in Nat /\ Span(rtail, head) > 0
  BY <1>1, SpanBounds, SlotsAssumption
<1>3. rtail # whead /\ Advance(rtail) # tail
  <2>1. /\ Span(head, whead) \in Nat /\ Span(tail, rtail) \in Nat
        /\ Span(tail, whead) \in 0 .. Slots - 1 /\ Slots \in Nat
    BY <1>1, SpanBounds, SlotsAssumption
  <2>2. Span(rtail, whead) # 0 /\ Span(tail, rtail) # Slots - 1
    BY <1>2, <2>1, Turn DEF IInv, TypeOK
  <2> QED BY <1>1, <2>2, SpanBounds
<1>4. /\ Span(rtail, head)' = Span(rtail, head) - 1
      /\ Span(tail, rtail)' = Span(tail, rtail) + 1
  <2>1. /\ Span(Advance(rtail), head) = Span(rtail, head) - 1
        /\ Span(tail, Advance(rtail)) = Span(tail, rtail) + 1
    BY <1>1, <1>3, SpanMoves
  <2> QED BY <1>1, <2>1 DEF Span
<1>5. /\ Stored \in Nat /\ Stored > 0 /\ Stored' = Stored - 1 /\ At(1) = rtail
      /\ \A i \in 1 .. Stored - 1 : At(i)' = At(i + 1)
  BY <1>1, <1>3, SlotsAssumption DEF Index, Stored, Span, At
<1>6. /\ Contents \in Seq(Memory) /\ Len(Contents) = Stored
      /\ \A i \in 1 .. Stored : Contents[i] = welems[At(i)]
  BY ContentsSeq DEF IInv, ContentsAgree
<1>7. /\ Contents' \in Seq(Memory) /\ Len(Contents') = Stored'
      /\ \A i \in 1 .. Stored' : Contents'[i] = welems'[At(i)']
  <2>1. ContentsAgree'
    BY ContentsSeq, PTL
  <2> QED BY <2>1 DEF ContentsAgree, Memory
<1>8. Contents # <<>>
  BY <1>5, <1>6
<1>9. /\ Tail(Contents) \in Seq(Memory) /\ Len(Tail(Contents)) = Stored - 1
      /\ \A i \in 1 .. Stored - 1 : Tail(Contents)[i] = Contents[i + 1]
  BY <1>6, <1>8, HeadTailProperties
<1>10. \A i \in 1 .. Stored - 1 : Contents'[i] = Tail(Contents)[i]
  BY <1>1, <1>5, <1>6, <1>7, <1>9
<1>11. Contents' = Tail(Contents)
  BY <1>5, <1>7, <1>9, <1>10, SeqEqual
<1>12. rres' = Head(Contents)
  <2>1. rres' = out /\ \A p \in 1 .. Parts : out[p] = elems[rtail][p]
    BY DEF ReadDone, IInv, ReadFaithful
  <2>2. elems[rtail] = welems[rtail]
    BY <1>1, BetweenEnds DEF IInv, MemoryFaithful
  <2>3. out \in Memory /\ welems[rtail] \in Memory
    BY <1>1 DEF IInv, TypeOK, ReaderTypeOK, WriterTypeOK
  <2>4. /\ out = [p \in 1 .. Parts |-> out[p]]
        /\ welems[rtail] = [p \in 1 .. Parts |-> welems[rtail][p]]
    BY <2>3 DEF Memory
  <2>5. out = welems[rtail]
    BY <2>1, <2>2, <2>4
  <2>6. Head(Contents) = Contents[1]
    BY <1>6, <1>8
  <2> QED BY <1>5, <1>6, <2>1, <2>5, <2>6
<1> QED BY <1>2, <1>4, <1>11, <1>12

\* A store reaching memory moves nothing but the point up to which the
\* contents arrived, or the number of places the writer has not heard of.
LEMMA ArriveStep ==
  ASSUME IInv, LandHead
  PROVE  /\ Contents' = Contents
         /\ Span(rtail, head) < Len(Contents)
         /\ Span(rtail, head)' = Span(rtail, head) + 1
         /\ Span(tail, rtail)' = Span(tail, rtail)
<1>1. /\ head \in Index /\ whead \in Index /\ rtail \in Index
      /\ head # whead /\ head' = Advance(head)
      /\ tail' = tail /\ rtail' = rtail /\ whead' = whead /\ welems' = welems
  BY DEF IInv, TypeOK, Indices, LandHead, writer, reader
<1>2. /\ Span(rtail, head) \in Nat /\ Span(head, whead) \in Nat /\ Span(head, whead) # 0
      /\ Span(rtail, whead) \in 0 .. Slots - 1 /\ Slots \in Nat
      /\ Span(rtail, whead) = Span(rtail, head) + Span(head, whead)
  BY <1>1, SpanBounds, Turn, SlotsAssumption DEF IInv, TypeOK
<1>3. Advance(head) # rtail
  BY <1>1, <1>2, SpanBounds
<1>4. Contents' = Contents
  BY <1>1, ContentsKept DEF IInv
<1>5. Len(Contents) = Span(rtail, whead)
  BY ContentsSeq DEF IInv, ContentsAgree, Stored
<1>6. Span(rtail, Advance(head)) = Span(rtail, head) + 1
  BY <1>1, <1>3, SpanMoves
<1> QED BY <1>1, <1>2, <1>4, <1>5, <1>6 DEF Span

LEMMA ReturnStep ==
  ASSUME IInv, LandTail
  PROVE  /\ Contents' = Contents
         /\ Span(tail, rtail) > 0
         /\ Span(tail, rtail)' = Span(tail, rtail) - 1
         /\ Span(rtail, head)' = Span(rtail, head)
<1>1. /\ tail \in Index /\ rtail \in Index /\ tail # rtail /\ tail' = Advance(tail)
      /\ head' = head /\ rtail' = rtail /\ whead' = whead /\ welems' = welems
  BY DEF IInv, TypeOK, Indices, LandTail, writer, reader
<1>2. Span(tail, rtail) \in Nat /\ Span(tail, rtail) # 0
  BY <1>1, SpanBounds, SlotsAssumption
<1>3. Contents' = Contents
  BY <1>1, ContentsKept DEF IInv
<1>4. Span(Advance(tail), rtail) = Span(tail, rtail) - 1
  BY <1>1, SpanMoves
<1> QED BY <1>1, <1>2, <1>3, <1>4 DEF Span

LEMMA RefineInit == Init => Chan!Init
<1> SUFFICES ASSUME Init PROVE Chan!Init
  OBVIOUS
<1>1. TypeOK /\ Stored = 0 /\ Span(rtail, head) = 0 /\ Span(tail, rtail) = 0
  BY TypeInit DEF Init, Stored, Span
<1>2. Contents = <<>>
  BY <1>1, ContentsSeq, EmptySeq DEF ContentsAgree
<1> QED BY <1>1, <1>2 DEF Init, Chan!Init

LEMMA RefineNext ==
  IInv /\ IInv' /\ [Next]_vars => [Chan!Next]_(Chan!chanVars)
<1> DEFINE seen == Span(rtail, head)
           owed == Span(tail, rtail)
<1> SUFFICES ASSUME IInv, IInv', [Next]_vars
             PROVE  Chan!Next \/ UNCHANGED <<Contents, seen, owed, wres, rres>>
  BY DEF Chan!chanVars
<1>0. /\ head \in Index /\ tail \in Index /\ whead \in Index /\ rtail \in Index
      /\ Len(Contents) = Stored
  BY ContentsSeq DEF IInv, TypeOK, Indices, ContentsAgree
<1>a. UNCHANGED <<head, tail, rtail>> => UNCHANGED <<seen, owed>>
  BY DEF Span
<1>b. UNCHANGED <<rtail, whead, welems>> => Contents' = Contents
  BY ContentsKept DEF IInv
<1> HIDE DEF seen, owed
<1> USE DEF memory, writer, reader
<1>1. CASE WriteFull
  <2>1. Span(tail, whead) = Slots - 1
    BY <1>0, <1>1, SpanBounds DEF WriteFull
  <2>2. Len(Contents) + owed = Slots - 1
    <3>1. Span(tail, whead) = owed + Stored /\ owed \in 0 .. Slots - 1 /\ Stored \in 0 .. Slots - 1
      BY <1>0, SpanBounds, Turn DEF IInv, TypeOK, Stored, owed
    <3> QED BY <1>0, <2>1, <3>1, SlotsAssumption
  <2> QED BY <1>1, <1>a, <1>b, <2>2 DEF WriteFull, Chan!Next, Chan!Refuse, seen, owed
<1>2. ASSUME NEW e \in Element, WriteBegin(e)
      PROVE  UNCHANGED <<Contents, seen, owed, wres, rres>>
  BY <1>2, <1>a, <1>b DEF WriteBegin
<1>3. CASE WritePart
  <2>1. \A s \in Index : Between(rtail, s, whead) => welems'[s] = welems[s]
    BY <1>3, <1>0, BetweenEnds DEF WritePart, IInv, TypeOK, WriterTypeOK
  <2>2. Contents' = Contents
    BY <1>3, <2>1, ContentsKept DEF WritePart, IInv
  <2> QED BY <1>3, <1>a, <2>2 DEF WritePart
<1>4. CASE WriteDone
  <2>1. \E e \in Element : Chan!Send(e)
    BY <1>4, <1>a, SendStep DEF IInv, WriteDone, Chan!Send, seen, owed
  <2> QED BY <2>1 DEF Chan!Next
<1>5. CASE ReadEmpty
  <2>1. seen = 0
    BY <1>0, <1>5, SpanBounds DEF ReadEmpty, seen
  <2> QED BY <1>5, <1>a, <1>b, <2>1 DEF ReadEmpty, Chan!Next, Chan!NothingYet, seen, owed
<1>6. CASE ReadBegin
  BY <1>6, <1>a, <1>b DEF ReadBegin
<1>7. CASE ReadPart
  BY <1>7, <1>a, <1>b DEF ReadPart
<1>8. CASE ReadDone
  <2>1. Chan!Receive
    BY <1>8, ReceiveStep DEF IInv, ReadDone, Chan!Receive
  <2> QED BY <2>1 DEF Chan!Next
<1>9. CASE LandPart
  BY <1>9, <1>a, <1>b DEF LandPart
<1>10. CASE LandHead
  <2>1. Chan!Arrive
    BY <1>10, ArriveStep DEF LandHead, Chan!Arrive
  <2> QED BY <2>1 DEF Chan!Next
<1>11. CASE LandTail
  <2>1. Chan!Return
    BY <1>11, ReturnStep DEF LandTail, Chan!Return
  <2> QED BY <2>1 DEF Chan!Next
<1>12. CASE UNCHANGED vars
  BY <1>12, <1>a, <1>b DEF vars
<1> QED BY <1>1, <1>2, <1>3, <1>4, <1>5, <1>6, <1>7, <1>8, <1>9, <1>10, <1>11, <1>12
        DEF Next, Writer, Reader, Land

\* The ring is a first-in first-out channel of Slots - 1 elements: nothing
\* accepted is lost, duplicated, reordered or torn, whatever the sizes and
\* however late the stores of one thread become visible to the other.
THEOREM RingImplementsChannel == Spec => ImplementsChannel
BY RefineInit, RefineNext, InvariantHolds, PTL
   DEF Spec, ImplementsChannel, Chan!Spec
=============================================================================
