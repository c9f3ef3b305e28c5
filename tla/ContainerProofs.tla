-------------------------- MODULE ContainerProofs --------------------------
(***************************************************************************)
(* Proofs about what holds other data: Queue, for every number of threads  *)
(* and every size, and Tree, for any values, names and depth.  The two     *)
(* share nothing.                                                          *)
(***************************************************************************)
EXTENDS Queue, Tree, SequenceTheorems, FiniteSetTheorems, TLAPS

LEMMA Wraps ==
  ASSUME NEW i \in Index
  PROVE  /\ NextSlot(i) \in Index
         /\ NextSlot(i) = IF i = Size - 1 THEN 0 ELSE i + 1
<1>1. CASE i = Size - 1
  BY <1>1, SizeAssumption DEF NextSlot, Index
<1>2. CASE i # Size - 1
  BY <1>2, SizeAssumption DEF NextSlot, Index
<1> QED BY <1>1, <1>2

\* The remainder of what goes round the array at most once.
LEMMA Remainder ==
  ASSUME NEW k \in Nat, k < Size + Size
  PROVE  /\ k % Size \in Index
         /\ k % Size = IF k < Size THEN k ELSE k - Size
<1> USE SizeAssumption DEF Index
<1>1. CASE k < Size
  BY <1>1
<1>2. CASE ~(k < Size)
  <2>1. k - Size \in 0 .. Size - 1
    BY <1>2
  <2>2. k % Size = (k - Size) % Size
    BY <1>2
  <2> QED BY <1>2, <2>1, <2>2
<1> QED BY <1>1, <1>2

LEMMA AtWraps ==
  ASSUME tail \in Index, NEW i \in Nat, i < Size \/ i = Size
  PROVE  At(i) \in Index /\ At(i) = IF tail + i < Size THEN tail + i ELSE tail + i - Size
<1>1. tail + i \in Nat /\ tail + i < Size + Size
  BY SizeAssumption DEF Index
<1> DEFINE k == tail + i
<1>2. k \in Nat /\ k < Size + Size
  BY <1>1
<1> HIDE DEF k
<1>3. k % Size \in Index /\ k % Size = IF k < Size THEN k ELSE k - Size
  BY <1>2, Remainder
<1> QED BY <1>3, SizeAssumption DEF At, k, Index

\* What pthread_cond_signal and the end of a call do to pc.
LEMMA SignalTypes ==
  ASSUME TypeOK, NEW t \in Threads, SignalAndLeave(t)
  PROVE  /\ pc' \in [Threads -> {"out", "ready", "asleep", "woken"}]
         /\ pc'[t] = "out"
BY DEF SignalAndLeave, TypeOK, Asleep, AsleepOf
-----------------------------------------------------------------------------
LEMMA InvInit == Init => IInv
BY SizeAssumption DEF Init, IInv, TypeOK, At, Index

LEMMA PushInv ==
  ASSUME IInv, NEW p \in Producers, NEW b \in Buffer, Push(p, b)
  PROVE  IInv'
<1> USE SizeAssumption DEF IInv
<1>1. /\ head \in Index /\ tail \in Index /\ count \in 0 .. Size /\ p \in Threads
      /\ count < Size /\ tail' = tail /\ head' = NextSlot(head)
      /\ items' = [items EXCEPT ![head'] = b] /\ count' = count + 1
      /\ items \in [Index -> Buffer \cup {Nothing}]
      /\ alive' = alive /\ popped' = popped
  BY DEF TypeOK, Push, Threads
<1>0. count + 1 \in Nat /\ (count + 1 < Size \/ count + 1 = Size)
  BY <1>1
<1>2. pc' \in [Threads -> {"out", "ready", "asleep", "woken"}]
  BY <1>1, SignalTypes DEF Push
<1>3. head' \in Index
  BY <1>1, Wraps
<1>4. TypeOK'
  BY <1>1, <1>2, <1>3 DEF TypeOK
<1>5. \A i \in 0 .. Size : At(i)' = At(i)
  BY <1>1 DEF At
<1>6. head' = At(count + 1) /\ head' = At(count)'
  <2>1. head = IF tail + count < Size THEN tail + count ELSE tail + count - Size
    BY <1>1, AtWraps
  <2>2. At(count + 1) = IF tail + (count + 1) < Size THEN tail + (count + 1)
                                                    ELSE tail + (count + 1) - Size
    BY <1>0, <1>1, AtWraps
  <2> QED BY <1>1, <1>5, <2>1, <2>2, Wraps DEF Index
<1>7. \A i \in 1 .. count : At(i) # head' /\ At(i) \in Index
  <2> SUFFICES ASSUME NEW i \in 1 .. count PROVE At(i) # head' /\ At(i) \in Index
    OBVIOUS
  <2>1. At(i) \in Index /\ At(i) = IF tail + i < Size THEN tail + i ELSE tail + i - Size
    BY <1>1, AtWraps
  <2>2. At(count + 1) = IF tail + (count + 1) < Size THEN tail + (count + 1)
                                                    ELSE tail + (count + 1) - Size
    BY <1>0, <1>1, AtWraps
  <2> QED BY <1>1, <1>6, <2>1, <2>2 DEF Index
<1>8. \A i \in 1 .. count' : items'[At(i)'] \in Buffer
  <2> SUFFICES ASSUME NEW i \in 1 .. count' PROVE items'[At(i)'] \in Buffer
    OBVIOUS
  <2>1. CASE i \in 1 .. count
    BY <2>1, <1>1, <1>5, <1>7
  <2>2. CASE i = count + 1
    BY <2>2, <1>1, <1>3, <1>5, <1>6
  <2> QED BY <1>1, <2>1, <2>2
<1>9. alive
  BY <1>1 DEF Push, Awake
<1> QED BY <1>1, <1>4, <1>6, <1>8, <1>9

\* The slot that was one place further on is now one place nearer.
LEMMA PopShifts ==
  ASSUME IInv, NEW c \in Consumers, Pop(c), NEW i \in 0 .. count - 1
  PROVE  At(i)' = At(i + 1)
<1> USE SizeAssumption
<1>1. /\ tail \in Index /\ count \in 1 .. Size /\ tail' = NextSlot(tail)
  BY DEF IInv, TypeOK, Pop
<1>2. tail' \in Index /\ tail' = IF tail = Size - 1 THEN 0 ELSE tail + 1
  BY <1>1, Wraps
<1> DEFINE k == tail + (i + 1)
           l == tail' + i
<1>3. k \in Nat /\ k < Size + Size /\ l \in Nat /\ l < Size + Size
  BY <1>1, <1>2 DEF Index
<1>4. k = l \/ k = l + Size
  BY <1>1, <1>2 DEF Index
<1> HIDE DEF k, l
<1>5. k % Size = l % Size
  BY <1>3, <1>4, Remainder DEF Index
<1>6. At(i + 1) = k % Size /\ At(i)' = l % Size
  BY DEF At, k, l
<1> QED BY <1>5, <1>6

LEMMA PopInv ==
  ASSUME IInv, NEW c \in Consumers, Pop(c)
  PROVE  IInv'
<1> USE SizeAssumption DEF IInv
<1>1. /\ head \in Index /\ tail \in Index /\ count \in 1 .. Size /\ c \in Threads
      /\ tail' = NextSlot(tail) /\ head' = head /\ items' = items
      /\ count' = count - 1 /\ popped' = items[tail']
      /\ items \in [Index -> Buffer \cup {Nothing}]
      /\ alive' = alive
  BY DEF TypeOK, Pop, Threads
<1>2. pc' \in [Threads -> {"out", "ready", "asleep", "woken"}]
  BY <1>1, SignalTypes DEF Pop
<1>3. tail' \in Index
  BY <1>1, Wraps
<1>4. TypeOK'
  BY <1>1, <1>2, <1>3 DEF TypeOK
<1>5. \A i \in 0 .. count - 1 : At(i)' = At(i + 1)
  BY PopShifts
<1>6. head' = At(count)'
  BY <1>1, <1>5 DEF At
<1>7. \A i \in 1 .. count' : items'[At(i)'] \in Buffer
  BY <1>1, <1>5
<1>8. alive
  BY <1>1 DEF Pop, Awake
<1> QED BY <1>1, <1>4, <1>6, <1>7, <1>8

LEMMA DeleteInv ==
  ASSUME IInv, Delete
  PROVE  IInv'
<1>1. /\ tail \in Index /\ count \in 0 .. Size /\ head = At(count)
      /\ tail' = At(count) /\ head' = head /\ count' = 0
  BY DEF IInv, TypeOK, Delete, At
<1>2. tail' \in Index
  BY <1>1, AtWraps, SizeAssumption
<1>3. head' = At(count)'
  BY <1>1, <1>2, SizeAssumption DEF At, Index
<1>4. count' \in 0 .. Size /\ \A t \in Threads : pc'[t] = "out"
  BY <1>1, SizeAssumption DEF Delete
<1>5. TypeOK'
  BY <1>1, <1>2, <1>4 DEF IInv, TypeOK, Delete
<1> QED BY <1>1, <1>3, <1>4, <1>5 DEF IInv

LEMMA InvNext == IInv /\ [Next]_vars => IInv'
<1> SUFFICES ASSUME IInv, [Next]_vars PROVE IInv'
  OBVIOUS
<1>1. ASSUME NEW p \in Producers, NEW b \in Buffer, Push(p, b) PROVE IInv'
  BY <1>1, PushInv
<1>2. ASSUME NEW c \in Consumers, Pop(c) PROVE IInv'
  BY <1>2, PopInv
<1>3. ASSUME NEW t \in Threads, Call(t) \/ Wait(t) \/ WakeSpuriously(t) PROVE IInv'
  BY <1>3 DEF IInv, TypeOK, At, Call, Wait, WakeSpuriously, fields, Awake
<1>4. CASE Delete
  BY <1>4, DeleteInv
<1>5. CASE UNCHANGED vars
  BY <1>5 DEF IInv, TypeOK, At, vars, fields
<1> QED BY <1>1, <1>2, <1>3, <1>4, <1>5 DEF Next, Producer, Consumer, Threads

\* head, tail and count agree at every moment, and every slot they call used
\* was filled: no pop returns a buffer nobody pushed.
THEOREM QueueInvariant == Spec => []IInv
BY InvInit, InvNext, PTL DEF Spec
-----------------------------------------------------------------------------
\* The refinement: what each step does to the contents of the queue.

LEMMA SameLength ==
  ASSUME NEW m \in Nat, NEW n \in Nat, 1 .. m = 1 .. n
  PROVE  m = n
<1>1. (m = 0 \/ m \in 1 .. m) /\ (n = 0 \/ n \in 1 .. n)
  OBVIOUS
<1> QED BY <1>1

ContentsAgree == /\ Contents \in Seq(Buffer)
                 /\ Len(Contents) = count
                 /\ \A i \in 1 .. count : Contents[i] = items[At(i)]

LEMMA ContentsSeq == IInv => ContentsAgree
<1> SUFFICES ASSUME IInv PROVE ContentsAgree
  OBVIOUS
<1>1. count \in Nat /\ \A i \in 1 .. count : items[At(i)] \in Buffer
  BY SizeAssumption DEF IInv, TypeOK
<1>2. Contents \in [1 .. count -> Buffer]
  BY <1>1 DEF Contents
<1>3. Contents \in Seq(Buffer)
  BY <1>1, <1>2, SeqDef
<1>4. 1 .. Len(Contents) = 1 .. count /\ Len(Contents) \in Nat
  BY <1>2, <1>3, LenProperties
<1>5. Len(Contents) = count
  BY <1>1, <1>4, SameLength
<1> QED BY <1>3, <1>5 DEF Contents, ContentsAgree

LEMMA ContentsKept ==
  ASSUME UNCHANGED fields PROVE Contents' = Contents
<1>1. count' = count /\ items' = items /\ \A i \in 1 .. count : At(i)' = At(i)
  BY DEF fields, At
<1> QED BY <1>1 DEF Contents

LEMMA PushAppends ==
  ASSUME IInv, IInv', NEW p \in Producers, NEW b \in Buffer, Push(p, b)
  PROVE  Contents' = Append(Contents, b)
<1>1. /\ count \in 0 .. Size - 1 /\ count' = count + 1 /\ tail' = tail
      /\ tail \in Index /\ head' \in Index /\ head' = At(count)'
      /\ items' = [items EXCEPT ![head'] = b]
      /\ items \in [Index -> Buffer \cup {Nothing}]
  BY SizeAssumption DEF IInv, TypeOK, Push
<1>2. \A i \in 1 .. count + 1 : At(i)' = At(i)
  BY <1>1 DEF At
<1>3. \A i \in 1 .. count : At(i) # head'
  <2> SUFFICES ASSUME NEW i \in 1 .. count PROVE At(i) # head'
    OBVIOUS
  <2>1. /\ i \in Nat /\ (i < Size \/ i = Size)
        /\ count + 1 \in Nat /\ (count + 1 < Size \/ count + 1 = Size)
    BY <1>1, SizeAssumption
  <2>2. At(i) = IF tail + i < Size THEN tail + i ELSE tail + i - Size
    BY <1>1, <2>1, AtWraps
  <2>3. At(count + 1) = IF tail + (count + 1) < Size THEN tail + (count + 1)
                                                    ELSE tail + (count + 1) - Size
    BY <1>1, <2>1, AtWraps
  <2>4. head' = At(count + 1)
    BY <1>1, <1>2 DEF At
  <2> QED BY <1>1, <2>2, <2>3, <2>4, SizeAssumption DEF Index
<1>4. /\ Contents \in Seq(Buffer) /\ Len(Contents) = count
      /\ \A i \in 1 .. count : Contents[i] = items[At(i)]
  BY ContentsSeq DEF ContentsAgree
<1>5. /\ Contents' \in Seq(Buffer) /\ Len(Contents') = count'
      /\ \A i \in 1 .. count' : Contents'[i] = items'[At(i)']
  <2>1. ContentsAgree'
    BY ContentsSeq, PTL
  <2> QED BY <2>1 DEF ContentsAgree
<1> DEFINE app == Append(Contents, b)
<1>6. /\ app \in Seq(Buffer) /\ Len(app) = count + 1
      /\ \A i \in 1 .. count : app[i] = Contents[i]
      /\ app[count + 1] = b
  BY <1>4, AppendProperties
<1> HIDE DEF app
<1>7. \A i \in 1 .. count + 1 : Contents'[i] = app[i]
  <2> SUFFICES ASSUME NEW i \in 1 .. count + 1 PROVE Contents'[i] = app[i]
    OBVIOUS
  <2>1. CASE i = count + 1
    BY <2>1, <1>1, <1>5, <1>6
  <2>2. CASE i # count + 1
    <3>1. i \in 1 .. count /\ At(i)' = At(i) /\ At(i) # head' /\ At(i) \in Index
      BY <2>2, <1>1, <1>2, <1>3, AtWraps, SizeAssumption
    <3> QED BY <3>1, <1>1, <1>4, <1>5, <1>6
  <2> QED BY <2>1, <2>2
<1>8. Contents' = app
  BY <1>1, <1>5, <1>6, <1>7, SeqEqual
<1> QED BY <1>8 DEF app

LEMMA PopTakesHead ==
  ASSUME IInv, IInv', NEW c \in Consumers, Pop(c)
  PROVE  Contents # <<>> /\ Contents' = Tail(Contents) /\ popped' = Head(Contents)
<1>1. /\ count \in Nat /\ count > 0 /\ count' = count - 1 /\ tail' = At(1)
      /\ items' = items /\ popped' = items[At(1)] /\ tail \in Index
  BY SizeAssumption DEF IInv, TypeOK, Pop, At, NextSlot
<1>2. \A i \in 1 .. count - 1 : At(i)' = At(i + 1)
  BY PopShifts DEF Pop
<1>3. /\ Contents \in Seq(Buffer) /\ Len(Contents) = count
      /\ \A i \in 1 .. count : Contents[i] = items[At(i)]
  BY ContentsSeq DEF ContentsAgree
<1>4. /\ Contents' \in Seq(Buffer) /\ Len(Contents') = count'
      /\ \A i \in 1 .. count' : Contents'[i] = items'[At(i)']
  <2>1. ContentsAgree'
    BY ContentsSeq, PTL
  <2> QED BY <2>1 DEF ContentsAgree
<1>5. Contents # <<>>
  BY <1>1, <1>3
<1>6. /\ Tail(Contents) \in Seq(Buffer) /\ Len(Tail(Contents)) = count - 1
      /\ \A i \in 1 .. count - 1 : Tail(Contents)[i] = Contents[i + 1]
  BY <1>3, <1>5, HeadTailProperties
<1>7. \A i \in 1 .. count - 1 : Contents'[i] = Tail(Contents)[i]
  BY <1>1, <1>2, <1>3, <1>4, <1>6
<1>8. Contents' = Tail(Contents)
  BY <1>1, <1>4, <1>6, <1>7, SeqEqual
<1>9. Head(Contents) = Contents[1]
  BY <1>3, <1>5
<1> QED BY <1>1, <1>3, <1>5, <1>8, <1>9

LEMMA RefineInit == Init => Fifo!Init
<1> SUFFICES ASSUME Init PROVE Fifo!Init
  OBVIOUS
<1>1. IInv /\ count = 0
  BY InvInit DEF Init
<1>2. Contents = <<>>
  BY <1>1, ContentsSeq, EmptySeq DEF ContentsAgree
<1> QED BY <1>2 DEF Init, Fifo!Init

LEMMA RefineNext == IInv /\ IInv' /\ [Next]_vars => [Fifo!Next]_(Fifo!fifoVars)
<1> SUFFICES ASSUME IInv, IInv', [Next]_vars
             PROVE  Fifo!Next \/ UNCHANGED <<Contents, popped, alive>>
  BY DEF Fifo!fifoVars
<1>1. ASSUME NEW p \in Producers, NEW b \in Buffer, Push(p, b) PROVE Fifo!Next
  <2>1. alive /\ Len(Contents) < Size /\ UNCHANGED <<popped, alive>>
    BY <1>1, ContentsSeq DEF ContentsAgree, IInv, Push, Threads, Awake
  <2> QED BY <1>1, <2>1, PushAppends DEF Fifo!Next, Fifo!Push
<1>2. ASSUME NEW c \in Consumers, Pop(c) PROVE Fifo!Next
  <2>1. alive /\ alive' = alive
    BY <1>2 DEF IInv, Pop, Threads, Awake
  <2> QED BY <1>2, <2>1, PopTakesHead DEF Fifo!Next, Fifo!Pop
<1>3. CASE Delete
  <2>1. ContentsAgree'
    BY ContentsSeq, PTL
  <2>2. Contents' = <<>>
    BY <1>3, <2>1, EmptySeq DEF Delete, ContentsAgree
  <2> QED BY <1>3, <2>2 DEF Delete, Fifo!Next, Fifo!Delete
<1>4. ASSUME NEW t \in Threads, Call(t) \/ Wait(t) \/ WakeSpuriously(t)
      PROVE  UNCHANGED <<Contents, popped, alive>>
  BY <1>4, ContentsKept DEF Call, Wait, WakeSpuriously
<1>5. CASE UNCHANGED vars
  BY <1>5, ContentsKept DEF vars
<1> QED BY <1>1, <1>2, <1>3, <1>4, <1>5 DEF Next, Producer, Consumer, Threads

\* The queue of queue.c is the blocking first-in first-out queue of queue.h:
\* no buffer is lost, duplicated or overtaken, for any number of threads.
THEOREM QueueImplementsFifo == Spec => ImplementsFifo
BY RefineInit, RefineNext, QueueInvariant, PTL
   DEF Spec, ImplementsFifo, Fifo!Spec
-----------------------------------------------------------------------------
\* Waiting.  X and Y stand for the two kinds of thread, either way round.

Kinds(X, Y) == /\ X \cup Y = Threads /\ X \cap Y = {}
               /\ X # {} /\ Y # {} /\ IsFiniteSet(X) /\ IsFiniteSet(Y)

LEMMA BothKinds == Kinds(Producers, Consumers) /\ Kinds(Consumers, Producers)
BY ThreadsAssumption DEF Kinds, Threads

PcTyped == pc \in [Threads -> {"out", "ready", "asleep", "woken"}]

LEMMA DisjointUnion ==
  ASSUME NEW S, NEW T, IsFiniteSet(S), IsFiniteSet(T), S \cap T = {}
  PROVE  Cardinality(S \cup T) = Cardinality(S) + Cardinality(T)
<1>1. Cardinality(S \cup T) = Cardinality(S) + Cardinality(T) - Cardinality(S \cap T)
  BY FS_Union
<1>2. Cardinality(S \cap T) = 0
  BY FS_EmptySet
<1>3. Cardinality(S) \in Nat /\ Cardinality(T) \in Nat
  BY FS_CardinalityType
<1> QED BY <1>1, <1>2, <1>3

\* The numbers the invariants compare are numbers, and they add up.
LEMMA Counts ==
  ASSUME NEW X, NEW Y, Kinds(X, Y)
  PROVE  /\ Cardinality(X) \in Nat /\ Cardinality(X) > 0 /\ Cardinality(Y) \in Nat
         /\ Cardinality(AsleepOf(X)) \in Nat /\ Cardinality(AsleepOf(Y)) \in Nat
         /\ Cardinality(AsleepOf(X)) <= Cardinality(X)
         /\ Cardinality(Asleep) = Cardinality(AsleepOf(X)) + Cardinality(AsleepOf(Y))
         /\ Cardinality(Y) = Cardinality(AsleepOf(Y)) + Cardinality(Y \ AsleepOf(Y))
         /\ Cardinality(Y \ AsleepOf(Y)) \in Nat /\ Cardinality(AwakeOf(Y)) \in Nat
         /\ AsleepOf(Y) # {} => Cardinality(AwakeOf(Y)) < Cardinality(Y)
         /\ (AsleepOf(X) = {} <=> Cardinality(AsleepOf(X)) = 0)
         /\ (AsleepOf(Y) = {} <=> Cardinality(AsleepOf(Y)) = 0)
<1> USE DEF Kinds
<1>1. /\ AsleepOf(X) \in SUBSET X /\ AsleepOf(Y) \in SUBSET Y
      /\ AwakeOf(Y) \in SUBSET Y /\ Y \ AsleepOf(Y) \in SUBSET Y
  BY DEF AsleepOf, AwakeOf
<1>2. /\ IsFiniteSet(AsleepOf(X)) /\ IsFiniteSet(AsleepOf(Y))
      /\ IsFiniteSet(AwakeOf(Y)) /\ IsFiniteSet(Y \ AsleepOf(Y))
      /\ Cardinality(AsleepOf(X)) <= Cardinality(X)
      /\ Cardinality(AwakeOf(Y)) <= Cardinality(Y)
      /\ Cardinality(Y) = Cardinality(AwakeOf(Y)) => Y = AwakeOf(Y)
  BY <1>1, FS_Subset
<1>3. /\ Cardinality(X) \in Nat /\ Cardinality(Y) \in Nat
      /\ Cardinality(AsleepOf(X)) \in Nat /\ Cardinality(AsleepOf(Y)) \in Nat
      /\ Cardinality(AwakeOf(Y)) \in Nat /\ Cardinality(Y \ AsleepOf(Y)) \in Nat
  BY <1>2, FS_CardinalityType
<1>4. /\ Cardinality(X) # 0
      /\ (AsleepOf(X) = {} <=> Cardinality(AsleepOf(X)) = 0)
      /\ (AsleepOf(Y) = {} <=> Cardinality(AsleepOf(Y)) = 0)
  BY <1>2, FS_EmptySet
<1>5. Cardinality(Asleep) = Cardinality(AsleepOf(X)) + Cardinality(AsleepOf(Y))
  <2>1. Asleep = AsleepOf(X) \cup AsleepOf(Y) /\ AsleepOf(X) \cap AsleepOf(Y) = {}
    BY DEF Asleep, AsleepOf
  <2> QED BY <1>2, <2>1, DisjointUnion
<1>6. Cardinality(Y) = Cardinality(AsleepOf(Y)) + Cardinality(Y \ AsleepOf(Y))
  <2>1. Y = AsleepOf(Y) \cup (Y \ AsleepOf(Y)) /\ AsleepOf(Y) \cap (Y \ AsleepOf(Y)) = {}
    BY <1>1
  <2> QED BY <1>2, <2>1, DisjointUnion
<1>7. AsleepOf(Y) # {} => Y # AwakeOf(Y)
  BY DEF AsleepOf, AwakeOf, Awake
<1> QED BY <1>2, <1>3, <1>4, <1>5, <1>6, <1>7

\* A thread that has done its work leaves, and one sleeper, if any, wakes.
LEMMA Leaves ==
  ASSUME PcTyped, NEW t \in Threads, pc[t] \in Awake, SignalAndLeave(t), Asleep # {}
  PROVE  \E w \in Asleep : \A T \in SUBSET Threads :
            /\ AsleepOf(T)' = AsleepOf(T) \ {w}
            /\ AwakeOf(T)' = (AwakeOf(T) \ {t}) \cup (T \cap {w})
<1>1. PICK w \in Asleep : pc' = [pc EXCEPT ![t] = "out", ![w] = "woken"]
  BY DEF SignalAndLeave
<1>2. w \in Threads /\ pc[w] = "asleep" /\ w # t
  BY <1>1 DEF Asleep, AsleepOf, Awake
<1>3. \A x \in Threads : pc'[x] = IF x = w THEN "woken" ELSE IF x = t THEN "out" ELSE pc[x]
  BY <1>1, <1>2 DEF PcTyped
<1> SUFFICES ASSUME NEW T \in SUBSET Threads
             PROVE  /\ AsleepOf(T)' = AsleepOf(T) \ {w}
                    /\ AwakeOf(T)' = (AwakeOf(T) \ {t}) \cup (T \cap {w})
  BY <1>1
<1>4. AsleepOf(T)' = AsleepOf(T) \ {w}
  BY <1>2, <1>3 DEF AsleepOf, Awake
<1>5. AwakeOf(T)' = (AwakeOf(T) \ {t}) \cup (T \cap {w})
  BY <1>2, <1>3 DEF AwakeOf, Awake
<1> QED BY <1>4, <1>5

LEMMA LeavesNobody ==
  ASSUME PcTyped, NEW t \in Threads, pc[t] \in Awake, SignalAndLeave(t), Asleep = {}
  PROVE  Asleep' = {} /\ \A T \in SUBSET Threads : AsleepOf(T)' = {}
BY DEF PcTyped, SignalAndLeave, Asleep, AsleepOf

\* A thread falls asleep.
LEMMA FallsAsleep ==
  ASSUME PcTyped, NEW t \in Threads, pc[t] \in Awake, pc' = [pc EXCEPT ![t] = "asleep"],
         NEW T \in SUBSET Threads
  PROVE  /\ AsleepOf(T)' = AsleepOf(T) \cup (T \cap {t})
         /\ AwakeOf(T)' = AwakeOf(T) \ {t}
BY DEF PcTyped, AsleepOf, AwakeOf, Awake

\* A thread wakes for nothing.
LEMMA WakesUp ==
  ASSUME PcTyped, NEW w \in Threads, pc[w] = "asleep", pc' = [pc EXCEPT ![w] = "woken"],
         NEW T \in SUBSET Threads
  PROVE  /\ AsleepOf(T)' = AsleepOf(T) \ {w}
         /\ AwakeOf(T)' = AwakeOf(T) \cup (T \cap {w})
BY DEF PcTyped, AsleepOf, AwakeOf, Awake

\* A thread enters the queue.
LEMMA Enters ==
  ASSUME PcTyped, NEW t \in Threads, pc[t] = "out", pc' = [pc EXCEPT ![t] = "ready"],
         NEW T \in SUBSET Threads
  PROVE  /\ AsleepOf(T)' = AsleepOf(T)
         /\ AwakeOf(T)' = AwakeOf(T) \cup (T \cap {t})
BY DEF PcTyped, AsleepOf, AwakeOf, Awake
-----------------------------------------------------------------------------
\* Room for half: what each kind of step does to Drains.  n becomes m.

LEMMA DrainsWork ==
  ASSUME NEW X, NEW Y, Kinds(X, Y), PcTyped, NEW t \in Threads, pc[t] \in Awake,
         SignalAndLeave(t), NEW n \in 0 .. Size, NEW m \in 0 .. Size,
         m = n + 1 \/ m = n - 1, Drains(X, Y, n)
  PROVE  /\ AsleepOf(X)' # {} => Cardinality(Asleep') <= m
         /\ AsleepOf(Y)' # {} => Cardinality(Y \ AsleepOf(Y)')
                                   >= (IF AsleepOf(X)' # {} THEN Size ELSE m)
<1>1. CASE Asleep = {}
  <2>1. AsleepOf(X)' = {} /\ AsleepOf(Y)' = {}
    BY <1>1, LeavesNobody DEF Kinds
  <2> QED BY <2>1
<1>2. CASE Asleep # {}
  <2>1. PICK w \in Asleep : \A T \in SUBSET Threads : AsleepOf(T)' = AsleepOf(T) \ {w}
    BY <1>2, Leaves
  <2>2. /\ Asleep' = Asleep \ {w}
        /\ AsleepOf(X)' = AsleepOf(X) \ {w} /\ AsleepOf(Y)' = AsleepOf(Y) \ {w}
    BY <2>1 DEF Kinds, Asleep
  <2>3. /\ IsFiniteSet(Asleep) /\ IsFiniteSet(Y \ AsleepOf(Y))
    BY FS_Subset, FS_Union DEF Kinds, Asleep, AsleepOf
  <2>4. Cardinality(Asleep') = Cardinality(Asleep) - 1
    BY <2>2, <2>3, FS_RemoveElement
  <2>5. Y \ AsleepOf(Y)' = IF w \in Y THEN (Y \ AsleepOf(Y)) \cup {w} ELSE Y \ AsleepOf(Y)
    BY <2>2
  <2>6. w \in Y => w \in AsleepOf(Y)
    BY DEF Asleep, AsleepOf
  <2>7. Cardinality(Y \ AsleepOf(Y)') = IF w \in Y THEN Cardinality(Y \ AsleepOf(Y)) + 1
                                                   ELSE Cardinality(Y \ AsleepOf(Y))
    BY <2>3, <2>5, <2>6, FS_AddElement
  <2>8. /\ Cardinality(Asleep) \in Nat /\ Cardinality(Y \ AsleepOf(Y)) \in Nat
    BY <2>3, FS_CardinalityType
  <2>9. AsleepOf(X) = {} => w \in Y
    BY DEF Kinds, Asleep, AsleepOf
  <2> QED BY <2>2, <2>4, <2>7, <2>8, <2>9, SizeAssumption DEF Drains
<1> QED BY <1>1, <1>2

LEMMA DrainsWaitX ==
  ASSUME NEW X, NEW Y, Kinds(X, Y), PcTyped, NEW t \in X, pc[t] \in Awake,
         pc' = [pc EXCEPT ![t] = "asleep"], Drains(X, Y, Size),
         Cardinality(X) <= Size, Cardinality(X) + Cardinality(Y) <= 2 * Size
  PROVE  /\ AsleepOf(X)' # {} => Cardinality(Asleep') <= Size
         /\ AsleepOf(Y)' # {} => Cardinality(Y \ AsleepOf(Y)') >= Size
<1>0. /\ t \in Threads /\ X \in SUBSET Threads /\ Y \in SUBSET Threads
      /\ X \cap {t} = {t} /\ Y \cap {t} = {}
  BY DEF Kinds
<1>1. /\ AsleepOf(X)' = AsleepOf(X) \cup {t} /\ AsleepOf(Y)' = AsleepOf(Y)
      /\ Asleep' = AsleepOf(X)' \cup AsleepOf(Y)'
  <2>1. /\ AsleepOf(X)' = AsleepOf(X) \cup (X \cap {t})
        /\ AsleepOf(Y)' = AsleepOf(Y) \cup (Y \cap {t})
    BY <1>0, FallsAsleep
  <2>2. Asleep' = AsleepOf(X)' \cup AsleepOf(Y)'
    BY DEF Kinds, Asleep, AsleepOf
  <2> QED BY <1>0, <2>1, <2>2
<1>2. /\ AsleepOf(X)' \in SUBSET X /\ AsleepOf(X)' \cap AsleepOf(Y)' = {}
      /\ AsleepOf(Y)' \in SUBSET Y
  BY DEF Kinds, AsleepOf
<1>3. /\ IsFiniteSet(AsleepOf(X)') /\ IsFiniteSet(AsleepOf(Y)')
      /\ Cardinality(AsleepOf(X)') <= Cardinality(X)
      /\ Cardinality(AsleepOf(X)') \in Nat
  BY <1>2, FS_Subset, FS_CardinalityType DEF Kinds
<1>4. Cardinality(Asleep') = Cardinality(AsleepOf(X)') + Cardinality(AsleepOf(Y))
  BY <1>1, <1>2, <1>3, DisjointUnion
<1>5. /\ Cardinality(AsleepOf(Y)) \in Nat /\ Cardinality(X) \in Nat
      /\ Cardinality(Y \ AsleepOf(Y)) \in Nat
      /\ Cardinality(Y) = Cardinality(AsleepOf(Y)) + Cardinality(Y \ AsleepOf(Y))
      /\ (AsleepOf(Y) = {} <=> Cardinality(AsleepOf(Y)) = 0)
  BY Counts
<1>6. AsleepOf(Y) # {} => Cardinality(Y \ AsleepOf(Y)) >= Size
  BY DEF Drains
<1> QED BY <1>1, <1>3, <1>4, <1>5, <1>6, SizeAssumption

LEMMA DrainsWaitY ==
  ASSUME NEW X, NEW Y, Kinds(X, Y), PcTyped, NEW t \in Y, pc[t] \in Awake,
         pc' = [pc EXCEPT ![t] = "asleep"], Drains(X, Y, 0)
  PROVE  /\ AsleepOf(X)' = {}
         /\ Cardinality(Y \ AsleepOf(Y)') >= 0
<1>1. AsleepOf(X) = {}
  <2>1. /\ Cardinality(AsleepOf(X)) \in Nat /\ Cardinality(AsleepOf(Y)) \in Nat
        /\ Cardinality(Asleep) = Cardinality(AsleepOf(X)) + Cardinality(AsleepOf(Y))
        /\ (AsleepOf(X) = {} <=> Cardinality(AsleepOf(X)) = 0)
    BY Counts
  <2> QED BY <2>1 DEF Drains
<1>2. AsleepOf(X)' = {}
  <2>1. t \in Threads /\ X \in SUBSET Threads /\ X \cap {t} = {}
    BY DEF Kinds
  <2> QED BY <1>1, <2>1, FallsAsleep
<1>3. IsFiniteSet(Y \ AsleepOf(Y)')
  BY FS_Subset DEF Kinds
<1> QED BY <1>2, <1>3, FS_CardinalityType

LEMMA DrainsWake ==
  ASSUME NEW X, NEW Y, Kinds(X, Y), PcTyped, NEW w \in Threads, pc[w] = "asleep",
         pc' = [pc EXCEPT ![w] = "woken"], NEW n \in 0 .. Size, Drains(X, Y, n)
  PROVE  /\ AsleepOf(X)' # {} => Cardinality(Asleep') <= n
         /\ AsleepOf(Y)' # {} => Cardinality(Y \ AsleepOf(Y)')
                                   >= (IF AsleepOf(X)' # {} THEN Size ELSE n)
<1>1. /\ AsleepOf(X)' = AsleepOf(X) \ {w} /\ AsleepOf(Y)' = AsleepOf(Y) \ {w}
      /\ Asleep' = Asleep \ {w}
  BY WakesUp DEF Kinds, Asleep
<1>2. IsFiniteSet(Asleep) /\ IsFiniteSet(Y \ AsleepOf(Y)')
  BY FS_Subset, FS_Union DEF Kinds, Asleep, AsleepOf
<1>3. Cardinality(Asleep') <= Cardinality(Asleep)
      /\ Cardinality(Y \ AsleepOf(Y)) <= Cardinality(Y \ AsleepOf(Y)')
  BY <1>1, <1>2, FS_Subset
<1>4. /\ Cardinality(Asleep) \in Nat /\ Cardinality(Asleep') \in Nat
      /\ Cardinality(Y \ AsleepOf(Y)) \in Nat /\ Cardinality(Y \ AsleepOf(Y)') \in Nat
  BY <1>1, <1>2, Counts, FS_RemoveElement, FS_CardinalityType
<1> QED BY <1>1, <1>3, <1>4, SizeAssumption DEF Drains

LEMMA NobodyAsleep ==
  (\A t \in Threads : pc[t] = "out") =>
    Asleep = {} /\ AsleepOf(Producers) = {} /\ AsleepOf(Consumers) = {}
BY DEF Asleep, AsleepOf, Threads

LEMMA DrainInit == Init => DrainInv
<1> SUFFICES ASSUME Init PROVE DrainInv
  OBVIOUS
<1>1. AsleepOf(Producers) = {} /\ AsleepOf(Consumers) = {}
  BY NobodyAsleep DEF Init
<1> QED BY <1>1 DEF DrainInv, Drains

LEMMA DrainNext ==
  ASSUME RoomForHalf, IInv, DrainInv, [Next]_vars
  PROVE  DrainInv'
<1>0. /\ PcTyped /\ count \in 0 .. Size /\ Size - count \in 0 .. Size /\ Size \in Nat
      /\ Cardinality(Producers) + Cardinality(Consumers) <= 2 * Size
      /\ Cardinality(Producers) \in Nat /\ Cardinality(Consumers) \in Nat
      /\ Kinds(Producers, Consumers) /\ Kinds(Consumers, Producers)
  BY SizeAssumption, ThreadsAssumption, FS_CardinalityType, BothKinds
     DEF IInv, TypeOK, PcTyped, RoomForHalf
<1>1. ASSUME NEW p \in Producers, NEW b \in Buffer, Push(p, b) PROVE DrainInv'
  <2>1. /\ p \in Threads /\ pc[p] \in Awake /\ SignalAndLeave(p)
        /\ count + 1 \in 0 .. Size /\ Size - (count + 1) \in 0 .. Size
        /\ Size - (count + 1) = (Size - count) - 1 /\ count' = count + 1
    BY <1>0, <1>1 DEF Push, Threads
  <2>2. Cardinality(Producers) <= Size => Drains(Producers, Consumers, count)'
    BY <1>0, <2>1, DrainsWork DEF DrainInv, Drains
  <2>3. Cardinality(Consumers) <= Size => Drains(Consumers, Producers, Size - count)'
    BY <1>0, <2>1, DrainsWork DEF DrainInv, Drains
  <2> QED BY <2>2, <2>3 DEF DrainInv
<1>2. ASSUME NEW c \in Consumers, Pop(c) PROVE DrainInv'
  <2>1. /\ c \in Threads /\ pc[c] \in Awake /\ SignalAndLeave(c)
        /\ count - 1 \in 0 .. Size /\ Size - (count - 1) \in 0 .. Size
        /\ Size - (count - 1) = (Size - count) + 1 /\ count' = count - 1
    BY <1>0, <1>2 DEF Pop, Threads
  <2>2. Cardinality(Producers) <= Size => Drains(Producers, Consumers, count)'
    BY <1>0, <2>1, DrainsWork DEF DrainInv, Drains
  <2>3. Cardinality(Consumers) <= Size => Drains(Consumers, Producers, Size - count)'
    BY <1>0, <2>1, DrainsWork DEF DrainInv, Drains
  <2> QED BY <2>2, <2>3 DEF DrainInv
<1>3. ASSUME NEW p \in Producers, Wait(p) PROVE DrainInv'
  <2>1. /\ pc[p] \in Awake /\ pc' = [pc EXCEPT ![p] = "asleep"]
        /\ count = Size /\ Size - count = 0 /\ count' = count
    BY <1>0, <1>3 DEF Wait, fields
  <2>2. Cardinality(Producers) <= Size => Drains(Producers, Consumers, count)'
    <3> SUFFICES ASSUME Cardinality(Producers) <= Size
                 PROVE  Drains(Producers, Consumers, count)'
      OBVIOUS
    <3>1. Drains(Producers, Consumers, Size)
      BY <2>1 DEF DrainInv
    <3>2. /\ AsleepOf(Producers)' # {} => Cardinality(Asleep') <= Size
          /\ AsleepOf(Consumers)' # {} =>
               Cardinality(Consumers \ AsleepOf(Consumers)') >= Size
      BY <1>0, <2>1, <3>1, DrainsWaitX
    <3> QED BY <2>1, <3>2 DEF Drains
  <2>3. Cardinality(Consumers) <= Size => Drains(Consumers, Producers, Size - count)'
    <3> SUFFICES ASSUME Cardinality(Consumers) <= Size
                 PROVE  Drains(Consumers, Producers, Size - count)'
      OBVIOUS
    <3>1. Drains(Consumers, Producers, 0)
      BY <2>1 DEF DrainInv
    <3>2. AsleepOf(Consumers)' = {} /\ Cardinality(Producers \ AsleepOf(Producers)') >= 0
      BY <1>0, <2>1, <3>1, DrainsWaitY
    <3> QED BY <2>1, <3>2 DEF Drains
  <2> QED BY <2>2, <2>3 DEF DrainInv
<1>4. ASSUME NEW c \in Consumers, Wait(c) PROVE DrainInv'
  <2>1. /\ pc[c] \in Awake /\ pc' = [pc EXCEPT ![c] = "asleep"]
        /\ count = 0 /\ Size - count = Size /\ count' = count
    BY <1>0, <1>4, ThreadsAssumption DEF Wait, fields
  <2>2. Cardinality(Consumers) <= Size => Drains(Consumers, Producers, Size - count)'
    <3> SUFFICES ASSUME Cardinality(Consumers) <= Size
                 PROVE  Drains(Consumers, Producers, Size - count)'
      OBVIOUS
    <3>1. Drains(Consumers, Producers, Size)
      BY <2>1 DEF DrainInv
    <3>2. /\ AsleepOf(Consumers)' # {} => Cardinality(Asleep') <= Size
          /\ AsleepOf(Producers)' # {} =>
               Cardinality(Producers \ AsleepOf(Producers)') >= Size
      <4>1. Cardinality(Consumers) + Cardinality(Producers) <= 2 * Size
        BY <1>0
      <4> QED BY <1>0, <2>1, <3>1, <4>1, DrainsWaitX
    <3> QED BY <2>1, <3>2 DEF Drains
  <2>3. Cardinality(Producers) <= Size => Drains(Producers, Consumers, count)'
    <3> SUFFICES ASSUME Cardinality(Producers) <= Size
                 PROVE  Drains(Producers, Consumers, count)'
      OBVIOUS
    <3>1. Drains(Producers, Consumers, 0)
      BY <2>1 DEF DrainInv
    <3>2. AsleepOf(Producers)' = {} /\ Cardinality(Consumers \ AsleepOf(Consumers)') >= 0
      BY <1>0, <2>1, <3>1, DrainsWaitY
    <3> QED BY <2>1, <3>2 DEF Drains
  <2> QED BY <2>2, <2>3 DEF DrainInv
<1>5. ASSUME NEW t \in Threads, WakeSpuriously(t) PROVE DrainInv'
  <2>1. /\ pc[t] = "asleep" /\ pc' = [pc EXCEPT ![t] = "woken"] /\ count' = count
    BY <1>5 DEF WakeSpuriously, fields
  <2>2. Cardinality(Producers) <= Size => Drains(Producers, Consumers, count)'
    BY <1>0, <2>1, DrainsWake DEF DrainInv, Drains
  <2>3. Cardinality(Consumers) <= Size => Drains(Consumers, Producers, Size - count)'
    BY <1>0, <2>1, DrainsWake DEF DrainInv, Drains
  <2> QED BY <2>2, <2>3 DEF DrainInv
<1>6. ASSUME NEW t \in Threads, Call(t) PROVE DrainInv'
  <2>1. /\ pc[t] = "out" /\ pc' = [pc EXCEPT ![t] = "ready"] /\ count' = count
        /\ Producers \in SUBSET Threads /\ Consumers \in SUBSET Threads
    BY <1>6 DEF Call, fields, Threads
  <2>2. /\ AsleepOf(Producers)' = AsleepOf(Producers) /\ Asleep' = Asleep
        /\ AsleepOf(Consumers)' = AsleepOf(Consumers)
    BY <1>0, <2>1, Enters DEF Asleep
  <2> QED BY <2>1, <2>2 DEF DrainInv, Drains
<1>7. CASE Delete
  <2>1. AsleepOf(Producers)' = {} /\ AsleepOf(Consumers)' = {}
    BY <1>7 DEF Delete, AsleepOf, Threads
  <2> QED BY <2>1 DEF DrainInv, Drains
<1>8. CASE UNCHANGED vars
  BY <1>8 DEF vars, fields, DrainInv, Drains, Asleep, AsleepOf
<1> QED BY <1>1, <1>2, <1>3, <1>4, <1>5, <1>6, <1>7, <1>8
        DEF Next, Producer, Consumer

\* A queue with room for half as many buffers as it has threads never ends up
\* with all of them asleep, whichever waiter each signal wakes.
THEOREM QueueDeadlockFree == RoomForHalf => (Spec => []NeverAllAsleep)
<1> SUFFICES ASSUME RoomForHalf PROVE Spec => []NeverAllAsleep
  OBVIOUS
<1>1. IInv /\ DrainInv => NeverAllAsleep
  <2> SUFFICES ASSUME DrainInv, Asleep = Threads PROVE FALSE
    BY DEF NeverAllAsleep
  <2>1. /\ AsleepOf(Producers) = Producers /\ AsleepOf(Consumers) = Consumers
    BY DEF Asleep, AsleepOf, Threads
  <2>2. Producers # {} /\ Consumers # {}
    BY ThreadsAssumption
  <2>3. /\ Cardinality(Producers \ AsleepOf(Producers)) = 0
        /\ Cardinality(Consumers \ AsleepOf(Consumers)) = 0
    BY <2>1, FS_EmptySet
  <2>4. ~Drains(Producers, Consumers, count) /\ ~Drains(Consumers, Producers, Size - count)
    BY <2>1, <2>2, <2>3, SizeAssumption DEF Drains
  <2>5. Cardinality(Producers) \in Nat /\ Cardinality(Consumers) \in Nat
    BY ThreadsAssumption, FS_CardinalityType
  <2> QED BY <2>4, <2>5, SizeAssumption DEF DrainInv, RoomForHalf
<1>2. IInv /\ DrainInv /\ [Next]_vars => DrainInv'
  BY DrainNext
<1> QED BY <1>1, <1>2, DrainInit, QueueInvariant, PTL DEF Spec
-----------------------------------------------------------------------------
\* Room for all but one: what each kind of step does to Shares, X being the
\* kind the step belongs to.

LEMMA SharesWork ==
  ASSUME NEW X, NEW Y, Kinds(X, Y), PcTyped, NEW t \in X, pc[t] \in Awake,
         SignalAndLeave(t), NEW n \in 0 .. Size, n + 1 <= Size,
         Shares(X, Y, n), Shares(Y, X, Size - n)
  PROVE  /\ AsleepOf(X)' # {} =>
              AsleepOf(Y)' = {} /\ Cardinality(AwakeOf(X)') >= Size - (n + 1)
         /\ AsleepOf(Y)' # {} =>
              AsleepOf(X)' = {} /\ Cardinality(AwakeOf(Y)') >= n + 1
<1>0. /\ t \in Threads /\ X \in SUBSET Threads /\ Y \in SUBSET Threads
      /\ t \in AwakeOf(X) /\ t \notin AwakeOf(Y)
  BY DEF Kinds, AwakeOf
<1>1. CASE Asleep = {}
  BY <1>0, <1>1, LeavesNobody
<1>2. CASE Asleep # {}
  <2>1. PICK w \in Asleep : \A T \in SUBSET Threads :
           /\ AsleepOf(T)' = AsleepOf(T) \ {w}
           /\ AwakeOf(T)' = (AwakeOf(T) \ {t}) \cup (T \cap {w})
    BY <1>0, <1>2, Leaves
  <2>2. /\ AsleepOf(X)' = AsleepOf(X) \ {w} /\ AsleepOf(Y)' = AsleepOf(Y) \ {w}
        /\ AwakeOf(X)' = (AwakeOf(X) \ {t}) \cup (X \cap {w})
        /\ AwakeOf(Y)' = (AwakeOf(Y) \ {t}) \cup (Y \cap {w})
    BY <1>0, <2>1
  <2>3. /\ IsFiniteSet(AwakeOf(X)) /\ IsFiniteSet(AwakeOf(Y))
        /\ IsFiniteSet(AwakeOf(X) \ {t})
        /\ Cardinality(AwakeOf(X)) \in Nat /\ Cardinality(AwakeOf(Y)) \in Nat
        /\ Cardinality(AwakeOf(X) \ {t}) = Cardinality(AwakeOf(X)) - 1
    <3>1. AwakeOf(X) \in SUBSET X /\ AwakeOf(Y) \in SUBSET Y
      BY DEF AwakeOf
    <3>2. IsFiniteSet(AwakeOf(X)) /\ IsFiniteSet(AwakeOf(Y))
      BY <3>1, FS_Subset DEF Kinds
    <3> QED BY <1>0, <3>2, FS_RemoveElement, FS_CardinalityType
  <2>4. w \notin AwakeOf(X) /\ w \notin AwakeOf(Y)
    BY DEF Asleep, AsleepOf, AwakeOf, Awake
  <2>5. CASE AsleepOf(Y) = {}
    <3>1. w \in X /\ AsleepOf(X) # {} /\ AsleepOf(Y)' = {}
      BY <2>2, <2>5 DEF Kinds, Asleep, AsleepOf
    <3>2. AwakeOf(X)' = (AwakeOf(X) \ {t}) \cup {w}
      BY <2>2, <3>1
    <3>3. w \notin AwakeOf(X) \ {t}
      BY <2>4
    <3>4. Cardinality(AwakeOf(X)') = (Cardinality(AwakeOf(X)) - 1) + 1
      BY <2>3, <3>2, <3>3, FS_AddElement
    <3> QED BY <2>3, <3>1, <3>4, SizeAssumption DEF Shares
  <2>6. CASE AsleepOf(Y) # {}
    <3>1. AsleepOf(X) = {} /\ AsleepOf(X)' = {} /\ w \in Y
      BY <2>2, <2>6 DEF Shares, Kinds, Asleep, AsleepOf
    <3>2. AwakeOf(Y)' = AwakeOf(Y) \cup {w}
      BY <1>0, <2>2, <3>1
    <3>3. Cardinality(AwakeOf(Y)') = Cardinality(AwakeOf(Y)) + 1
      BY <2>3, <2>4, <3>2, FS_AddElement
    <3> QED BY <2>3, <2>6, <3>1, <3>3, SizeAssumption DEF Shares
  <2> QED BY <2>5, <2>6
<1> QED BY <1>1, <1>2

LEMMA SharesWait ==
  ASSUME NEW X, NEW Y, Kinds(X, Y), PcTyped, NEW t \in X, pc[t] \in Awake,
         pc' = [pc EXCEPT ![t] = "asleep"],
         Cardinality(X) + Cardinality(Y) <= Size + 1,
         Shares(Y, X, 0)
  PROVE  /\ AsleepOf(Y)' = {}
         /\ Cardinality(AwakeOf(X)') >= 0
<1>0. /\ t \in Threads /\ X \in SUBSET Threads /\ Y \in SUBSET Threads
      /\ Y \cap {t} = {}
  BY DEF Kinds
<1>1. AsleepOf(Y) = {}
  <2>1. /\ Cardinality(X) \in Nat /\ Cardinality(X) > 0 /\ Cardinality(Y) \in Nat
        /\ Cardinality(AwakeOf(Y)) \in Nat
        /\ AsleepOf(Y) # {} => Cardinality(AwakeOf(Y)) < Cardinality(Y)
    BY Counts
  <2> QED BY <2>1, SizeAssumption DEF Shares
<1>2. AsleepOf(Y)' = AsleepOf(Y) /\ AwakeOf(X)' = AwakeOf(X) \ {t}
  <2>1. AsleepOf(Y)' = AsleepOf(Y) \cup (Y \cap {t})
    BY <1>0, FallsAsleep
  <2>2. AwakeOf(X)' = AwakeOf(X) \ {t}
    BY <1>0, FallsAsleep
  <2> QED BY <1>0, <2>1, <2>2
<1>3. IsFiniteSet(AwakeOf(X)')
  <2>1. AwakeOf(X) \ {t} \in SUBSET X
    BY DEF AwakeOf
  <2> QED BY <1>2, <2>1, FS_Subset DEF Kinds
<1> QED BY <1>1, <1>2, <1>3, FS_CardinalityType

LEMMA SharesGrow ==
  ASSUME NEW X, NEW Y, Kinds(X, Y), NEW n \in 0 .. Size, Shares(X, Y, n),
         AsleepOf(X)' \in SUBSET AsleepOf(X), AsleepOf(Y)' \in SUBSET AsleepOf(Y),
         AwakeOf(X)' \in SUBSET X, AwakeOf(X) \in SUBSET AwakeOf(X)'
  PROVE  AsleepOf(X)' # {} => AsleepOf(Y)' = {} /\ Cardinality(AwakeOf(X)') >= Size - n
<1>1. IsFiniteSet(AwakeOf(X)')
  BY FS_Subset DEF Kinds
<1>2. IsFiniteSet(AwakeOf(X)) /\ Cardinality(AwakeOf(X)) <= Cardinality(AwakeOf(X)')
  BY <1>1, FS_Subset
<1>3. Cardinality(AwakeOf(X)) \in Nat /\ Cardinality(AwakeOf(X)') \in Nat
  BY <1>1, <1>2, FS_CardinalityType
<1> QED BY <1>2, <1>3, SizeAssumption DEF Shares

LEMMA WakeInit == Init => WakeInv
<1> SUFFICES ASSUME Init PROVE WakeInv
  OBVIOUS
<1>1. AsleepOf(Producers) = {} /\ AsleepOf(Consumers) = {}
  BY NobodyAsleep DEF Init
<1> QED BY <1>1 DEF WakeInv, Shares

LEMMA WakeNext ==
  ASSUME RoomForAllButOne, IInv, WakeInv, [Next]_vars
  PROVE  WakeInv'
<1>0. /\ PcTyped /\ count \in 0 .. Size /\ Size - count \in 0 .. Size /\ Size \in Nat
      /\ Cardinality(Producers) + Cardinality(Consumers) <= Size + 1
      /\ Cardinality(Consumers) + Cardinality(Producers) <= Size + 1
      /\ Kinds(Producers, Consumers) /\ Kinds(Consumers, Producers)
      /\ Producers \in SUBSET Threads /\ Consumers \in SUBSET Threads
      /\ Shares(Producers, Consumers, count) /\ Shares(Consumers, Producers, Size - count)
      /\ Size - (Size - count) = count
  <2>1. Cardinality(Producers) \in Nat /\ Cardinality(Consumers) \in Nat
    BY ThreadsAssumption, FS_CardinalityType
  <2> QED BY <2>1, SizeAssumption, BothKinds
          DEF IInv, TypeOK, PcTyped, RoomForAllButOne, WakeInv, Threads
<1>1. ASSUME NEW p \in Producers, NEW b \in Buffer, Push(p, b) PROVE WakeInv'
  <2>1. /\ pc[p] \in Awake /\ SignalAndLeave(p) /\ count' = count + 1
        /\ count + 1 <= Size /\ Size - (Size - (count + 1)) = count + 1
    BY <1>0, <1>1 DEF Push
  <2>2. /\ AsleepOf(Producers)' # {} =>
             /\ AsleepOf(Consumers)' = {}
             /\ Cardinality(AwakeOf(Producers)') >= Size - (count + 1)
        /\ AsleepOf(Consumers)' # {} =>
             /\ AsleepOf(Producers)' = {}
             /\ Cardinality(AwakeOf(Consumers)') >= count + 1
    BY <1>0, <2>1, SharesWork
  <2> QED BY <2>1, <2>2 DEF WakeInv, Shares
<1>2. ASSUME NEW c \in Consumers, Pop(c) PROVE WakeInv'
  <2>1. /\ pc[c] \in Awake /\ SignalAndLeave(c) /\ count' = count - 1
        /\ (Size - count) + 1 <= Size /\ Size - ((Size - count) + 1) = count - 1
        /\ Size - (count - 1) = (Size - count) + 1
        /\ Size - (Size - (count - 1)) = count - 1
    BY <1>0, <1>2 DEF Pop
  <2>2. /\ AsleepOf(Consumers)' # {} =>
             /\ AsleepOf(Producers)' = {}
             /\ Cardinality(AwakeOf(Consumers)') >= Size - ((Size - count) + 1)
        /\ AsleepOf(Producers)' # {} =>
             /\ AsleepOf(Consumers)' = {}
             /\ Cardinality(AwakeOf(Producers)') >= (Size - count) + 1
    BY <1>0, <2>1, SharesWork
  <2> QED BY <2>1, <2>2 DEF WakeInv, Shares
<1>3. ASSUME NEW p \in Producers, Wait(p) PROVE WakeInv'
  <2>1. /\ pc[p] \in Awake /\ pc' = [pc EXCEPT ![p] = "asleep"]
        /\ count = Size /\ Size - count = 0 /\ count' = count
    BY <1>0, <1>3 DEF Wait, fields
  <2>2. Shares(Consumers, Producers, 0)
    BY <1>0, <2>1
  <2>3. AsleepOf(Consumers)' = {} /\ Cardinality(AwakeOf(Producers)') >= 0
    BY <1>0, <2>1, <2>2, SharesWait
  <2> QED BY <2>1, <2>3 DEF WakeInv, Shares
<1>4. ASSUME NEW c \in Consumers, Wait(c) PROVE WakeInv'
  <2>1. /\ pc[c] \in Awake /\ pc' = [pc EXCEPT ![c] = "asleep"]
        /\ count = 0 /\ Size - count = Size /\ Size - Size = 0 /\ count' = count
    BY <1>0, <1>4, ThreadsAssumption DEF Wait, fields
  <2>2. Shares(Producers, Consumers, 0)
    BY <1>0, <2>1
  <2>3. AsleepOf(Producers)' = {} /\ Cardinality(AwakeOf(Consumers)') >= 0
    BY <1>0, <2>1, <2>2, SharesWait
  <2> QED BY <2>1, <2>3 DEF WakeInv, Shares
<1>5. ASSUME NEW t \in Threads, WakeSpuriously(t) \/ Call(t) PROVE WakeInv'
  <2>1. /\ count' = count
        /\ \A T \in SUBSET Threads : /\ AsleepOf(T)' \in SUBSET AsleepOf(T)
                                     /\ AwakeOf(T) \in SUBSET AwakeOf(T)'
                                     /\ AwakeOf(T)' \in SUBSET T
    BY <1>0, <1>5 DEF WakeSpuriously, Call, fields, PcTyped, AsleepOf, AwakeOf, Awake
  <2>2. AsleepOf(Producers)' # {} =>
          AsleepOf(Consumers)' = {} /\ Cardinality(AwakeOf(Producers)') >= Size - count
    BY <1>0, <2>1, SharesGrow
  <2>3. AsleepOf(Consumers)' # {} =>
          /\ AsleepOf(Producers)' = {}
          /\ Cardinality(AwakeOf(Consumers)') >= Size - (Size - count)
    BY <1>0, <2>1, SharesGrow
  <2> QED BY <2>1, <2>2, <2>3 DEF WakeInv, Shares
<1>6. CASE Delete
  <2>1. AsleepOf(Producers)' = {} /\ AsleepOf(Consumers)' = {}
    BY <1>6 DEF Delete, AsleepOf, Threads
  <2> QED BY <2>1 DEF WakeInv, Shares
<1>7. CASE UNCHANGED vars
  BY <1>7 DEF vars, fields, WakeInv, Shares, AsleepOf, AwakeOf
<1> QED BY <1>1, <1>2, <1>3, <1>4, <1>5, <1>6, <1>7 DEF Next, Producer, Consumer

\* A queue with a slot for every thread but one loses no wakeup, although both
\* kinds of waiter share one condition variable.
THEOREM QueueWakes == RoomForAllButOne => (Spec => []NoLostWakeup)
<1> SUFFICES ASSUME RoomForAllButOne PROVE Spec => []NoLostWakeup
  OBVIOUS
<1>1. IInv /\ WakeInv => NoLostWakeup
  <2> SUFFICES ASSUME IInv, WakeInv,
                      \A t \in Threads : pc[t] \in {"out", "asleep"}
               PROVE  /\ AsleepOf(Producers) # {} => count = Size
                      /\ AsleepOf(Consumers) # {} => count = 0
    BY DEF NoLostWakeup
  <2>1. AwakeOf(Producers) = {} /\ AwakeOf(Consumers) = {}
    BY DEF AwakeOf, Awake, Threads
  <2>2. Cardinality(AwakeOf(Producers)) = 0 /\ Cardinality(AwakeOf(Consumers)) = 0
    BY <2>1, FS_EmptySet
  <2> QED BY <2>2, SizeAssumption DEF WakeInv, Shares, IInv, TypeOK
<1>2. IInv /\ WakeInv /\ [Next]_vars => WakeInv'
  BY WakeNext
<1> QED BY <1>1, <1>2, WakeInit, QueueInvariant, PTL DEF Spec
-----------------------------------------------------------------------------
\* Tree: the containers of jsonParse as one is entered, left or named.

LEMMA StackGrows ==
  ASSUME stack \in Seq(Frame), NEW f \in Frame, stack' = Append(stack, f)
  PROVE  /\ stack' \in Seq(Frame) /\ stack' # <<>> /\ Top' = f
         /\ Len(stack') = Len(stack) + 1
         /\ \A i \in 1 .. Len(stack) : stack'[i] = stack[i]
         /\ stack'[Len(stack) + 1] = f
BY AppendProperties DEF Top

LEMMA BelowTop ==
  ASSUME stack \in Seq(Frame), Len(stack) \in Nat \ {0}
  PROVE  /\ Below \in Seq(Frame) /\ Len(Below) = Len(stack) - 1
         /\ \A i \in 1 .. Len(stack) - 1 : Below[i] = stack[i]
<1> DEFINE n == Len(stack) - 1
<1>1. n \in Int /\ 1 \in Int /\ n >= 0
  OBVIOUS
<1>2. \A i \in 1 .. n : stack[i] \in Frame
  BY ElementOfSeq
<1> HIDE DEF n
<1>3. /\ SubSeq(stack, 1, n) \in Seq(Frame)
      /\ Len(SubSeq(stack, 1, n)) = IF 1 <= n THEN n - 1 + 1 ELSE 0
      /\ \A i \in 1 .. n - 1 + 1 : SubSeq(stack, 1, n)[i] = stack[1 + i - 1]
  BY <1>1, <1>2, SubSeqProperties
<1>4. n - 1 + 1 = n /\ \A i \in 1 .. n : 1 + i - 1 = i
  BY <1>1
<1>5. Len(SubSeq(stack, 1, n)) = n /\ \A i \in 1 .. n : SubSeq(stack, 1, n)[i] = stack[i]
  BY <1>1, <1>3, <1>4
<1> QED BY <1>3, <1>5 DEF Below, n

LEMMA StackShrinks ==
  ASSUME stack \in Seq(Frame), stack # <<>>, stack' = Below
  PROVE  /\ stack' \in Seq(Frame) /\ Len(stack) \in Nat \ {0} /\ Top \in Frame
         /\ Len(stack') = Len(stack) - 1
         /\ \A i \in 1 .. Len(stack) - 1 : stack'[i] = stack[i]
<1>1. Len(stack) \in Nat \ {0}
  BY EmptySeq, LenProperties
<1>2. Top \in Frame
  BY <1>1, ElementOfSeq DEF Top
<1>3. /\ Below \in Seq(Frame) /\ Len(Below) = Len(stack) - 1
      /\ \A i \in 1 .. Len(stack) - 1 : Below[i] = stack[i]
  BY <1>1, BelowTop
<1> QED BY <1>1, <1>2, <1>3

LEMMA TopNamed ==
  ASSUME stack \in Seq(Frame), stack # <<>>, NEW x \in Name \cup {NULL},
         stack' = Append(Below, [Top EXCEPT !.name = x])
  PROVE  /\ stack' \in Seq(Frame) /\ Len(stack') = Len(stack)
         /\ \A i \in 1 .. Len(stack) : stack'[i].node = stack[i].node /\ stack'[i].kind = stack[i].kind
<1>1. Len(stack) \in Nat \ {0}
  BY EmptySeq, LenProperties
<1>2. Top \in Frame
  BY <1>1, ElementOfSeq DEF Top
<1>3. /\ Below \in Seq(Frame) /\ Len(Below) = Len(stack) - 1
      /\ \A i \in 1 .. Len(stack) - 1 : Below[i] = stack[i]
  BY <1>1, BelowTop
<1> DEFINE f == [Top EXCEPT !.name = x]
<1>4. f \in Frame /\ f.node = Top.node /\ f.kind = Top.kind
  BY <1>2 DEF Frame
<1> HIDE DEF f
<1>5. /\ Append(Below, f) \in Seq(Frame) /\ Len(Append(Below, f)) = Len(stack)
      /\ \A i \in 1 .. Len(stack) - 1 : Append(Below, f)[i] = Below[i]
      /\ Append(Below, f)[Len(stack)] = f
  BY <1>1, <1>3, <1>4, AppendProperties
<1>6. ASSUME NEW i \in 1 .. Len(stack)
      PROVE  Append(Below, f)[i].node = stack[i].node /\ Append(Below, f)[i].kind = stack[i].kind
  <2>1. CASE i = Len(stack)
    BY <2>1, <1>4, <1>5 DEF Top
  <2>2. CASE i # Len(stack)
    <3>1. i \in 1 .. Len(stack) - 1
      BY <2>2, <1>1
    <3> QED BY <3>1, <1>3, <1>5
  <2> QED BY <2>1, <2>2
<1> QED BY <1>5, <1>6 DEF f
-----------------------------------------------------------------------------
\* The cells as one is added, changed or taken, and who is held then.

\* Nobody holds himself in a ring, as long as whoever is new to somebody's
\* cells, or to the heap, has an owner that is no cell or is held by none.
LEMMA StaysGrounded ==
  ASSUME Grounded,
         \A n \in JsonVal : n \in Live' => n \in Live \/ n \notin Held',
         \A m, n \in JsonVal : Holds(m, n)' => Holds(m, n) \/ m \notin Held'
  PROVE  Grounded'
<1> SUFFICES ASSUME NEW S \in SUBSET Live', S # {}
             PROVE  \E n \in S : \A m \in S : ~Holds(m, n)'
  BY DEF Grounded
<1>0. S \subseteq JsonVal
  BY DEF Live
<1>1. CASE \E n \in S : n \notin Held'
  <2>1. PICK n \in S : n \notin Held'
    BY <1>1
  <2>2. \A m \in JsonVal : ~Holds(m, n)'
    BY <1>0, <2>1 DEF Held
  <2> QED BY <1>0, <2>2
<1>2. CASE \A n \in S : n \in Held'
  <2>1. S \in SUBSET Live
    BY <1>0, <1>2
  <2>2. PICK n \in S : \A m \in S : ~Holds(m, n)
    BY <2>1 DEF Grounded
  <2>3. \A m \in S : ~Holds(m, n)'
    BY <1>0, <1>2, <2>2
  <2> QED BY <2>3
<1> QED BY <1>1, <1>2

LEMMA CellsSame ==
  ASSUME cells' = cells
  PROVE  /\ \A m, n \in JsonVal : Holds(m, n)' <=> Holds(m, n)
         /\ Held' = Held /\ HeldOnce' = HeldOnce
BY DEF Holds, Held, HeldOnce

LEMMA CellAdded ==
  ASSUME cells \in [JsonVal -> Seq(Cell)], HeldOnce,
         NEW o \in JsonVal, NEW x \in Name \cup {NULL}, NEW v \in JsonVal, v \notin Held,
         Extend(o, x, v)
  PROVE  /\ cells' \in [JsonVal -> Seq(Cell)]
         /\ \A m \in JsonVal : m # o => cells'[m] = cells[m]
         /\ Len(cells'[o]) = Len(cells[o]) + 1 /\ Len(cells[o]) \in Nat
         /\ \A i \in 1 .. Len(cells[o]) : cells'[o][i] = cells[o][i]
         /\ cells'[o][Len(cells[o]) + 1] = [name |-> x, value |-> v]
         /\ \A m, n \in JsonVal : Holds(m, n)' <=> Holds(m, n) \/ (m = o /\ n = v)
         /\ Held' = Held \cup {v} /\ HeldOnce'
<1> DEFINE c == [name |-> x, value |-> v]
<1>1. c \in Cell /\ c.value = v
  BY DEF Cell
<1> HIDE DEF c
<1>2. cells' = [cells EXCEPT ![o] = Append(cells[o], c)]
  BY DEF Extend, c
<1>3. \A m \in JsonVal : cells'[m] = IF m = o THEN Append(cells[o], c) ELSE cells[m]
  BY <1>2
<1>4. /\ Append(cells[o], c) \in Seq(Cell) /\ Len(Append(cells[o], c)) = Len(cells[o]) + 1
      /\ \A i \in 1 .. Len(cells[o]) : Append(cells[o], c)[i] = cells[o][i]
      /\ Append(cells[o], c)[Len(cells[o]) + 1] = c
      /\ Len(cells[o]) \in Nat
  BY <1>1, AppendProperties, LenProperties
<1>5. cells' \in [JsonVal -> Seq(Cell)]
  BY <1>2, <1>4
<1>6. ASSUME NEW m \in JsonVal, NEW n \in JsonVal
      PROVE  Holds(m, n)' <=> Holds(m, n) \/ (m = o /\ n = v)
  <2>1. CASE m # o
    BY <2>1, <1>3 DEF Holds
  <2>2. CASE m = o
    <3>1. Holds(o, n)' <=> \E i \in 1 .. Len(cells[o]) + 1 : cells'[o][i].value = n
      BY <1>3, <1>4 DEF Holds
    <3>2. ASSUME Holds(o, n)' PROVE Holds(o, n) \/ n = v
      <4>1. PICK i \in 1 .. Len(cells[o]) + 1 : cells'[o][i].value = n
        BY <3>1, <3>2
      <4>2. CASE i = Len(cells[o]) + 1
        BY <4>1, <4>2, <1>1, <1>3, <1>4
      <4>3. CASE i # Len(cells[o]) + 1
        <5>1. i \in 1 .. Len(cells[o])
          BY <4>3, <1>4
        <5> QED BY <4>1, <5>1, <1>3, <1>4 DEF Holds
      <4> QED BY <4>2, <4>3
    <3>3. ASSUME Holds(o, n) \/ n = v PROVE Holds(o, n)'
      <4>1. CASE n = v
        <5>1. Len(cells[o]) + 1 \in 1 .. Len(cells[o]) + 1
          BY <1>4
        <5> QED BY <4>1, <5>1, <3>1, <1>1, <1>3, <1>4
      <4>2. CASE Holds(o, n)
        <5>1. PICK i \in 1 .. Len(cells[o]) : cells[o][i].value = n
          BY <4>2 DEF Holds
        <5>2. i \in 1 .. Len(cells[o]) + 1
          BY <1>4
        <5> QED BY <5>1, <5>2, <3>1, <1>3, <1>4
      <4> QED BY <3>3, <4>1, <4>2
    <3> QED BY <2>2, <3>2, <3>3
  <2> QED BY <2>1, <2>2
<1>7. Held' = Held \cup {v}
  BY <1>6 DEF Held
<1>8. HeldOnce'
  <2> SUFFICES ASSUME NEW m \in JsonVal, NEW n \in JsonVal,
                      NEW i \in 1 .. Len(cells'[m]), NEW j \in 1 .. Len(cells'[n]),
                      cells'[m][i].value = cells'[n][j].value
               PROVE  m = n /\ i = j
    BY DEF HeldOnce
  <2>1. ASSUME NEW k \in JsonVal, NEW l \in 1 .. Len(cells'[k])
        PROVE  \/ k = o /\ l = Len(cells[o]) + 1 /\ cells'[k][l].value = v
               \/ l \in 1 .. Len(cells[k]) /\ cells'[k][l] = cells[k][l] /\ cells'[k][l].value # v
    <3>1. CASE k = o /\ l = Len(cells[o]) + 1
      BY <3>1, <1>1, <1>3, <1>4
    <3>2. CASE ~(k = o /\ l = Len(cells[o]) + 1)
      <4>1. l \in 1 .. Len(cells[k]) /\ cells'[k][l] = cells[k][l]
        <5>1. CASE k # o
          BY <5>1, <1>3
        <5>2. CASE k = o
          <6>1. l \in 1 .. Len(cells[o]) + 1 /\ l # Len(cells[o]) + 1
            BY <5>2, <3>2, <1>3, <1>4
          <6>2. l \in 1 .. Len(cells[o])
            BY <6>1, <1>4
          <6> QED BY <5>2, <6>2, <1>3, <1>4
        <5> QED BY <5>1, <5>2
      <4>2. cells[k][l] \in Cell
        BY <4>1, ElementOfSeq
      <4>3. cells[k][l].value # v
        BY <4>1, <4>2 DEF Held, Holds, Cell
      <4> QED BY <4>1, <4>3
    <3> QED BY <3>1, <3>2
  <2>2. CASE cells'[m][i].value = v
    <3>1. m = o /\ i = Len(cells[o]) + 1
      BY <2>1, <2>2
    <3>2. n = o /\ j = Len(cells[o]) + 1
      BY <2>1, <2>2
    <3> QED BY <3>1, <3>2
  <2>3. CASE cells'[m][i].value # v
    <3>1. /\ i \in 1 .. Len(cells[m]) /\ cells'[m][i] = cells[m][i]
          /\ j \in 1 .. Len(cells[n]) /\ cells'[n][j] = cells[n][j]
      BY <2>1, <2>3
    <3> QED BY <3>1 DEF HeldOnce
  <2> QED BY <2>2, <2>3
<1> QED BY <1>3, <1>4, <1>5, <1>6, <1>7, <1>8 DEF c

LEMMA CellChanged ==
  ASSUME cells \in [JsonVal -> Seq(Cell)], HeldOnce,
         NEW o \in JsonVal, NEW k \in 1 .. Len(cells[o]), NEW v \in JsonVal, v \notin Held,
         cells' = [cells EXCEPT ![o][k].value = v]
  PROVE  /\ cells' \in [JsonVal -> Seq(Cell)] /\ cells[o][k] \in Cell
         /\ \A m \in JsonVal : m # o => cells'[m] = cells[m]
         /\ Len(cells'[o]) = Len(cells[o])
         /\ \A i \in 1 .. Len(cells[o]) :
              cells'[o][i] = IF i = k THEN [name |-> cells[o][k].name, value |-> v] ELSE cells[o][i]
         /\ \A m, n \in JsonVal : Holds(m, n)' => Holds(m, n) \/ (m = o /\ n = v)
         /\ Held' = (Held \ {cells[o][k].value}) \cup {v} /\ HeldOnce'
<1> DEFINE c == [name |-> cells[o][k].name, value |-> v]
           len == Len(cells[o])
           old == cells[o][k].value
<1>1. cells[o][k] \in Cell
  BY ElementOfSeq
<1>2. c \in Cell /\ c.value = v
  BY <1>1 DEF Cell
<1>3. cells[o] \in Seq(Cell) /\ len \in Nat /\ old \in JsonVal
  BY <1>1, LenProperties DEF Cell
<1>4. [cells[o][k] EXCEPT !.value = v] = c
  BY <1>1 DEF Cell
<1>5. cells' = [cells EXCEPT ![o] = [cells[o] EXCEPT ![k] = c]]
  BY <1>4
<1>6. [cells[o] EXCEPT ![k] = c] \in Seq(Cell) /\ Len([cells[o] EXCEPT ![k] = c]) = len
  BY <1>2, <1>3, ExceptSeq
<1>7. /\ cells' \in [JsonVal -> Seq(Cell)]
      /\ \A m \in JsonVal : m # o => cells'[m] = cells[m]
      /\ Len(cells'[o]) = len
      /\ \A i \in 1 .. len : cells'[o][i] = IF i = k THEN c ELSE cells[o][i]
  <2> DEFINE new == [cells[o] EXCEPT ![k] = c]
  <2>1. \A i \in 1 .. len : new[i] = IF i = k THEN c ELSE cells[o][i]
    BY <1>2, <1>3, ExceptSeq
  <2>2. cells' = [cells EXCEPT ![o] = new] /\ new \in Seq(Cell) /\ Len(new) = len
    BY <1>5, <1>6
  <2> HIDE DEF new, c, len
  <2>3. \A m \in JsonVal : cells'[m] = IF m = o THEN new ELSE cells[m]
    BY <2>2
  <2> QED BY <2>1, <2>2, <2>3
<1> HIDE DEF c, len
<1>8. ASSUME NEW m \in JsonVal, NEW i \in 1 .. Len(cells'[m])
      PROVE  \/ m = o /\ i = k /\ cells'[m][i].value = v
             \/ /\ ~(m = o /\ i = k) /\ i \in 1 .. Len(cells[m])
                /\ cells'[m][i] = cells[m][i] /\ cells'[m][i].value \notin {v, old}
  <2>1. CASE m = o /\ i = k
    BY <2>1, <1>2, <1>7 DEF len
  <2>2. CASE ~(m = o /\ i = k)
    <3>1. i \in 1 .. Len(cells[m]) /\ cells'[m][i] = cells[m][i]
      BY <2>2, <1>7 DEF len
    <3>2. cells[m][i] \in Cell /\ cells[m][i].value # old
      BY <2>2, <3>1, ElementOfSeq DEF HeldOnce
    <3>3. cells[m][i].value # v
      BY <3>1, <3>2 DEF Held, Holds, Cell
    <3> QED BY <2>2, <3>1, <3>2, <3>3
  <2> QED BY <2>1, <2>2
<1>9. \A m, n \in JsonVal : Holds(m, n)' => (Holds(m, n) /\ n # old) \/ (m = o /\ n = v)
  BY <1>8 DEF Holds
<1>10. Held' = (Held \ {old}) \cup {v}
  <2>1. ASSUME NEW n \in JsonVal, n \in Held' PROVE n \in (Held \ {old}) \cup {v}
    BY <1>9, <2>1 DEF Held
  <2>2. v \in Held'
    <3>1. k \in 1 .. Len(cells'[o]) /\ cells'[o][k].value = v
      BY <1>2, <1>7 DEF len
    <3> QED BY <3>1 DEF Held, Holds
  <2>3. ASSUME NEW n \in JsonVal, n \in Held, n # old PROVE n \in Held'
    <3>0. PICK m \in JsonVal : \E i \in 1 .. Len(cells[m]) : cells[m][i].value = n
      BY <2>3 DEF Held, Holds
    <3>1. PICK i \in 1 .. Len(cells[m]) : cells[m][i].value = n
      BY <3>0
    <3>2. i \in 1 .. Len(cells'[m]) /\ cells'[m][i] = cells[m][i]
      BY <2>3, <3>1, <1>7 DEF len
    <3> QED BY <3>1, <3>2 DEF Held, Holds
  <2> QED BY <2>1, <2>2, <2>3 DEF Held
<1>11. HeldOnce'
  <2> SUFFICES ASSUME NEW m \in JsonVal, NEW n \in JsonVal,
                      NEW i \in 1 .. Len(cells'[m]), NEW j \in 1 .. Len(cells'[n]),
                      cells'[m][i].value = cells'[n][j].value
               PROVE  m = n /\ i = j
    BY DEF HeldOnce
  <2>1. CASE cells'[m][i].value = v
    <3>1. m = o /\ i = k
      BY <1>8, <2>1
    <3>2. n = o /\ j = k
      BY <1>8, <2>1
    <3> QED BY <3>1, <3>2
  <2>2. CASE cells'[m][i].value # v
    <3>1. /\ i \in 1 .. Len(cells[m]) /\ cells'[m][i] = cells[m][i]
          /\ j \in 1 .. Len(cells[n]) /\ cells'[n][j] = cells[n][j]
      BY <1>8, <2>2
    <3>2. cells[m][i].value = cells[n][j].value
      BY <3>1
    <3> QED BY ONLY HeldOnce, <3>1, <3>2, m \in JsonVal, n \in JsonVal DEF HeldOnce
  <2> QED BY <2>1, <2>2
<1> QED BY <1>1, <1>7, <1>9, <1>10, <1>11 DEF c, len

LEMMA CellTaken ==
  ASSUME cells \in [JsonVal -> Seq(Cell)], HeldOnce,
         NEW o \in JsonVal, cells[o] # <<>>, cells' = [cells EXCEPT ![o] = Tail(@)]
  PROVE  /\ cells' \in [JsonVal -> Seq(Cell)] /\ Head(cells[o]).value \in Held
         /\ \A m \in JsonVal : m # o => cells'[m] = cells[m]
         /\ \A m, n \in JsonVal : Holds(m, n)' => Holds(m, n)
         /\ Held' = Held \ {Head(cells[o]).value} /\ HeldOnce'
         /\ \A i \in 1 .. Len(cells'[o]) : i + 1 \in 1 .. Len(cells[o]) /\ cells'[o][i] = cells[o][i + 1]
<1> DEFINE old == Head(cells[o]).value
<1>1. /\ cells[o] \in Seq(Cell) /\ Len(cells[o]) \in Nat \ {0}
      /\ Head(cells[o]) = cells[o][1] /\ Head(cells[o]) \in Cell
      /\ Tail(cells[o]) \in Seq(Cell) /\ Len(Tail(cells[o])) = Len(cells[o]) - 1
      /\ \A i \in 1 .. Len(cells[o]) - 1 : Tail(cells[o])[i] = cells[o][i + 1]
  BY HeadTailProperties, EmptySeq, LenProperties
<1>2. /\ cells' \in [JsonVal -> Seq(Cell)]
      /\ \A m \in JsonVal : cells'[m] = IF m = o THEN Tail(cells[o]) ELSE cells[m]
  BY <1>1
<1>3. old \in JsonVal /\ old \in Held
  <2>1. 1 \in 1 .. Len(cells[o])
    BY <1>1
  <2> QED BY <1>1, <2>1 DEF Cell, Held, Holds
<1>4. \A i \in 1 .. Len(cells'[o]) : i + 1 \in 1 .. Len(cells[o]) /\ cells'[o][i] = cells[o][i + 1]
  BY <1>1, <1>2
<1>5. ASSUME NEW m \in JsonVal, NEW i \in 1 .. Len(cells'[m])
      PROVE  \E j \in 1 .. Len(cells[m]) : /\ j = (IF m = o THEN i + 1 ELSE i)
                                           /\ cells'[m][i] = cells[m][j]
                                           /\ cells'[m][i].value # old
  <2>1. CASE m # o
    <3>1. i \in 1 .. Len(cells[m]) /\ cells'[m][i] = cells[m][i]
      BY <2>1, <1>2
    <3>2. 1 \in 1 .. Len(cells[o]) /\ cells[o][1].value = old
      BY <1>1
    <3>3. cells[m][i].value # old
      BY <2>1, <3>1, <3>2 DEF HeldOnce
    <3> QED BY <2>1, <3>1, <3>3
  <2>2. CASE m = o
    <3>1. i + 1 \in 1 .. Len(cells[o]) /\ cells'[o][i] = cells[o][i + 1] /\ i + 1 # 1
      BY <2>2, <1>4
    <3>2. 1 \in 1 .. Len(cells[o]) /\ cells[o][1].value = old
      BY <1>1
    <3>3. cells[o][i + 1].value # old
      BY <3>1, <3>2 DEF HeldOnce
    <3> QED BY <2>2, <3>1, <3>3
  <2> QED BY <2>1, <2>2
<1> HIDE DEF old
<1>6. ASSUME NEW m \in JsonVal, NEW n \in JsonVal, Holds(m, n)' PROVE Holds(m, n) /\ n # old
  <2>1. PICK i \in 1 .. Len(cells'[m]) : cells'[m][i].value = n
    BY <1>6 DEF Holds
  <2>2. PICK j \in 1 .. Len(cells[m]) : cells'[m][i] = cells[m][j] /\ cells'[m][i].value # old
    BY <1>5
  <2> QED BY <2>1, <2>2 DEF Holds
<1>7. Held' = Held \ {old}
  <2>1. ASSUME NEW n \in JsonVal, n \in Held' PROVE n \in Held \ {old}
    BY <1>6, <2>1 DEF Held
  <2>2. ASSUME NEW n \in JsonVal, n \in Held, n # old PROVE n \in Held'
    <3>0. PICK m \in JsonVal : \E i \in 1 .. Len(cells[m]) : cells[m][i].value = n
      BY <2>2 DEF Held, Holds
    <3>1. PICK i \in 1 .. Len(cells[m]) : cells[m][i].value = n
      BY <3>0
    <3>2. CASE m # o
      BY <3>1, <3>2, <1>2 DEF Held, Holds
    <3>3. CASE m = o
      <4>1. i # 1
        BY <3>1, <3>3, <2>2, <1>1 DEF old
      <4>2. i - 1 \in 1 .. Len(cells'[o]) /\ cells'[o][i - 1] = cells[o][i]
        BY <3>3, <4>1, <1>1, <1>2
      <4> QED BY <3>1, <3>3, <4>2 DEF Held, Holds
    <3> QED BY <3>2, <3>3
  <2> QED BY <2>1, <2>2 DEF Held
<1>8. HeldOnce'
  <2> SUFFICES ASSUME NEW m \in JsonVal, NEW n \in JsonVal,
                      NEW i \in 1 .. Len(cells'[m]), NEW j \in 1 .. Len(cells'[n]),
                      cells'[m][i].value = cells'[n][j].value
               PROVE  m = n /\ i = j
    BY DEF HeldOnce
  <2>1. PICK k \in 1 .. Len(cells[m]) : k = (IF m = o THEN i + 1 ELSE i) /\ cells'[m][i] = cells[m][k]
    BY <1>5
  <2>2. PICK l \in 1 .. Len(cells[n]) : l = (IF n = o THEN j + 1 ELSE j) /\ cells'[n][j] = cells[n][l]
    BY <1>5
  <2>3. m = n /\ k = l
    BY <2>1, <2>2 DEF HeldOnce
  <2>4. i \in Nat /\ j \in Nat
    OBVIOUS
  <2> QED BY <2>1, <2>2, <2>3, <2>4
<1> QED BY <1>2, <1>3, <1>4, <1>6, <1>7, <1>8 DEF old
-----------------------------------------------------------------------------
\* The heap when it stays, when a value is created, and when one is put.

LEMMA HeapSame ==
  ASSUME UNCHANGED <<type, cells, given>>, dying \subseteq dying', FreeIsEmpty, Remembered
  PROVE  /\ FreeIsEmpty' /\ Remembered' /\ Live' = Live /\ Held' = Held
         /\ HeldOnce' = HeldOnce /\ Grounded' = Grounded
<1>1. FreeIsEmpty'
  BY DEF FreeIsEmpty
<1>2. \A o \in JsonVal, x \in Name : MembersNamed(o, x)' = MembersNamed(o, x)
  BY DEF MembersNamed
<1>3. Remembered'
  BY <1>2 DEF Remembered
<1>4. Live' = Live
  BY DEF Live
<1>5. Held' = Held /\ HeldOnce' = HeldOnce
  BY CellsSame
<1>6. Grounded' = Grounded
  <2>1. \A m, n : Holds(m, n)' = Holds(m, n)
    BY DEF Holds
  <2> QED BY <1>4, <2>1 DEF Grounded
<1> QED BY <1>1, <1>3, <1>4, <1>5, <1>6

LEMMA ValueCreated ==
  ASSUME TreeTypeOK, FreeIsEmpty, Remembered, Grounded, LiveIsOwned,
         NEW n \in JsonVal, NEW t \in {"atom", "arr", "obj"},
         Create(n, t), UNCHANGED <<cells, given, dying>>
  PROVE  /\ type' \in [JsonVal -> {"free", "atom", "arr", "obj"}]
         /\ \A m \in JsonVal : m # n => type'[m] = type[m]
         /\ type'[n] = t /\ n \notin Live /\ Live' = Live \cup {n}
         /\ FreeIsEmpty' /\ Remembered' /\ Grounded'
<1>1. /\ type' \in [JsonVal -> {"free", "atom", "arr", "obj"}] /\ type[n] = "free"
      /\ \A m \in JsonVal : type'[m] = IF m = n THEN t ELSE type[m]
  BY DEF Create, TreeTypeOK
<1>2. n \notin Live /\ Live' = Live \cup {n}
  BY <1>1 DEF Live
<1>3. FreeIsEmpty'
  BY <1>1 DEF FreeIsEmpty
<1>4. \A o \in JsonVal, x \in Name : MembersNamed(o, x)' = MembersNamed(o, x)
  BY DEF MembersNamed
<1>5. cells[n] = <<>> /\ \A x \in Name : given[n][x] = NULL /\ MembersNamed(n, x) = {}
  BY <1>1 DEF FreeIsEmpty, MembersNamed
<1>6. Remembered'
  <2> SUFFICES ASSUME NEW o \in JsonVal, type'[o] = "obj"
               PROVE  /\ \A i, j \in 1 .. Len(cells[o]) : cells[o][i].name = cells[o][j].name => i = j
                      /\ o \notin dying => \A x \in Name :
                           /\ \A i \in MembersNamed(o, x) : given[o][x] = cells[o][i].value
                           /\ MembersNamed(o, x) = {} => given[o][x] = NULL
    BY <1>4 DEF Remembered
  <2>1. CASE o = n
    <3>1. Len(cells[o]) = 0
      BY <2>1, <1>5
    <3> QED BY <2>1, <3>1, <1>5
  <2>2. CASE o # n
    BY <2>2, <1>1 DEF Remembered
  <2> QED BY <2>1, <2>2
<1>7. Grounded'
  <2>1. n \notin Held'
    BY <1>2, CellsSame DEF LiveIsOwned
  <2>2. \A m \in JsonVal : m \in Live' => m \in Live \/ m \notin Held'
    BY <1>2, <2>1
  <2> QED BY <2>2, CellsSame, StaysGrounded
<1> QED BY <1>1, <1>2, <1>3, <1>6, <1>7

\* Who loses his cell to the value that is put is with jsonDelete.
LEMMA ValuePut ==
  ASSUME TreeTypeOK, HeldOnce, FreeIsEmpty, Remembered,
         NEW o \in JsonVal, NEW x \in Name \cup {NULL}, NEW v \in JsonVal,
         v \notin Held, o \notin dying, UNCHANGED type,
         AddItem(o, v) \/ PutMember(o, x, v)
  PROVE  /\ cells' \in [JsonVal -> Seq(Cell)]
         /\ given' \in [JsonVal -> [Name -> JsonVal \cup {NULL}]]
         /\ \A m, n \in JsonVal : Holds(m, n)' => Holds(m, n) \/ (m = o /\ n = v)
         /\ \E gone \in SUBSET Held : dying' = dying \cup gone /\ Held' = (Held \ gone) \cup {v}
         /\ HeldOnce' /\ FreeIsEmpty' /\ Remembered'
<1>0. cells \in [JsonVal -> Seq(Cell)] /\ given \in [JsonVal -> [Name -> JsonVal \cup {NULL}]]
      /\ NULL \notin Name
  BY TreeAssumption DEF TreeTypeOK
<1> DEFINE gives(p, y) == /\ \A i \in MembersNamed(p, y) : given[p][y] = cells[p][i].value
                          /\ MembersNamed(p, y) = {} => given[p][y] = NULL
           distinct(p) == \A i, j \in 1 .. Len(cells[p]) : cells[p][i].name = cells[p][j].name => i = j
<1>r. \A p \in JsonVal : type[p] = "obj" => distinct(p) /\ (p \notin dying => \A y \in Name : gives(p, y))
  BY DEF Remembered
<1>s. ASSUME NEW p \in JsonVal, cells'[p] = cells[p], given'[p] = given[p]
      PROVE  distinct(p)' = distinct(p) /\ \A y \in Name : gives(p, y)' = gives(p, y)
  BY <1>s DEF MembersNamed
<1>1. CASE AddItem(o, v)
  <2>1. type[o] = "arr" /\ Extend(o, NULL, v) /\ given' = given /\ dying' = dying
    BY <1>1 DEF AddItem, Extend
  <2>2. /\ cells' \in [JsonVal -> Seq(Cell)]
        /\ \A m \in JsonVal : m # o => cells'[m] = cells[m]
        /\ \A m, n \in JsonVal : Holds(m, n)' <=> Holds(m, n) \/ (m = o /\ n = v)
        /\ Held' = Held \cup {v} /\ HeldOnce'
    BY <1>0, <2>1, CellAdded
  <2>3. FreeIsEmpty'
    BY <2>1, <2>2 DEF FreeIsEmpty
  <2>4. \A p \in JsonVal : type'[p] = "obj" =>
          distinct(p)' /\ (p \notin dying' => \A y \in Name : gives(p, y)')
    <3> SUFFICES ASSUME NEW p \in JsonVal, type[p] = "obj"
                 PROVE  distinct(p)' /\ (p \notin dying => \A y \in Name : gives(p, y)')
      BY <2>1
    <3>1. cells'[p] = cells[p] /\ given'[p] = given[p]
      BY <2>1, <2>2
    <3> HIDE DEF gives, distinct
    <3> QED BY <3>1, <1>r, <1>s
  <2>5. Remembered'
    BY <2>4 DEF Remembered
  <2>6. dying' = dying \cup {} /\ Held' = (Held \ {}) \cup {v} /\ {} \in SUBSET Held
    BY <2>1, <2>2
  <2> HIDE DEF gives, distinct
  <2> QED BY <1>0, <2>1, <2>2, <2>3, <2>5, <2>6
<1>2. CASE PutMember(o, x, v)
  <2>1. /\ type[o] = "obj" /\ x \in Name /\ given' = [given EXCEPT ![o][x] = v]
        /\ given' \in [JsonVal -> [Name -> JsonVal \cup {NULL}]]
        /\ \A p \in JsonVal : p # o => given'[p] = given[p]
        /\ \A y \in Name : given'[o][y] = IF y = x THEN v ELSE given[o][y]
    BY <1>0, <1>2 DEF PutMember
  <2>2. distinct(o) /\ \A y \in Name : gives(o, y)
    <3> HIDE DEF gives, distinct
    <3> QED BY <1>r, <2>1
  <2>3. ASSUME /\ cells' \in [JsonVal -> Seq(Cell)]
               /\ \A m \in JsonVal : m # o => cells'[m] = cells[m]
               /\ dying \subseteq dying'
               /\ distinct(o)' /\ \A y \in Name : gives(o, y)'
        PROVE  FreeIsEmpty' /\ Remembered'
    <3>1. FreeIsEmpty'
      BY <2>1, <2>3 DEF FreeIsEmpty
    <3>2. \A p \in JsonVal : type'[p] = "obj" =>
            distinct(p)' /\ (p \notin dying' => \A y \in Name : gives(p, y)')
      <4> SUFFICES ASSUME NEW p \in JsonVal, type[p] = "obj"
                   PROVE  distinct(p)' /\ (p \notin dying' => \A y \in Name : gives(p, y)')
        OBVIOUS
      <4> HIDE DEF gives, distinct
      <4>1. CASE p = o
        BY <4>1, <2>3
      <4>2. CASE p # o
        BY <4>2, <2>1, <2>3, <1>r, <1>s
      <4> QED BY <4>1, <4>2
    <3> QED BY <3>1, <3>2 DEF Remembered
  <2>4. CASE MembersNamed(o, x) = {} /\ Extend(o, x, v)
    <3>1. /\ cells' \in [JsonVal -> Seq(Cell)]
          /\ \A m \in JsonVal : m # o => cells'[m] = cells[m]
          /\ Len(cells'[o]) = Len(cells[o]) + 1 /\ Len(cells[o]) \in Nat
          /\ \A i \in 1 .. Len(cells[o]) : cells'[o][i] = cells[o][i]
          /\ cells'[o][Len(cells[o]) + 1] = [name |-> x, value |-> v]
          /\ \A m, n \in JsonVal : Holds(m, n)' <=> Holds(m, n) \/ (m = o /\ n = v)
          /\ Held' = Held \cup {v} /\ HeldOnce'
      BY <1>0, <2>4, CellAdded
    <3>2. dying' = dying
      BY <2>4 DEF Extend
    <3> DEFINE len == Len(cells[o])
    <3>3. ASSUME NEW i \in 1 .. len + 1
          PROVE  \/ i = len + 1 /\ cells'[o][i].name = x /\ cells'[o][i].value = v
                 \/ i \in 1 .. len /\ i # len + 1 /\ cells'[o][i] = cells[o][i] /\ cells[o][i].name # x
      <4>1. CASE i = len + 1
        BY <4>1, <3>1
      <4>2. CASE i # len + 1
        <5>1. i \in 1 .. len
          BY <4>2, <3>1
        <5> QED BY <5>1, <4>2, <2>4, <3>1 DEF MembersNamed
      <4> QED BY <4>1, <4>2
    <3>4. len + 1 \in 1 .. len + 1 /\ \A i \in 1 .. len : i \in 1 .. len + 1
      BY <3>1
    <3>5. distinct(o)'
      BY <3>1, <3>3, <2>2
    <3>6. ASSUME NEW y \in Name PROVE gives(o, y)'
      <4>1. MembersNamed(o, y)' = IF y = x THEN {len + 1} ELSE MembersNamed(o, y)
        BY <3>1, <3>3, <3>4 DEF MembersNamed
      <4>2. CASE y = x
        <5>1. given'[o][y] = v /\ cells'[o][len + 1].value = v
          BY <4>2, <2>1, <3>1
        <5>2. MembersNamed(o, y)' = {len + 1}
          BY <4>1, <4>2
        <5> HIDE DEF len
        <5> QED BY <5>1, <5>2
      <4>3. CASE y # x
        <5>1. \A i \in MembersNamed(o, y) : cells'[o][i] = cells[o][i]
          BY <3>1 DEF MembersNamed
        <5> QED BY <4>1, <4>3, <5>1, <2>1, <2>2
      <4> QED BY <4>2, <4>3
    <3> HIDE DEF gives, distinct
    <3>7. FreeIsEmpty' /\ Remembered'
      BY <2>3, <3>1, <3>2, <3>5, <3>6
    <3>8. dying' = dying \cup {} /\ Held' = (Held \ {}) \cup {v} /\ {} \in SUBSET Held
      BY <3>1, <3>2
    <3> QED BY <2>1, <3>1, <3>7, <3>8
  <2>5. ASSUME NEW k \in MembersNamed(o, x),
               cells' = [cells EXCEPT ![o][k].value = v],
               dying' = dying \cup {cells[o][k].value}
        PROVE  /\ cells' \in [JsonVal -> Seq(Cell)]
               /\ \A m, n \in JsonVal : Holds(m, n)' => Holds(m, n) \/ (m = o /\ n = v)
               /\ \E gone \in SUBSET Held : dying' = dying \cup gone /\ Held' = (Held \ gone) \cup {v}
               /\ HeldOnce' /\ FreeIsEmpty' /\ Remembered'
    <3>1. k \in 1 .. Len(cells[o]) /\ cells[o][k].name = x
      BY DEF MembersNamed
    <3>2. /\ cells' \in [JsonVal -> Seq(Cell)] /\ cells[o][k] \in Cell
          /\ \A m \in JsonVal : m # o => cells'[m] = cells[m]
          /\ Len(cells'[o]) = Len(cells[o])
          /\ \A i \in 1 .. Len(cells[o]) :
               cells'[o][i] = IF i = k THEN [name |-> cells[o][k].name, value |-> v] ELSE cells[o][i]
          /\ \A m, n \in JsonVal : Holds(m, n)' => Holds(m, n) \/ (m = o /\ n = v)
          /\ Held' = (Held \ {cells[o][k].value}) \cup {v} /\ HeldOnce'
      BY <1>0, <2>5, <3>1, CellChanged
    <3>3. \A i \in 1 .. Len(cells[o]) : cells'[o][i].name = cells[o][i].name
      BY <3>1, <3>2
    <3>4. distinct(o)'
      BY <2>2, <3>2, <3>3
    <3>5. ASSUME NEW y \in Name PROVE gives(o, y)'
      <4>1. MembersNamed(o, y)' = MembersNamed(o, y)
        BY <3>2, <3>3 DEF MembersNamed
      <4>2. CASE y = x
        <5>1. \A i \in MembersNamed(o, y) : i = k
          BY <4>2, <3>1, <2>2 DEF MembersNamed
        <5>2. given'[o][y] = v /\ cells'[o][k].value = v
          BY <4>2, <2>1, <3>1, <3>2
        <5>3. MembersNamed(o, y) # {}
          BY <4>2
        <5> QED BY <4>1, <5>1, <5>2, <5>3
      <4>3. CASE y # x
        <5>1. \A i \in MembersNamed(o, y) : i \in 1 .. Len(cells[o]) /\ i # k
          BY <4>3, <3>1 DEF MembersNamed
        <5>2. \A i \in MembersNamed(o, y) : cells'[o][i] = cells[o][i]
          BY <5>1, <3>2
        <5> QED BY <4>1, <4>3, <5>2, <2>1, <2>2
      <4> QED BY <4>2, <4>3
    <3> HIDE DEF gives, distinct
    <3>6. FreeIsEmpty' /\ Remembered'
      BY <2>3, <2>5, <3>2, <3>4, <3>5
    <3>7. {cells[o][k].value} \in SUBSET Held
      BY <3>1, <3>2 DEF Cell, Held, Holds
    <3> QED BY <2>5, <3>2, <3>6, <3>7
  <2> QED BY <1>2, <2>1, <2>4, <2>5 DEF PutMember
<1> QED BY <1>1, <1>2
-----------------------------------------------------------------------------
\* Whom the containers of jsonParse hold, as one is entered, left or named.

LEMMA StackSame ==
  ASSUME stack \in Seq(Frame), UNCHANGED stack, StackedOnce, NodesTyped,
         \A m \in Stacked : type'[m] = type[m]
  PROVE  Stacked' = Stacked /\ StackedOnce' /\ NodesTyped' /\ Top' = Top
<1>1. Stacked' = Stacked /\ Top' = Top
  BY DEF Stacked, Top
<1>2. StackedOnce'
  BY DEF StackedOnce
<1>3. ASSUME NEW i \in 1 .. Len(stack), stack[i].node # NULL
      PROVE  type'[stack[i].node] = stack[i].kind
  <2>1. stack[i] \in Frame
    BY ElementOfSeq
  <2>2. stack[i].node \in Stacked
    BY <1>3, <2>1 DEF Frame, Stacked
  <2> QED BY <1>3, <2>2 DEF NodesTyped
<1>4. NodesTyped'
  BY <1>3 DEF NodesTyped
<1> QED BY <1>1, <1>2, <1>4

LEMMA FrameEntered ==
  ASSUME stack \in Seq(Frame), StackedOnce, NodesTyped,
         NEW n \in JsonVal \cup {NULL}, NEW kind \in {"arr", "obj"}, n \notin Stacked,
         stack' = Append(stack, [kind |-> kind, node |-> n, name |-> NULL]),
         \A m \in Stacked : type'[m] = type[m], n # NULL => type'[n] = kind
  PROVE  /\ stack' \in Seq(Frame) /\ stack' # <<>>
         /\ Stacked' = Stacked \cup ({n} \ {NULL}) /\ StackedOnce' /\ NodesTyped'
<1> DEFINE f == [kind |-> kind, node |-> n, name |-> NULL]
           len == Len(stack)
<1>1. f \in Frame /\ f.node = n /\ f.kind = kind
  BY DEF Frame
<1>2. /\ stack' \in Seq(Frame) /\ stack' # <<>> /\ len \in Nat /\ Len(stack') = len + 1
      /\ \A i \in 1 .. len : stack'[i] = stack[i] /\ stack[i] \in Frame
      /\ stack'[len + 1] = f
  BY <1>1, StackGrows, LenProperties, ElementOfSeq
<1> HIDE DEF f, len
<1>3. ASSUME NEW i \in 1 .. Len(stack')
      PROVE  \/ i = len + 1 /\ stack'[i].node = n /\ stack'[i].kind = kind
             \/ /\ i \in 1 .. len /\ stack'[i] = stack[i]
                /\ stack[i].node \in Stacked \cup {NULL}
  <2>1. CASE i = len + 1
    BY <2>1, <1>1, <1>2
  <2>2. CASE i # len + 1
    <3>1. i \in 1 .. len
      BY <2>2, <1>2
    <3>2. stack[i].node \in Stacked \cup {NULL}
      BY <3>1, <1>2 DEF Stacked, Frame, len
    <3> QED BY <3>1, <3>2, <1>2
  <2> QED BY <2>1, <2>2
<1>4. Stacked' = Stacked \cup ({n} \ {NULL})
  <2>1. ASSUME NEW m \in JsonVal, m \in Stacked' PROVE m \in Stacked \cup ({n} \ {NULL})
    <3>1. PICK i \in 1 .. Len(stack') : stack'[i].node = m
      BY <2>1 DEF Stacked
    <3>2. m # NULL
      BY TreeAssumption
    <3> QED BY <3>1, <3>2, <1>3
  <2>2. ASSUME NEW m \in JsonVal, m \in Stacked PROVE m \in Stacked'
    <3>1. PICK i \in 1 .. len : stack[i].node = m
      BY <2>2 DEF Stacked, len
    <3>2. i \in 1 .. Len(stack') /\ stack'[i].node = m
      BY <3>1, <1>2
    <3> QED BY <3>2 DEF Stacked
  <2>3. n \in JsonVal => n \in Stacked'
    <3>1. len + 1 \in 1 .. Len(stack')
      BY <1>2
    <3> QED BY <3>1, <1>1, <1>2 DEF Stacked
  <2> QED BY <2>1, <2>2, <2>3 DEF Stacked
<1>5. StackedOnce'
  <2> SUFFICES ASSUME NEW i \in 1 .. Len(stack'), NEW j \in 1 .. Len(stack'),
                      stack'[i].node = stack'[j].node, stack'[i].node # NULL
               PROVE  i = j
    BY DEF StackedOnce
  <2>1. CASE stack'[i].node = n
    BY <2>1, <1>3
  <2>2. CASE stack'[i].node # n
    <3>1. i \in 1 .. len /\ stack'[i] = stack[i] /\ j \in 1 .. len /\ stack'[j] = stack[j]
      BY <2>2, <1>3
    <3> QED BY <3>1 DEF StackedOnce, len
  <2> QED BY <2>1, <2>2
<1>6. NodesTyped'
  <2> SUFFICES ASSUME NEW i \in 1 .. Len(stack'), stack'[i].node # NULL
               PROVE  type'[stack'[i].node] = stack'[i].kind
    BY DEF NodesTyped
  <2>1. CASE i = len + 1
    BY <2>1, <1>1, <1>2
  <2>2. CASE i # len + 1
    <3>1. i \in 1 .. len /\ stack'[i] = stack[i] /\ stack[i].node \in Stacked
      BY <2>2, <1>3
    <3> QED BY <3>1 DEF NodesTyped, len
  <2> QED BY <2>1, <2>2
<1> QED BY <1>2, <1>4, <1>5, <1>6

LEMMA TopHeld ==
  ASSUME stack \in Seq(Frame), stack # <<>>, NodesTyped
  PROVE  /\ Top \in Frame /\ Top.node \in Stacked \cup {NULL}
         /\ Top.node # NULL => type[Top.node] = Top.kind
<1>1. Len(stack) \in 1 .. Len(stack)
  BY EmptySeq, LenProperties
<1>2. Top \in Frame
  BY <1>1, ElementOfSeq DEF Top
<1>3. Top.node \in JsonVal \cup {NULL}
  BY <1>2 DEF Frame
<1>4. Top.node \in JsonVal => Top.node \in Stacked
  BY <1>1 DEF Top, Stacked
<1>5. Top.node # NULL => type[Top.node] = Top.kind
  BY <1>1 DEF Top, NodesTyped
<1> QED BY <1>2, <1>3, <1>4, <1>5

LEMMA FrameLeft ==
  ASSUME stack \in Seq(Frame), stack # <<>>, stack' = Below, UNCHANGED type,
         StackedOnce, NodesTyped
  PROVE  /\ stack' \in Seq(Frame) /\ Stacked' = Stacked \ {Top.node}
         /\ StackedOnce' /\ NodesTyped'
<1> DEFINE len == Len(stack)
<1>1. /\ stack' \in Seq(Frame) /\ len \in Nat \ {0} /\ Len(stack') = len - 1
      /\ \A i \in 1 .. len - 1 : stack'[i] = stack[i]
  BY StackShrinks
<1>2. ASSUME NEW i \in 1 .. Len(stack')
      PROVE  i \in 1 .. len /\ i # len /\ stack'[i] = stack[i]
  BY <1>1
<1>3. len \in 1 .. len /\ Top = stack[len]
  BY <1>1 DEF Top
<1> HIDE DEF len
<1>4. Stacked' = Stacked \ {Top.node}
  <2>1. ASSUME NEW m \in JsonVal, m \in Stacked' PROVE m \in Stacked \ {Top.node}
    <3>1. PICK i \in 1 .. Len(stack') : stack'[i].node = m
      BY <2>1 DEF Stacked
    <3>2. i \in 1 .. len /\ i # len /\ stack[i].node = m /\ m # NULL
      BY <3>1, <1>2, TreeAssumption
    <3>3. stack[len].node # m
      BY <3>2, <1>3 DEF StackedOnce, len
    <3> QED BY <3>2, <3>3, <1>3 DEF Stacked, len
  <2>2. ASSUME NEW m \in JsonVal, m \in Stacked, m # Top.node PROVE m \in Stacked'
    <3>1. PICK i \in 1 .. len : stack[i].node = m
      BY <2>2 DEF Stacked, len
    <3>2. i # len
      BY <3>1, <2>2, <1>3
    <3>3. i \in 1 .. Len(stack') /\ stack'[i] = stack[i]
      BY <3>2, <1>1
    <3> QED BY <3>1, <3>3 DEF Stacked
  <2> QED BY <2>1, <2>2 DEF Stacked
<1>5. StackedOnce'
  <2> SUFFICES ASSUME NEW i \in 1 .. Len(stack'), NEW j \in 1 .. Len(stack'),
                      stack'[i].node = stack'[j].node, stack'[i].node # NULL
               PROVE  i = j
    BY DEF StackedOnce
  <2>1. i \in 1 .. len /\ stack'[i] = stack[i] /\ j \in 1 .. len /\ stack'[j] = stack[j]
    BY <1>2
  <2> QED BY <2>1 DEF StackedOnce, len
<1>6. NodesTyped'
  BY <1>2 DEF NodesTyped, len
<1> QED BY <1>1, <1>4, <1>5, <1>6

LEMMA FrameNamed ==
  ASSUME stack \in Seq(Frame), stack # <<>>, NEW x \in Name \cup {NULL}, UNCHANGED type,
         stack' = Append(Below, [Top EXCEPT !.name = x]), StackedOnce, NodesTyped
  PROVE  /\ stack' \in Seq(Frame) /\ Stacked' = Stacked /\ StackedOnce' /\ NodesTyped'
<1>1. /\ stack' \in Seq(Frame) /\ Len(stack') = Len(stack)
      /\ \A i \in 1 .. Len(stack) : stack'[i].node = stack[i].node /\ stack'[i].kind = stack[i].kind
  BY TopNamed
<1>2. Stacked' = Stacked
  BY <1>1 DEF Stacked
<1>3. StackedOnce'
  BY <1>1 DEF StackedOnce
<1>4. NodesTyped'
  BY <1>1 DEF NodesTyped
<1> QED BY <1>1, <1>2, <1>3, <1>4
-----------------------------------------------------------------------------
\* The steps of the application and of jsonDelete keep the invariant.

LEMMA TreeInvInit == TreeInit => TreeInv
<1> SUFFICES ASSUME TreeInit PROVE TreeInv
  OBVIOUS
<1>1. /\ \A n \in JsonVal : type[n] = "free" /\ cells[n] = <<>> /\ Len(cells[n]) = 0
      /\ \A n \in JsonVal, x \in Name : given[n][x] = NULL
      /\ stack = <<>> /\ Len(stack) = 0
  BY DEF TreeInit
<1>2. TreeTypeOK
  <2>1. <<>> \in Seq(Cell) /\ <<>> \in Seq(Frame)
    BY EmptySeq
  <2>2. \A S : S = {} => S \in SUBSET JsonVal
    OBVIOUS
  <2> QED BY <2>1, <2>2 DEF TreeInit, TreeTypeOK
<1>3. Held = {} /\ Live = {} /\ Tops = {}
  BY <1>1 DEF TreeInit, Held, Holds, Live, Tops, Stacked, Passed
<1>4. OneOwner
  <2>1. HeldOnce
    BY <1>1 DEF HeldOnce
  <2>2. StackedOnce
    BY <1>1 DEF StackedOnce
  <2>3. Apart
    BY <1>3 DEF Apart, Tops
  <2> QED BY <1>3, <2>1, <2>2, <2>3 DEF OneOwner
<1>5. LiveIsOwned /\ Grounded
  BY <1>3 DEF LiveIsOwned, Grounded
<1>6. FreeIsEmpty /\ Remembered
  BY <1>1 DEF FreeIsEmpty, Remembered
<1>7. Stage /\ NodesTyped
  BY <1>1 DEF TreeInit, Stage, NodesTyped
<1> QED BY <1>2, <1>4, <1>5, <1>6, <1>7 DEF TreeInv

LEMMA AppCreateKeeps ==
  ASSUME TreeInv, NEW n \in JsonVal, NEW t \in {"atom", "arr", "obj"}, AppCreate(n, t)
  PROVE  TreeInv'
<1>1. /\ Create(n, t) /\ UNCHANGED <<cells, dying, at, stack, val, lost, given>>
      /\ roots' = roots \cup {n}
      /\ TreeTypeOK /\ OneOwner /\ LiveIsOwned /\ Grounded
      /\ FreeIsEmpty /\ Remembered /\ Stage /\ NodesTyped
  BY DEF AppCreate, TreeInv
<1>2. /\ type' \in [JsonVal -> {"free", "atom", "arr", "obj"}]
      /\ \A m \in JsonVal : m # n => type'[m] = type[m]
      /\ n \notin Live /\ Live' = Live \cup {n}
      /\ FreeIsEmpty' /\ Remembered' /\ Grounded'
  BY <1>1, ValueCreated
<1>3. Held' = Held /\ HeldOnce' /\ Passed' = Passed
  BY <1>1, CellsSame DEF OneOwner, Passed
<1>4. Stacked' = Stacked /\ StackedOnce' /\ NodesTyped' /\ Top' = Top
  <2>1. \A m \in Stacked : type'[m] = type[m]
    BY <1>1, <1>2 DEF LiveIsOwned, Tops, Stacked
  <2> QED BY <1>1, <2>1, StackSame DEF OneOwner, TreeTypeOK
<1>5. TreeTypeOK'
  BY <1>1, <1>2 DEF TreeTypeOK
<1>6. OneOwner' /\ LiveIsOwned'
  BY <1>1, <1>2, <1>3, <1>4 DEF OneOwner, Apart, Tops, LiveIsOwned
<1>7. Stage'
  BY <1>1, <1>4 DEF Stage
<1> QED BY <1>2, <1>4, <1>5, <1>6, <1>7 DEF TreeInv

\* The tree of a value is closed, and the value is in it.
LEMMA TreeClosed ==
  ASSUME NEW v \in JsonVal
  PROVE  v \in TreeOf(v) /\ \A m \in TreeOf(v), n \in JsonVal : Holds(m, n) => n \in TreeOf(v)
BY DEF TreeOf, Closed

LEMMA AppGiveKeeps ==
  ASSUME TreeInv, NEW c \in JsonVal, NEW v \in JsonVal, NEW x \in Name, AppGive(c, v, x)
  PROVE  TreeInv'
<1>1. /\ dying = {} /\ v \in roots /\ c \notin TreeOf(v) /\ roots' = roots \ {v}
      /\ UNCHANGED <<type, at, stack, val, lost>>
      /\ AddItem(c, v) \/ PutMember(c, x, v)
      /\ TreeTypeOK /\ OneOwner /\ LiveIsOwned /\ Grounded
      /\ FreeIsEmpty /\ Remembered /\ Stage /\ NodesTyped
  BY DEF AppGive, App, TreeInv
<1>2. v \notin Held /\ c \notin dying
  BY <1>1 DEF OneOwner, Tops
<1>3. /\ cells' \in [JsonVal -> Seq(Cell)]
      /\ given' \in [JsonVal -> [Name -> JsonVal \cup {NULL}]]
      /\ \A m, n \in JsonVal : Holds(m, n)' => Holds(m, n) \/ (m = c /\ n = v)
      /\ \E gone \in SUBSET Held : dying' = dying \cup gone /\ Held' = (Held \ gone) \cup {v}
      /\ HeldOnce' /\ FreeIsEmpty' /\ Remembered'
  BY <1>1, <1>2, ValuePut DEF OneOwner
<1>4. PICK gone \in SUBSET Held : dying' = dying \cup gone /\ Held' = (Held \ gone) \cup {v}
  BY <1>3
<1>5. Stacked' = Stacked /\ StackedOnce' /\ NodesTyped' /\ Top' = Top
  BY <1>1, StackSame DEF OneOwner, TreeTypeOK
<1>6. Live' = Live /\ Passed' = Passed
  BY <1>1 DEF Live, Passed
<1>7. TreeTypeOK'
  <2>1. Held \subseteq JsonVal
    BY DEF Held
  <2> QED BY <1>1, <1>3, <1>4, <2>1 DEF TreeTypeOK
<1>8. OneOwner' /\ LiveIsOwned'
  BY <1>1, <1>3, <1>4, <1>5, <1>6 DEF OneOwner, Apart, Tops, LiveIsOwned
<1>9. Grounded'
  <2> SUFFICES ASSUME NEW S \in SUBSET Live, S # {}, \A n \in S : \E m \in S : Holds(m, n)'
               PROVE  FALSE
    BY <1>6 DEF Grounded
  <2>0. S \subseteq JsonVal
    BY DEF Live
  <2>1. CASE c \in S
    <3> DEFINE T == S \ TreeOf(v)
    <3>1. ASSUME NEW n \in T PROVE \E m \in T : Holds(m, n)
      <4>1. PICK m \in S : Holds(m, n)'
        OBVIOUS
      <4>2. n # v
        BY <2>0, TreeClosed
      <4>3. Holds(m, n)
        BY <4>1, <4>2, <2>0, <1>3
      <4>4. m \notin TreeOf(v)
        BY <4>3, <2>0, TreeClosed
      <4> QED BY <4>3, <4>4
    <3>2. c \in T /\ T \in SUBSET Live
      BY <2>1, <1>1
    <3> HIDE DEF T
    <3> QED BY <1>1, <3>1, <3>2 DEF Grounded
  <2>2. CASE c \notin S
    <3>1. \A n \in S : \E m \in S : Holds(m, n)
      BY <2>0, <2>2, <1>3
    <3> QED BY <1>1, <3>1 DEF Grounded
  <2> QED BY <2>1, <2>2
<1>10. Stage'
  BY <1>1, <1>5 DEF Stage
<1> QED BY <1>3, <1>5, <1>7, <1>8, <1>9, <1>10 DEF TreeInv

LEMMA AppDeleteKeeps ==
  ASSUME TreeInv, NEW r \in JsonVal, AppDelete(r)
  PROVE  TreeInv'
<1>1. /\ dying = {} /\ r \in roots /\ roots' = roots \ {r} /\ dying' = {r}
      /\ UNCHANGED <<type, cells, at, stack, val, lost, given>>
      /\ TreeTypeOK /\ OneOwner /\ LiveIsOwned /\ Grounded
      /\ FreeIsEmpty /\ Remembered /\ Stage /\ NodesTyped
  BY DEF AppDelete, App, TreeInv
<1>2. /\ FreeIsEmpty' /\ Remembered' /\ Live' = Live /\ Held' = Held
      /\ HeldOnce' = HeldOnce /\ Grounded' = Grounded
  BY <1>1, HeapSame
<1>3. Stacked' = Stacked /\ StackedOnce' /\ NodesTyped' /\ Top' = Top /\ Passed' = Passed
  BY <1>1, StackSame DEF OneOwner, TreeTypeOK, Passed
<1>4. TreeTypeOK'
  BY <1>1 DEF TreeTypeOK
<1>5. OneOwner' /\ LiveIsOwned'
  BY <1>1, <1>2, <1>3 DEF OneOwner, Apart, Tops, LiveIsOwned
<1>6. Stage'
  BY <1>1, <1>3 DEF Stage
<1> QED BY <1>1, <1>2, <1>3, <1>4, <1>5, <1>6 DEF TreeInv

LEMMA DeleteCellKeeps ==
  ASSUME TreeInv, NEW o \in JsonVal, DeleteCell(o)
  PROVE  TreeInv'
<1> DEFINE v == Head(cells[o]).value
<1>1. /\ o \in dying /\ cells[o] # <<>> /\ dying' = dying \cup {v}
      /\ cells' = [cells EXCEPT ![o] = Tail(@)]
      /\ UNCHANGED <<type, roots, at, stack, val, lost, given>>
      /\ TreeTypeOK /\ OneOwner /\ LiveIsOwned /\ Grounded
      /\ FreeIsEmpty /\ Remembered /\ Stage /\ NodesTyped
  BY DEF DeleteCell, TreeInv
<1>2. /\ cells' \in [JsonVal -> Seq(Cell)] /\ v \in Held
      /\ \A m \in JsonVal : m # o => cells'[m] = cells[m]
      /\ \A m, n \in JsonVal : Holds(m, n)' => Holds(m, n)
      /\ Held' = Held \ {v} /\ HeldOnce'
      /\ \A i \in 1 .. Len(cells'[o]) : i + 1 \in 1 .. Len(cells[o]) /\ cells'[o][i] = cells[o][i + 1]
  BY <1>1, CellTaken DEF TreeTypeOK, OneOwner
<1> HIDE DEF v
<1>3. Stacked' = Stacked /\ StackedOnce' /\ NodesTyped' /\ Top' = Top /\ Passed' = Passed /\ Live' = Live
  BY <1>1, StackSame DEF OneOwner, TreeTypeOK, Passed, Live
<1>4. TreeTypeOK'
  <2>1. Held \subseteq JsonVal
    BY DEF Held
  <2> QED BY <1>1, <1>2, <2>1 DEF TreeTypeOK
<1>5. OneOwner' /\ LiveIsOwned'
  BY <1>1, <1>2, <1>3 DEF OneOwner, Apart, Tops, LiveIsOwned
<1>6. Grounded'
  BY <1>1, <1>2, <1>3, StaysGrounded
<1>7. FreeIsEmpty'
  <2>1. type[o] # "free"
    BY <1>1 DEF FreeIsEmpty
  <2> QED BY <1>1, <1>2, <2>1 DEF FreeIsEmpty
<1>8. Remembered'
  <2> SUFFICES ASSUME NEW p \in JsonVal, type[p] = "obj"
               PROVE  /\ \A i, j \in 1 .. Len(cells'[p]) : cells'[p][i].name = cells'[p][j].name => i = j
                      /\ p \notin dying' => \A x \in Name :
                           /\ \A i \in MembersNamed(p, x)' : given[p][x] = cells'[p][i].value
                           /\ MembersNamed(p, x)' = {} => given[p][x] = NULL
    BY <1>1 DEF Remembered
  <2>1. CASE p = o
    <3>1. \A i, j \in 1 .. Len(cells'[p]) : cells'[p][i].name = cells'[p][j].name => i = j
      <4> SUFFICES ASSUME NEW i \in 1 .. Len(cells'[p]), NEW j \in 1 .. Len(cells'[p]),
                          cells'[p][i].name = cells'[p][j].name
                   PROVE  i = j
        OBVIOUS
      <4>1. /\ i + 1 \in 1 .. Len(cells[p]) /\ cells'[p][i] = cells[p][i + 1]
            /\ j + 1 \in 1 .. Len(cells[p]) /\ cells'[p][j] = cells[p][j + 1]
        BY <2>1, <1>2
      <4>2. i + 1 = j + 1
        BY <4>1, <1>1 DEF Remembered
      <4> QED BY <4>2
    <3> QED BY <2>1, <3>1, <1>1
  <2>2. CASE p # o
    <3>1. cells'[p] = cells[p] /\ \A x \in Name : MembersNamed(p, x)' = MembersNamed(p, x)
      BY <2>2, <1>2 DEF MembersNamed
    <3> QED BY <3>1, <1>1 DEF Remembered
  <2> QED BY <2>1, <2>2
<1>9. Stage'
  BY <1>1, <1>3 DEF Stage
<1> QED BY <1>3, <1>4, <1>5, <1>6, <1>7, <1>8, <1>9 DEF TreeInv

LEMMA DeleteValueKeeps ==
  ASSUME TreeInv, NEW o \in JsonVal, DeleteValue(o)
  PROVE  TreeInv'
<1>1. /\ o \in dying /\ cells[o] = <<>> /\ dying' = dying \ {o}
      /\ type' = [type EXCEPT ![o] = "free"]
      /\ given' = [given EXCEPT ![o] = [x \in Name |-> NULL]]
      /\ UNCHANGED <<cells, roots, at, stack, val, lost>>
      /\ TreeTypeOK /\ OneOwner /\ LiveIsOwned /\ Grounded
      /\ FreeIsEmpty /\ Remembered /\ Stage /\ NodesTyped
  BY DEF DeleteValue, TreeInv
<1>2. /\ type' \in [JsonVal -> {"free", "atom", "arr", "obj"}]
      /\ given' \in [JsonVal -> [Name -> JsonVal \cup {NULL}]]
      /\ \A m \in JsonVal : type'[m] = IF m = o THEN "free" ELSE type[m]
      /\ \A m \in JsonVal : given'[m] = IF m = o THEN [x \in Name |-> NULL] ELSE given[m]
  BY <1>1 DEF TreeTypeOK
<1>3. Live' = Live \ {o} /\ Held' = Held /\ HeldOnce' /\ Passed' = Passed
  BY <1>1, <1>2, CellsSame DEF OneOwner, Live, Passed
<1>4. Stacked' = Stacked /\ StackedOnce' /\ NodesTyped' /\ Top' = Top
  <2>1. \A m \in Stacked : type'[m] = type[m]
    BY <1>1, <1>2 DEF OneOwner, Apart, Stacked
  <2> QED BY <1>1, <2>1, StackSame DEF OneOwner, TreeTypeOK
<1>5. TreeTypeOK'
  BY <1>1, <1>2 DEF TreeTypeOK
<1>6. OneOwner' /\ LiveIsOwned'
  BY <1>1, <1>3, <1>4 DEF OneOwner, Apart, Tops, LiveIsOwned
<1>7. Grounded'
  BY <1>1, <1>3, CellsSame, StaysGrounded
<1>8. FreeIsEmpty'
  BY <1>1, <1>2 DEF FreeIsEmpty
<1>9. Remembered'
  <2>1. \A p \in JsonVal, x \in Name : MembersNamed(p, x)' = MembersNamed(p, x)
    BY <1>1 DEF MembersNamed
  <2> QED BY <1>1, <1>2, <2>1 DEF Remembered
<1>10. Stage'
  BY <1>1, <1>4 DEF Stage
<1> QED BY <1>4, <1>5, <1>6, <1>7, <1>8, <1>9, <1>10 DEF TreeInv
-----------------------------------------------------------------------------
\* The steps of jsonParse keep it.

LEMMA PlaceKeeps ==
  ASSUME TreeInv, UNCHANGED <<type, cells, roots, dying, stack, val, lost, given>>,
         at' \in {"app", "name", "value", "got", "next", "failed", "crashed"},
         Stage'
  PROVE  TreeInv'
<1>1. /\ TreeTypeOK /\ OneOwner /\ LiveIsOwned /\ Grounded
      /\ FreeIsEmpty /\ Remembered /\ Stage /\ NodesTyped
  BY DEF TreeInv
<1>2. /\ FreeIsEmpty' /\ Remembered' /\ Live' = Live /\ Held' = Held
      /\ HeldOnce' = HeldOnce /\ Grounded' = Grounded
  BY <1>1, HeapSame
<1>3. Stacked' = Stacked /\ StackedOnce' /\ NodesTyped' /\ Passed' = Passed
  BY <1>1, StackSame DEF OneOwner, TreeTypeOK, Passed
<1>4. TreeTypeOK'
  BY <1>1 DEF TreeTypeOK
<1>5. OneOwner' /\ LiveIsOwned'
  BY <1>1, <1>2, <1>3 DEF OneOwner, Apart, Tops, LiveIsOwned
<1> QED BY <1>1, <1>2, <1>3, <1>4, <1>5 DEF TreeInv

LEMMA AppParseKeeps == ASSUME TreeInv, AppParse PROVE TreeInv'
<1>1. /\ at = "app" /\ at' = "value" /\ Stage
      /\ UNCHANGED <<type, cells, roots, dying, stack, val, lost, given>>
  BY DEF AppParse, App, TreeInv
<1>2. Stage'
  BY <1>1 DEF Stage
<1> QED BY <1>1, <1>2, PlaceKeeps

LEMMA PutCrashesKeeps == ASSUME TreeInv, PutCrashes PROVE TreeInv'
<1>1. at' = "crashed" /\ UNCHANGED <<type, cells, roots, dying, stack, val, lost, given>>
  BY DEF PutCrashes
<1>2. Stage'
  BY <1>1 DEF Stage
<1> QED BY <1>1, <1>2, PlaceKeeps

LEMMA CommaKeeps == ASSUME TreeInv, Comma PROVE TreeInv'
<1>1. /\ at = "next" /\ at' \in {"name", "value"} /\ Stage
      /\ UNCHANGED <<type, cells, roots, dying, stack, val, lost, given>>
  BY DEF Comma, Parsing, TreeInv
<1>2. Stage'
  BY <1>1 DEF Stage
<1> QED BY <1>1, <1>2, PlaceKeeps

LEMMA MistakeKeeps == ASSUME TreeInv, Mistake PROVE TreeInv'
<1>1. /\ at \in {"name", "value", "next"} /\ at' = "failed" /\ Stage
      /\ UNCHANGED <<type, cells, roots, dying, stack, val, lost, given>>
  BY DEF Mistake, TreeInv
<1>2. Stage'
  BY <1>1 DEF Stage
<1> QED BY <1>1, <1>2, PlaceKeeps

LEMMA ReadNameKeeps ==
  ASSUME TreeInv, NEW x \in Name \cup {NULL}, ReadName(x)
  PROVE  TreeInv'
<1>1. /\ at = "name" /\ at' = "value" /\ stack # <<>>
      /\ stack' = Append(Below, [Top EXCEPT !.name = x])
      /\ UNCHANGED <<type, cells, roots, dying, val, lost, given>>
      /\ TreeTypeOK /\ OneOwner /\ LiveIsOwned /\ Grounded
      /\ FreeIsEmpty /\ Remembered /\ Stage /\ NodesTyped
  BY DEF ReadName, Parsing, TreeInv, Stage
<1>2. /\ FreeIsEmpty' /\ Remembered' /\ Live' = Live /\ Held' = Held
      /\ HeldOnce' = HeldOnce /\ Grounded' = Grounded
  BY <1>1, HeapSame
<1>3. stack' \in Seq(Frame) /\ Stacked' = Stacked /\ StackedOnce' /\ NodesTyped'
  BY <1>1, FrameNamed DEF OneOwner, TreeTypeOK
<1>4. TreeTypeOK'
  BY <1>1, <1>3 DEF TreeTypeOK
<1>5. Passed' = Passed
  BY <1>1 DEF Passed
<1>6. OneOwner' /\ LiveIsOwned'
  BY <1>1, <1>2, <1>3, <1>5 DEF OneOwner, Apart, Tops, LiveIsOwned
<1>7. Stage'
  BY <1>1 DEF Stage
<1> QED BY <1>1, <1>2, <1>3, <1>4, <1>6, <1>7 DEF TreeInv

LEMMA ParseAtomKeeps ==
  ASSUME TreeInv, NEW n \in JsonVal, ParseAtom(n)
  PROVE  TreeInv'
<1>1. /\ at = "value" /\ at' = "got" /\ val' = n /\ val = NULL /\ n # NULL
      /\ Create(n, "atom") /\ UNCHANGED <<cells, roots, dying, stack, lost, given>>
      /\ TreeTypeOK /\ OneOwner /\ LiveIsOwned /\ Grounded
      /\ FreeIsEmpty /\ Remembered /\ Stage /\ NodesTyped
  BY TreeAssumption DEF ParseAtom, Parsing, TreeInv, Stage
<1>2. /\ type' \in [JsonVal -> {"free", "atom", "arr", "obj"}]
      /\ \A m \in JsonVal : m # n => type'[m] = type[m]
      /\ n \notin Live /\ Live' = Live \cup {n}
      /\ FreeIsEmpty' /\ Remembered' /\ Grounded'
  BY <1>1, ValueCreated
<1>3. Held' = Held /\ HeldOnce' /\ Passed = {} /\ Passed' = {n}
  BY <1>1, CellsSame DEF OneOwner, Passed
<1>4. Stacked' = Stacked /\ StackedOnce' /\ NodesTyped'
  <2>1. \A m \in Stacked : type'[m] = type[m]
    BY <1>1, <1>2 DEF LiveIsOwned, Tops, Stacked
  <2> QED BY <1>1, <2>1, StackSame DEF OneOwner, TreeTypeOK
<1>5. TreeTypeOK'
  BY <1>1, <1>2 DEF TreeTypeOK
<1>6. OneOwner' /\ LiveIsOwned'
  BY <1>1, <1>2, <1>3, <1>4 DEF OneOwner, Apart, Tops, LiveIsOwned
<1>7. Stage'
  BY <1>1 DEF Stage
<1> QED BY <1>2, <1>4, <1>5, <1>6, <1>7 DEF TreeInv

LEMMA EnterKeeps ==
  ASSUME TreeInv, NEW n \in JsonVal \cup {NULL}, NEW kind \in {"arr", "obj"}, Enter(n, kind)
  PROVE  TreeInv'
<1>1. /\ at = "value" /\ at' \in {"name", "value"} /\ val = NULL
      /\ stack' = Append(stack, [kind |-> kind, node |-> n, name |-> NULL])
      /\ UNCHANGED <<cells, roots, dying, val, lost, given>>
      /\ n = NULL => UNCHANGED type
      /\ n # NULL => n \in JsonVal /\ Create(n, kind)
      /\ TreeTypeOK /\ OneOwner /\ LiveIsOwned /\ Grounded
      /\ FreeIsEmpty /\ Remembered /\ Stage /\ NodesTyped
  BY DEF Enter, Parsing, TreeInv, Stage
<1>2. /\ type' \in [JsonVal -> {"free", "atom", "arr", "obj"}]
      /\ \A m \in JsonVal : m # n => type'[m] = type[m]
      /\ n # NULL => type'[n] = kind
      /\ n \notin Live /\ Live' = Live \cup ({n} \ {NULL})
      /\ FreeIsEmpty' /\ Remembered' /\ Grounded'
  <2>1. CASE n = NULL
    <3>1. /\ FreeIsEmpty' /\ Remembered' /\ Live' = Live /\ Grounded'
      BY <1>1, <2>1, HeapSame
    <3>2. n \notin Live
      BY <2>1, TreeAssumption DEF Live
    <3> QED BY <1>1, <2>1, <3>1, <3>2 DEF TreeTypeOK
  <2>2. CASE n # NULL
    <3>1. kind \in {"atom", "arr", "obj"}
      OBVIOUS
    <3>2. /\ type' \in [JsonVal -> {"free", "atom", "arr", "obj"}]
          /\ \A m \in JsonVal : m # n => type'[m] = type[m]
          /\ type'[n] = kind /\ n \notin Live /\ Live' = Live \cup {n}
          /\ FreeIsEmpty' /\ Remembered' /\ Grounded'
      BY <1>1, <2>2, <3>1, ValueCreated
    <3> QED BY <2>2, <3>2
  <2> QED BY <2>1, <2>2
<1>3. Held' = Held /\ HeldOnce' /\ Passed' = Passed
  BY <1>1, CellsSame DEF OneOwner, Passed
<1>4. /\ stack' \in Seq(Frame) /\ stack' # <<>>
      /\ Stacked' = Stacked \cup ({n} \ {NULL}) /\ StackedOnce' /\ NodesTyped'
  <2>1. n \notin Stacked
    BY <1>1, <1>2 DEF LiveIsOwned, Tops
  <2>2. \A m \in Stacked : type'[m] = type[m]
    BY <2>1, <1>2 DEF Stacked
  <2> QED BY <1>1, <1>2, <2>1, <2>2, FrameEntered DEF OneOwner, TreeTypeOK
<1>5. TreeTypeOK'
  BY <1>1, <1>2, <1>4 DEF TreeTypeOK
<1>6. OneOwner' /\ LiveIsOwned'
  BY <1>1, <1>2, <1>3, <1>4 DEF OneOwner, Apart, Tops, LiveIsOwned
<1>7. Stage'
  BY <1>1, <1>4 DEF Stage
<1> QED BY <1>2, <1>4, <1>5, <1>6, <1>7 DEF TreeInv

LEMMA PutKeeps == ASSUME TreeInv, Put PROVE TreeInv'
<1>1. /\ at = "got" /\ at' = "next" /\ dying = {} /\ stack # <<>> /\ Top.node # NULL
      /\ AddItem(Top.node, val) \/ PutMember(Top.node, Top.name, val)
      /\ val # NULL /\ val' = NULL /\ UNCHANGED <<type, roots, stack, lost>>
      /\ TreeTypeOK /\ OneOwner /\ LiveIsOwned /\ Grounded
      /\ FreeIsEmpty /\ Remembered /\ Stage /\ NodesTyped
  BY DEF Put, Parsing, TreeInv, Stage
<1>2. /\ Top.node \in Stacked /\ Top.node \in JsonVal /\ Top.name \in Name \cup {NULL}
      /\ val \in JsonVal
  <2>1. Top \in Frame /\ Top.node \in Stacked \cup {NULL}
    BY <1>1, TopHeld DEF TreeTypeOK
  <2> QED BY <1>1, <2>1 DEF Frame, TreeTypeOK
<1>3. val \notin Held /\ Top.node \notin Held /\ Top.node \notin dying /\ Passed = {val} /\ Passed' = {}
  BY <1>1, <1>2 DEF OneOwner, Tops, Passed
<1> DEFINE o == Top.node
           x == Top.name
           v == val
<1>4. /\ o \in JsonVal /\ x \in Name \cup {NULL} /\ v \in JsonVal /\ o \in Stacked
      /\ v \notin Held /\ o \notin Held /\ o \notin dying
      /\ AddItem(o, v) \/ PutMember(o, x, v)
      /\ Passed = {v}
  BY <1>1, <1>2, <1>3
<1> HIDE DEF o, x
<1>5. /\ cells' \in [JsonVal -> Seq(Cell)]
      /\ given' \in [JsonVal -> [Name -> JsonVal \cup {NULL}]]
      /\ \A m, n \in JsonVal : Holds(m, n)' => Holds(m, n) \/ (m = o /\ n = v)
      /\ \E gone \in SUBSET Held : dying' = dying \cup gone /\ Held' = (Held \ gone) \cup {v}
      /\ HeldOnce' /\ FreeIsEmpty' /\ Remembered'
  BY <1>1, <1>4, ValuePut DEF OneOwner
<1>6. PICK gone \in SUBSET Held : dying' = dying \cup gone /\ Held' = (Held \ gone) \cup {v}
  BY <1>5
<1>7. Stacked' = Stacked /\ StackedOnce' /\ NodesTyped' /\ Top' = Top /\ Live' = Live
  BY <1>1, StackSame DEF OneOwner, TreeTypeOK, Live
<1>8. TreeTypeOK'
  <2>1. Held \subseteq JsonVal
    BY DEF Held
  <2> QED BY <1>1, <1>5, <1>6, <2>1 DEF TreeTypeOK
<1>9. OneOwner' /\ LiveIsOwned'
  BY <1>1, <1>3, <1>4, <1>5, <1>6, <1>7 DEF OneOwner, Apart, Tops, LiveIsOwned
<1>10. Grounded'
  <2>1. o # v
    BY <1>1, <1>4 DEF OneOwner, Apart
  <2>2. o \notin Held'
    BY <1>4, <1>6, <2>1
  <2>3. \A m, n \in JsonVal : Holds(m, n)' => Holds(m, n) \/ m \notin Held'
    BY <1>5, <2>2
  <2> QED BY <1>1, <1>7, <2>3, StaysGrounded
<1>11. Stage'
  BY <1>1, <1>7 DEF Stage
<1> QED BY <1>5, <1>7, <1>8, <1>9, <1>10, <1>11 DEF TreeInv

LEMMA PutRefusedKeeps == ASSUME TreeInv, PutRefused PROVE TreeInv'
<1>1. /\ at = "got" /\ at' = "failed" /\ dying = {} /\ val # NULL /\ val' = NULL
      /\ lost' = lost \cup {val} /\ UNCHANGED <<type, cells, roots, dying, stack, given>>
      /\ TreeTypeOK /\ OneOwner /\ LiveIsOwned /\ Grounded
      /\ FreeIsEmpty /\ Remembered /\ Stage /\ NodesTyped
  BY DEF PutRefused, Parsing, TreeInv, Stage
<1>2. /\ FreeIsEmpty' /\ Remembered' /\ Live' = Live /\ Held' = Held
      /\ HeldOnce' = HeldOnce /\ Grounded' = Grounded
  BY <1>1, HeapSame
<1>3. Stacked' = Stacked /\ StackedOnce' /\ NodesTyped' /\ Passed = {val} /\ Passed' = {}
  BY <1>1, StackSame DEF OneOwner, TreeTypeOK, Passed
<1>4. TreeTypeOK'
  BY <1>1 DEF TreeTypeOK
<1>5. OneOwner' /\ LiveIsOwned'
  BY <1>1, <1>2, <1>3 DEF OneOwner, Apart, Tops, LiveIsOwned
<1>6. Stage'
  BY <1>1 DEF Stage
<1> QED BY <1>1, <1>2, <1>3, <1>4, <1>5, <1>6 DEF TreeInv

LEMMA CloseKeeps == ASSUME TreeInv, Close PROVE TreeInv'
<1>1. /\ at = "next" /\ at' = "got" /\ stack # <<>> /\ Top.node # NULL
      /\ val = NULL /\ val' = Top.node /\ stack' = Below
      /\ UNCHANGED <<type, cells, roots, dying, lost, given>>
      /\ TreeTypeOK /\ OneOwner /\ LiveIsOwned /\ Grounded
      /\ FreeIsEmpty /\ Remembered /\ Stage /\ NodesTyped
  BY DEF Close, Parsing, TreeInv, Stage
<1>2. /\ FreeIsEmpty' /\ Remembered' /\ Live' = Live /\ Held' = Held
      /\ HeldOnce' = HeldOnce /\ Grounded' = Grounded
  BY <1>1, HeapSame
<1>3. Top.node \in Stacked /\ Top.node \in JsonVal
  BY <1>1, TopHeld DEF TreeTypeOK, Stacked
<1>4. stack' \in Seq(Frame) /\ Stacked' = Stacked \ {Top.node} /\ StackedOnce' /\ NodesTyped'
  BY <1>1, FrameLeft DEF OneOwner, TreeTypeOK
<1>5. Passed = {} /\ Passed' = {Top.node}
  BY <1>1 DEF Passed
<1>6. TreeTypeOK'
  BY <1>1, <1>3, <1>4 DEF TreeTypeOK
<1>7. OneOwner' /\ LiveIsOwned'
  BY <1>1, <1>2, <1>3, <1>4, <1>5 DEF OneOwner, Apart, Tops, LiveIsOwned
<1>8. Stage'
  BY <1>1 DEF Stage
<1> QED BY <1>1, <1>2, <1>4, <1>6, <1>7, <1>8 DEF TreeInv

LEMMA UnwindKeeps == ASSUME TreeInv, Unwind PROVE TreeInv'
<1>1. /\ at = "failed" /\ at' = at /\ stack # <<>> /\ dying = {}
      /\ dying' = {Top.node} \ {NULL} /\ stack' = Below
      /\ UNCHANGED <<type, cells, roots, val, lost, given>>
      /\ TreeTypeOK /\ OneOwner /\ LiveIsOwned /\ Grounded
      /\ FreeIsEmpty /\ Remembered /\ Stage /\ NodesTyped
  BY DEF Unwind, Parsing, TreeInv
<1>2. /\ FreeIsEmpty' /\ Remembered' /\ Live' = Live /\ Held' = Held
      /\ HeldOnce' = HeldOnce /\ Grounded' = Grounded
  BY <1>1, HeapSame
<1>3. Top.node \in Stacked \cup {NULL} /\ Stacked \subseteq JsonVal /\ NULL \notin JsonVal
  BY <1>1, TopHeld, TreeAssumption DEF TreeTypeOK, Stacked
<1>4. stack' \in Seq(Frame) /\ Stacked' = Stacked \ {Top.node} /\ StackedOnce' /\ NodesTyped'
  BY <1>1, FrameLeft DEF OneOwner, TreeTypeOK
<1>5. Passed' = Passed
  BY <1>1 DEF Passed
<1>6. TreeTypeOK'
  BY <1>1, <1>3, <1>4 DEF TreeTypeOK
<1>7. OneOwner' /\ LiveIsOwned'
  BY <1>1, <1>2, <1>3, <1>4, <1>5 DEF OneOwner, Apart, Tops, LiveIsOwned
<1>8. Stage'
  BY <1>1 DEF Stage
<1> QED BY <1>1, <1>2, <1>4, <1>6, <1>7, <1>8 DEF TreeInv

LEMMA ReturnKeeps == ASSUME TreeInv, Return PROVE TreeInv'
<1>1. /\ at' = "app" /\ stack = <<>> /\ dying = {} /\ val' = NULL
      /\ \/ roots' = roots \cup Passed /\ UNCHANGED dying
         \/ dying' = Passed /\ UNCHANGED roots
      /\ UNCHANGED <<type, cells, stack, lost, given>>
      /\ TreeTypeOK /\ OneOwner /\ LiveIsOwned /\ Grounded
      /\ FreeIsEmpty /\ Remembered /\ Stage /\ NodesTyped
  BY DEF Return, TreeInv, Passed
<1>2. /\ FreeIsEmpty' /\ Remembered' /\ Live' = Live /\ Held' = Held
      /\ HeldOnce' = HeldOnce /\ Grounded' = Grounded
  BY <1>1, HeapSame
<1>3. Stacked' = Stacked /\ StackedOnce' /\ NodesTyped' /\ Passed' = {}
  BY <1>1, StackSame DEF OneOwner, TreeTypeOK, Passed
<1>4. Passed \subseteq JsonVal
  BY <1>1 DEF Passed, TreeTypeOK
<1>5. TreeTypeOK'
  BY <1>1, <1>4 DEF TreeTypeOK
<1>6. OneOwner' /\ LiveIsOwned'
  BY <1>1, <1>2, <1>3 DEF OneOwner, Apart, Tops, LiveIsOwned
<1>7. Stage'
  BY <1>1 DEF Stage
<1> QED BY <1>1, <1>2, <1>3, <1>5, <1>6, <1>7 DEF TreeInv
-----------------------------------------------------------------------------
LEMMA TreeInvNext == TreeInv /\ [TreeNext]_treeVars => TreeInv'
<1> SUFFICES ASSUME TreeInv, [TreeNext]_treeVars PROVE TreeInv'
  OBVIOUS
<1>1. CASE Application
  BY <1>1, AppCreateKeeps, AppGiveKeeps, AppDeleteKeeps, AppParseKeeps DEF Application
<1>2. CASE Parser
  BY <1>2, ReadNameKeeps, ParseAtomKeeps, EnterKeeps, PutKeeps, PutRefusedKeeps,
     PutCrashesKeeps, CommaKeeps, CloseKeeps, MistakeKeeps, UnwindKeeps, ReturnKeeps DEF Parser
<1>3. CASE JsonDelete
  BY <1>3, DeleteCellKeeps, DeleteValueKeeps DEF JsonDelete
<1>4. CASE UNCHANGED treeVars
  <2>1. UNCHANGED <<type, cells, roots, dying, at, stack, val, lost, given>> /\ Stage /\ TreeTypeOK
    BY <1>4 DEF treeVars, TreeInv
  <2>2. Stage' /\ at' \in {"app", "name", "value", "got", "next", "failed", "crashed"}
    BY <2>1 DEF Stage, TreeTypeOK, Top
  <2> QED BY <2>1, <2>2, PlaceKeeps
<1> QED BY <1>1, <1>2, <1>3, <1>4 DEF TreeNext

\* An object that is not being deleted has at most one member of a name, and
\* given is what that member holds.
LEMMA RememberedIsAnswered == Remembered => LastPut
<1> SUFFICES ASSUME Remembered, NEW o \in JsonVal, NEW x \in Name,
                    type[o] = "obj", o \notin dying
             PROVE  GetMember(o, x) = given[o][x]
  BY DEF LastPut
<1>1. CASE MembersNamed(o, x) = {}
  BY <1>1 DEF Remembered, GetMember
<1>2. CASE MembersNamed(o, x) # {}
  <2> DEFINE least(i) == \A j \in MembersNamed(o, x) : i <= j
  <2>1. PICK i \in MembersNamed(o, x) : TRUE
    BY <1>2
  <2>2. \A j \in MembersNamed(o, x) : j = i /\ i \in Nat
    BY DEF Remembered, MembersNamed
  <2>3. \E k \in MembersNamed(o, x) : least(k)
    BY <2>2
  <2>4. (CHOOSE k \in MembersNamed(o, x) : least(k)) \in MembersNamed(o, x)
    BY <2>3
  <2>5. GetMember(o, x) = cells[o][CHOOSE k \in MembersNamed(o, x) : least(k)].value
    BY <1>2 DEF GetMember
  <2> HIDE DEF least
  <2> QED BY <2>4, <2>5 DEF Remembered
<1> QED BY <1>1, <1>2

\* src/json.c: the inductive invariant.  For every number of values, of names
\* and of containers in one another.
THEOREM TreeInvariant == TreeSpec => []TreeInv
BY TreeInvInit, TreeInvNext, PTL DEF TreeSpec

\* src/json.c: whatever an application does with its values and whatever is in
\* the text that it has parsed, and whichever malloc fails, every value has one
\* owner and is freed once, no values own each other in a ring, and an object
\* answers what was put into it last.
THEOREM TreesAreKept == TreeSpec => []TreesKept
<1>1. TreeInv => TreesKept
  BY RememberedIsAnswered DEF TreeInv, TreesKept
<1> QED BY <1>1, TreeInvariant, PTL
=============================================================================
