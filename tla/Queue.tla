------------------------------- MODULE Queue -------------------------------
(***************************************************************************)
(* src/queue.c: a bounded queue of buffers under one mutex, with a single  *)
(* condition variable on which producers and consumers wait alike and      *)
(* which pthread_cond_signal wakes one waiter of.                          *)
(*                                                                         *)
(* What a call does between taking the mutex and giving it up, or going to *)
(* sleep, is one step.  A buffer and its size travel together in a         *)
(* QueueItem and are one value here.                                       *)
(***************************************************************************)
EXTENDS Integers, Sequences, FiniteSets

CONSTANTS Producers, Consumers,   \* threads that push, and that pop
          Size,                   \* queue->size
          Buffer, Nothing         \* what is pushed; no buffer

ASSUME SizeAssumption == Size \in Nat \ {0}
ASSUME ThreadsAssumption == /\ Producers \cap Consumers = {}
                            /\ Producers # {} /\ Consumers # {}
                            /\ IsFiniteSet(Producers) /\ IsFiniteSet(Consumers)
ASSUME BufferAssumption == Nothing \notin Buffer

VARIABLES
  head, tail, count, items,   \* fields of Queue
  pc,                         \* per thread: "out" of the queue, "ready" to
                              \* test, "asleep" on cond, "woken" to test again
  popped,                     \* what the latest queuePop returned
  alive                       \* queueDelete has not freed the queue

fields == <<head, tail, count, items>>
vars == <<fields, pc, popped, alive>>

Index   == 0 .. Size - 1
Threads == Producers \cup Consumers
Awake   == {"ready", "woken"}

NextSlot(i) == (i + 1) % Size

Init == /\ head = 0 /\ tail = 0 /\ count = 0
        /\ items = [i \in Index |-> Nothing]
        /\ pc = [t \in Threads |-> "out"]
        /\ popped = Nothing
        /\ alive = TRUE

AsleepOf(T) == {t \in T : pc[t] = "asleep"}
Asleep == AsleepOf(Threads)

SignalNobody(t) == pc' = [pc EXCEPT ![t] = "out"]    \* a mutant

\* Thread t leaves its call after pthread_cond_signal has woken one waiter,
\* of either kind, if there is any.
SignalAndLeave(t) ==
  IF Asleep = {}
  THEN pc' = [pc EXCEPT ![t] = "out"]
  ELSE \E w \in Asleep : pc' = [pc EXCEPT ![t] = "out", ![w] = "woken"]

Call(t) ==
  /\ alive /\ pc[t] = "out"
  /\ pc' = [pc EXCEPT ![t] = "ready"]
  /\ UNCHANGED <<fields, popped, alive>>

\* pthread_cond_wait, entered by a producer that finds the queue full and by
\* a consumer that finds it empty.
Wait(t) ==
  /\ pc[t] \in Awake
  /\ IF t \in Producers THEN count >= Size ELSE count <= 0
  /\ pc' = [pc EXCEPT ![t] = "asleep"]
  /\ UNCHANGED <<fields, popped, alive>>

Push(p, b) ==
  /\ pc[p] \in Awake
  /\ count < Size
  /\ head' = NextSlot(head)
  /\ items' = [items EXCEPT ![head'] = b]
  /\ count' = count + 1
  /\ SignalAndLeave(p)
  /\ UNCHANGED <<tail, popped, alive>>

PopBehind(c) ==           \* a mutant: the item at the old tail is taken
  /\ pc[c] \in Awake
  /\ count > 0
  /\ tail' = NextSlot(tail)
  /\ popped' = items[tail]
  /\ count' = count - 1
  /\ SignalAndLeave(c)
  /\ UNCHANGED <<head, items, alive>>

Pop(c) ==
  /\ pc[c] \in Awake
  /\ count > 0
  /\ tail' = NextSlot(tail)
  /\ popped' = items[tail']
  /\ count' = count - 1
  /\ SignalAndLeave(c)
  /\ UNCHANGED <<head, items, alive>>

\* pthread_cond_wait may return without a signal.
WakeSpuriously(t) ==
  /\ pc[t] = "asleep"
  /\ pc' = [pc EXCEPT ![t] = "woken"]
  /\ UNCHANGED <<fields, popped, alive>>

\* queueDelete pops and frees what is left.  It locks a copy of the mutex,
\* which excludes nobody: that every other thread is out is up to its caller.
Delete ==
  /\ alive /\ \A t \in Threads : pc[t] = "out"
  /\ tail' = (tail + count) % Size
  /\ count' = 0
  /\ alive' = FALSE
  /\ UNCHANGED <<head, items, pc, popped>>

Producer(p) == (\E b \in Buffer : Push(p, b)) \/ Wait(p)
Consumer(c) == Pop(c) \/ Wait(c)

Next == \/ \E p \in Producers : Producer(p)
        \/ \E c \in Consumers : Consumer(c)
        \/ \E t \in Threads : Call(t) \/ WakeSpuriously(t)
        \/ Delete

Spec == Init /\ [][Next]_vars

\* A thread that is awake inside a call gets the mutex in the end.  Nothing
\* obliges a thread to call, or a sleeper to wake by itself.
Fairness == /\ \A p \in Producers : WF_vars(Producer(p))
            /\ \A c \in Consumers : WF_vars(Consumer(c))

LiveSpec == Spec /\ Fairness
-----------------------------------------------------------------------------
TypeOK == /\ head \in Index /\ tail \in Index /\ count \in 0 .. Size
          /\ items \in [Index -> Buffer \cup {Nothing}]
          /\ pc \in [Threads -> {"out", "ready", "asleep", "woken"}]
          /\ popped \in Buffer \cup {Nothing}
          /\ alive \in BOOLEAN

\* The slots in use, oldest first; the oldest is the one after tail.
At(i) == (tail + i) % Size
Contents == [i \in 1 .. count |-> items[At(i)]]

\* head, tail and count, each kept on its own, agree, and what lies between
\* tail and head was pushed.
IInv == /\ TypeOK
        /\ head = At(count)
        /\ \A i \in 1 .. count : items[At(i)] \in Buffer
        /\ ~alive => count = 0 /\ \A t \in Threads : pc[t] = "out"

\* The queue is a first-in first-out queue, whatever the number of threads
\* and however often a wait ends for nothing.
Fifo == INSTANCE BlockingFifo WITH fifo <- Contents, Capacity <- Size
ImplementsFifo == Fifo!Spec

\* The queue never comes to a stop with every thread asleep on cond, although
\* a signal meant for a producer may wake a consumer.  It needs room for half
\* as many buffers as there are threads.
RoomForHalf == Cardinality(Producers) + Cardinality(Consumers) <= 2 * Size
NeverAllAsleep == Asleep # Threads

\* No wakeup is lost: whenever every thread inside a call is asleep, there is
\* nothing any of them could do.  This asks for more room than the absence of
\* deadlock does: the threads that are out may not come back.
RoomForAllButOne == Cardinality(Producers) + Cardinality(Consumers) <= Size + 1
NoLostWakeup ==
  (\A t \in Threads : pc[t] \in {"out", "asleep"}) =>
    /\ AsleepOf(Producers) # {} => count = Size
    /\ AsleepOf(Consumers) # {} => count = 0

\* Why.  X and Y are the two kinds of thread and n what fills up when X does
\* its work: buffers for producers, empty slots for consumers.
AwakeOf(T) == {t \in T : pc[t] \in Awake}

\* With room for all but one, one kind sleeps at a time, and the work left
\* for it to do is in the hands of those of its kind that were woken.
Shares(X, Y, n) == AsleepOf(X) # {} => /\ AsleepOf(Y) = {}
                                       /\ Cardinality(AwakeOf(X)) >= Size - n
WakeInv == Shares(Producers, Consumers, count) /\ Shares(Consumers, Producers, Size - count)

\* With room for half, X the kind with at most Size threads: when X sleeps
\* every step of another thread since the queue was full has woken someone.
Drains(X, Y, n) ==
  /\ AsleepOf(X) # {} => Cardinality(Asleep) <= n
  /\ AsleepOf(Y) # {} =>
        Cardinality(Y \ AsleepOf(Y)) >= (IF AsleepOf(X) # {} THEN Size ELSE n)
DrainInv ==
  /\ Cardinality(Producers) <= Size => Drains(Producers, Consumers, count)
  /\ Cardinality(Consumers) <= Size => Drains(Consumers, Producers, Size - count)

\* The queue does not keep a buffer from a consumer that is waiting for one:
\* as long as some consumer wants a buffer and there is one, tail moves on.
\* (With a single slot tail has nowhere to move to.)
Served ==
  \A i \in Index :
    (tail = i /\ count > 0 /\ \E c \in Consumers : pc[c] # "out") ~> (tail # i)
=============================================================================
