---------------------------- MODULE BlockingFifo ----------------------------
(***************************************************************************)
(* What src/queue.h promises: a push adds a buffer at the end of a bounded *)
(* sequence, a pop takes the first one, and either waits for the moment it *)
(* can.  Deleting the queue frees the buffers still in it.                 *)
(***************************************************************************)
EXTENDS Naturals, Sequences

CONSTANTS Capacity, Buffer, Nothing

VARIABLES fifo,      \* buffers pushed and not yet popped, oldest first
          popped,    \* what the latest pop returned
          alive      \* the queue has not been deleted

fifoVars == <<fifo, popped, alive>>

Init == fifo = <<>> /\ popped = Nothing /\ alive = TRUE

Push(b) == /\ alive /\ Len(fifo) < Capacity
           /\ fifo' = Append(fifo, b)
           /\ UNCHANGED <<popped, alive>>

Pop == /\ alive /\ fifo # <<>>
       /\ popped' = Head(fifo)
       /\ fifo' = Tail(fifo)
       /\ UNCHANGED alive

Delete == /\ alive
          /\ fifo' = <<>> /\ alive' = FALSE
          /\ UNCHANGED popped

Next == (\E b \in Buffer : Push(b)) \/ Pop \/ Delete

Spec == Init /\ [][Next]_fifoVars
=============================================================================
