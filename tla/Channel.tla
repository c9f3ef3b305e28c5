------------------------------ MODULE Channel ------------------------------
(***************************************************************************)
(* What src/ringbuffer.c promises its two users: a bounded first-in        *)
(* first-out channel between one writer and one reader.  What one of them  *)
(* does reaches the other a while later: an element is on its way until it *)
(* arrives, and so is the place that a read gives back.  A write that      *)
(* knows of no place is refused and loses its own element, never one       *)
(* already accepted; a read before which nothing arrived returns nothing.  *)
(***************************************************************************)
EXTENDS Naturals, Sequences

CONSTANTS Capacity,   \* elements the channel can hold
          Element,    \* what is sent
          Nothing     \* the result of a read that found the channel empty

VARIABLES chan,       \* elements accepted and not yet consumed, oldest first
          seen,       \* how many of them, from the oldest on, have arrived
          owed,       \* places given back that the writer has not heard of
          wres,       \* outcome of the latest write: "none", "stored" or "full"
          rres        \* outcome of the latest read: an element, or Nothing

chanVars == <<chan, seen, owed, wres, rres>>

Init == chan = <<>> /\ seen = 0 /\ owed = 0 /\ wres = "none" /\ rres = Nothing

Send(e) == /\ Len(chan) + owed < Capacity
           /\ chan' = Append(chan, e)
           /\ wres' = "stored"
           /\ UNCHANGED <<seen, owed, rres>>

Refuse == /\ Len(chan) + owed = Capacity
          /\ wres' = "full"
          /\ UNCHANGED <<chan, seen, owed, rres>>

Receive == /\ seen > 0
           /\ rres' = Head(chan)
           /\ chan' = Tail(chan)
           /\ seen' = seen - 1 /\ owed' = owed + 1
           /\ UNCHANGED wres

NothingYet == /\ seen = 0
              /\ rres' = Nothing
              /\ UNCHANGED <<chan, seen, owed, wres>>

Arrive == seen < Len(chan) /\ seen' = seen + 1 /\ UNCHANGED <<chan, owed, wres, rres>>
Return == owed > 0 /\ owed' = owed - 1 /\ UNCHANGED <<chan, seen, wres, rres>>

Next == \/ (\E e \in Element : Send(e)) \/ Refuse
        \/ Receive \/ NothingYet
        \/ Arrive \/ Return

Spec == Init /\ [][Next]_chanVars
=============================================================================
