-------------------------------- MODULE Fifo --------------------------------
(***************************************************************************)
(* What queue.c promises: a first-in first-out queue with room for one     *)
(* entry less than its capacity.  Pushing on a full queue and popping an   *)
(* empty one change nothing, even when the same tick also pops or pushes;  *)
(* a clear empties the queue, which then accepts nothing for a tick.       *)
(***************************************************************************)
EXTENDS Integers, Sequences

CONSTANTS Capacity, Payload

VARIABLES
  items,    \* oldest first
  closed    \* the queue is being cleared

fvars == <<items, closed>>

Popped(pop) == IF pop /\ items # <<>> THEN Tail(items) ELSE items
Room == Len(items) < Capacity - 1

Init == items = <<>> /\ closed = FALSE

Step(pop) ==
  /\ ~closed
  /\ \/ items' = Popped(pop)
     \/ Room /\ \E p \in Payload : items' = Append(Popped(pop), p)
  /\ closed' = FALSE

Clear ==
  /\ ~closed
  /\ items' = <<>>
  /\ closed' = TRUE

Reopen ==
  /\ closed
  /\ closed' = FALSE
  /\ UNCHANGED items

Next == (\E pop \in BOOLEAN : Step(pop)) \/ Clear \/ Reopen

Spec == Init /\ [][Next]_fvars

=============================================================================
