------------------------------- MODULE Queue -------------------------------
(***************************************************************************)
(* queue.c: the circular queue over clocked registers that holds the       *)
(* reorder buffer (capacity 16) and the load/store queue (capacity 8).     *)
(*                                                                         *)
(* head, tail and clear are reg_mut registers, so within one clock tick    *)
(* all clients see the values of the beginning of the tick; one step of    *)
(* this module is one tick.  One slot is always left empty to tell a full  *)
(* queue from an empty one.                                                *)
(***************************************************************************)
EXTENDS Integers, Sequences

CONSTANTS
  Capacity,   \* queue->capacity
  Payload,    \* what a slot may hold
  Zeroed      \* the payload of zero bytes, which calloc'd slots hold

ASSUME CapacityAssumption == Capacity \in Nat \ {0}
ASSUME PayloadAssumption == Zeroed \in Payload

VARIABLES
  head,    \* slot of the oldest entry
  tail,    \* slot past the youngest entry
  clear,   \* queue_clear was called in the previous tick
  data     \* the slots

vars == <<head, tail, clear, data>>

Slots == 0 .. Capacity - 1

(* _queue_trunc                                                            *)
TruncNothing(id) == id   \* mutant: indices never wrap
Trunc(id) == (IF id < 0 THEN id + Capacity ELSE id) % Capacity

Length == (tail + Capacity - head) % Capacity
Empty == head = tail
FullAtCapacity == Length = Capacity   \* mutant: no slot is left empty
Full == head = Trunc(tail + 1)

(* The slot of the ix-th oldest entry (queue_nth, _queue_foreach).         *)
Nth(ix) == Trunc(ix + head)
Live == {Nth(ix) : ix \in 0 .. Length - 1}

(***************************************************************************)
(* The registers after a tick in which clients called queue_push (push),   *)
(* queue_pop (pop) and queue_clear (clr).  A push on a full queue and a    *)
(* pop on an empty one return NULL and change nothing; _queue_tick empties *)
(* the queue one tick after queue_clear.                                   *)
(***************************************************************************)
Move(push, pop, clr) ==
  /\ head' = IF clear THEN 0 ELSE IF pop /\ ~Empty THEN Trunc(head + 1) ELSE head
  /\ tail' = IF clear THEN 0 ELSE IF push /\ ~Full THEN Trunc(tail + 1) ELSE tail
  /\ clear' = clr

(* Two rm_writes to one register in a tick end the program (reg.c:76-79):  *)
(* while _queue_tick empties the queue nobody else may touch it.           *)
DoubleWrite(push, pop, clr) ==
  clear /\ (clr \/ (push /\ ~Full) \/ (pop /\ ~Empty))

(* A tick in which the entries in "pushed" (at most one) are pushed.       *)
Tick(pushed, pop, clr) ==
  /\ ~DoubleWrite(pushed # {}, pop, clr)
  /\ Move(pushed # {}, pop, clr)
  /\ IF pushed # {} /\ ~Full
       THEN \E p \in pushed : data' = [data EXCEPT ![tail] = p]
       ELSE UNCHANGED data

Init ==
  /\ head = 0
  /\ tail = 0
  /\ clear = FALSE
  /\ data = [s \in Slots |-> Zeroed]

Next ==
  \E pushed \in {{}} \cup {{p} : p \in Payload}, pop, clr \in BOOLEAN :
    Tick(pushed, pop, clr)

Spec == Init /\ [][Next]_vars

-----------------------------------------------------------------------------
TypeOK ==
  /\ head \in Slots
  /\ tail \in Slots
  /\ clear \in BOOLEAN
  /\ data \in [Slots -> Payload]

Items == IF clear THEN <<>> ELSE [i \in 1 .. Length |-> data[Nth(i - 1)]]

Abstract == INSTANCE Fifo WITH items <- Items, closed <- clear

(* Head and tail chasing each other around the slots are a first-in        *)
(* first-out queue: no entry is lost, duplicated or reordered when they    *)
(* wrap, and full is never mistaken for empty.                             *)
ImplementsFifo == Abstract!Spec

=============================================================================
