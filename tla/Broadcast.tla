----------------------------- MODULE Broadcast -----------------------------
(***************************************************************************)
(* What the bus promises to those who send on it: each helper is a queue   *)
(* of at most two messages, a message that is accepted is heard exactly    *)
(* once and in the order its helper accepted it, one message per tick is   *)
(* heard whenever any is pending, the lowest helper first, and a clear     *)
(* drops everything that was accepted before it.                           *)
(***************************************************************************)
EXTENDS Integers, Sequences

CONSTANTS HelperCount, BusMessage

VARIABLES
  pending,   \* what every helper accepted and nobody heard yet
  heard,     \* the message the listeners hear in this tick, if any
  clearing   \* ticks for which nothing is accepted

bvars == <<pending, heard, clearing>>

Helpers == 1 .. HelperCount
Depth == 2

Nothing == [h \in Helpers |-> <<>>]
First(h) == pending[h] # <<>> /\ \A k \in Helpers : k < h => pending[k] = <<>>

(* The queue of h once the message that is granted has left, and once the  *)
(* message in sent (at most one) has joined.                               *)
Served(h) == IF First(h) THEN Tail(pending[h]) ELSE pending[h]
Joined(q, sent) == IF sent = {} THEN q ELSE Append(q, CHOOSE m \in sent : TRUE)

Init ==
  /\ pending = Nothing
  /\ heard = {}
  /\ clearing = 0

Carry ==
  /\ clearing = 0
  /\ \E sent \in [Helpers -> SUBSET BusMessage] :
       /\ \A h \in Helpers :
            /\ \A m1, m2 \in sent[h] : m1 = m2
            /\ sent[h] # {} => Len(pending[h]) < Depth
       /\ pending' = [h \in Helpers |-> Joined(Served(h), sent[h])]
  /\ heard' = {Head(pending[h]) : h \in {k \in Helpers : First(k)}}
  /\ clearing' = 0

Clear ==
  /\ clearing = 0
  /\ pending' = Nothing
  /\ heard' = {}
  /\ clearing' = 2

Drain ==
  /\ clearing > 0
  /\ clearing' = clearing - 1
  /\ UNCHANGED <<pending, heard>>

Next == Carry \/ Clear \/ Drain

Spec == Init /\ [][Next]_bvars

=============================================================================
