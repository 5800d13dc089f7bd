---------------------------- MODULE OrderedMemory ----------------------------
(***************************************************************************)
(* What the load/store queue and the memory together promise: accesses     *)
(* take effect in the order in which they were pushed.  What a load will   *)
(* answer is settled when it is pushed: the bytes that all the stores      *)
(* before it left and none that comes behind it, however long the load     *)
(* takes.  It is answered at most once.  A flush forgets the loads and     *)
(* keeps the stores.                                                       *)
(***************************************************************************)
EXTENDS Rv32i, FiniteSets

CONSTANTS
  Requests,      \* the accesses that may be pushed, without their tags
  RobCapacity    \* a load is tagged with the entry it is for

VARIABLES
  cells,     \* the bytes as the next access will find them
  waiting,   \* the loads that are not answered yet, with what they will read
  answer     \* the message (at most one) given to the bus in the last tick

omvars == <<cells, waiting, answer>>

Init ==
  /\ cells = [a \in Word |-> 0]
  /\ waiting = {}
  /\ answer = {}

(* A tick answers at most one of the waiting loads.                        *)
Serve(served) ==
  /\ served \subseteq waiting
  /\ Cardinality(served) <= 1
  /\ answer' = served

Quiet(served) == waiting' = waiting \ served /\ UNCHANGED cells

Load(served) ==
  /\ \E r \in Requests, tag \in 1 .. RobCapacity :
       /\ r.op = "LOAD"
       /\ waiting' = (waiting \ served)
                     \cup {[rob |-> tag, result |-> MemGetSz(cells, r.addr, r.size)]}
  /\ UNCHANGED cells

Store(served) ==
  /\ \E r \in Requests :
       /\ r.op = "STORE"
       /\ cells' = MemSetSz(cells, r.addr, r.value, r.size)
  /\ waiting' = waiting \ served

Flush == waiting' = {} /\ UNCHANGED cells

Next ==
  \E served \in SUBSET waiting :
    /\ Serve(served)
    /\ Quiet(served) \/ Load(served) \/ Store(served) \/ Flush

Spec == Init /\ [][Next]_omvars

=============================================================================
