------------------------------ MODULE LsMemory ------------------------------
(***************************************************************************)
(* The load/store queue, the memory and the common data bus, wired as in   *)
(* cpu_create, under everything the rest of the machine may do to them:    *)
(* loads and committed stores arrive, mispredictions flush, and the ALUs   *)
(* compete for the bus.                                                    *)
(***************************************************************************)
EXTENDS Rv32i, FiniteSets

CONSTANTS
  LsCapacity, MemTicks, RobCapacity,
  HelperCount,   \* the memory is helper 1, the others are ALUs
  Requests,      \* the accesses that may be pushed: [op, size, addr, value]
  Workloads      \* bounds of a behaviour, for model checking: which of the
                 \* accesses, how many pushes and flushes

Access == [op : {"LOAD", "STORE"}, size : Sizes, addr : Word, value : Word]

ASSUME LsMemoryAssumption ==
  /\ LsCapacity \in Nat \ {0}
  /\ MemTicks \in Nat \ {0, 1}
  /\ RobCapacity \in Nat \ {0}
  /\ HelperCount \in Nat \ {0}
  /\ \A w \in Workloads : w.requests \subseteq Requests \cap Access

VARIABLES
  lsHead, lsTail, lsData, lsClear, stall, signal,
  mem, loads, stores, memClear,
  busClear, req, fire, busData, buffer, bhBusy, current,
  answer,           \* history: the message the memory gave to its helper
  workload, pushes, flushes   \* which one, and how many there were

vars == <<lsHead, lsTail, lsData, lsClear, stall, signal, mem, loads, stores, memClear,
          busClear, req, fire, busData, buffer, bhBusy, current, answer,
          workload, pushes, flushes>>

BusMessage == Message(0 .. RobCapacity)
ZeroMessage == [rob |-> 0, result |-> 0]
MemHelper == 1

LSQ == INSTANCE LsQueue
MEM == INSTANCE Memory
CDB == INSTANCE Bus
PS == INSTANCE PendingStores

-----------------------------------------------------------------------------
(* The loads on their way to an answer, each with the bytes it is going to *)
(* read: those that the stores before it leave.                            *)
Load(p, turn) == [rob |-> p.rob, result |-> MemGetSz(PS!MemBefore(turn), p.addr, p.size)]
QueuedLoads == {s \in LSQ!queue!Live : lsData[s].op = "LOAD" /\ ~lsData[s].cleared}
SlottedLoads == {i \in MEM!MemSlots : loads[i].busy}
Waiting ==
  IF lsClear \/ memClear THEN {}
  ELSE {Load(lsData[s], PS!QueueTurn(s)) : s \in QueuedLoads}
       \cup {Load(loads[i], loads[i].ticks) : i \in SlottedLoads}

-----------------------------------------------------------------------------
(* What the rest of the machine does in a tick.  One access is pushed, and *)
(* none while the queue is full or the flags of a flush are up.  Nothing   *)
(* more is asked of it: the loads and the stores in flight may touch each  *)
(* other's bytes in every way, a store may come behind a load that has not *)
(* been answered, which happens when the load is the younger one and its   *)
(* station let it pass (reservation-station.c:185), and a load behind a    *)
(* store.  Tags are entries of the reorder buffer; one that is free stands *)
(* for any.                                                                *)

FreeTags == 1 .. RobCapacity \ {w.rob : w \in Waiting}
Tag(r) == IF r.op = "STORE" THEN 0 ELSE CHOOSE t \in FreeTags : TRUE

Pushable(r) ==
  /\ ~LSQ!Full /\ ~lsClear /\ pushes < workload.pushes
  /\ r.op = "LOAD" => FreeTags # {}
Entry(r) == [op |-> r.op, size |-> r.size, addr |-> r.addr, value |-> r.value,
             rob |-> Tag(r), cleared |-> FALSE]
Pushes == {{}} \cup {{Entry(r)} : r \in {s \in workload.requests : Pushable(s)}}

(* The ALUs always have something to send: the most the memory may have to *)
(* compete with.                                                           *)
Given == MEM!Sends(CDB!Stall(MemHelper))
Sent == [h \in 1 .. HelperCount |->
          IF h = MemHelper THEN Given
          ELSE IF CDB!Stall(h) \/ CDB!ShouldClear THEN {} ELSE {ZeroMessage}]

OutOfSlots == MEM!OutOfSlots(LSQ!LoadRequests, LSQ!StoreRequests)

Tick(pushed, flush) ==
  /\ ~OutOfSlots
  /\ ~MEM!DoubleWrite
  /\ flush => busClear = 0 /\ flushes < workload.flushes /\ \A p \in pushed : p.op = "LOAD"
  /\ LSQ!Tick(pushed, flush, MEM!Completing # {})
  /\ MEM!Tick(LSQ!LoadRequests, LSQ!StoreRequests, CDB!Stall(MemHelper), flush)
  /\ CDB!Tick(Sent, flush)
  /\ answer' = Given
  /\ UNCHANGED workload
  /\ pushes' = pushes + Cardinality(pushed)
  /\ flushes' = IF flush THEN flushes + 1 ELSE flushes

Init ==
  /\ LSQ!Init
  /\ MEM!Init
  /\ CDB!Init
  /\ answer = {}
  /\ workload \in Workloads
  /\ pushes = 0
  /\ flushes = 0

Next ==
  \E pushed \in Pushes, flush \in BOOLEAN : Tick(pushed, flush)

Spec == Init /\ [][Next]_vars /\ WF_vars(Next)

-----------------------------------------------------------------------------
(* The queue passes accesses to the memory without asking for room, and    *)
(* the search for a slot does not stop at the end of the array: yet three  *)
(* slots of each kind suffice for a memory of three ticks, because the     *)
(* memory is the helper that the arbiter prefers.                          *)
SlotsSuffice == ~OutOfSlots

(* Loads and stores take effect in the order in which they were pushed,    *)
(* through slots, stalls, the lock of the queue and flushes: a load reads  *)
(* what every store pushed before it wrote, and nothing of a store pushed  *)
(* behind it, although no access waits for another and the slots of loads  *)
(* and of stores count down apart (memory.c:131-150).                      *)
Abstract == INSTANCE OrderedMemory WITH cells <- PS!MemBar, waiting <- Waiting
ImplementsOrderedMemory == Abstract!Init /\ [][Abstract!Next]_(Abstract!omvars)

(* Every load is answered, or forgotten by a flush: neither the lock nor   *)
(* the competition for the bus holds it for ever.  (A workload comes to an *)
(* end, so that a load nobody answers would remain.)                       *)
EveryLoadAnswered == <>[](Waiting = {})

=============================================================================
