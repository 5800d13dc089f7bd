------------------------------- MODULE Memory -------------------------------
(***************************************************************************)
(* memory.c: MEM_TICKS load slots and MEM_TICKS store slots that count     *)
(* down and then access the bytes.  A finished load sends its value on the *)
(* bus, a finished store signals the load/store queue.  A flush drops the  *)
(* loads and suspends the stores for a tick.                               *)
(***************************************************************************)
EXTENDS Rv32i, FiniteSets

CONSTANTS
  MemTicks,     \* MEM_TICKS, memory.h:9
  RobCapacity

VARIABLES
  mem,       \* mem->data; not a clocked register
  loads,     \* load_requests and load_requests_busy
  stores,    \* store_requests and store_requests_busy
  memClear   \* mem->clear

memVars == <<mem, loads, stores, memClear>>

MemSlots == 0 .. MemTicks - 1
MemBytes == [Word -> Byte]

-----------------------------------------------------------------------------
(* The loads loop of _mem_tick: the first slot whose time is up is the one *)
(* that may use the bus; the others keep counting (below zero).            *)

DueLate(i) == loads[i].busy /\ loads[i].ticks < 1   \* mutant: one tick more
Due(i) == loads[i].busy /\ loads[i].ticks <= 1
Sender == IF memClear THEN {} ELSE {i \in MemSlots : Due(i) /\ \A j \in MemSlots : j < i => ~Due(j)}

(* What it hands to bh_acquire, unless the bus helper stalls.              *)
Sends(stalled) ==
  IF stalled THEN {}
  ELSE {[rob |-> loads[i].rob,
         result |-> MemGetSz(mem, loads[i].addr, loads[i].size)] : i \in Sender}

(* The stores loop: the slots whose time is up.                            *)
Completing ==
  IF memClear THEN {} ELSE {i \in MemSlots : stores[i].busy /\ stores[i].ticks = 1}

(* Store slot i after the tick: a flush suspends the countdown, as the busy *)
(* bit is written back and nothing else.                                   *)
CountedDropped(i) ==   \* mutant: the busy bits are not written back
  IF memClear THEN [stores[i] EXCEPT !.busy = FALSE]
  ELSE IF stores[i].busy
    THEN [stores[i] EXCEPT !.ticks = @ - 1, !.busy = i \notin Completing]
  ELSE stores[i]
Counted(i) ==
  IF stores[i].busy /\ ~memClear
    THEN [stores[i] EXCEPT !.ticks = @ - 1, !.busy = i \notin Completing]
  ELSE stores[i]

-----------------------------------------------------------------------------
(* _mem_acquire_load_req and _mem_acquire_store_req: the first free slot.  *)
(* Their loops are bounded by MEM_SIZE, not MEM_TICKS: with no free slot   *)
(* they run past the arrays, see OutOfSlots.                               *)
FirstFree(slots) ==
  {i \in MemSlots : ~slots[i].busy /\ \A j \in MemSlots : j < i => slots[j].busy}

OutOfSlots(loadReqs, storeReqs) ==
  \/ loadReqs # {} /\ FirstFree(loads) = {}
  \/ storeReqs # {} /\ FirstFree(stores) = {}

(* _mem_get_sz and _mem_set_sz index mem->data without looking at MEM_SIZE *)
(* as mem_get does.                                                        *)
WildAccess(stalled) ==
  \/ \E i \in Sender : ~stalled /\ loads[i].addr >= MemSize
  \/ \E i \in Completing : stores[i].addr >= MemSize

(* Two stores completing at once would write the signal twice.             *)
DoubleWrite == Cardinality(Completing) > 1

(***************************************************************************)
(* A tick with the requests (at most one of each kind) of the load/store   *)
(* queue; mem_clear is called iff flush.                                   *)
(***************************************************************************)
Tick(loadReqs, storeReqs, stalled, flush) ==
  /\ loads' = [i \in MemSlots |->
       IF loadReqs # {} /\ i \in FirstFree(loads)
         THEN LET p == CHOOSE p \in loadReqs : TRUE
              IN  [busy |-> TRUE, ticks |-> MemTicks - 1, addr |-> p.addr,
                   size |-> p.size, rob |-> p.rob]
       ELSE IF memClear THEN [loads[i] EXCEPT !.busy = FALSE]
       ELSE IF loads[i].busy
         THEN [loads[i] EXCEPT !.ticks = @ - 1, !.busy = i \notin Sender \/ stalled]
       ELSE loads[i]]
  /\ stores' = [i \in MemSlots |->
       IF storeReqs # {} /\ i \in FirstFree(stores)
         THEN LET p == CHOOSE p \in storeReqs : TRUE
              IN  [busy |-> TRUE, ticks |-> MemTicks - 1, addr |-> p.addr,
                   size |-> p.size, value |-> p.value]
       ELSE Counted(i)]
  /\ mem' = IF Completing = {} THEN mem
            ELSE LET s == stores[CHOOSE i \in Completing : TRUE]
                 IN  MemSetSz(mem, s.addr, s.value, s.size)
  /\ memClear' = flush

Init ==
  /\ mem = [a \in Word |-> 0]
  /\ loads = [i \in MemSlots |->
       [busy |-> FALSE, ticks |-> 0, addr |-> 0, size |-> "BYTE", rob |-> 0]]
  /\ stores = [i \in MemSlots |->
       [busy |-> FALSE, ticks |-> 0, addr |-> 0, size |-> "BYTE", value |-> 0]]
  /\ memClear = FALSE

=============================================================================
