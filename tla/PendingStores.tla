---------------------------- MODULE PendingStores ----------------------------
(***************************************************************************)
(* The memory as an access will find it.  The committed stores that have   *)
(* not reached the bytes are in the store slots of memory.c, the one with  *)
(* the least time left first, and then in the queue of ls-queue.c; of      *)
(* those that write a byte, the last one decides.  An access that is in a  *)
(* slot or in the queue itself finds the stores before it and not those    *)
(* behind it: none of them waits for another.                              *)
(***************************************************************************)
EXTENDS Rv32i

CONSTANTS LsCapacity, MemTicks, RobCapacity

VARIABLES
  lsHead, lsTail, lsData, lsClear, stall, signal,
  mem, loads, stores, memClear

LSQ == INSTANCE LsQueue
MEM == INSTANCE Memory

Slotted == {<<"slot", i>> : i \in {j \in MEM!MemSlots : stores[j].busy}}
Queued == {<<"queue", s>> : s \in {t \in LSQ!queue!Live : lsData[t].op = "STORE"}}
Pending == Slotted \cup Queued

Access(p) == IF p[1] = "slot" THEN stores[p[2]] ELSE lsData[p[2]]

(* How many ticks an access is away from the bytes, while nothing holds it *)
(* up: that of a slot counts its ticks, that of the queue waits its turn.  *)
QueueTurn(s) == MemTicks + ((s + LsCapacity - lsHead) % LsCapacity)
Turn(p) == IF p[1] = "slot" THEN stores[p[2]].ticks ELSE QueueTurn(p[2])

(* The byte that a store leaves at one of the addresses it writes.         *)
Left(store, a) ==
  IF a = store.addr THEN store.value % ByteSize ELSE store.value \div ByteSize

Last(writers) == CHOOSE p \in writers : \A q \in writers : Turn(q) <= Turn(p)
Applied(pending) ==
  [a \in Word |->
    LET writers == {p \in pending : a \in Bytes(Access(p))}
    IN  IF writers = {} THEN mem[a] ELSE Left(Access(Last(writers)), a)]

(* The bytes for an access that is still to come, and for one whose turn   *)
(* has been fixed.                                                         *)
MemBar == Applied(Pending)
MemBefore(turn) == Applied({p \in Pending : Turn(p) < turn})

=============================================================================
