--------------------------- MODULE CpuProperties ---------------------------
(***************************************************************************)
(* What makes the out-of-order processor of module Cpu correct: it         *)
(* executes programs as the sequential machine Isa does, and the           *)
(* bookkeeping that this rests on (renaming, one producer per awaited      *)
(* result, no register written twice in a tick) never goes wrong.          *)
(***************************************************************************)
EXTENDS Cpu

IuTypes ==
  /\ \A a \in DOMAIN prog : prog[a] \in Instruction
  /\ pc \in Word
  /\ forcePc \in [busy : BOOLEAN, addr : Word]

RfTypes ==
  /\ registers \in [Reg -> Word]
  /\ robIds \in [Reg -> 0 .. RobCapacity]
  /\ rfClear \in BOOLEAN

RobTypes ==
  /\ robHead \in ROB!Slots /\ robTail \in ROB!Slots
  /\ robClear \in BOOLEAN
  /\ ready \in [ROB!Slots -> BOOLEAN]
  /\ robPayload \in [ROB!Slots -> ROB!RobPayload]

(* A station in use names the entry it works for.                          *)
RsTypes ==
  /\ rsBusy \in [RS!Stations -> BOOLEAN]
  /\ rsPayload \in [RS!Stations -> RS!RsPayload]
  /\ rsClear \in BOOLEAN
  /\ \A s \in RS!Stations : rsBusy[s] => rsPayload[s].dest \in RF!RobIds

LsqTypes ==
  /\ lsHead \in LSQ!queue!Slots /\ lsTail \in LSQ!queue!Slots
  /\ lsData \in [LSQ!queue!Slots -> LSQ!LsPayload]
  /\ {lsClear, stall, signal} \subseteq BOOLEAN

MemTypes ==
  /\ mem \in MEM!MemBytes
  /\ loads \in [MEM!MemSlots -> [busy : BOOLEAN, ticks : Int, addr : Word, size : Sizes,
                                 rob : 0 .. RobCapacity]]
  /\ stores \in [MEM!MemSlots -> [busy : BOOLEAN, ticks : Int, addr : Word, size : Sizes,
                                  value : Word]]
  /\ memClear \in BOOLEAN

CdbTypes ==
  /\ busClear \in 0 .. 2 /\ req \subseteq CDB!Helpers /\ fire \in BOOLEAN
  /\ busData \in BusMessage
  /\ buffer \in [CDB!Helpers -> [CDB!Buffers -> BusMessage]]
  /\ bhBusy \in [CDB!Helpers -> [CDB!Buffers -> BOOLEAN]]
  /\ current \in [CDB!Helpers -> CDB!Buffers]

AluTypes ==
  /\ task \in [ALU!Alus -> ALU!AluTask]
  /\ aluBusy \in [ALU!Alus -> BOOLEAN]
  /\ result \in [ALU!Alus -> [busy : BOOLEAN, msg : BusMessage]]

TypeOK ==
  /\ IuTypes /\ RfTypes /\ RobTypes /\ RsTypes
  /\ LsqTypes /\ MemTypes /\ CdbTypes /\ AluTypes
  /\ hcf \in BOOLEAN

-----------------------------------------------------------------------------
(* No tick writes a clocked register twice, so reg_mut_write never aborts  *)
(* the program: the components that share a register (commit and the load  *)
(* buffers the tail of the load/store queue, commit and the bus a ready    *)
(* bit, commit and the clear flags of the last flush) never meet.          *)
NoDoubleWrite == ~hcf => ~DoubleWrite

(* Two writers meet at one place only: a load joins the load/store queue   *)
(* in the tick in which a store commits that writes some of its bytes,     *)
(* though not from its first byte on.  It answers the TODO of              *)
(* reservation-station.c:218 for every program.                            *)
OnlyOverlapsMeet ==
  DoubleWrite =>
    \E load \in RS!LoadPushes(LsFull), store \in ROB!Stored(LsFull) :
      load.addr # store.addr /\ Bytes(load) \cap Bytes(store) # {}

(* A load or store that leaves the queue always finds a free slot in the   *)
(* memory, so _mem_acquire_*_req never scans past its array.               *)
SlotsSuffice == ~OutOfSlots

(* Only operations that the ALU knows reach it (the assertion of           *)
(* alu_execute), whatever words lie on the paths the predictor explores.   *)
NoUnknownOperation == ~hcf => ~UnknownOperation

(* Every address that reaches the memory, speculative ones included, lies  *)
(* within it (the test that mem_get makes and _mem_get_sz does not).       *)
StaysInMemory == ~hcf => ~OutOfMemory

-----------------------------------------------------------------------------
(* The renaming table names, for every register, the youngest instruction  *)
(* in flight that will write it, and no other; it is emptied together with *)
(* the reorder buffer.                                                     *)
Writers(r) == {s \in ROB!Live : robPayload[s].dest = r}
RenamesYoungest ==
  ~rfClear => \A r \in Reg \ {0} :
    robIds[r] = IF Writers(r) = {} THEN 0
                ELSE ROB!Id(CHOOSE s \in Writers(r) : \A t \in Writers(r) : ROB!Age(t) <= ROB!Age(s))

(* Everything on its way to deliver the result of entry id.                *)
Producers(id) ==
  {<<"station", s>> : s \in {t \in RS!Stations : rsBusy[t] /\ rsPayload[t].dest = id}}
  \cup {<<"alu", a>> : a \in {b \in ALU!Alus : aluBusy[b] /\ task[b].rob = id}}
  \cup {<<"result", a>> : a \in {b \in ALU!Alus : result[b].busy /\ result[b].msg.rob = id}}
  \cup {<<"queue", s>> : s \in {t \in LSQ!queue!Live :
          lsData[t].op = "LOAD" /\ ~lsData[t].cleared /\ lsData[t].rob = id}}
  \cup {<<"memory", i>> : i \in {j \in MEM!MemSlots : loads[j].busy /\ loads[j].rob = id}}
  \cup {<<"helper", hx>> : hx \in {ky \in CDB!Helpers \X {0, 1} :
          bhBusy[ky[1]][ky[2]] /\ buffer[ky[1]][ky[2]].rob = id}}
  \cup {<<"bus", m>> : m \in {n \in CDB!GetData : n.rob = id}}

(* Once a flush is over, every entry that is not ready has exactly one     *)
(* producer, and ready entries and empty slots have none: no result is     *)
(* lost or sent twice, and a result computed for a flushed instruction     *)
(* never reaches the one that reuses its entry.                            *)
OneProducer ==
  ~robClear => \A id \in RF!RobIds :
    Cardinality(Producers(id)) =
      IF ROB!Slot(id) \in ROB!Live /\ ~ready[ROB!Slot(id)] THEN 1 ELSE 0

(* A station waits only for entries that are live, not yet ready and older *)
(* than its own: the wait-for relation has no cycle.                       *)
WaitsForOlder ==
  ~rsClear => \A s \in RS!Stations : rsBusy[s] =>
    \A id \in {rsPayload[s].src1, rsPayload[s].src2} \ {0} :
      /\ ROB!Slot(id) \in ROB!Live
      /\ ~ready[ROB!Slot(id)]
      /\ ROB!Age(ROB!Slot(id)) < ROB!Age(ROB!Slot(rsPayload[s].dest))

-----------------------------------------------------------------------------
(* The machine as its user sees it.  The program continues at the forced   *)
(* pc, else at the oldest instruction in flight, else at the fetch pc.     *)
PcBar ==
  IF forcePc.busy THEN forcePc.addr
  ELSE IF ~ROB!robs!Empty THEN robPayload[robHead].pc
  ELSE pc

(* Its memory includes the committed stores that are still on their way.   *)
PS == INSTANCE PendingStores

ISA == INSTANCE Isa WITH pc <- PcBar, regs <- registers, mem <- PS!MemBar

(* Out-of-order execution is invisible: commit by commit the machine takes *)
(* the steps of the sequential fakecpu.c, whatever the predictor answered, *)
(* and wrong-path instructions leave no trace.                             *)
ImplementsIsa == ISA!Init /\ [][ISA!Next]_(ISA!vars)

(* Every program commits instructions for ever or halts (cpu.c:93,         *)
(* main.c:11-15): the head of the reorder buffer is never stuck behind an  *)
(* operand, a station, the bus, the load/store queue or the memory, and    *)
(* the flushes of wrong paths do not go on without commits in between.     *)
Progresses == []<>(hcf \/ ROB!Pops(LsFull))

=============================================================================
