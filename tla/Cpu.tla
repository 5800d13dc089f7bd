-------------------------------- MODULE Cpu --------------------------------
(***************************************************************************)
(* cpu.c and main.c: the out-of-order processor, composed of its           *)
(* components as cpu_create wires them.  One step is one clk_tick: every   *)
(* component reads the registers as they were at the beginning of the tick *)
(* and writes their next values, so the step is the conjunction of the     *)
(* components' ticks and the order of their callbacks does not matter.     *)
(*                                                                         *)
(* The bus helpers are created by the memory first and then by each ALU,   *)
(* so the memory is helper 1 and ALU a is helper a + 1.                    *)
(***************************************************************************)
EXTENDS Rv32i, FiniteSets

CONSTANTS
  Programs,                                \* what read_to_memory may load
  RobCapacity, LsCapacity, MemTicks, AluCount,
  AluStations, LoadBuffers, StoreBuffers   \* ids of the stations of each kind

ASSUME CpuAssumption ==
  /\ RobCapacity \in Nat \ {0, 1}
  /\ LsCapacity \in Nat \ {0, 1}
  /\ AluCount \in Nat \ {0}
  /\ MemTicks \in Nat \ {0, 1}
  /\ AluStations \cup LoadBuffers \cup StoreBuffers \subseteq Nat
  /\ AluStations \cap LoadBuffers = {}
  /\ (AluStations \cup LoadBuffers) \cap StoreBuffers = {}

(* What inst_decode returns.                                               *)
ASSUME ProgramsAssumption ==
  \A p \in Programs : \A a \in DOMAIN p : p[a] \in Instruction

VARIABLES
  prog, pc, forcePc,
  registers, robIds, rfClear,
  robHead, robTail, robClear, ready, robPayload,
  rsBusy, rsPayload, rsClear,
  lsHead, lsTail, lsData, lsClear, stall, signal,
  mem, loads, stores, memClear,
  busClear, req, fire, busData, buffer, bhBusy, current,
  task, aluBusy, result,
  hcf

vars ==
  <<prog, pc, forcePc, registers, robIds, rfClear,
    robHead, robTail, robClear, ready, robPayload, rsBusy, rsPayload, rsClear,
    lsHead, lsTail, lsData, lsClear, stall, signal, mem, loads, stores, memClear,
    busClear, req, fire, busData, buffer, bhBusy, current, task, aluBusy, result,
    hcf>>

MemHelper == 1
AluHelper(a) == a + 1
HelperCount == 1 + AluCount
BusMessage == Message(0 .. RobCapacity)
ZeroMessage == [rob |-> 0, result |-> 0]

RF == INSTANCE RegStore
ROB == INSTANCE ReorderBuffer
RS == INSTANCE ReservationStation
LSQ == INSTANCE LsQueue
MEM == INSTANCE Memory
CDB == INSTANCE Bus
ALU == INSTANCE Alu
IU == INSTANCE InstUnit

-----------------------------------------------------------------------------
(* The wires between the components in one tick.                           *)

LsFull == LSQ!Full
AluStall == [a \in 1 .. AluCount |-> CDB!Stall(AluHelper(a))]
AluAccepts == [a \in 1 .. AluCount |-> ALU!Accepts(a, AluStall, CDB!ShouldClear)]
MemStall == CDB!Stall(MemHelper)

LsPushes == RS!LoadPushes(LsFull) \cup ROB!Stored(LsFull)
Forced == {ROB!ForcedPc : s \in {t \in {robHead} : ROB!Flushes}}
Sent == [h \in 1 .. HelperCount |->
          IF h = MemHelper THEN MEM!Sends(MemStall)
          ELSE ALU!Sends(h - 1, AluStall, CDB!ShouldClear)]

(* reg_mut_write aborts the program on the second write of a register in a *)
(* tick, wherever the two writers are.                                     *)
DoubleWrite ==
  \/ RF!DoubleWrite(ROB!Retired(LsFull))
  \/ ROB!DoubleWrite(CDB!Heard, IU!Tasks, RS!StoreUpdates(LsFull), LsFull)
  \/ RS!DoubleWrite(CDB!Heard, IU!Tasks, AluAccepts, LsFull, ROB!Flushes)
  \/ LSQ!DoubleWrite(LsPushes)
  \/ MEM!DoubleWrite
  \/ CDB!DoubleWrite(ROB!Flushes)
  \/ IU!DoubleWrite(Forced)

(* A request that finds no slot reads beyond the arrays of memory_t.       *)
OutOfSlots == MEM!OutOfSlots(LSQ!LoadRequests, LSQ!StoreRequests)

(* alu_execute aborts the program on an operation it does not know.        *)
UnknownOperation == ALU!Aborts(CDB!ShouldClear)

(* An access beyond the end of the memory: the program reads or writes     *)
(* what happens to lie there, or is killed.                                *)
OutOfMemory == MEM!WildAccess(MemStall) \/ IU!WildFetch

Tick(take) ==
  /\ ~hcf
  /\ ~DoubleWrite
  /\ ~UnknownOperation
  /\ ~OutOfSlots
  /\ ~OutOfMemory
  /\ IU!Tick(take, Forced)
  /\ RF!Tick(ROB!RegWrites, IU!Renames, ROB!Retired(LsFull), ROB!Flushes)
  /\ ROB!Tick(CDB!Heard, IU!Entries(take), RS!StoreUpdates(LsFull), LsFull)
  /\ RS!Tick(CDB!Heard, IU!Tasks, AluAccepts, LsFull, ROB!Flushes)
  /\ LSQ!Tick(LsPushes, ROB!Flushes, MEM!Completing # {})
  /\ MEM!Tick(LSQ!LoadRequests, LSQ!StoreRequests, MemStall, ROB!Flushes)
  /\ CDB!Tick(Sent, ROB!Flushes)
  /\ ALU!Tick(RS!Offered, AluStall, CDB!ShouldClear)
  /\ hcf' = ROB!Halts
  /\ UNCHANGED prog

Init ==
  /\ prog \in Programs
  /\ IU!Init
  /\ RF!Init
  /\ ROB!Init
  /\ RS!Init
  /\ LSQ!Init
  /\ MEM!Init
  /\ CDB!Init
  /\ ALU!Init
  /\ hcf = FALSE

Next == \E take \in {0, 1} : Tick(take)

(* The main loop ticks until hcf.                                          *)
Spec == Init /\ [][Next]_vars /\ WF_vars(Next)

=============================================================================
