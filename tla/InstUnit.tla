------------------------------ MODULE InstUnit ------------------------------
(***************************************************************************)
(* inst-unit.c and inst-dispatch.c: one instruction per tick is fetched at *)
(* the predicted pc, gets a reorder buffer entry and a station, and reads  *)
(* its operands from the registers, the reorder buffer or the bus.         *)
(*                                                                         *)
(* The prediction of branch-predictor.c is the free choice "take": its     *)
(* tables start out with an uninitialised history, and nothing else in the *)
(* machine may depend on what it answers.                                  *)
(***************************************************************************)
EXTENDS Rv32i, FiniteSets

CONSTANTS
  AluStations, LoadBuffers, StoreBuffers, AluCount, RobCapacity,
  HelperCount, BusMessage, ZeroMessage

VARIABLES
  prog,      \* the instructions in mem->data
  pc,        \* unit->pc
  forcePc    \* unit->force_pc

(* The components the unit holds pointers to; read only.                   *)
VARIABLES
  registers, robIds, rfClear,
  robHead, robTail, robClear, ready, robPayload,
  rsBusy, rsPayload, rsClear,
  busClear, req, fire, busData, buffer, bhBusy, current

iuVars == <<pc, forcePc>>

RF == INSTANCE RegStore
ROB == INSTANCE ReorderBuffer
RS == INSTANCE ReservationStation
CDB == INSTANCE Bus

inst == Fetch(prog, pc)
NextPc == Add(pc, InstSize)
JumpTarget == Add(pc, inst.imm)
Rob == ROB!Id(robTail)   \* the entry rob_unit_acquire hands out

(* inst_type                                                               *)
Pool ==
  CASE inst.op = "LOAD" -> LoadBuffers
    [] inst.op = "STORE" -> StoreBuffers
    [] OTHER -> AluStations

(* _inst_unit_tick: the stations (at most one) dispatch writes in this     *)
(* tick; none while the pc is forced, the buffer is full, the instruction  *)
(* is unknown or every station of its kind is taken.                       *)
Into ==
  IF forcePc.busy \/ ROB!Full \/ inst.op = "UNIMP" THEN {} ELSE RS!Acquire(Pool)

-----------------------------------------------------------------------------
(* _inst_reg_set: where an operand comes from.                             *)
Known(value) == [src |-> 0, value |-> value]
OperandNoBypass(r) ==   \* mutant: the bus is not looked at
  LET id == RF!RobId(r) IN
  IF id = 0 THEN Known(RF!Get(r))
  ELSE IF ready[ROB!Slot(id)] THEN Known(robPayload[ROB!Slot(id)].value)
  ELSE [src |-> id, value |-> 0]
OperandAnyMessage(r) ==   \* mutant: without "cdb->rob == rob_id"
  LET id == RF!RobId(r) IN
  IF id = 0 THEN Known(RF!Get(r))
  ELSE IF ready[ROB!Slot(id)] THEN Known(robPayload[ROB!Slot(id)].value)
  ELSE IF CDB!GetData # {} THEN Known((CHOOSE m \in CDB!GetData : TRUE).result)
  ELSE [src |-> id, value |-> 0]
Operand(r) ==
  LET id == RF!RobId(r)
      entry == ROB!Slot(id)
      bypass == {m \in CDB!GetData : m.rob = id}
  IN  IF id = 0 THEN Known(RF!Get(r))
      ELSE IF ready[entry] THEN Known(robPayload[entry].value)
      ELSE IF bypass # {} THEN Known((CHOOSE m \in bypass : TRUE).result)
      ELSE [src |-> id, value |-> 0]

(* The target guessed for a JALR: from the register even when it is stale, *)
(* unless its producer is ready.                                           *)
JalrPrediction ==
  LET id == RF!RobId(inst.rs1)
      curr == IF id > 0 /\ ready[ROB!Slot(id)] THEN robPayload[ROB!Slot(id)].value
              ELSE RF!Get(inst.rs1)
  IN  ClearBit0(Add(curr, inst.imm))

Predicted(take) ==
  CASE inst.op = "JALR" -> JalrPrediction
    [] inst.op = "JAL" -> JumpTarget
    [] inst.op = "BRANCH" /\ take = 1 -> JumpTarget
    [] OTHER -> NextPc

-----------------------------------------------------------------------------
(* inst_dispatch.  Fields that an instruction does not set keep what the   *)
(* previous user of the entry or station left in them.                     *)

NewEntry(take) ==
  LET old == robPayload[robTail]
      base == [old EXCEPT
        !.op = RobOp(inst), !.addrReady = FALSE, !.valueReady = FALSE,
        !.size = inst.size, !.pc = pc,
        !.dest = IF inst.op \in {"STORE", "BRANCH"} THEN ROB!NoDest ELSE inst.rd]
  IN  CASE inst.op = "JALR" ->
             [base EXCEPT !.predictedAddr = JalrPrediction, !.value = NextPc]
        [] inst.op = "BRANCH" ->
             [base EXCEPT !.take = take,
                          !.fallback = IF take = 1 THEN NextPc ELSE JumpTarget]
        [] OTHER -> base

NewTask(s) ==
  LET old == [rsPayload[s] EXCEPT !.dest = Rob, !.alu = inst.alu, !.size = inst.size]
      with1 == [old EXCEPT !.src1 = Operand(inst.rs1).src, !.value1 = Operand(inst.rs1).value]
      with2 == [with1 EXCEPT !.src2 = Operand(inst.rs2).src, !.value2 = Operand(inst.rs2).value]
      Sum(p, value2) == [p EXCEPT !.alu = "ADD", !.src2 = 0, !.value2 = value2]
      Constant(value) == Sum([old EXCEPT !.src1 = 0, !.value1 = value], 0)
  IN  CASE inst.op = "LOAD" -> [with1 EXCEPT !.addr = inst.imm]
        [] inst.op = "STORE" -> [with2 EXCEPT !.addr = inst.imm]
        [] inst.op \in {"OP", "BRANCH"} -> with2
        [] inst.op = "IMM" -> [with1 EXCEPT !.src2 = 0, !.value2 = inst.imm]
        [] inst.op \in {"JALR", "HCF"} -> Sum(with1, inst.imm)
        [] inst.op = "LUI" -> Constant(inst.imm)
        [] inst.op = "AUIPC" -> Constant(JumpTarget)
        [] inst.op = "JAL" -> Constant(NextPc)

(* The calls dispatch makes to the reorder buffer, the stations and the    *)
(* renaming table.                                                         *)
Entries(take) == {NewEntry(take) : s \in Into}
Tasks == {[station |-> s, payload |-> NewTask(s)] : s \in Into}
Renames == {[rd |-> inst.rd, id |-> Rob] : s \in {t \in Into : inst.op \notin {"STORE", "BRANCH"}}}

(***************************************************************************)
(* A tick with the pcs (at most one) that inst_unit_force_pc is called     *)
(* with.                                                                   *)
(***************************************************************************)
Tick(take, forced) ==
  /\ pc' = IF forcePc.busy THEN forcePc.addr
           ELSE IF Into # {} THEN Predicted(take)
           ELSE pc
  /\ forcePc' = IF forced # {} THEN [busy |-> TRUE, addr |-> CHOOSE a \in forced : TRUE]
                ELSE [forcePc EXCEPT !.busy = FALSE]

(* mem_get_inst reads beyond mem->data.                                    *)
WildFetch == ~forcePc.busy /\ ~ROB!Full /\ pc >= MemSize

DoubleWrite(forced) == forcePc.busy /\ forced # {}

Init ==
  /\ pc = 0
  /\ forcePc = [busy |-> FALSE, addr |-> 0]

=============================================================================
