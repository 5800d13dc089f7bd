-------------------------------- MODULE Isa --------------------------------
(***************************************************************************)
(* What the simulator promises to its user: the sequential machine of      *)
(* fakecpu.c, which executes one instruction of the program per step.  It  *)
(* is the abstract specification that the out-of-order machine of module   *)
(* Cpu implements.                                                         *)
(***************************************************************************)
EXTENDS Rv32i

CONSTANT Programs   \* the programs the machine may be started with

VARIABLES
  prog,   \* the program, which never changes
  pc,     \* cpu->pc
  regs,   \* cpu->regs
  mem,    \* cpu->mem->data
  hcf     \* the global flag that ends the main loop

vars == <<prog, pc, regs, mem, hcf>>

inst == Fetch(prog, pc)

Get(r) == IF r = 0 THEN 0 ELSE regs[r]
SetReg(r, value) == regs' = IF r = 0 THEN regs ELSE [regs EXCEPT ![r] = value]

Address == Add(inst.imm, Get(inst.rs1))
NextPc == Add(pc, InstSize)

Init ==
  /\ prog \in Programs
  /\ pc = 0
  /\ regs = [r \in Reg |-> 0]
  /\ mem = [a \in Word |-> 0]
  /\ hcf = FALSE

(* Every instruction but HCF leaves the machine running.                   *)
Continue(next) == pc' = next /\ UNCHANGED <<prog, hcf>>

Load ==
  /\ inst.op = "LOAD"
  /\ SetReg(inst.rd, MemGetSz(mem, Address, inst.size))
  /\ Continue(NextPc)
  /\ UNCHANGED mem

Store ==
  /\ inst.op = "STORE"
  /\ mem' = MemSetSz(mem, Address, Get(inst.rs2), inst.size)
  /\ Continue(NextPc)
  /\ UNCHANGED regs

(* Operations that compute a register: OPC_IMM, OPC_OP, AUIPC and LUI.     *)
Computed ==
  CASE inst.op = "IMM"   -> AluExecute(inst.alu, Get(inst.rs1), inst.imm)
    [] inst.op = "OP"    -> AluExecute(inst.alu, Get(inst.rs1), Get(inst.rs2))
    [] inst.op = "AUIPC" -> Add(inst.imm, pc)
    [] inst.op = "LUI"   -> inst.imm
Compute ==
  /\ inst.op \in {"IMM", "OP", "AUIPC", "LUI"}
  /\ SetReg(inst.rd, Computed)
  /\ Continue(NextPc)
  /\ UNCHANGED mem

Branch ==
  /\ inst.op = "BRANCH"
  /\ Continue(IF AluExecute(inst.alu, Get(inst.rs1), Get(inst.rs2)) # 0
                THEN Add(inst.imm, pc) ELSE NextPc)
  /\ UNCHANGED <<regs, mem>>

Jalr ==
  /\ inst.op = "JALR"
  /\ SetReg(inst.rd, NextPc)
  /\ Continue(ClearBit0(Address))
  /\ UNCHANGED mem

Jal ==
  /\ inst.op = "JAL"
  /\ SetReg(inst.rd, NextPc)
  /\ Continue(Add(inst.imm, pc))
  /\ UNCHANGED mem

Halt ==
  /\ inst.op = "HCF"
  /\ hcf' = TRUE
  /\ UNCHANGED <<prog, pc, regs, mem>>

(* On INST_UNIMP fakecpu_tick asserts, and alu_execute on an unknown       *)
(* operation: no step.                                                     *)
Next ==
  /\ ~hcf
  /\ inst.alu \in AluOps
  /\ Load \/ Store \/ Compute \/ Branch \/ Jalr \/ Jal \/ Halt

Spec == Init /\ [][Next]_vars

=============================================================================
