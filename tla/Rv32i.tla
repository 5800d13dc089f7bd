------------------------------- MODULE Rv32i -------------------------------
(***************************************************************************)
(* The words, registers and instructions that the out-of-order machine     *)
(* (Cpu) and the sequential one (Isa) share: rv32i.h, rvmath.c, alu-ops.c, *)
(* the two memory accessors of memory.c and the shape of a decoded         *)
(* instruction (inst.h).                                                   *)
(*                                                                         *)
(* Data is abstracted to what the properties tell apart.  A word is a      *)
(* number below WordSize and wraps there; a byte is a number below         *)
(* ByteSize and a full word occupies two bytes of memory, so that an       *)
(* access may overlap another one partially.  Sign extension of loads and  *)
(* the ALU operations other than these three change values only and are    *)
(* left out.                                                               *)
(***************************************************************************)
EXTENDS Integers

CONSTANTS
  RegCount,   \* REG_COUNT, rv32i.h:6
  WordSize,   \* 2^32 in the code
  ByteSize,   \* 2^8 in the code
  MemSize,    \* MEM_SIZE, memory.h:8
  InstSize    \* INST_SIZE, inst.h:5; even, so that "& ~1u" keeps a pc

ASSUME Rv32iAssumption ==
  /\ RegCount \in Nat \ {0}
  /\ ByteSize \in Nat \ {0}
  /\ WordSize = ByteSize * ByteSize
  /\ WordSize % 2 = 0
  /\ MemSize \in 1 .. WordSize
  /\ InstSize \in Nat \ {0}

Word == 0 .. WordSize - 1
Byte == 0 .. ByteSize - 1
Reg  == 0 .. RegCount - 1

(* signed_add and ALU_ADD: two's complement addition needs no sign.        *)
AddUnbounded(base, dx) == base + dx   \* mutant: a word that does not wrap
Add(base, dx) == (base + dx) % WordSize

(* "addr & ~1u", the rounding of a JALR target.                            *)
ClearBit0(addr) == addr - (addr % 2)

(* alu_execute.  A comparison returns the word 0 or 1.  inst_alu_op copies *)
(* bits of the instruction, so an instruction may also carry an operation  *)
(* that alu_execute does not know, on which it aborts the program.         *)
AluOps == {"ADD", "BEQ", "BNE"}
AluCodes == AluOps \cup {"UNKNOWN"}
AluExecute(op, value1, value2) ==
  CASE op = "ADD" -> Add(value1, value2)
    [] op = "BEQ" -> IF value1 = value2 THEN 1 ELSE 0
    [] op = "BNE" -> IF value1 # value2 THEN 1 ELSE 0

(* What travels on the common data bus, cdb_message_t.                     *)
Message(ids) == [rob : ids, result : Word]

(* A bank f of clocked registers at the end of a tick in which rm_write    *)
(* was called once for each pair <<index, value>> in "writes"; the code    *)
(* aborts when one register is written twice (reg.c:76-79), see the        *)
(* DoubleWrite predicates of the components.                               *)
Written(f, writes) ==
  [i \in DOMAIN f |->
    IF \E w \in writes : w[1] = i
      THEN (CHOOSE w \in writes : w[1] = i)[2]
      ELSE f[i]]

-----------------------------------------------------------------------------
(* Memory accesses.  LS_BYTEU / SB take one byte, LS_WORD / SW two.  The   *)
(* memory has a byte for each word up to MemSize; what an access beyond    *)
(* does is undefined, see the predicates WildAccess and WildFetch.         *)

Sizes == {"BYTE", "WORD"}
LsSize(size) == IF size = "WORD" THEN 2 ELSE 1
Bytes(access) == {Add(access.addr, i) : i \in 0 .. LsSize(access.size) - 1}

MemGetSz(mem, addr, size) ==
  IF size = "WORD" THEN mem[addr] + ByteSize * mem[Add(addr, 1)] ELSE mem[addr]

MemSetSz(mem, addr, value, size) ==
  LET low == [mem EXCEPT ![addr] = value % ByteSize]
  IN  IF size = "WORD"
        THEN [low EXCEPT ![Add(addr, 1)] = value \div ByteSize]
        ELSE low

-----------------------------------------------------------------------------
(* Decoded instructions (inst_t).  "op" merges inst.opcode with the two    *)
(* pseudo operations INST_HCF and INST_UNIMP; fields an instruction does   *)
(* not use are 0.                                                          *)

Instr(op, alu, size, rd, rs1, rs2, imm) ==
  [op |-> op, alu |-> alu, size |-> size, rd |-> rd, rs1 |-> rs1, rs2 |-> rs2,
   imm |-> imm]

Ops == {"LOAD", "STORE", "IMM", "OP", "AUIPC", "LUI", "BRANCH", "JALR", "JAL",
        "HCF", "UNIMP"}

Instruction ==
  [op : Ops, alu : AluCodes, size : Sizes, rd : Reg, rs1 : Reg, rs2 : Reg, imm : Word]

Unimp == Instr("UNIMP", "ADD", "BYTE", 0, 0, 0, 0)

(* The kind of reorder buffer entry an instruction takes, inst_rob_op.      *)
RobOp(inst) ==
  IF inst.op \in {"STORE", "BRANCH", "JALR", "HCF"} THEN inst.op ELSE "REGISTER"

(* A program is a function from pcs to instructions; whatever lies outside *)
(* of it decodes to INST_UNIMP, as the zeroed memory of mem_create does.   *)
Fetch(prog, pc) == IF pc \in DOMAIN prog THEN prog[pc] ELSE Unimp

=============================================================================
