------------------------------ MODULE Decoder ------------------------------
(***************************************************************************)
(* inst.c: how an instruction word becomes an inst_t, and what the rest of *)
(* the machine derives from it.  A word is the set of its bits that are    *)
(* one, so that masks are sets, "&" is intersection and a shift moves the  *)
(* members.                                                                *)
(***************************************************************************)
EXTENDS Integers

WordBits == 0 .. 31
Shl(word, n) == {b + n : b \in word} \cap WordBits
Shr(word, n) == {b - n : b \in word} \cap WordBits
Get(inst, mask, shift) == Shr(inst \cap mask, shift)   \* _inst_get

(* sign_extend: the sign bit is smeared upwards, by 1, 2, 4, 8 and 16.     *)
Smear(bit, rounds) ==
  LET mask[i \in 0 .. rounds] ==
        IF i = 0 THEN bit ELSE mask[i - 1] \cup Shl(mask[i - 1], 2^(i - 1))
  IN  mask[rounds]
SignExtend(word, size) == word \cup Smear(word \cap {size - 1}, 5)

-----------------------------------------------------------------------------
(* The bit fields.                                                         *)
OpcodeMask == 0 .. 6
RdMask     == 7 .. 11
Funct3Mask == 12 .. 14
Rs1Mask    == 15 .. 19
Rs2Mask    == 20 .. 24
Funct7Mask == 25 .. 31
ImmMask    == Funct7Mask \cup Rs2Mask
UImmMask   == ImmMask \cup Rs1Mask \cup Funct3Mask

(* The opcodes, and the codes of the operations the decoder tests for.     *)
OPC == [LOAD |-> {0, 1}, STORE |-> {0, 1, 5}, IMM |-> {0, 1, 4}, OP |-> {0, 1, 4, 5},
        AUIPC |-> {0, 1, 2, 4}, LUI |-> {0, 1, 2, 4, 5}, BRANCH |-> {0, 1, 5, 6},
        JALR |-> {0, 1, 2, 5, 6}, JAL |-> {0, 1, 2, 3, 5, 6}]
INST_SLLI  == OPC.IMM \cup {7}
INST_SRLI  == OPC.IMM \cup {7, 9}
INST_SLTIU == OPC.IMM \cup {7, 8}

(* 0xfee1dead and 0xbada991e, and the word that halts the machine, which   *)
(* is "addi x10, x0, 255".                                                 *)
INST_HCF   == {0, 2, 3, 5, 7, 9, 10, 11, 12, 14, 15, 16} \cup 21 .. 23 \cup 25 .. 31
INST_UNIMP == {1, 2, 3, 4, 8, 11, 12, 15, 17, 19, 20, 22, 23, 25, 27, 28, 29, 31}
InstMagicHcf == OPC.IMM \cup {8, 10} \cup 20 .. 27

(* The scattered immediates, each gathered piece by piece.                 *)
JalImm(inst) ==
  SignExtend(UNION {Get(inst, {31}, 11), Get(inst, 12 .. 19, 0),
                    Get(inst, 21 .. 30, 20), Get(inst, {20}, 9)}, 21)
BranchImmDirect(inst) ==   \* mutant: bit 7 is shifted like its neighbours
  SignExtend(UNION {Get(inst, {31}, 19), Get(inst, {7}, 7),
                    Get(inst, 25 .. 30, 20), Get(inst, 8 .. 11, 7)}, 13)
BranchImm(inst) ==
  SignExtend(UNION {Get(inst, {31}, 19), Shl(Get(inst, {7}, 7), 11),
                    Get(inst, 25 .. 30, 20), Get(inst, 8 .. 11, 7)}, 13)
StoreImm(inst) ==
  SignExtend(Shl(Get(inst, Funct7Mask, 25), 5) \cup Get(inst, RdMask, 7), 12)

-----------------------------------------------------------------------------
(* inst_decode.  Codes of operations are the opcode, then funct3, then bit *)
(* 5 of funct7.                                                            *)
Opc0(inst) == Get(inst, OpcodeMask, 0)
Opc1(inst) == Opc0(inst) \cup Shl(Get(inst, Funct3Mask, 12), 7)
Opc2(inst) == Opc1(inst) \cup Shl(Get(Get(inst, Funct7Mask, 25), {5}, 5), 10)

IsShift(opc1) == opc1 = INST_SLLI /\ opc1 = INST_SRLI   \* sic

Format(opcode) ==
  CASE opcode \in {OPC.IMM, OPC.LOAD, OPC.JALR} -> "I"
    [] opcode \in {OPC.LUI, OPC.AUIPC} -> "U"
    [] opcode = OPC.OP     -> "R"
    [] opcode = OPC.JAL    -> "J"
    [] opcode = OPC.BRANCH -> "B"
    [] opcode = OPC.STORE  -> "S"
    [] OTHER -> "UNIMP"

OpCode(inst, format) ==
  IF inst = InstMagicHcf THEN INST_HCF
  ELSE CASE format \in {"I", "B", "S"} -> Opc1(inst)
         [] format \in {"U", "J"} -> Opc0(inst)
         [] format = "R" -> Opc2(inst)
         [] format = "UNIMP" -> INST_UNIMP

Immediate(inst, format) ==
  LET imm == Get(inst, ImmMask, 20)
      shift == format = "I" /\ IsShift(Opc1(inst))
      unsigned == format = "I" /\ ~shift /\ Opc1(inst) = INST_SLTIU
  IN  CASE shift -> Get(inst, Rs2Mask, 20)
        [] unsigned -> imm   \* never both
        [] format = "U" -> inst \cap UImmMask
        [] format = "J" -> JalImm(inst)
        [] format = "B" -> BranchImm(inst)
        [] format = "S" -> StoreImm(inst)
        [] OTHER -> SignExtend(imm, 12)

InstDecode(inst) ==
  LET format == Format(Opc0(inst))
  IN  [op |-> OpCode(inst, format), opcode |-> Opc0(inst), format |-> format,
       immediate |-> Immediate(inst, format),
       rd |-> Get(inst, RdMask, 7), rs1 |-> Get(inst, Rs1Mask, 15),
       rs2 |-> Get(inst, Rs2Mask, 20), width |-> Get(inst, Funct3Mask, 12)]

(* What dispatch asks of a decoded instruction.                            *)
AluOpNoBranch(i) == Shr(i.op, 7)   \* mutant: without BRANCH_MASK
AluOp(i) ==   \* inst_alu_op
  IF i.op = INST_HCF THEN {}
  ELSE Shr(i.op, 7) \cup (IF i.opcode = OPC.BRANCH THEN {4} ELSE {})
LsOp(i) == Shr(i.op, 7)   \* inst_ls_op
RsType(i) ==   \* inst_type
  IF i.op = INST_HCF \/ i.op \cap OpcodeMask \notin {OPC.LOAD, OPC.STORE}
    THEN "RESERVATION_STATION"
    ELSE IF i.op \cap OpcodeMask = OPC.LOAD THEN "LOAD_BUFFER" ELSE "STORE_BUFFER"
RobOp(i) ==   \* inst_rob_op
  LET opcode == i.op \cap OpcodeMask
  IN  IF i.op = INST_HCF THEN "HCF"
      ELSE CASE opcode = OPC.STORE  -> "STORE"
             [] opcode = OPC.BRANCH -> "BRANCH"
             [] opcode = OPC.JALR   -> "JALR"
             [] OTHER -> "REGISTER"

=============================================================================
