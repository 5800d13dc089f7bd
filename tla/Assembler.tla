----------------------------- MODULE Assembler -----------------------------
(***************************************************************************)
(* The reference for the decoder: an assembler, which follows the table of *)
(* operations in inst.h and the instruction formats of RV32I.              *)
(*                                                                         *)
(* Every field is moved bit by bit, so it is enough to try each bit of an  *)
(* immediate alone, missing alone, and none and all of them.               *)
(***************************************************************************)
EXTENDS Decoder

(* A small number as a word.                                               *)
BitsOf(n) == {b \in 0 .. 7 : (n \div 2^b) % 2 = 1}

(* enum inst_op_t: <<opcode, funct3, bit 5 of funct7>>.                    *)
Table ==
  [LB |-> <<"LOAD", 0, 0>>, LH |-> <<"LOAD", 1, 0>>, LW |-> <<"LOAD", 2, 0>>,
   LBU |-> <<"LOAD", 4, 0>>, LHU |-> <<"LOAD", 5, 0>>,
   SB |-> <<"STORE", 0, 0>>, SH |-> <<"STORE", 1, 0>>, SW |-> <<"STORE", 2, 0>>,
   ADDI |-> <<"IMM", 0, 0>>, SLTI |-> <<"IMM", 2, 0>>, SLTIU |-> <<"IMM", 3, 0>>,
   XORI |-> <<"IMM", 4, 0>>, ORI |-> <<"IMM", 6, 0>>, ANDI |-> <<"IMM", 7, 0>>,
   SLLI |-> <<"IMM", 1, 0>>, SRLI |-> <<"IMM", 5, 0>>, SRAI |-> <<"IMM", 5, 1>>,
   ADD |-> <<"OP", 0, 0>>, SUB |-> <<"OP", 0, 1>>, SLL |-> <<"OP", 1, 0>>,
   SLT |-> <<"OP", 2, 0>>, SLTU |-> <<"OP", 3, 0>>, XOR |-> <<"OP", 4, 0>>,
   SRL |-> <<"OP", 5, 0>>, SRA |-> <<"OP", 5, 1>>, OR |-> <<"OP", 6, 0>>,
   AND |-> <<"OP", 7, 0>>,
   BEQ |-> <<"BRANCH", 0, 0>>, BNE |-> <<"BRANCH", 1, 0>>, BLT |-> <<"BRANCH", 4, 0>>,
   BGE |-> <<"BRANCH", 5, 0>>, BLTU |-> <<"BRANCH", 6, 0>>, BGEU |-> <<"BRANCH", 7, 0>>,
   JALR |-> <<"JALR", 0, 0>>, JAL |-> <<"JAL", 0, 0>>,
   LUI |-> <<"LUI", 0, 0>>, AUIPC |-> <<"AUIPC", 0, 0>>]
Mnemonics == DOMAIN Table
Class(m) == Table[m][1]
Code(m) == OPC[Class(m)] \cup Shl(BitsOf(Table[m][2]), 7) \cup Shl(BitsOf(Table[m][3]), 10)

Shifts == {"SLLI", "SRLI", "SRAI"}
FormatOf(m) ==
  CASE Class(m) \in {"LOAD", "IMM", "JALR"} -> "I"
    [] Class(m) \in {"LUI", "AUIPC"} -> "U"
    [] OTHER -> [OP |-> "R", JAL |-> "J", BRANCH |-> "B", STORE |-> "S"][Class(m)]

(* enum alu_op_t, and the operation each instruction performs.             *)
ALU == [ADD |-> 0, SLL |-> 1, SLT |-> 2, SLTU |-> 3, XOR |-> 4, SRL |-> 5, OR |-> 6,
        AND |-> 7, SUB |-> 8, SRA |-> 13, BEQ |-> 16, BNE |-> 17, BLT |-> 20,
        BGE |-> 21, BLTU |-> 22, BGEU |-> 23]
ImmediateForm == [ADDI |-> "ADD", SLTI |-> "SLT", SLTIU |-> "SLTU", XORI |-> "XOR",
                  ORI |-> "OR", ANDI |-> "AND", SLLI |-> "SLL", SRLI |-> "SRL",
                  SRAI |-> "SRA"]
Performs(m) ==
  CASE Class(m) = "IMM" -> ALU[ImmediateForm[m]]
    [] Class(m) \in {"OP", "BRANCH"} -> ALU[m]
    [] OTHER -> ALU.ADD

-----------------------------------------------------------------------------
(* Assembling: the formats of RV32I.                                       *)
Place(value, from, to) == {b - from + to : b \in value}   \* moves a run of bits
Slice(imm, low, high, to) == Place(imm \cap (low .. high), low, to)
Assemble(i) ==
  LET m == i.m
      funct == Shl(BitsOf(Table[m][2]), 12) \cup Shl(BitsOf(Table[m][3]), 30)
      rd == Shl(i.rd, 7)   rs1 == Shl(i.rs1, 15)   rs2 == Shl(i.rs2, 20)
  IN  OPC[Class(m)] \cup
      CASE FormatOf(m) = "R" -> UNION {funct, rd, rs1, rs2}
        [] FormatOf(m) = "I" -> UNION {funct, rd, rs1, Slice(i.imm, 0, 11, 20)}
        [] FormatOf(m) = "S" -> UNION {funct, rs1, rs2, Slice(i.imm, 0, 4, 7),
                                       Slice(i.imm, 5, 11, 25)}
        [] FormatOf(m) = "B" -> UNION {funct, rs1, rs2, Slice(i.imm, 11, 11, 7),
                                       Slice(i.imm, 1, 4, 8), Slice(i.imm, 5, 10, 25),
                                       Slice(i.imm, 12, 12, 31)}
        [] FormatOf(m) = "U" -> rd \cup (i.imm \cap 12 .. 31)
        [] FormatOf(m) = "J" -> UNION {rd, Slice(i.imm, 12, 19, 12),
                                       Slice(i.imm, 11, 11, 20), Slice(i.imm, 1, 10, 21),
                                       Slice(i.imm, 20, 20, 31)}

(* The immediates to try: bits low .. high, of which the last one is the   *)
(* sign and fills the word.                                                *)
Patterns(low, high) ==
  {{}, low .. high} \cup {{b} : b \in low .. high}
                    \cup {(low .. high) \ {b} : b \in low .. high}
Extended(imm, high) == IF high \in imm THEN imm \cup high .. 31 ELSE imm
Immediates(m) ==
  CASE m \in Shifts -> Patterns(0, 4)
    [] m = "SLTIU" -> Patterns(0, 11)   \* sic: not extended, inst.c:73
    [] OTHER ->
         LET range == [I |-> <<0, 11>>, S |-> <<0, 11>>, B |-> <<1, 12>>,
                       J |-> <<1, 20>>, U |-> <<12, 31>>, R |-> <<0, 0>>][FormatOf(m)]
         IN  {Extended(imm, range[2]) : imm \in Patterns(range[1], range[2])}

Registers == {{}, {0}, {1, 3}, {2, 4}}
Unused == {{}}
Instructions ==
  UNION {[m : {m},
          rd  : IF FormatOf(m) \in {"S", "B"} THEN Unused ELSE Registers,
          rs1 : IF FormatOf(m) \in {"U", "J"} THEN Unused ELSE Registers,
          rs2 : IF FormatOf(m) \in {"R", "S", "B"} THEN Registers ELSE Unused,
          imm : IF FormatOf(m) = "R" THEN Unused ELSE Immediates(m)] : m \in Mnemonics}

=============================================================================
