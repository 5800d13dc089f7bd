------------------------------- MODULE MCCpu -------------------------------
(***************************************************************************)
(* Small machines and program families for TLC.  A family is every program *)
(* of a given length over a small alphabet of instructions, ended by HCF.  *)
(***************************************************************************)
EXTENDS CpuProperties

Halt == Instr("HCF", "ADD", "BYTE", 1, 0, 0, 1)

Family(alphabet, length) ==
  {[p \in {InstSize * i : i \in 0 .. length} |->
     IF p = InstSize * length THEN Halt ELSE f[p]] :
       f \in [{InstSize * i : i \in 0 .. length - 1} -> alphabet]}

Imm(rd, rs1, imm) == Instr("IMM", "ADD", "BYTE", rd, rs1, 0, imm)
Op(rd, rs1, rs2) == Instr("OP", "ADD", "BYTE", rd, rs1, rs2, 0)
Load(size, rd, rs1, imm) == Instr("LOAD", "ADD", size, rd, rs1, 0, imm)
Store(size, rs1, rs2, imm) == Instr("STORE", "ADD", size, 0, rs1, rs2, imm)
Branch(alu, rs1, rs2, imm) == Instr("BRANCH", alu, "BYTE", 0, rs1, rs2, imm)
Jump(op, rd, rs1, imm) == Instr(op, "ADD", "BYTE", rd, rs1, 0, imm)

(* Register dependences of every kind, and x0 as source and destination.   *)
RegisterPrograms ==
  Family({Imm(1, 1, 3), Imm(2, 1, 1), Op(1, 2, 1), Op(2, 2, 2), Op(0, 1, 1),
          Jump("LUI", 1, 0, 5), Jump("AUIPC", 2, 0, 4)}, 4)

(* Loads and stores of both sizes, at addresses known early and late.  Two *)
(* accesses either do not touch or start at the same byte.                 *)
MemoryPrograms ==
  Family({Imm(1, 1, 2), Imm(2, 1, 4), Load("WORD", 2, 1, 0), Load("BYTE", 1, 1, 0),
          Store("WORD", 0, 1, 2), Store("BYTE", 2, 1, 2)}, 4)

(* Forward and backward branches and jumps around them.  No JALR writes a  *)
(* register.                                                               *)
ControlPrograms ==
  Family({Imm(1, 1, 2), Store("BYTE", 0, 1, 2), Load("BYTE", 1, 0, 2),
          Branch("BNE", 1, 0, 4), Branch("BEQ", 1, 2, 12),
          Jump("JAL", 2, 0, 4), Jump("JALR", 0, 1, 4)}, 3)

CorePrograms == RegisterPrograms \cup MemoryPrograms \cup ControlPrograms

(* A load that wakes several instructions at once, so that the ALUs and    *)
(* the memory compete for the bus and its buffers run full, also while a   *)
(* branch clears the machine.                                              *)
Branches(p) == {i \in DOMAIN p : p[i].op = "BRANCH"}
ContentionPrograms ==
  {p \in Family({Op(2, 1, 1), Load("BYTE", 1, 0, 2), Branch("BEQ", 1, 0, InstSize)}, 7) :
     p[0].op = "LOAD" /\ Cardinality(Branches(p)) <= 2}

(* Programs with a loop, which ends or not, and stores within it.          *)
Backward == {Branch("BNE", 2, 0, WordSize - InstSize), Jump("JAL", 0, 0, WordSize - InstSize)}
LoopPrograms ==
  {p \in Family({Imm(2, 1, 1), Store("BYTE", 0, 2, 2), Load("BYTE", 1, 0, 2)} \cup Backward, 3) :
     /\ p[0] \notin Backward /\ \E i \in DOMAIN p : p[i].op = "STORE"
     /\ Cardinality({i \in DOMAIN p : p[i] \in Backward}) = 1}

BusyPrograms == ContentionPrograms \cup LoopPrograms

-----------------------------------------------------------------------------
(* Accesses that overlap without starting at the same byte.                *)
OverlapPrograms ==
  Family({Imm(1, 1, 5), Store("WORD", 0, 1, 2), Load("BYTE", 2, 0, 3)}, 3)

(* Stores and loads of both sizes at neighbouring addresses.               *)
NeighbourPrograms ==
  Family({Imm(1, 1, 5), Store("WORD", 0, 1, 2), Store("BYTE", 1, 1, 3),
          Load("BYTE", 2, 0, 3), Load("WORD", 1, 0, 2), Branch("BEQ", 1, 0, 4)}, 4)

(* A JALR whose link register is read soon after.                          *)
LinkPrograms == Family({Jump("JALR", 1, 0, 4), Op(2, 1, 1)}, 3)

(* Programs in which only a branch that is never taken leads to "trap":    *)
(* fakecpu.c runs them to their end.                                       *)
Untaken(trap) ==
  {[p EXCEPT ![InstSize] = Branch("BNE", 0, 0, 2 * InstSize), ![2 * InstSize] = Halt,
             ![3 * InstSize] = trap] : p \in Family({Imm(1, 1, 2)}, 4)}

(* A word that decodes to an operation the ALU does not know.              *)
WrongPathPrograms == Untaken(Instr("OP", "UNKNOWN", "BYTE", 1, 1, 1, 0))

(* A load from an address beyond the memory.                               *)
WildPrograms == Untaken(Load("BYTE", 1, 0, MemSize))

=============================================================================
