---------------------------- MODULE MCFunctions ----------------------------
(***************************************************************************)
(* The pure parts of the processor against what RV32I says of them: the    *)
(* decoder against an assembler, every operation of the ALU on every pair  *)
(* of words, and the accessors of the memory after any stores.             *)
(***************************************************************************)
EXTENDS Assembler, Accessors, AluOps, FiniteSetsExt

(* Octets and words whose parts have the sign bit, lack it, or differ.     *)
LoaderOctets == {{7}}
StoredWords == {{0, 7, 14, 16, 31}, {1, 15} \cup 16 .. 23}

VARIABLES
  input,    \* an instruction or word to decode, a task for the ALU, or the accessors
  output    \* what was made of it: a set of at most one

vars == <<input, output, data, written>>

(* Besides the instructions: the word that halts the machine, and words    *)
(* with an opcode that is none of the nine.                                *)
Halting == [m |-> "HCF", word |-> InstMagicHcf]
Foreign == {[m |-> "UNIMP", word |-> opcode] :
              opcode \in {o \in SUBSET OpcodeMask : \A c \in DOMAIN OPC : o # OPC[c]}}

Decodables == Instructions \cup {Halting} \cup Foreign
Tasks == [alu : AluOps, value1 : Word, value2 : Word]
Accessing == [bytes : {Cells}]

Start(inputs, cells) ==
  /\ input \in inputs
  /\ output = {}
  /\ \E c \in cells : MemCreate(c)
Cleared == {[a \in 0 .. Cells - 1 |-> {}]}

Init ==
  \/ Start(Decodables, Cleared)
  \/ Start(Tasks, Cleared)
  \/ Start(Accessing, [0 .. Cells - 1 -> Octets \cup {{}}])

Yields(result) ==
  /\ output = {}
  /\ output' = {result}
  /\ UNCHANGED <<input, data, written>>

Is(field) == field \in DOMAIN input
Decode ==
  /\ Is("m")
  /\ Yields(InstDecode(IF input.m \in Mnemonics THEN Assemble(input) ELSE input.word))
Execute ==
  /\ Is("alu")
  /\ Yields(AluExecute(input.alu, input.value1, input.value2))
Access ==
  /\ Is("bytes")
  /\ StoreAny
  /\ UNCHANGED <<input, output>>

Next == Decode \/ Execute \/ Access

Spec == Init /\ [][Next]_vars

-----------------------------------------------------------------------------
(* Decoding gives back the registers and the immediate, for every format   *)
(* and sign (inst.c:44-117, 153-196); SRAI is left to ShiftImmediates.     *)
FieldsSurvive ==
  Is("m") => \A i \in output :
    LET m == input.m
        format == FormatOf(m)
    IN  m \in Mnemonics \ {"SRAI"} =>
          /\ i.format = format
          /\ format \notin {"S", "B"} => i.rd = input.rd
          /\ format \notin {"U", "J"} => i.rs1 = input.rs1
          /\ format \in {"R", "S", "B"} => i.rs2 = input.rs2
          /\ format # "R" => i.immediate = input.imm

(* The instruction goes to the right kind of station, retires in the right *)
(* way, and the ALU, which is handed bits of the operation code, performs  *)
(* what the mnemonic says (inst.c:119-151; dispatch itself sets ALU_ADD    *)
(* for the U and J formats); a load or store has the size it says.         *)
MeansWhatItSays ==
  Is("m") => \A i \in output :
    LET m == input.m
    IN  CASE m = "HCF" ->
               RobOp(i) = "HCF" /\ RsType(i) = "RESERVATION_STATION" /\ AluOp(i) = {}
          [] m = "UNIMP" -> i.format = "UNIMP" /\ i.op = INST_UNIMP
          [] m \in Mnemonics \ {"SRAI"} ->
               /\ i.op = Code(m)
               /\ Class(m) \in {"IMM", "OP", "BRANCH", "JALR"} =>
                    AluOp(i) = BitsOf(Performs(m))
               /\ Class(m) \in {"LOAD", "STORE"} =>
                    LsOp(i) = BitsOf(Table[m][2]) /\ LsOp(i) = i.width
               /\ RsType(i) = CASE Class(m) = "LOAD"  -> "LOAD_BUFFER"
                                [] Class(m) = "STORE" -> "STORE_BUFFER"
                                [] OTHER -> "RESERVATION_STATION"
               /\ RobOp(i) = IF Class(m) \in {"STORE", "BRANCH", "JALR"}
                               THEN Class(m) ELSE "REGISTER"
          [] OTHER -> TRUE

(* inst.c:70-72 isolates the shift amount of a shift by an immediate, and  *)
(* inst.h:27 has a code for SRAI.  The code does neither: see the README.  *)
ShiftImmediates ==
  Is("m") => \A i \in output :
    input.m \in Shifts => i.immediate = input.imm /\ i.op = Code(input.m)

-----------------------------------------------------------------------------
Bit(v, b) == (v \div 2^b) % 2
(* The number a word stands for in two's complement, from its bits.        *)
Unsigned(v) == MapThenSumSet(LAMBDA b : Bit(v, b) * 2^b, 0 .. Width - 2)
Number(v) == Unsigned(v) - Bit(v, Width - 1) * 2^(Width - 1)

(* What an instruction computes, bit by bit or as a relation of numbers.   *)
Means(o, v1, v2, r) ==
  LET shift == v2 % Width
      truth == CASE o \in {"SLT", "BLT"}   -> Number(v1) < Number(v2)
                 [] o \in {"SLTU", "BLTU"} -> v1 < v2
                 [] o = "BEQ"  -> \A b \in 0 .. Width - 1 : Bit(v1, b) = Bit(v2, b)
                 [] o = "BNE"  -> \E b \in 0 .. Width - 1 : Bit(v1, b) # Bit(v2, b)
                 [] o = "BGE"  -> Number(v1) >= Number(v2)
                 [] o = "BGEU" -> v1 >= v2
                 [] OTHER -> FALSE
      bit(b) == LET x == Bit(v1, b)   y == Bit(v2, b)
                IN  CASE o = "XOR" -> IF x # y THEN 1 ELSE 0
                      [] o = "OR"  -> IF x = 1 \/ y = 1 THEN 1 ELSE 0
                      [] o = "AND" -> IF x = 1 /\ y = 1 THEN 1 ELSE 0
                      [] o = "SLL" -> IF b >= shift THEN Bit(v1, b - shift) ELSE 0
                      [] o = "SRL" -> IF b + shift < Width THEN Bit(v1, b + shift) ELSE 0
                      [] o = "SRA" -> IF b + shift < Width THEN Bit(v1, b + shift)
                                      ELSE Bit(v1, Width - 1)
  IN  CASE o = "ADD" -> (Number(r) - Number(v1) - Number(v2)) % 2^Width = 0
        [] o = "SUB" -> (Number(r) - Number(v1) + Number(v2)) % 2^Width = 0
        [] o \in {"XOR", "OR", "AND", "SLL", "SRL", "SRA"} ->
             \A b \in 0 .. Width - 1 : Bit(r, b) = bit(b)
        [] OTHER -> r = IF truth THEN 1 ELSE 0

(* Results are words, also at the borders of the range and for every shift *)
(* amount, comparisons tell signed from unsigned, and a branch condition   *)
(* is the word 0 or 1 (alu-ops.c:15-39); SRA is left to ArithmeticShift.   *)
OperationsAreRv32i ==
  Is("alu") => \A r \in output :
    r \in Word /\ (input.alu # "SRA" => Means(input.alu, input.value1, input.value2, r))

(* _signed_rshift (alu-ops.c:10) shifts a signed word to the right.  It    *)
(* does not: see the README.                                               *)
ArithmeticShift ==
  Is("alu") => \A r \in output :
    input.alu = "SRA" => Means("SRA", input.value1, input.value2, r)

-----------------------------------------------------------------------------
(* Sets of bits as numbers of RV32I, and what its loads return.            *)
Value(bits) == MapThenSumSet(LAMBDA b : 2^b, bits)
SignedValue(word) ==
  IF 31 \in word THEN -1 - Value(0 .. 30 \ word) ELSE Value(word)

Loaded(addr, size) ==
  LET byte(a) == Value(written[a])
      unsigned(n) == IF n = 1 THEN byte(addr) ELSE byte(addr) + 256 * byte(addr + 1)
      signed(n, limit) == IF unsigned(n) >= limit THEN unsigned(n) - 2 * limit ELSE unsigned(n)
  IN  CASE size = "BYTEU"  -> unsigned(1)
        [] size = "HWORDU" -> unsigned(2)
        [] size = "BYTE"   -> signed(1, 128)
        [] size = "HWORD"  -> signed(2, 32768)

(* A load of any size, wherever it starts, returns the number that the     *)
(* last writers of its bytes left there, however their accesses overlapped *)
(* (memory.c:23-48, rvmath.c:6-10).                                        *)
LoadsWhatWasStored ==
  \A size \in Sizes : \A addr \in Addresses(size) :
    IF size = "WORD"
      THEN \A i \in 0 .. 3 : Octet(MemGetSz(addr, size), i) = written[addr + i]
      ELSE SignedValue(MemGetSz(addr, size)) = Loaded(addr, size)

=============================================================================
