------------------------------- MODULE AluOps -------------------------------
(***************************************************************************)
(* alu-ops.c: the operations of the ALU, on words of any small width.      *)
(*                                                                         *)
(* A shift by more than the width of a word is undefined in C; the shift   *)
(* instructions of the build take the amount modulo the width, as RV32I    *)
(* wants it.                                                               *)
(***************************************************************************)
EXTENDS Integers, Bitwise

CONSTANT Width   \* 32 in the code

ASSUME AluOpsAssumption == Width \in Nat \ {0}

Word == 0 .. 2^Width - 1
Wrap(n) == n % 2^Width

(* The conversion of word_t to signed_word_t.                              *)
Signed(v) == IF v >= 2^(Width - 1) THEN v - 2^Width ELSE v
Amount(v) == v % Width
Bool(b) == IF b THEN 1 ELSE 0

SignedLtUnsigned(v1, v2) == Bool(v1 < v2)   \* mutant: without the conversion
SignedLt(v1, v2) == Bool(Signed(v1) < Signed(v2))   \* _signed_lt
SignedRshift(v1, v2) == Wrap(v1 * 2^Amount(v2))     \* _signed_rshift, sic

AluOps == {"ADD", "SLL", "SLT", "SLTU", "XOR", "SRL", "OR", "AND", "SUB", "SRA",
           "BEQ", "BNE", "BLT", "BGE", "BLTU", "BGEU"}

AluExecute(op, v1, v2) ==
  CASE op = "ADD"  -> Wrap(v1 + v2)
    [] op = "SLL"  -> Wrap(v1 * 2^Amount(v2))
    [] op = "SLT"  -> SignedLt(v1, v2)
    [] op = "SLTU" -> Bool(v1 < v2)
    [] op = "XOR"  -> v1 ^^ v2
    [] op = "SRL"  -> shiftR(v1, Amount(v2))
    [] op = "OR"   -> v1 | v2
    [] op = "AND"  -> v1 & v2
    [] op = "SUB"  -> Wrap(v1 - v2)
    [] op = "SRA"  -> SignedRshift(v1, v2)
    [] op = "BEQ"  -> Bool(v1 = v2)
    [] op = "BNE"  -> Bool(v1 # v2)
    [] op = "BLT"  -> SignedLt(v1, v2)
    [] op = "BGE"  -> 1 - SignedLt(v1, v2)
    [] op = "BLTU" -> Bool(v1 < v2)
    [] op = "BGEU" -> Bool(v1 >= v2)

=============================================================================
