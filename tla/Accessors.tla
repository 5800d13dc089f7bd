------------------------------ MODULE Accessors ------------------------------
(***************************************************************************)
(* The accessors of memory.c at their real sizes, which the model of the   *)
(* processor reduces to bytes and words of two bytes: _mem_get_sz and      *)
(* _mem_set_sz view the bytes at an address, aligned or not, as a little   *)
(* endian number.  Words and bytes are sets of bits, as in Decoder.        *)
(***************************************************************************)
EXTENDS Decoder

CONSTANTS
  Cells,     \* MEM_SIZE
  Octets,    \* the bytes that the loader may place
  Values     \* the words that may be stored

ASSUME AccessorsAssumption ==
  /\ Cells \in Nat \ 0 .. 3
  /\ \A o \in Octets : o \subseteq 0 .. 7
  /\ \A v \in Values : v \subseteq WordBits

VARIABLES
  data,      \* mem->data
  written    \* history: of every byte, the last store that touched it

Sizes == {"BYTE", "BYTEU", "HWORD", "HWORDU", "WORD"}
LsSize(size) ==   \* ls_size
  [BYTE |-> 1, BYTEU |-> 1, HWORD |-> 2, HWORDU |-> 2, WORD |-> 4][size]
Addresses(size) == 0 .. Cells - LsSize(size)

(* The bytes from addr on as one number.                                   *)
Deref(addr, bytes) == UNION {Shl(data[addr + i], 8 * i) : i \in 0 .. bytes - 1}

MemGetSzByte(addr, size) ==   \* mutant: every signed access extends a byte
  IF size \in {"BYTE", "HWORD"} THEN SignExtend(Deref(addr, LsSize(size)), 8)
  ELSE Deref(addr, LsSize(size))
MemGetSz(addr, size) ==   \* _mem_get_sz
  IF size \in {"BYTE", "HWORD"}
    THEN SignExtend(Deref(addr, LsSize(size)), 8 * LsSize(size))
    ELSE Deref(addr, LsSize(size))

(* _mem_set_sz; the unsigned sizes end in its assertion.                   *)
MemSetSz(addr, value, size) ==
  /\ size \in {"BYTE", "HWORD", "WORD"}
  /\ data' = [a \in DOMAIN data |->
               IF a \in addr .. addr + LsSize(size) - 1
                 THEN Shr(value, 8 * (a - addr)) \cap 0 .. 7
                 ELSE data[a]]

Octet(v, i) == {b - 8 * i : b \in v \cap (8 * i .. 8 * i + 7)}

StoreTo(addr, size, value) ==
  /\ MemSetSz(addr, value, size)
  /\ written' = [a \in DOMAIN written |->
                  IF a - addr \in 0 .. LsSize(size) - 1 THEN Octet(value, a - addr)
                  ELSE written[a]]

(* mem_create clears the bytes, the loader places some with mem_set.       *)
MemCreate(cells) == data = cells /\ written = cells

StoreAny ==
  \E size \in Sizes, value \in Values :
    \E addr \in Addresses(size) : StoreTo(addr, size, value)

=============================================================================
