------------------------------- MODULE Clock -------------------------------
(***************************************************************************)
(* clk.c and reg.c: the clock and the clocked registers.  clk_tick moves   *)
(* the next value of every register into its buffer, recomputes the        *)
(* derived registers and calls the components; each of the three vectors   *)
(* is shuffled under RANDOM_SHUFFLE, so its closures run in any order.     *)
(*                                                                         *)
(* A step is one closure call.  A component's callback is a program of its *)
(* own; here it is what such a program can do: read buffers, write next    *)
(* values through reg_mut_write (which hands out a pointer to the next     *)
(* value, so a callback may keep fields it finds there), raise reg_or      *)
(* registers.  Which one does what is a parameter.  So is what the update  *)
(* closure of a derived register does: it computes the value and may write *)
(* back into cells, past the write counter, as _reg_file_next does to      *)
(* rob_id_set and rob_id_clear_if (reg-store.c:22-38; RegFile has it in    *)
(* full).                                                                  *)
(***************************************************************************)
EXTENDS Integers

CONSTANTS
  Cells,       \* reg_mut_create
  Clearing,    \* those whose "clear" flag is set
  Wires,       \* reg_or_create
  Derived,     \* reg_create
  Callbacks,   \* clk_add_callback
  Value, Zero,
  Compute(_, _), Resets(_, _),                          \* see SyncTick
  Writes(_, _), Modify(_, _, _, _), Raises(_, _)

View == [cells : [Cells -> Value], wires : [Wires -> BOOLEAN],
         derived : [Derived -> Value]]

ASSUME ClockAssumption ==
  /\ Cells \cap Wires = {}
  /\ Zero \in Value
  /\ Clearing \subseteq Cells
  /\ \A d \in Derived, f \in [Cells -> Value] :
       Compute(d, f) \in Value /\ Resets(d, f) \subseteq Cells
  /\ \A c \in Callbacks, v \in View :
       /\ Writes(c, v) \subseteq Cells
       /\ Raises(c, v) \subseteq Wires
       /\ \A r \in Cells, old \in Value : Modify(c, r, v, old) \in Value

VARIABLES
  buf, next, writeCount,   \* reg_mut_t
  wireBuf, wireNext,       \* reg_reduce_t
  derivedBuf,              \* reg_t
  phase,                   \* the vector clk_tick is iterating over
  pending,                 \* its closures that have not been called yet
  aborted                  \* the assertion of reg_mut_write failed

vars == <<buf, next, writeCount, wireBuf, wireNext, derivedBuf, phase, pending, aborted>>

view == [cells |-> buf, wires |-> wireBuf, derived |-> derivedBuf]

-----------------------------------------------------------------------------
(* What _reg_mut_tick leaves in next.                                      *)
NextAfterNever(r) == next[r]   \* mutant: without "if (reg->clear)"
NextAfter(r) == IF r \in Clearing THEN Zero ELSE next[r]

RegMutTick(r) ==   \* _reg_mut_tick
  /\ phase = "regmuts" /\ r \in pending /\ r \in Cells
  /\ buf' = [buf EXCEPT ![r] = next[r]]
  /\ next' = [next EXCEPT ![r] = NextAfter(r)]
  /\ writeCount' = [writeCount EXCEPT ![r] = 0]
  /\ pending' = pending \ {r}
  /\ UNCHANGED <<wireBuf, wireNext, derivedBuf, phase, aborted>>

RegReduceTick(w) ==   \* _reg_reduce_tick
  /\ phase = "regmuts" /\ w \in pending /\ w \in Wires
  /\ wireBuf' = [wireBuf EXCEPT ![w] = wireNext[w]]
  /\ wireNext' = [wireNext EXCEPT ![w] = FALSE]
  /\ pending' = pending \ {w}
  /\ UNCHANGED <<buf, next, writeCount, derivedBuf, phase, aborted>>

(* _reg_tick and the update closure it calls: the cells written back hold  *)
(* zero until somebody writes them, and look as if nobody had.             *)
RegTick(d) ==
  /\ phase = "regs" /\ d \in pending
  /\ derivedBuf' = [derivedBuf EXCEPT ![d] = Compute(d, buf)]
  /\ next' = [r \in Cells |-> IF r \in Resets(d, buf) THEN Zero ELSE next[r]]
  /\ writeCount' = [r \in Cells |-> IF r \in Resets(d, buf) THEN 0 ELSE writeCount[r]]
  /\ pending' = pending \ {d}
  /\ UNCHANGED <<buf, wireBuf, wireNext, phase, aborted>>

(* reg_mut_write by a callback that sees "view", and reg_or's reducer.     *)
OverwritesNever(c) == FALSE   \* mutant: without the assertion
Overwrites(c) == \E r \in Writes(c, view) : writeCount[r] > 0
NextWith(c) ==
  [r \in Cells |-> IF r \in Writes(c, view) THEN Modify(c, r, view, next[r]) ELSE next[r]]
Raised(c) == [w \in Wires |-> wireNext[w] \/ w \in Raises(c, view)]

Call(c) ==
  /\ phase = "callbacks" /\ c \in pending /\ ~aborted
  /\ ~Overwrites(c)
  /\ next' = NextWith(c)
  /\ writeCount' = [r \in Cells |->
                     IF r \in Writes(c, view) THEN writeCount[r] + 1 ELSE writeCount[r]]
  /\ wireNext' = Raised(c)
  /\ pending' = pending \ {c}
  /\ UNCHANGED <<buf, wireBuf, derivedBuf, phase, aborted>>

CallAborts(c) ==   \* "reg_mut_write called more than once!"
  /\ phase = "callbacks" /\ c \in pending /\ ~aborted
  /\ Overwrites(c)
  /\ aborted' = TRUE
  /\ UNCHANGED <<buf, next, writeCount, wireBuf, wireNext, derivedBuf, phase, pending>>

(* clk_tick takes the next vector, or the main loop calls clk_tick again.  *)
Closures == [regmuts |-> Cells \cup Wires, regs |-> Derived, callbacks |-> Callbacks]
FollowingSwapped ==   \* mutant: derived registers before clocked ones
  [callbacks |-> "regs", regs |-> "regmuts", regmuts |-> "callbacks"]
Following ==
  [callbacks |-> "regmuts", regmuts |-> "regs", regs |-> "callbacks"]

Advance ==
  /\ pending = {} /\ ~aborted
  /\ phase' = Following[phase]
  /\ pending' = Closures[Following[phase]]
  /\ UNCHANGED <<buf, next, writeCount, wireBuf, wireNext, derivedBuf, aborted>>

(* The constructors calloc every register and may write some before the    *)
(* first tick (queue indices, addresses of free buffers).                  *)
Init ==
  /\ buf = [r \in Cells |-> Zero]
  /\ next \in [Cells -> Value]
  /\ writeCount \in [Cells -> {0, 1}]
  /\ wireBuf = [w \in Wires |-> FALSE]
  /\ wireNext = [w \in Wires |-> FALSE]
  /\ derivedBuf = [d \in Derived |-> Zero]
  /\ phase = "regmuts" /\ pending = Cells \cup Wires
  /\ aborted = FALSE

Next ==
  \/ \E r \in Cells : RegMutTick(r)
  \/ \E w \in Wires : RegReduceTick(w)
  \/ \E d \in Derived : RegTick(d)
  \/ \E c \in Callbacks : Call(c) \/ CallAborts(c)
  \/ Advance

Spec == Init /\ [][Next]_vars

-----------------------------------------------------------------------------
TypeOK ==
  /\ buf \in [Cells -> Value]
  /\ next \in [Cells -> Value]
  /\ writeCount \in [Cells -> {0, 1}]
  /\ wireBuf \in [Wires -> BOOLEAN]
  /\ wireNext \in [Wires -> BOOLEAN]
  /\ derivedBuf \in [Derived -> Value]
  /\ phase \in {"regmuts", "regs", "callbacks"}
  /\ pending \subseteq Closures[phase]
  /\ aborted \in BOOLEAN

(* The values the components are entitled to see: at the edge those that   *)
(* the registers are about to hold.                                        *)
EdgeCells == [r \in Cells |-> IF phase = "regmuts" /\ r \in pending THEN next[r] ELSE buf[r]]
EdgeWires == [w \in Wires |-> IF phase = "regmuts" /\ w \in pending THEN wireNext[w] ELSE wireBuf[w]]
EdgeDerived ==
  [d \in Derived |-> IF phase = "callbacks" THEN derivedBuf[d] ELSE Compute(d, EdgeCells)]

Abstract == INSTANCE SyncTick WITH
  cells <- EdgeCells, wires <- EdgeWires, derived <- EdgeDerived, failed <- aborted

(* Whatever the order of the closures in the three vectors, a tick takes   *)
(* the registers to one and the same next state, and aborts in every order *)
(* or in none (clk.c:48-63, reg.c:45-81).  That includes what the update   *)
(* closures write back between the edge and the callbacks.                 *)
ImplementsSyncTick == Abstract!Spec

(* A callback that fills only some fields of a structure it got from       *)
(* reg_mut_write relies on finding the current values in the others, or    *)
(* zeros in a register that has the clear flag or that an update closure   *)
(* has written back; a queue entry written that way would otherwise mix    *)
(* two instructions.                                                       *)
FindsCurrent ==
  phase = "callbacks" =>
    \A r \in Cells : writeCount[r] = 0 =>
      next[r] = IF r \in Clearing \/ \E d \in Derived : r \in Resets(d, buf)
                  THEN Zero ELSE buf[r]

=============================================================================
