------------------------------ MODULE SyncTick ------------------------------
(***************************************************************************)
(* What a clocked design promises to its components: in one tick every     *)
(* callback sees the same values, those of the beginning of the tick, and  *)
(* all the registers change at once.  The successor is a function of the   *)
(* state, so nothing can depend on an order of the callbacks.              *)
(***************************************************************************)
EXTENDS Integers

CONSTANTS
  Cells,       \* registers that one callback may write in a tick
  Clearing,    \* those that fall back to Zero when nobody writes them
  Wires,       \* registers that any number of callbacks may raise in a tick
  Derived,     \* registers computed from the cells at the beginning of a tick
  Callbacks,
  Value, Zero,
  Compute(_, _),        \* Compute(d, cells): the value of d
  Resets(_, _),         \* Resets(d, cells): the cells the update of d sets to Zero
  Writes(_, _),         \* Writes(c, view): the cells c writes
  Modify(_, _, _, _),   \* Modify(c, r, view, v): what c makes of r, found at v
  Raises(_, _)          \* Raises(c, view): the wires c raises

VARIABLES
  cells, wires, derived,
  failed   \* two callbacks wrote the same cell

vars == <<cells, wires, derived, failed>>

Seen == [cells |-> cells, wires |-> wires, derived |-> derived]

(* What a cell holds before anybody writes it, and after the tick.         *)
Reset(r) == r \in Clearing \/ \E d \in Derived : r \in Resets(d, cells)
Base(r) == IF Reset(r) THEN Zero ELSE cells[r]
Writers(r) == {c \in Callbacks : r \in Writes(c, Seen)}
Result(r) ==
  IF Writers(r) = {} THEN Base(r)
  ELSE Modify(CHOOSE c \in Writers(r) : TRUE, r, Seen, Base(r))

Conflict == \E r \in Cells : \E c1, c2 \in Writers(r) : c1 # c2

Start(initial) ==
  /\ cells = initial
  /\ wires = [w \in Wires |-> FALSE]
  /\ derived = [d \in Derived |-> Compute(d, initial)]
  /\ failed = FALSE

Init == \E initial \in [Cells -> Value] : Start(initial)

Tick ==
  /\ ~failed /\ ~Conflict
  /\ cells' = [r \in Cells |-> Result(r)]
  /\ wires' = [w \in Wires |-> \E c \in Callbacks : w \in Raises(c, Seen)]
  /\ derived' = [d \in Derived |-> Compute(d, [r \in Cells |-> Result(r)])]
  /\ UNCHANGED failed

Fail ==
  /\ ~failed /\ Conflict
  /\ failed' = TRUE
  /\ UNCHANGED <<cells, wires, derived>>

Next == Tick \/ Fail

Spec == Init /\ [][Next]_vars

=============================================================================
