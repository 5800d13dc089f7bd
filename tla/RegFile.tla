------------------------------ MODULE RegFile ------------------------------
(***************************************************************************)
(* reg-store.c in full: the clocked registers behind the renaming table    *)
(* that RegStore abstracts.  For every architectural register there is one *)
(* that holds its last name (rob_id_set) and one that carries a retiring   *)
(* name (rob_id_clear_if); _reg_file_next, which runs at the clock edge    *)
(* after both have moved, computes the table and writes back into both of  *)
(* them, past the write counters ("FIXME: hack").                          *)
(*                                                                         *)
(* In a tick dispatch, commit and _reg_file_tick run once each, in any     *)
(* order; then comes the edge.  What dispatch and commit called is kept    *)
(* until the edge in three history variables, which no guard and no other  *)
(* variable depends on: the refinement at the end is about those calls.    *)
(***************************************************************************)
EXTENDS Rv32i

CONSTANT RobCapacity   \* ROB_CAPACITY, reorder-buffer.h:34

ASSUME RobAssumption == RobCapacity \in Nat

VARIABLES
  registers, regNext,                       \* reg_store->registers
  setBuf, setNext, setCount,                \* reg_store->rob_id_set
  clearIfBuf, clearIfNext, clearIfCount,    \* reg_store->rob_id_clear_if
  robIds,                                   \* reg_store->rob_ids
  clear, clearNext,                         \* reg_store->clear
  pending,                                  \* callbacks still to run in this tick
  dispatched,   \* history: the calls of reg_store_rob_id_set in this tick,
  retired,      \* of reg_store_rob_id_clear
  written       \* and of reg_store_set

calls == <<dispatched, retired, written>>

vars == <<registers, regNext, setBuf, setNext, setCount, clearIfBuf, clearIfNext,
          clearIfCount, robIds, clear, clearNext, pending, calls>>

NoRob == 0
RobIds == 1 .. RobCapacity
Always == -1   \* a rob_id_clear_if that matches every name
Callbacks == {"dispatch", "commit", "tick"}

Run(callback) == callback \in pending /\ pending' = pending \ {callback}

-----------------------------------------------------------------------------
(* The three setters return at once when they are given x0.                *)
RobIdSet(r, id) ==   \* reg_store_rob_id_set
  /\ dispatched' = {[rd |-> r, id |-> id]}
  /\ IF r = 0 THEN UNCHANGED <<setNext, setCount>>
     ELSE /\ setNext' = [setNext EXCEPT ![r] = id]
          /\ setCount' = [setCount EXCEPT ![r] = @ + 1]

RobIdClear(r, id) ==   \* reg_store_rob_id_clear
  /\ retired' = {[rd |-> r, id |-> id]}
  /\ IF r = 0 THEN UNCHANGED <<clearIfNext, clearIfCount>>
     ELSE /\ clearIfNext' = [clearIfNext EXCEPT ![r] = id]
          /\ clearIfCount' = [clearIfCount EXCEPT ![r] = @ + 1]

SetRegister(r, value) ==   \* reg_store_set
  /\ written' = {[rd |-> r, value |-> value]}
  /\ regNext' = IF r = 0 THEN regNext ELSE [regNext EXCEPT ![r] = value]

-----------------------------------------------------------------------------
(* inst_dispatch names the destination of one instruction, or none.        *)
Dispatch ==
  /\ Run("dispatch")
  /\ \/ UNCHANGED <<setNext, setCount, dispatched>>
     \/ \E r \in Reg, id \in RobIds : RobIdSet(r, id)
  /\ UNCHANGED <<registers, regNext, setBuf, clearIfBuf, clearIfNext, clearIfCount,
                 robIds, clear, clearNext, retired, written>>

(* _rob_commit: reg_store_set and reg_store_rob_id_clear for a retiring    *)
(* entry, or reg_file_clear for a mispredicted branch; a mispredicted JALR *)
(* does both.  Nothing commits in the tick after a flush.                  *)
Commit ==
  /\ Run("commit")
  /\ \E flush \in BOOLEAN :
       /\ clear => ~flush
       /\ clearNext' = flush
  /\ \/ UNCHANGED <<regNext, clearIfNext, clearIfCount, retired, written>>
     \/ /\ ~clear
        /\ \E r \in Reg, id \in RobIds, value \in Word :
             SetRegister(r, value) /\ RobIdClear(r, id)
  /\ UNCHANGED <<registers, setBuf, setNext, setCount, clearIfBuf, robIds, clear,
                 dispatched>>

FileTick ==   \* _reg_file_tick
  /\ Run("tick")
  /\ IF clear
       THEN /\ clearIfNext' = [r \in Reg |-> Always]
            /\ clearIfCount' = [r \in Reg |-> clearIfCount[r] + 1]
       ELSE UNCHANGED <<clearIfNext, clearIfCount>>
  /\ UNCHANGED <<registers, regNext, setBuf, setNext, setCount, clearIfBuf, robIds,
                 clear, clearNext, calls>>

-----------------------------------------------------------------------------
(* _reg_file_next, on the registers as the edge leaves them.               *)
ForgetsNewer(r) == clearIfNext[r] # NoRob   \* mutant: without "id_clear == id"
Forgets(r) ==
  (clearIfNext[r] = setNext[r] /\ setNext[r] # NoRob) \/ clearIfNext[r] < 0

(* What is written back for the next tick.                                 *)
SetAfterKept(r) == setNext[r]   \* mutant: rob_id_set keeps the name
SetAfter(r) == IF Forgets(r) THEN NoRob ELSE setNext[r]
ClearIfAfterKept(r) == clearIfNext[r]   \* mutant: rob_id_clear_if is not reset
ClearIfAfter(r) == NoRob
ClearIfCountAfterHack(r) == 1   \* mutant: without the reset of the write count
ClearIfCountAfter(r) == 0

Edge ==
  /\ pending = {}
  /\ pending' = Callbacks
  /\ registers' = regNext
  /\ setBuf' = setNext
  /\ setNext' = [r \in Reg |-> SetAfter(r)]
  /\ setCount' = [r \in Reg |-> 0]
  /\ clearIfBuf' = clearIfNext
  /\ clearIfNext' = [r \in Reg |-> ClearIfAfter(r)]
  /\ clearIfCount' = [r \in Reg |-> ClearIfCountAfter(r)]
  /\ robIds' = [r \in Reg |-> IF Forgets(r) THEN NoRob ELSE setNext[r]]
  /\ clear' = clearNext
  /\ clearNext' = FALSE   \* its clear flag is set
  /\ dispatched' = {} /\ retired' = {} /\ written' = {}
  /\ UNCHANGED regNext

Init ==
  /\ registers = [r \in Reg |-> 0] /\ regNext = registers
  /\ setBuf = [r \in Reg |-> NoRob] /\ setNext = setBuf
  /\ setCount = [r \in Reg |-> 0]
  /\ clearIfBuf = [r \in Reg |-> NoRob] /\ clearIfNext = clearIfBuf
  /\ clearIfCount = [r \in Reg |-> 0]
  /\ robIds = [r \in Reg |-> NoRob]
  /\ clear = FALSE /\ clearNext = FALSE
  /\ pending = Callbacks
  /\ dispatched = {} /\ retired = {} /\ written = {}

Next == Dispatch \/ Commit \/ FileTick \/ Edge

Spec == Init /\ [][Next]_vars

-----------------------------------------------------------------------------
(* Neither of the two write-backs of _reg_file_next, nor a flush, makes    *)
(* reg_mut_write meet a register twice in a tick (reg-store.c:28-36).      *)
WritesOnce == \A r \in Reg : setCount[r] <= 1 /\ clearIfCount[r] <= 1

(* A retired name is gone for good: what rob_id_set will hold, if nobody   *)
(* renames the register, is what the table says now, and no request to     *)
(* clear a name outlives its edge (reg-store.c:28,34).                     *)
NoResurrection ==
  /\ "dispatch" \in pending => setNext = robIds
  /\ {"commit", "tick"} \subseteq pending => clearIfNext = [r \in Reg |-> NoRob]

Abstract == INSTANCE RegStore WITH rfClear <- clear

(* The edge is the tick of the table with exactly the calls that were made *)
(* since the edge before it: the register and the name dispatch gave it,   *)
(* the register and the name commit took back, and the flush.              *)
AbstractTick == Abstract!Tick(written, dispatched, retired, clearNext)

(* All this amounts to the single table of RegStore: after an edge a       *)
(* register has the name that dispatch gave it in the tick, else the one   *)
(* it had; a commit takes it back only if it is the name the commit was    *)
(* called with, so never one that the same tick, or an earlier one, put in *)
(* its place; a flush takes back all of them (reg-store.c:22-38).  No call *)
(* is lost, and between the edges the table does not move.                 *)
ImplementsRegStore ==
  /\ Abstract!Init
  /\ [][IF pending = {} THEN AbstractTick ELSE UNCHANGED Abstract!rfVars]_vars

=============================================================================
