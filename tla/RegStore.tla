------------------------------ MODULE RegStore ------------------------------
(***************************************************************************)
(* reg-store.c: the architectural registers and the renaming table.        *)
(* rob_ids[r] is the reorder buffer entry that will produce register r, or *)
(* 0 when the register holds its value.                                    *)
(*                                                                         *)
(* The table has two writers per tick: dispatch names the newest producer  *)
(* of a register (rob_id_set), commit takes a producer's name back if it   *)
(* is still the newest (rob_id_clear_if, -1: unconditionally).             *)
(* _reg_file_next merges them at the clock edge, so the pair of requests   *)
(* lives for no longer than the edge and is a parameter of Tick; the next  *)
(* value of rob_id_set always equals rob_ids after the edge.               *)
(***************************************************************************)
EXTENDS Rv32i

CONSTANT RobCapacity   \* ROB_CAPACITY, reorder-buffer.h:34

VARIABLES
  registers,   \* reg_store->registers
  robIds,      \* reg_store->rob_ids
  rfClear      \* reg_store->clear: reg_file_clear was called in the last tick

rfVars == <<registers, robIds, rfClear>>

NoRob == 0
RobIds == 1 .. RobCapacity

(* reg_store_get, reg_store_rob_id_get                                     *)
Get(r) == IF r = 0 THEN 0 ELSE registers[r]
RobId(r) == IF r = 0 THEN NoRob ELSE robIds[r]

-----------------------------------------------------------------------------
(* Requests are sets of at most one record: [rd, value] for reg_store_set, *)
(* [rd, id] for reg_store_rob_id_set and reg_store_rob_id_clear.  All three*)
(* ignore x0.                                                              *)
Named(r, dispatched) ==
  IF r # 0 /\ \E d \in dispatched : d.rd = r
    THEN (CHOOSE d \in dispatched : d.rd = r).id
    ELSE robIds[r]

(* _reg_file_next, with _reg_file_tick having written -1 when rfClear.     *)
ForgetsAny(r, id, retired) ==   \* mutant: without "id_clear == id"
  rfClear \/ (r # 0 /\ \E c \in retired : c.rd = r)
ForgetsRetired(r, id, retired) ==   \* mutant: without "id_clear < 0"
  r # 0 /\ id # NoRob /\ \E c \in retired : c.rd = r /\ c.id = id
Forgets(r, id, retired) ==
  \/ rfClear
  \/ r # 0 /\ id # NoRob /\ \E c \in retired : c.rd = r /\ c.id = id

Tick(written, dispatched, retired, flush) ==
  /\ registers' = Written(registers, {<<w.rd, w.value>> : w \in {v \in written : v.rd # 0}})
  /\ robIds' = [r \in Reg |->
       LET id == Named(r, dispatched)
       IN  IF Forgets(r, id, retired) THEN NoRob ELSE id]
  /\ rfClear' = flush

(* _reg_file_tick and a commit both write rob_id_clear_if.                 *)
DoubleWrite(retired) == rfClear /\ \E c \in retired : c.rd # 0

Init ==
  /\ registers = [r \in Reg |-> 0]
  /\ robIds = [r \in Reg |-> NoRob]
  /\ rfClear = FALSE

=============================================================================
