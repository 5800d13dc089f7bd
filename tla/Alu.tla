-------------------------------- MODULE Alu --------------------------------
(***************************************************************************)
(* alu.c: the pool of ALUs.  A task accepted in one tick is executed in    *)
(* the next; its result goes to the ALU's bus helper, or waits in          *)
(* result_buf while the helper stalls.                                     *)
(***************************************************************************)
EXTENDS Rv32i

CONSTANTS
  AluCount,     \* ALU_COUNT, alu.h:28
  RobCapacity

VARIABLES
  task,      \* alu->task
  aluBusy,   \* alu->busy
  result     \* alu->result_buf

aluVars == <<task, aluBusy, result>>

Alus == 1 .. AluCount
AluTask == [op : AluCodes, value1 : Word, value2 : Word, rob : 0 .. RobCapacity]

(* alu_task reports SUCCESS and drops the task while the bus clears.       *)
AcceptsAlways(a, stall, clearing) == TRUE   \* mutant: STATUS_FAIL is ignored
Accepts(a, stall, clearing) == clearing \/ ~stall[a]

Output(a) == [rob |-> task[a].rob,
              result |-> AluExecute(task[a].op, task[a].value1, task[a].value2)]

(* The assertion of alu_execute, reached by a task whether or not its      *)
(* result finds a place on the bus.                                        *)
Aborts(clearing) ==
  \E a \in Alus : aluBusy[a] /\ ~result[a].busy /\ ~clearing /\ task[a].op \notin AluOps

(* The message _alu_tick hands to bh_acquire; "stall" is bh_should_stall.  *)
Sends(a, stall, clearing) ==
  IF clearing \/ stall[a] THEN {}
  ELSE IF result[a].busy THEN {result[a].msg}
  ELSE IF aluBusy[a] THEN {Output(a)}
  ELSE {}

(***************************************************************************)
(* A tick in which ALU a is offered the tasks offered[a] (at most one).    *)
(* aluBusy is a reg_reduce: it falls back to FALSE unless written.  Note   *)
(* that _alu_tick does not write it back when result_buf must wait.        *)
(***************************************************************************)
Tick(offered, stall, clearing) ==
  /\ aluBusy' = [a \in Alus |->
       \/ offered[a] # {} /\ ~clearing /\ ~stall[a]
       \/ aluBusy[a] /\ result[a].busy /\ ~clearing /\ ~stall[a]]
  /\ task' = [a \in Alus |->
       IF offered[a] # {} /\ ~clearing /\ ~stall[a]
         THEN CHOOSE t \in offered[a] : TRUE
         ELSE task[a]]
  /\ result' = [a \in Alus |->
       IF clearing \/ (result[a].busy /\ ~stall[a])
         THEN [result[a] EXCEPT !.busy = FALSE]
       ELSE IF aluBusy[a] /\ ~result[a].busy /\ stall[a]
         THEN [busy |-> TRUE, msg |-> Output(a)]
       ELSE result[a]]

Init ==
  /\ task = [a \in Alus |-> [op |-> "ADD", value1 |-> 0, value2 |-> 0, rob |-> 0]]
  /\ aluBusy = [a \in Alus |-> FALSE]
  /\ result = [a \in Alus |-> [busy |-> FALSE, msg |-> [rob |-> 0, result |-> 0]]]

=============================================================================
