------------------------------ MODULE LsQueue ------------------------------
(***************************************************************************)
(* ls-queue.c: the queue of memory accesses in the order in which they     *)
(* reach the memory.  Loads join it when their address is known, stores    *)
(* when they commit, so a flush invalidates its loads and keeps its        *)
(* stores.  A busy_wait (reg.c) holds the queue back while a store is in   *)
(* progress.                                                               *)
(***************************************************************************)
EXTENDS Rv32i, FiniteSets

CONSTANTS
  LsCapacity,   \* LS_QUEUE_CAPACITY, ls-queue.c:13
  RobCapacity

VARIABLES
  lsHead, lsTail,   \* the queue of queue.c, whose queue_clear is never used
  lsData,           \* its slots
  lsClear,          \* ls_queue->clear
  stall,            \* lock->stall
  signal            \* lock->signal, written by the memory

lsVars == <<lsHead, lsTail, lsData, lsClear, stall, signal>>

LsPayload == [op : {"LOAD", "STORE"}, size : Sizes, addr : Word, value : Word,
              rob : 0 .. RobCapacity, cleared : BOOLEAN]

ZeroEntry == [op |-> "LOAD", size |-> "BYTE", addr |-> 0, value |-> 0, rob |-> 0,
              cleared |-> FALSE]   \* calloc

queue == INSTANCE Queue WITH
  Capacity <- LsCapacity, Payload <- LsPayload, Zeroed <- ZeroEntry,
  head <- lsHead, tail <- lsTail, clear <- FALSE, data <- lsData

Full == queue!Full

(* _ls_queue_tick: the entry taken off the queue in this tick.             *)
Popped == IF lsClear \/ stall \/ queue!Empty THEN {} ELSE {lsData[lsHead]}
LoadRequestsAll == {p \in Popped : p.op = "LOAD"}   \* mutant: cleared ones too
LoadRequests == {p \in Popped : p.op = "LOAD" /\ ~p.cleared}
StoreRequests == {p \in Popped : p.op = "STORE" /\ ~p.cleared}

(***************************************************************************)
(* A tick in which the entries "pushed" arrive through ls_queue_push,      *)
(* ls_queue_clear is called iff flush, and the memory completes a store    *)
(* iff completed.  _busy_wait_tick keeps stalling until the signal is set; *)
(* nothing ever resets the signal.                                         *)
(***************************************************************************)
Tick(pushed, flush, completed) ==
  /\ queue!Move(pushed # {}, Popped # {}, FALSE)
  /\ lsData' = [s \in queue!Slots |->
       IF pushed # {} /\ ~Full /\ s = lsTail THEN CHOOSE p \in pushed : TRUE
       ELSE IF lsClear /\ s \in queue!Live /\ lsData[s].op = "LOAD"
         THEN [lsData[s] EXCEPT !.cleared = TRUE]
       ELSE lsData[s]]
  /\ lsClear' = flush
  /\ stall' = (StoreRequests # {} \/ (stall /\ ~signal))
  /\ signal' = (signal \/ completed)

(* Two pushes in a tick both write the tail: the case the TODO of          *)
(* reservation-station.c:218 asks about.                                   *)
DoubleWrite(pushed) == Cardinality(pushed) > 1 /\ ~Full

Init ==
  /\ lsHead = 0
  /\ lsTail = 0
  /\ lsData = [s \in 0 .. LsCapacity - 1 |-> ZeroEntry]
  /\ lsClear = FALSE
  /\ stall = FALSE
  /\ signal = FALSE

=============================================================================
