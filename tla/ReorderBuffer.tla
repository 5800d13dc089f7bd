--------------------------- MODULE ReorderBuffer ---------------------------
(***************************************************************************)
(* reorder-buffer.c: the circular buffer of the instructions in flight, in *)
(* program order.  Entries become ready out of order, through the common   *)
(* data bus or, for stores, through the store buffers; they commit in      *)
(* order, and a mispredicted branch or jump clears the whole machine.      *)
(***************************************************************************)
EXTENDS Rv32i

CONSTANT RobCapacity   \* ROB_CAPACITY

VARIABLES
  robHead, robTail, robClear,   \* the queue of queue.c
  ready,                        \* rob->ready of every slot
  robPayload                    \* rob->payload

robVars == <<robHead, robTail, robClear, ready, robPayload>>

Slots == 0 .. RobCapacity - 1
Id(slot) == slot + 1
Slot(id) == id - 1             \* rob_unit_find

NoDest == -1
RobPayload ==
  [op : {"REGISTER", "STORE", "BRANCH", "JALR", "HCF"}, value : Word, pc : Word,
   dest : Reg \cup {NoDest}, size : Sizes, addr : Word,
   addrReady : BOOLEAN, valueReady : BOOLEAN,
   fallback : Word, take : {0, 1}, predictedAddr : Word]

(* calloc: 0 is ROB_REGISTER, LS_BYTE and register x0.                     *)
ZeroEntry ==
  [op |-> "REGISTER", value |-> 0, pc |-> 0, dest |-> 0, size |-> "BYTE", addr |-> 0,
   addrReady |-> FALSE, valueReady |-> FALSE, fallback |-> 0, take |-> 0,
   predictedAddr |-> 0]

robs == INSTANCE Queue WITH
  Capacity <- RobCapacity, Payload <- RobPayload, Zeroed <- ZeroEntry,
  head <- robHead, tail <- robTail, clear <- robClear, data <- robPayload

Full == robs!Full
Live == robs!Live

(* Live entries from the oldest one on; Age is the rank of a live slot.    *)
Age(slot) == (slot + RobCapacity - robHead) % RobCapacity

(* The stores that _rsu_check_load walks over: those before entry id.      *)
OlderStores(id) ==
  {robPayload[s] : s \in {t \in Live : /\ robPayload[t].op = "STORE"
                                       /\ Age(t) < Age(Slot(id))}}

-----------------------------------------------------------------------------
(* _rob_unit_tick and _rob_commit: the effects of the head, if it commits. *)

CommitsUnready == ~robClear /\ ~robs!Empty   \* mutant: whether ready or not
CommitsClearing == ~robs!Empty /\ ready[robHead]   \* mutant: even when cleared
Commits == ~robClear /\ ~robs!Empty /\ ready[robHead]
First == robPayload[robHead]

(* _rob_is_mispredicted                                                    *)
MispredictedBranch(p) == p.op = "BRANCH" /\ p.take # p.value   \* mutant: no JALR
Mispredicted(p) ==
  IF p.op = "BRANCH" THEN p.take # p.value ELSE p.predictedAddr # ClearBit0(p.addr)

(* _rob_addr: where the program really continues.                          *)
ForcedPc == IF First.op = "BRANCH" THEN First.fallback ELSE ClearBit0(First.addr)

Flushes == Commits /\ First.op \in {"BRANCH", "JALR"} /\ Mispredicted(First)

(* bp_feedback and bp_feedback_jalr, called for every branch and jump that *)
(* commits.                                                                *)
Feedback ==
  IF Commits /\ First.op = "BRANCH" THEN {[take |-> First.take, taken |-> First.value]}
  ELSE {}
FeedbackJalr ==
  IF Commits /\ First.op = "JALR"
    THEN {[actual |-> ClearBit0(First.addr), correct |-> ~Mispredicted(First)]}
  ELSE {}

RegWrites ==
  IF /\ Commits
     /\ \/ First.op = "REGISTER"
        \/ First.op \in {"BRANCH", "JALR"} /\ First.dest >= 0
    THEN {[rd |-> First.dest, value |-> First.value]}
    ELSE {}

(* The store joins the load/store queue, or waits while that is full.      *)
Stored(lsFull) ==
  IF Commits /\ First.op = "STORE" /\ ~lsFull
    THEN {[op |-> "STORE", size |-> First.size, addr |-> First.addr,
           value |-> First.value, rob |-> 0, cleared |-> FALSE]}
    ELSE {}

Halts == Commits /\ First.op = "HCF"

(* "success": the entry leaves the buffer.                                 *)
PopsAlways(lsFull) == Commits /\ ~Halts   \* mutant: a refused store leaves, too
Pops(lsFull) == Commits /\ ~Halts /\ ~(First.op = "STORE" /\ lsFull)

Retired(lsFull) ==
  IF Pops(lsFull) /\ First.dest >= 0
    THEN {[rd |-> First.dest, id |-> Id(robHead)]}
    ELSE {}

-----------------------------------------------------------------------------
(* _rob_unit_onmsg: the live entries a message is for.                     *)
Hit(heard) == IF robClear THEN {} ELSE {s \in Live : \E m \in heard : m.rob = Id(s)}

(* A JALR waits for its target, everything else for its value.             *)
WithResult(p, result) ==
  IF p.op = "JALR" THEN [p EXCEPT !.addr = result] ELSE [p EXCEPT !.value = result]

(***************************************************************************)
(* A tick in which the messages "heard" arrive, dispatch fills the tail    *)
(* with the payload in "dispatched", the store buffers update the entries  *)
(* in "updated" ([id, payload, ready]), each at most one.                  *)
(***************************************************************************)
Tick(heard, dispatched, updated, lsFull) ==
  LET results == {<<s, m.result>> : s \in Hit(heard), m \in heard}
  IN
  /\ robs!Move(dispatched # {}, Pops(lsFull), Flushes)
  /\ robPayload' = Written(robPayload,
         {<<w[1], WithResult(robPayload[w[1]], w[2])>> : w \in results}
         \cup {<<robTail, p>> : p \in dispatched}
         \cup {<<Slot(u.id), u.payload>> : u \in updated})
  /\ ready' = Written(ready,
         {<<s, TRUE>> : s \in Hit(heard)}
         \cup {<<robTail, FALSE>> : p \in dispatched}
         \cup {<<Slot(u.id), TRUE>> : u \in {v \in updated : v.ready}}
         \cup {<<s, FALSE>> : s \in {t \in {robHead} : Pops(lsFull)}})

(* Two rm_writes to a payload or a ready bit, or to the queue registers.   *)
DoubleWrite(heard, dispatched, updated, lsFull) ==
  LET tailSlot == {robTail : p \in dispatched}
      slots == {Slot(u.id) : u \in updated}
      committed == {s \in {robHead} : Pops(lsFull)}
  IN
  \/ robs!DoubleWrite(dispatched # {}, Pops(lsFull), Flushes)
  \/ Hit(heard) \cap (tailSlot \cup slots \cup committed) # {}
  \/ committed \cap (tailSlot \cup {Slot(u.id) : u \in {v \in updated : v.ready}}) # {}
  \/ tailSlot \cap slots # {}

Init ==
  /\ robHead = 0
  /\ robTail = 0
  /\ robClear = FALSE
  /\ ready = [s \in Slots |-> FALSE]
  /\ robPayload = [s \in Slots |-> ZeroEntry]

=============================================================================
