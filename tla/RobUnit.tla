------------------------------- MODULE RobUnit -------------------------------
(***************************************************************************)
(* The reorder buffer alone, under everything the rest of the machine may  *)
(* do to it in a tick: dispatch fills an entry, a result or an update of a *)
(* store arrives for an entry that waits for it, the load/store queue has  *)
(* room or has none.                                                       *)
(***************************************************************************)
EXTENDS Rv32i, Sequences

CONSTANTS
  RobCapacity,
  Fresh,     \* the payloads that dispatch may leave in an entry
  Results    \* the words that are announced or learnt

VARIABLES
  robHead, robTail, robClear, ready, robPayload,
  hcf,
  effect   \* history: what the last tick heard and did

robUnitVars == <<robHead, robTail, robClear, ready, robPayload, hcf, effect>>

ROB == INSTANCE ReorderBuffer

(* inst_dispatch gives stores and branches no destination, jumps one.      *)
ASSUME RobUnitAssumption ==
  /\ RobCapacity \in Nat \ {0}
  /\ Results \subseteq Word
  /\ Fresh \subseteq ROB!RobPayload
  /\ \A p \in Fresh : /\ p.op = "BRANCH" => p.dest = ROB!NoDest
                      /\ p.op = "JALR" => p.dest \in Reg

Waiting == {s \in ROB!Live : ~ready[s]}

(* The bus carries the result of an entry that waits for one.              *)
Messages ==
  {[rob |-> ROB!Id(s), result |-> r] : s \in {t \in Waiting : robPayload[t].op # "STORE"},
                                       r \in Results}
(* The store buffers complete the address, the value or both of a store.   *)
WithAddr(p) ==
  IF p.addrReady THEN {p}
  ELSE {p} \cup {[p EXCEPT !.addr = r, !.addrReady = TRUE] : r \in Results}
WithValue(p) ==
  IF p.valueReady THEN {p}
  ELSE {p} \cup {[p EXCEPT !.value = r, !.valueReady = TRUE] : r \in Results}
Learnt(p) == UNION {WithValue(q) : q \in WithAddr(p)} \ {p}
Updates ==
  UNION {{[id |-> ROB!Id(s), payload |-> p, ready |-> p.addrReady /\ p.valueReady] :
            p \in Learnt(robPayload[s])} : s \in {t \in Waiting : robPayload[t].op = "STORE"}}

AtMostOne(S) == {{}} \cup {{x} : x \in S}

Tick(heard, dispatched, updated, lsFull) ==
  /\ ~hcf
  /\ ~ROB!DoubleWrite(heard, dispatched, updated, lsFull)
  /\ ROB!Tick(heard, dispatched, updated, lsFull)
  /\ hcf' = ROB!Halts
  /\ effect' =
       [heard |-> heard, write |-> ROB!RegWrites,
        store |-> {[addr |-> p.addr, value |-> p.value] : p \in ROB!Stored(lsFull)},
        redirect |-> IF ROB!Flushes THEN {ROB!ForcedPc} ELSE {},
        feedback |-> ROB!Feedback, feedbackJalr |-> ROB!FeedbackJalr]

Init ==
  /\ ROB!Init
  /\ hcf = FALSE
  /\ effect = [heard |-> {}, write |-> {}, store |-> {}, redirect |-> {}, feedback |-> {},
               feedbackJalr |-> {}]

(* Dispatch and the store buffers pause while the flags of a flush are up, *)
(* and dispatch asks rob_unit_full.                                        *)
Next ==
  \E heard \in AtMostOne(Messages), lsFull \in BOOLEAN,
     dispatched \in AtMostOne(IF ROB!Full \/ robClear THEN {} ELSE Fresh),
     updated \in AtMostOne(IF robClear THEN {} ELSE Updates) :
    Tick(heard, dispatched, updated, lsFull)

Spec == Init /\ [][Next]_robUnitVars

-----------------------------------------------------------------------------
(* Entries as Retirement names them.                                       *)
Entry(s) ==
  [p \in DOMAIN robPayload[s] \cup {"id", "done"} |->
    IF p = "id" THEN ROB!Id(s) ELSE IF p = "done" THEN ready[s] ELSE robPayload[s][p]]
Window ==
  IF robClear THEN <<>>
  ELSE [k \in 1 .. ROB!robs!Length |-> Entry(ROB!robs!Nth(k - 1))]

Abstract == INSTANCE Retirement WITH
  Room <- RobCapacity - 1, window <- Window, closed <- robClear, halted <- hcf,
  Fresh <- {[f \in DOMAIN p \cup {"id", "done"} |->
              IF f = "id" THEN 0 ELSE IF f = "done" THEN FALSE ELSE p[f]] : p \in Fresh}

(* Out of order in, in order out: whatever the order in which results      *)
(* arrive, an entry that is reused never inherits a result or a ready bit, *)
(* a store that finds no room retries as a whole, and what commit does to  *)
(* the rest of the machine is done once.                                   *)
ImplementsRetirement == Abstract!Spec

=============================================================================
