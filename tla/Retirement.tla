------------------------------ MODULE Retirement ------------------------------
(***************************************************************************)
(* What the reorder buffer promises: instructions enter a window in        *)
(* program order, learn their results in any order and leave in program    *)
(* order, each with the result that was announced for it and not before.   *)
(* Registers, stores, redirections of the fetch and the training of the    *)
(* predictor come from the instruction that leaves, once each; a wrong     *)
(* prediction takes everything younger away.                               *)
(***************************************************************************)
EXTENDS Rv32i, Sequences

CONSTANTS
  Room,    \* how many instructions the window holds
  Fresh    \* the instructions that may enter

VARIABLES
  window,   \* [id, op, dest, ...], oldest first
  closed,   \* the window was just emptied by a misprediction
  effect,   \* what the last tick heard and did: see Nothing
  halted

retVars == <<window, closed, effect, halted>>

Nothing == [heard |-> {}, write |-> {}, store |-> {}, redirect |-> {}, feedback |-> {},
            feedbackJalr |-> {}]

(* Results.  A store learns its address and its value separately; a jump   *)
(* waits for its target, the others for a value.                           *)
Hears(e, result) ==
  [e EXCEPT !.done = TRUE,
            !.value = IF e.op = "JALR" THEN @ ELSE result,
            !.addr = IF e.op = "JALR" THEN result ELSE @]
LearnsAddr(old, new) ==
  \/ new.addr = old.addr /\ new.addrReady = old.addrReady
  \/ ~old.addrReady /\ new.addr \in Word /\ new.addrReady
LearnsValue(old, new) ==
  \/ new.value = old.value /\ new.valueReady = old.valueReady
  \/ ~old.valueReady /\ new.value \in Word /\ new.valueReady
Learns(old, new) ==
  /\ LearnsAddr(old, new) /\ LearnsValue(old, new)
  /\ new = [old EXCEPT !.addr = new.addr, !.addrReady = new.addrReady,
                       !.value = new.value, !.valueReady = new.valueReady,
                       !.done = new.addrReady /\ new.valueReady]

(* The same entry a tick later.                                            *)
Becomes(old, new) ==
  IF \E m \in effect'.heard : m.rob = old.id /\ old.op # "STORE" /\ ~old.done
    THEN new = Hears(old, (CHOOSE m \in effect'.heard : TRUE).result)
    ELSE new = old \/ (old.op = "STORE" /\ ~old.done /\ Learns(old, new))

-----------------------------------------------------------------------------
(* The oldest instruction.                                                 *)
Done == window # <<>> /\ window[1].done
Oldest == window[1]
Target(e) == ClearBit0(e.addr)
Wrong == \/ Oldest.op = "BRANCH" /\ Oldest.take # Oldest.value
         \/ Oldest.op = "JALR" /\ Oldest.predictedAddr # Target(Oldest)

Writes == [rd |-> Oldest.dest, value |-> Oldest.value]

(* What its departure shows to the rest of the machine.                    *)
Departure ==
  CASE Oldest.op = "REGISTER" -> [Nothing EXCEPT !.write = {Writes}]
    [] Oldest.op = "STORE" ->
         [Nothing EXCEPT !.store = {[addr |-> Oldest.addr, value |-> Oldest.value]}]
    [] Oldest.op = "BRANCH" ->
         [Nothing EXCEPT !.feedback = {[take |-> Oldest.take, taken |-> Oldest.value]},
                         !.redirect = IF Wrong THEN {Oldest.fallback} ELSE {}]
    [] Oldest.op = "JALR" ->
         [Nothing EXCEPT !.write = {Writes},
                         !.feedbackJalr = {[actual |-> Target(Oldest), correct |-> ~Wrong]},
                         !.redirect = IF Wrong THEN {Target(Oldest)} ELSE {}]

Shows(e) == effect' = [e EXCEPT !.heard = effect'.heard]

(* The window without its first "left" entries, which go on learning, and  *)
(* with at most one new instruction.                                       *)
Continues(left) ==
  LET stay == Len(window) - left
  IN  /\ Len(window') \in {stay, stay + 1}
      /\ \A i \in 1 .. stay : Becomes(window[i + left], window'[i])
      /\ Len(window') > stay =>
           /\ Len(window) < Room
           /\ [window'[stay + 1] EXCEPT !.id = 0] \in Fresh
           /\ \A i \in 1 .. Len(window) : window[i].id # window'[stay + 1].id
      /\ closed' = FALSE

Wait == Continues(0) /\ Shows(Nothing) /\ UNCHANGED halted

(* A store may have to wait for room outside.                              *)
Hold == Done /\ Oldest.op = "STORE" /\ Wait

Leave ==
  /\ Done /\ Oldest.op # "HCF" /\ ~Wrong
  /\ Continues(1)
  /\ Shows(Departure)
  /\ UNCHANGED halted

Mispredict ==
  /\ Done /\ Wrong
  /\ window' = <<>> /\ closed' = TRUE
  /\ Shows(Departure)
  /\ UNCHANGED halted

Halt ==
  /\ Done /\ Oldest.op = "HCF"
  /\ Continues(0)
  /\ Shows(Nothing)
  /\ halted' = TRUE

Reopen == closed /\ window' = <<>> /\ closed' = FALSE /\ Shows(Nothing) /\ UNCHANGED halted

Init == window = <<>> /\ closed = FALSE /\ effect = Nothing /\ halted = FALSE

Next ==
  /\ ~halted
  /\ \/ ~closed /\ ((~Done /\ Wait) \/ Hold \/ Leave \/ Mispredict \/ Halt)
     \/ Reopen

Spec == Init /\ [][Next]_retVars

=============================================================================
