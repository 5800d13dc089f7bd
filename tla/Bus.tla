-------------------------------- MODULE Bus --------------------------------
(***************************************************************************)
(* bus.c: the common data bus.  Every producer of results (the memory and  *)
(* the ALUs) owns a bus helper with two message buffers; an arbiter grants *)
(* the bus to one helper per tick, and the granted message is heard by all *)
(* listeners in the next tick.                                             *)
(*                                                                         *)
(* One step is one clock tick.  Register buffers hold what is visible      *)
(* during the tick; gnt is computed by the arbiter at the clock edge, from *)
(* the same registers, so it is the state function Wins.                   *)
(***************************************************************************)
EXTENDS Integers, Sequences

CONSTANTS
  HelperCount,   \* helpers 1 .. HelperCount, numbered by bus_arb_add
  BusMessage,    \* the messages that may be sent
  ZeroMessage    \* the one whose bytes are 0, which calloc'd registers hold

ASSUME HelperAssumption == HelperCount \in Nat
ASSUME MessageAssumption == ZeroMessage \in BusMessage

VARIABLES
  busClear,   \* bus->clear: ticks for which the bus still drops messages
  req,        \* helpers whose request bit is set
  fire,       \* bus->arbitrator.fire: "data" carries a message
  busData,    \* bus->data
  buffer,     \* bh->buffer[0..1] of every helper
  bhBusy,     \* bh->busy[0..1]
  current     \* bh->current: the buffer that competes for the bus

busVars == <<busClear, req, fire, busData, buffer, bhBusy, current>>

Helpers == 1 .. HelperCount
Buffers == {0, 1}

-----------------------------------------------------------------------------
(* _bus_arb: the request with the lowest helper id wins.                   *)
WinsLast(h) == busClear = 0 /\ h \in req /\ \A k \in req : k <= h   \* mutant: the highest id
Wins(h) == busClear = 0 /\ h \in req /\ \A k \in req : h <= k

(* bus_arb_status: a clear pretends that everyone was granted.             *)
Granted(h) == busClear # 0 \/ Wins(h)

(* The competing buffer lost the arbitration, or the spare one takes over. *)
Keeps(h) == bhBusy[h][current[h]] /\ ~Granted(h)
SwapsAnyway(h) == bhBusy[h][1 - current[h]]   \* mutant: without "!requested"
Swaps(h) == ~Keeps(h) /\ bhBusy[h][1 - current[h]]

(* _bh_req_ix: the buffer that will compete in the next tick, if any.      *)
NoBuffer == -1
ReqIx(h) ==
  IF Keeps(h) THEN current[h] ELSE IF Swaps(h) THEN 1 - current[h] ELSE NoBuffer

(* bh_should_stall, bh_should_clear, and the buffer bh_acquire returns     *)
(* when it does not stall.                                                 *)
Stall(h) == ReqIx(h) # NoBuffer /\ bhBusy[h][1 - ReqIx(h)]
ShouldClear == busClear > 0
AcquiresSpare(h) ==   \* mutant: the wrong buffer of an idle helper
  IF ReqIx(h) = NoBuffer THEN 1 - current[h] ELSE 1 - ReqIx(h)
Acquires(h) == IF ReqIx(h) = NoBuffer THEN current[h] ELSE 1 - ReqIx(h)

(* What bus_get_data returns, and what the listeners are called with.      *)
GetData == IF fire THEN {busData} ELSE {}
Heard == IF busClear = 0 THEN GetData ELSE {}

-----------------------------------------------------------------------------
KeepThroughClear(h, ix) ==   \* mutant: _bh_tick without its early return
  bhBusy[h][ix] /\ (ix = current[h] => Keeps(h))
Keep(h, ix) ==   \* _bh_tick writes busy[ix] back as true
  busClear = 0 /\ bhBusy[h][ix] /\ (ix = current[h] => Keeps(h))

CountdownPast == busClear - 1   \* mutant: without "if (clear_cycles)"
Countdown == IF busClear > 0 THEN busClear - 1 ELSE 0   \* _bus_tick

(***************************************************************************)
(* A tick in which helper h is given the messages sent[h] (at most one)    *)
(* through bh_acquire, and bus_clear is called iff flush.                  *)
(***************************************************************************)
Tick(sent, flush) ==
  /\ req' = IF busClear # 0 THEN {}
            ELSE {h \in Helpers : \/ Keeps(h) \/ Swaps(h)
                                  \/ sent[h] # {} /\ ReqIx(h) = NoBuffer}
  /\ fire' = (\E h \in Helpers : Wins(h))
  /\ busData' = IF \E h \in Helpers : Wins(h) /\ bhBusy[h][current[h]]
                  THEN LET h == CHOOSE h \in Helpers : Wins(h)
                       IN  buffer[h][current[h]]
                  ELSE busData
  /\ bhBusy' = [h \in Helpers |-> [ix \in Buffers |->
                 Keep(h, ix) \/ (sent[h] # {} /\ ix = Acquires(h))]]
  /\ buffer' = [h \in Helpers |-> [ix \in Buffers |->
                 IF sent[h] # {} /\ ix = Acquires(h)
                   THEN CHOOSE m \in sent[h] : TRUE
                   ELSE buffer[h][ix]]]
  /\ current' = [h \in Helpers |->
                  IF busClear = 0 /\ Swaps(h) THEN 1 - current[h] ELSE current[h]]
  /\ busClear' = IF flush THEN 2 ELSE Countdown

(* bus_clear and _bus_tick both write bus->clear.                          *)
DoubleWrite(flush) == flush /\ busClear # 0

Init ==
  /\ busClear = 0
  /\ req = {}
  /\ fire = FALSE
  /\ busData = ZeroMessage
  /\ buffer = [h \in Helpers |-> [ix \in Buffers |-> ZeroMessage]]
  /\ bhBusy = [h \in Helpers |-> [ix \in Buffers |-> FALSE]]
  /\ current = [h \in Helpers |-> 0]

(* The clients: an ALU and the memory send only when their helper neither  *)
(* stalls (bh_acquire returned a buffer) nor clears (alu.c:21, and the     *)
(* memory holds no load then), and one send per helper and tick.           *)
Sendable(h) ==
  IF Stall(h) \/ ShouldClear THEN {{}} ELSE {{}} \cup {{m} : m \in BusMessage}

Next ==
  \E flush \in BOOLEAN, sent \in [Helpers -> SUBSET BusMessage] :
    /\ \A h \in Helpers : sent[h] \in Sendable(h)
    /\ ~DoubleWrite(flush)
    /\ Tick(sent, flush)

Spec == Init /\ [][Next]_busVars

-----------------------------------------------------------------------------
TypeOK ==
  /\ busClear \in 0 .. 2
  /\ req \subseteq Helpers
  /\ fire \in BOOLEAN
  /\ busData \in BusMessage
  /\ buffer \in [Helpers -> [Buffers -> BusMessage]]
  /\ bhBusy \in [Helpers -> [Buffers -> BOOLEAN]]
  /\ current \in [Helpers -> Buffers]

(* A helper asks for the bus exactly when its competing buffer holds a     *)
(* message, and the spare buffer is used only behind a competing one:      *)
(* neither a grant without a message nor a message nobody asks for.        *)
AsksWhenLoaded ==
  busClear = 0 => \A h \in Helpers :
    /\ h \in req <=> bhBusy[h][current[h]]
    /\ bhBusy[h][1 - current[h]] => bhBusy[h][current[h]]

(* The second clearing tick starts with every buffer empty, so nothing     *)
(* that was accepted before the clear is sent after it.                    *)
ClearedOut == busClear = 1 => \A h \in Helpers, ix \in Buffers : ~bhBusy[h][ix]

(* What a helper has accepted, in the order in which it will be sent.      *)
Pending(h) ==
  IF busClear # 0 \/ ~bhBusy[h][current[h]] THEN <<>>
  ELSE IF ~bhBusy[h][1 - current[h]] THEN <<buffer[h][current[h]]>>
  ELSE <<buffer[h][current[h]], buffer[h][1 - current[h]]>>

Abstract == INSTANCE Broadcast WITH
  pending <- [h \in Helpers |-> Pending(h)], heard <- Heard, clearing <- busClear

(* The two buffers, the swap of the current one, the request bits, the     *)
(* arbiter and the delay of a tick between grant and delivery amount to    *)
(* the queues of Broadcast: nothing accepted is lost, duplicated or        *)
(* overtaken, except by a clear.                                           *)
ImplementsBroadcast == Abstract!Spec

=============================================================================
