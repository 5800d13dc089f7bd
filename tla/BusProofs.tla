----------------------------- MODULE BusProofs -----------------------------
(***************************************************************************)
(* The invariants of the bus, and that it implements Broadcast, for every  *)
(* number of helpers and every set of messages.                            *)
(***************************************************************************)
EXTENDS Bus, SequenceTheorems, TLAPS

(* The requests the clients of a tick may make (see Next of Bus).          *)
Requests(sent) ==
  /\ sent \in [Helpers -> SUBSET BusMessage]
  /\ \A h \in Helpers : sent[h] \in Sendable(h)

IInv == TypeOK /\ AsksWhenLoaded /\ ClearedOut

(* A client that sends has found room, outside of a clear, and sends one   *)
(* message.                                                                *)
LEMMA SendFacts ==
  ASSUME NEW sent, Requests(sent), NEW h \in Helpers, sent[h] # {}, TypeOK
  PROVE  /\ ~Stall(h)
         /\ busClear = 0
         /\ \E m \in BusMessage : sent[h] = {m}
<1>1. sent[h] \in Sendable(h) /\ sent[h] # {}
  BY DEF Requests
<1>2. ~Stall(h) /\ ~ShouldClear
  BY <1>1 DEF Sendable
<1>3. \E m \in BusMessage : sent[h] = {m}
  BY <1>1, <1>2 DEF Sendable
<1> QED
  BY <1>2, <1>3 DEF ShouldClear, TypeOK

(* The message a client sends is written into the acquired buffer.         *)
LEMMA SentMessage ==
  ASSUME NEW sent, Requests(sent), NEW h \in Helpers, TypeOK, sent[h] # {}
  PROVE  (CHOOSE m \in sent[h] : TRUE) \in BusMessage
BY SendFacts

(* The two buffers of a helper, whichever of them competes.                *)
LEMMA BufferIndex ==
  ASSUME TypeOK, NEW h \in Helpers
  PROVE  /\ current[h] \in Buffers
         /\ 1 - current[h] \in Buffers
         /\ 1 - current[h] # current[h]
         /\ \A ix \in Buffers : ix = current[h] \/ ix = 1 - current[h]
         /\ Acquires(h) \in Buffers
BY DEF TypeOK, Buffers, Acquires, ReqIx, NoBuffer

(* Every tick keeps the types.                                             *)
LEMMA Typing ==
  ASSUME TypeOK, NEW sent, Requests(sent), NEW flush \in BOOLEAN, Tick(sent, flush)
  PROVE  TypeOK'
<1>1. busClear' \in 0 .. 2
  BY DEF Tick, Countdown, TypeOK
<1>2. req' \subseteq Helpers
  BY DEF Tick
<1>3. fire' \in BOOLEAN
  BY DEF Tick
<1>4. busData' \in BusMessage
  <2>1. CASE \E h \in Helpers : Wins(h) /\ bhBusy[h][current[h]]
    <3> DEFINE w == CHOOSE h \in Helpers : Wins(h)
    <3>1. w \in Helpers
      BY <2>1
    <3>2. busData' = buffer[w][current[w]]
      BY <2>1 DEF Tick
    <3> QED
      BY <3>1, <3>2 DEF TypeOK
  <2> QED
    BY <2>1 DEF Tick, TypeOK
<1>5. buffer' \in [Helpers -> [Buffers -> BusMessage]]
  BY SentMessage DEF Tick, TypeOK
<1>6. bhBusy' \in [Helpers -> [Buffers -> BOOLEAN]]
  <2> SUFFICES ASSUME NEW h \in Helpers, NEW ix \in Buffers
               PROVE  (Keep(h, ix) \/ (sent[h] # {} /\ ix = Acquires(h))) \in BOOLEAN
    BY DEF Tick
  <2> QED
    OBVIOUS
<1>7. current' \in [Helpers -> Buffers]
  BY BufferIndex DEF Tick, TypeOK
<1> QED
  BY <1>1, <1>2, <1>3, <1>4, <1>5, <1>6, <1>7 DEF TypeOK

-----------------------------------------------------------------------------
(* Four things can happen to a helper in a tick outside of a clear: its    *)
(* competing buffer lost and stays; it won and the spare takes over; it    *)
(* won and the helper is empty; it was empty.                              *)
LEMMA HelperStep ==
  ASSUME IInv, busClear = 0, NEW sent, Requests(sent),
         \E flush \in BOOLEAN : Tick(sent, flush), NEW h \in Helpers
  PROVE  LET cur == current[h]
             alt == 1 - current[h]
             new == sent[h] # {}
         IN  \/ /\ bhBusy[h][cur] /\ ~Wins(h)
                /\ current'[h] = cur /\ h \in req' /\ bhBusy'[h][cur]
                /\ bhBusy'[h][alt] <=> bhBusy[h][alt] \/ new
                /\ new => ~bhBusy[h][alt] /\ Acquires(h) = alt
             \/ /\ bhBusy[h][cur] /\ Wins(h) /\ bhBusy[h][alt] /\ ~new
                /\ current'[h] = alt /\ h \in req'
                /\ bhBusy'[h][alt] /\ ~bhBusy'[h][cur]
             \/ /\ ~bhBusy[h][alt] /\ (bhBusy[h][cur] <=> Wins(h))
                /\ current'[h] = cur /\ ~bhBusy'[h][alt]
                /\ bhBusy'[h][cur] <=> new
                /\ h \in req' <=> new
                /\ new => Acquires(h) = cur
<1>0. PICK flush \in BOOLEAN : Tick(sent, flush)
  OBVIOUS
<1> DEFINE cur == current[h]
           alt == 1 - current[h]
<1>1. cur \in Buffers /\ alt \in Buffers /\ alt # cur /\ 1 - alt = cur
  BY BufferIndex DEF IInv, TypeOK, Buffers
<1>2. /\ bhBusy[h][cur] \in BOOLEAN /\ bhBusy[h][alt] \in BOOLEAN
      /\ h \in req <=> bhBusy[h][cur]
      /\ bhBusy[h][alt] => bhBusy[h][cur]
  BY <1>1 DEF IInv, TypeOK, AsksWhenLoaded
<1>3. /\ Granted(h) <=> Wins(h)
      /\ Wins(h) => bhBusy[h][cur]
  BY <1>2 DEF Granted, Wins
<1>4. /\ Keeps(h) <=> bhBusy[h][cur] /\ ~Wins(h)
      /\ Swaps(h) <=> ~Keeps(h) /\ bhBusy[h][alt]
  BY <1>3 DEF Keeps, Swaps
<1>5. sent[h] # {} => ~Stall(h)
  BY SendFacts DEF IInv
<1>6. /\ h \in req' <=> Keeps(h) \/ Swaps(h) \/ (sent[h] # {} /\ ReqIx(h) = NoBuffer)
      /\ current'[h] = IF Swaps(h) THEN alt ELSE cur
      /\ \A ix \in Buffers :
           bhBusy'[h][ix] = (Keep(h, ix) \/ (sent[h] # {} /\ ix = Acquires(h)))
  BY <1>0 DEF Tick
<1>7. /\ Keep(h, cur) <=> bhBusy[h][cur] /\ Keeps(h)
      /\ Keep(h, alt) <=> bhBusy[h][alt]
  BY <1>1 DEF Keep
<1>8. cur # NoBuffer /\ alt # NoBuffer
  BY <1>1 DEF Buffers, NoBuffer
<1>9. CASE Keeps(h)
  <2>1. ReqIx(h) = cur /\ Acquires(h) = alt
    BY <1>8, <1>9 DEF ReqIx, Acquires
  <2>2. sent[h] # {} => ~bhBusy[h][alt]
    BY <1>5, <1>8, <2>1 DEF Stall
  <2> QED
    BY <1>1, <1>2, <1>4, <1>6, <1>7, <1>9, <2>1, <2>2
<1>10. CASE Swaps(h)
  <2>1. ReqIx(h) = alt /\ ~Keeps(h)
    BY <1>4, <1>10 DEF ReqIx
  <2>2. bhBusy[h][cur] /\ Wins(h) /\ bhBusy[h][alt]
    BY <1>2, <1>4, <1>10
  <2>3. sent[h] = {}
    BY <1>1, <1>5, <1>8, <2>1, <2>2 DEF Stall
  <2> QED
    BY <1>1, <1>4, <1>6, <1>7, <1>10, <2>1, <2>2, <2>3
<1>11. CASE ~Keeps(h) /\ ~Swaps(h)
  <2>1. ReqIx(h) = NoBuffer /\ Acquires(h) = cur
    BY <1>11 DEF ReqIx, Acquires
  <2>2. ~bhBusy[h][alt] /\ (bhBusy[h][cur] <=> Wins(h))
    BY <1>2, <1>3, <1>4, <1>11
  <2> QED
    BY <1>1, <1>4, <1>6, <1>7, <1>11, <2>1, <2>2
<1> QED
  BY <1>9, <1>10, <1>11

(* Nobody sends during a clear, and the first clearing tick drops          *)
(* everything.                                                             *)
LEMMA ClearStep ==
  ASSUME IInv, busClear # 0, NEW sent, Requests(sent), NEW flush \in BOOLEAN,
         ~DoubleWrite(flush), Tick(sent, flush)
  PROVE  /\ busClear' = busClear - 1
         /\ req' = {}
         /\ ~fire'
         /\ \A h \in Helpers, ix \in Buffers : ~bhBusy'[h][ix]
<1>1. \A h \in Helpers : sent[h] = {}
  BY SendFacts DEF IInv
<1>2. \A h \in Helpers, ix \in Buffers : ~bhBusy'[h][ix]
  BY <1>1 DEF Tick, Keep
<1>3. ~fire'
  BY DEF Tick, Wins
<1> QED
  BY <1>2, <1>3 DEF Tick, Countdown, DoubleWrite, IInv, TypeOK

(* The inductive step of the invariant.                                    *)
LEMMA Inductive ==
  ASSUME IInv, NEW sent, Requests(sent), NEW flush \in BOOLEAN,
         ~DoubleWrite(flush), Tick(sent, flush)
  PROVE  IInv'
<1>1. TypeOK'
  BY Typing DEF IInv
<1>2. CASE busClear # 0
  <2>1. AsksWhenLoaded'
    BY <1>1, <1>2, ClearStep, BufferIndex DEF AsksWhenLoaded, TypeOK, Buffers
  <2>2. ClearedOut'
    BY <1>2, ClearStep DEF ClearedOut
  <2> QED
    BY <1>1, <2>1, <2>2 DEF IInv
<1>3. CASE busClear = 0
  <2>1. busClear' # 1
    BY <1>3 DEF Tick, Countdown
  <2>2. AsksWhenLoaded'
    <3> SUFFICES ASSUME NEW h \in Helpers
                 PROVE  /\ h \in req' <=> bhBusy'[h][current'[h]]
                        /\ bhBusy'[h][1 - current'[h]] => bhBusy'[h][current'[h]]
      BY DEF AsksWhenLoaded
    <3>1. 1 - (1 - current[h]) = current[h]
      BY BufferIndex DEF IInv, Buffers
    <3> QED
      BY <1>3, <3>1, HelperStep
  <2> QED
    BY <1>1, <2>1, <2>2 DEF IInv, ClearedOut
<1> QED
  BY <1>2, <1>3

(* The invariant that the theorems below are projections of.               *)
LEMMA Invariance == Spec => []IInv
<1>1. Init => IInv
  <2> SUFFICES ASSUME Init PROVE IInv
    OBVIOUS
  <2>1. TypeOK
    <3>1. buffer \in [Helpers -> [Buffers -> BusMessage]]
      BY MessageAssumption DEF Init
    <3>2. bhBusy \in [Helpers -> [Buffers -> BOOLEAN]]
      BY DEF Init
    <3>3. current \in [Helpers -> Buffers]
      BY DEF Init, Buffers
    <3>4. busClear \in 0 .. 2 /\ req \subseteq Helpers
      BY DEF Init
    <3>5. fire \in BOOLEAN /\ busData \in BusMessage
      BY MessageAssumption DEF Init
    <3> QED
      BY <3>1, <3>2, <3>3, <3>4, <3>5 DEF TypeOK
  <2>2. AsksWhenLoaded
    <3> SUFFICES ASSUME NEW h \in Helpers
                 PROVE  h \notin req /\ ~bhBusy[h][current[h]] /\ ~bhBusy[h][1 - current[h]]
      BY DEF AsksWhenLoaded
    <3>1. current[h] \in Buffers /\ 1 - current[h] \in Buffers
      BY DEF Init, Buffers
    <3>2. \A ix \in Buffers : ~bhBusy[h][ix]
      BY DEF Init
    <3> QED
      BY <3>1, <3>2 DEF Init
  <2>3. ClearedOut
    BY DEF Init, ClearedOut
  <2> QED
    BY <2>1, <2>2, <2>3 DEF IInv
<1>2. IInv /\ [Next]_busVars => IInv'
  <2> SUFFICES ASSUME IInv, [Next]_busVars PROVE IInv'
    OBVIOUS
  <2>1. CASE Next
    BY <2>1, Inductive DEF Next, Requests
  <2>2. CASE UNCHANGED busVars
    BY <2>2 DEF busVars, IInv, TypeOK, AsksWhenLoaded, ClearedOut
  <2> QED
    BY <2>1, <2>2
<1> QED
  BY <1>1, <1>2, PTL DEF Spec

(* The registers of the bus hold values of their types.                    *)
THEOREM TypeCorrect == Spec => []TypeOK
<1>1. IInv => TypeOK
  BY DEF IInv
<1> QED
  BY <1>1, Invariance, PTL

(* Requests and loaded buffers agree: the arbiter never grants the bus to  *)
(* a helper without a message (bus.c, _bus_arb and _bh_tick).              *)
THEOREM RequestsCorrect == Spec => []AsksWhenLoaded
<1>1. IInv => AsksWhenLoaded
  BY DEF IInv
<1> QED
  BY <1>1, Invariance, PTL

(* The clear of the bus empties every buffer of every helper in its first  *)
(* tick (bus.c, bus_clear and the early return of _bh_tick).               *)
THEOREM ClearEmpties == Spec => []ClearedOut
<1>1. IInv => ClearedOut
  BY DEF IInv
<1> QED
  BY <1>1, Invariance, PTL

-----------------------------------------------------------------------------
(* The helper the arbiter grants is the first one with a pending message,  *)
(* and what it sends is the oldest of them.                                *)
LEMMA ArbiterPicksFirst ==
  ASSUME IInv, busClear = 0, NEW h \in Helpers
  PROVE  /\ Pending(h) # <<>> <=> h \in req
         /\ Abstract!First(h) <=> Wins(h)
         /\ Wins(h) => Head(Pending(h)) = buffer[h][current[h]]
<1>1. \A k \in Helpers : Pending(k) # <<>> <=> k \in req
  <2> SUFFICES ASSUME NEW k \in Helpers PROVE Pending(k) # <<>> <=> k \in req
    OBVIOUS
  <2>1. k \in req <=> bhBusy[k][current[k]]
    BY DEF IInv, AsksWhenLoaded
  <2> QED
    BY <2>1 DEF Pending
<1>2. Abstract!First(h) <=> Wins(h)
  <2>1. req \subseteq Helpers
    BY DEF IInv, TypeOK
  <2>2. Abstract!First(h) <=> h \in req /\ \A k \in Helpers : k < h => k \notin req
    BY <1>1 DEF Abstract!First, Abstract!Helpers, Helpers
  <2> QED
    BY <2>1, <2>2 DEF Wins, Helpers
<1>3. Wins(h) => Head(Pending(h)) = buffer[h][current[h]]
  BY <1>1 DEF Wins, Pending
<1> QED
  BY <1>1, <1>2, <1>3

(* Queues of at most two messages.                                         *)
LEMMA ShortQueues ==
  ASSUME NEW S, NEW a \in S, NEW b \in S
  PROVE  /\ Append(<<>>, a) = <<a>> /\ Append(<<a>>, b) = <<a, b>>
         /\ Tail(<<a>>) = <<>> /\ Tail(<<a, b>>) = <<b>>
         /\ Len(<<>>) = 0 /\ Len(<<a>>) = 1
<1>1. Append(<<>>, a) = <<a>>
  OBVIOUS
<1>2. Append(<<a>>, b) = <<a, b>>
  <2> DEFINE s == Append(<<a>>, b)
             t == <<a, b>>
  <2>1. <<a>> \in Seq(S) /\ Len(<<a>>) = 1 /\ <<a>>[1] = a
    OBVIOUS
  <2>2. s \in Seq(S) /\ Len(s) = 2 /\ s[1] = a /\ s[2] = b
    BY <2>1, AppendProperties
  <2>3. t \in Seq(S) /\ Len(t) = 2 /\ t[1] = a /\ t[2] = b
    OBVIOUS
  <2> HIDE DEF s, t
  <2>4. \A i \in 1 .. Len(s) : s[i] = t[i]
    BY <2>2, <2>3
  <2>5. s = t
    BY <2>2, <2>3, <2>4, SeqEqual
  <2> QED
    BY <2>5 DEF s, t
<1>3. Tail(<<a>>) = <<>>
  OBVIOUS
<1>4. Tail(<<a, b>>) = <<b>>
  OBVIOUS
<1>5. Len(<<>>) = 0 /\ Len(<<a>>) = 1
  OBVIOUS
<1> QED
  BY <1>1, <1>2, <1>3, <1>4, <1>5

(* The queue of a helper after a tick that does not clear.                 *)
LEMMA PendingStep ==
  ASSUME IInv, busClear = 0, NEW sent, Requests(sent), Tick(sent, FALSE),
         NEW h \in Helpers
  PROVE  /\ sent[h] # {} => Len(Pending(h)) < 2
         /\ Pending(h)' = Abstract!Joined(Abstract!Served(h), sent[h])
<1> DEFINE cur == current[h]
           alt == 1 - current[h]
           msg == CHOOSE m \in sent[h] : TRUE
<1>1. cur \in Buffers /\ alt \in Buffers /\ alt # cur /\ 1 - alt = cur
  BY BufferIndex DEF IInv, TypeOK, Buffers
<1>2. busClear' = 0
  BY DEF Tick, Countdown
<1>3. \A ix \in Buffers : buffer'[h][ix] =
        IF sent[h] # {} /\ ix = Acquires(h) THEN msg ELSE buffer[h][ix]
  BY DEF Tick
<1>4. Abstract!Served(h) = IF Wins(h) THEN Tail(Pending(h)) ELSE Pending(h)
  BY ArbiterPicksFirst DEF Abstract!Served
<1>0. \E flush \in BOOLEAN : Tick(sent, flush)
  OBVIOUS
<1>5. Wins(h) => bhBusy[h][cur]
  BY DEF Wins, IInv, AsksWhenLoaded
<1>6. bhBusy[h][alt] => bhBusy[h][cur]
  BY DEF IInv, AsksWhenLoaded
<1>7. \A q : Abstract!Joined(q, sent[h]) = IF sent[h] = {} THEN q ELSE Append(q, msg)
  BY DEF Abstract!Joined
<1>8. CASE bhBusy[h][cur] /\ ~Wins(h)
  <2>1. /\ current'[h] = cur /\ bhBusy'[h][cur]
        /\ bhBusy'[h][alt] <=> bhBusy[h][alt] \/ sent[h] # {}
        /\ sent[h] # {} => ~bhBusy[h][alt] /\ Acquires(h) = alt
    BY <1>0, <1>8, HelperStep
  <2>2. CASE sent[h] = {}
    <3>1. buffer'[h][cur] = buffer[h][cur] /\ buffer'[h][alt] = buffer[h][alt]
      BY <1>1, <1>3, <2>2
    <3>2. bhBusy'[h][alt] <=> bhBusy[h][alt]
      BY <2>1, <2>2
    <3>3. Pending(h)' = Pending(h)
      <4>1. Pending(h)' = IF ~bhBusy[h][alt] THEN <<buffer[h][cur]>>
                          ELSE <<buffer[h][cur], buffer[h][alt]>>
        BY <1>2, <2>1, <3>1, <3>2 DEF Pending
      <4>2. Pending(h) = IF ~bhBusy[h][alt] THEN <<buffer[h][cur]>>
                         ELSE <<buffer[h][cur], buffer[h][alt]>>
        BY <1>8 DEF Pending
      <4> QED
        BY <4>1, <4>2
    <3>4. Abstract!Joined(Abstract!Served(h), sent[h]) = Pending(h)
      BY <1>4, <1>7, <1>8, <2>2
    <3> QED
      BY <2>2, <3>3, <3>4
  <2>3. CASE sent[h] # {}
    <3>1. Pending(h) = <<buffer[h][cur]>>
      BY <1>8, <2>1, <2>3 DEF Pending
    <3>2. Pending(h)' = <<buffer[h][cur], msg>>
      BY <1>1, <1>2, <1>3, <2>1, <2>3 DEF Pending
    <3>3. Abstract!Served(h) = <<buffer[h][cur]>>
      BY <1>4, <1>8, <3>1
    <3>4. buffer[h][cur] \in BusMessage /\ msg \in BusMessage
      BY <1>1, <2>3, SentMessage DEF IInv, TypeOK
    <3>5. Append(<<buffer[h][cur]>>, msg) = <<buffer[h][cur], msg>>
      BY <3>4, ShortQueues
    <3>6. Len(Pending(h)) < 2
      BY <3>1, <3>4, ShortQueues
    <3>7. Abstract!Joined(Abstract!Served(h), sent[h]) = <<buffer[h][cur], msg>>
      BY <1>7, <2>3, <3>3, <3>5
    <3> QED
      BY <3>2, <3>6, <3>7
  <2> QED
    BY <2>2, <2>3
<1>9. CASE bhBusy[h][cur] /\ Wins(h) /\ bhBusy[h][alt]
  <2>1. /\ sent[h] = {} /\ current'[h] = alt
        /\ bhBusy'[h][alt] /\ ~bhBusy'[h][cur]
    BY <1>0, <1>9, HelperStep
  <2>2. Pending(h) = <<buffer[h][cur], buffer[h][alt]>>
    BY <1>9 DEF Pending
  <2>3. Pending(h)' = <<buffer[h][alt]>>
    BY <1>1, <1>2, <1>3, <2>1 DEF Pending
  <2> QED
    BY <1>4, <1>7, <1>9, <2>1, <2>2, <2>3
<1>10. CASE ~bhBusy[h][alt] /\ (bhBusy[h][cur] <=> Wins(h))
  <2>1. /\ current'[h] = cur /\ ~bhBusy'[h][alt]
        /\ bhBusy'[h][cur] <=> sent[h] # {}
        /\ sent[h] # {} => Acquires(h) = cur
    BY <1>0, <1>1, <1>10, HelperStep
  <2>2. Pending(h) = IF Wins(h) THEN <<buffer[h][cur]>> ELSE <<>>
    BY <1>10 DEF Pending
  <2>3. Pending(h)' = IF sent[h] # {} THEN <<msg>> ELSE <<>>
    BY <1>1, <1>2, <1>3, <2>1 DEF Pending
  <2>4. Abstract!Served(h) = <<>>
    BY <1>4, <2>2, ShortQueues
  <2>5. Len(Pending(h)) < 2
    BY <2>2, ShortQueues
  <2> QED
    BY <1>7, <2>3, <2>4, <2>5, ShortQueues
<1> QED
  BY <1>5, <1>6, <1>8, <1>9, <1>10

(* What the listeners hear after a tick that does not clear.               *)
LEMMA HeardStep ==
  ASSUME IInv, busClear = 0, NEW sent, Tick(sent, FALSE)
  PROVE  Heard' = {Head(Pending(h)) : h \in {k \in Helpers : Abstract!First(k)}}
<1>1. busClear' = 0 /\ (fire' <=> \E h \in Helpers : Wins(h))
  BY DEF Tick, Countdown
<1>2. {k \in Helpers : Abstract!First(k)} = {k \in Helpers : Wins(k)}
  BY ArbiterPicksFirst
<1>3. CASE \E h \in Helpers : Wins(h)
  <2> DEFINE w == CHOOSE h \in Helpers : Wins(h)
  <2>1. w \in Helpers /\ Wins(w)
    BY <1>3
  <2>2. \A k \in Helpers : Wins(k) => k = w
    <3> HIDE DEF w
    <3>1. \A k \in Helpers : Wins(k) => k <= w /\ w <= k
      BY <2>1 DEF Wins
    <3> QED
      BY <2>1, <3>1, HelperAssumption DEF Helpers
  <2>3. bhBusy[w][current[w]]
    BY <2>1 DEF Wins, IInv, AsksWhenLoaded
  <2>4. busData' = buffer[w][current[w]]
    BY <2>1, <2>3 DEF Tick
  <2>5. Heard' = {buffer[w][current[w]]}
    BY <1>1, <1>3, <2>4 DEF Heard, GetData
  <2>6. {k \in Helpers : Wins(k)} = {w}
    BY <2>1, <2>2
  <2>7. Head(Pending(w)) = buffer[w][current[w]]
    BY <2>1, ArbiterPicksFirst
  <2> HIDE DEF w
  <2>8. {Head(Pending(h)) : h \in {w}} = {buffer[w][current[w]]}
    BY <2>7
  <2> QED
    BY <1>2, <2>5, <2>6, <2>8
<1>4. CASE ~ \E h \in Helpers : Wins(h)
  BY <1>1, <1>2, <1>4 DEF Heard, GetData
<1> QED
  BY <1>3, <1>4

(* Every tick is a step of Broadcast.                                      *)
LEMMA StepRefines ==
  ASSUME IInv, NEW sent, Requests(sent), NEW flush \in BOOLEAN,
         ~DoubleWrite(flush), Tick(sent, flush)
  PROVE  Abstract!Next
<1>1. CASE busClear # 0
  <2>1. \A h \in Helpers : Pending(h) = <<>>
    BY <1>1 DEF Pending
  <2>2. current' \in [Helpers -> Buffers]
    BY Typing DEF IInv, TypeOK
  <2>3. \A h \in Helpers : Pending(h)' = <<>>
    BY <1>1, <2>2, ClearStep DEF Pending
  <2>4. Heard = {} /\ Heard' = {}
    BY <1>1, ClearStep DEF Heard, GetData
  <2>5. busClear > 0 /\ busClear' = busClear - 1
    BY <1>1, ClearStep DEF IInv, TypeOK
  <2>6. [h \in Helpers |-> Pending(h)]' = [h \in Helpers |-> Pending(h)]
    BY <2>1, <2>3
  <2> QED
    BY <2>4, <2>5, <2>6 DEF Abstract!Next, Abstract!Drain
<1>2. CASE busClear = 0 /\ flush
  <2>1. busClear' = 2
    BY <1>2 DEF Tick
  <2>2. \A h \in Helpers : Pending(h)' = <<>>
    BY <2>1 DEF Pending
  <2>3. Heard' = {}
    BY <2>1 DEF Heard
  <2>4. [h \in Helpers |-> Pending(h)]' = Abstract!Nothing
    BY <2>2 DEF Abstract!Nothing, Abstract!Helpers, Helpers
  <2> QED
    BY <1>2, <2>1, <2>3, <2>4 DEF Abstract!Next, Abstract!Clear
<1>3. CASE busClear = 0 /\ ~flush
  <2>1. Tick(sent, FALSE) /\ busClear' = 0
    BY <1>3 DEF Tick, Countdown
  <2>2. /\ sent \in [Helpers -> SUBSET BusMessage]
        /\ \A h \in Helpers : \A m1, m2 \in sent[h] : m1 = m2
    BY SendFacts DEF Requests, IInv
  <2>3. \A h \in Helpers :
          /\ sent[h] # {} => Len(Pending(h)) < 2
          /\ Pending(h)' = Abstract!Joined(Abstract!Served(h), sent[h])
    BY <1>3, <2>1, PendingStep
  <2>4. Heard' = {Head(Pending(h)) : h \in {k \in Helpers : Abstract!First(k)}}
    BY <1>3, <2>1, HeardStep
  <2>5. Abstract!Carry
    BY <1>3, <2>1, <2>2, <2>3, <2>4
    DEF Abstract!Carry, Abstract!Helpers, Abstract!Depth, Helpers
  <2> QED
    BY <2>5 DEF Abstract!Next
<1> QED
  BY <1>1, <1>2, <1>3

(* The bus implements Broadcast: what a producer of results hands to its   *)
(* helper is heard by everyone exactly once, in order, unless cleared.     *)
THEOREM Refinement == Spec => ImplementsBroadcast
<1>1. Init => Abstract!Init
  <2> SUFFICES ASSUME Init PROVE Abstract!Init
    OBVIOUS
  <2>1. \A h \in Helpers : current[h] = 0 /\ ~bhBusy[h][0]
    BY DEF Init, Buffers
  <2>2. \A h \in Helpers : Pending(h) = <<>>
    BY <2>1 DEF Pending
  <2>3. Heard = {} /\ busClear = 0
    BY DEF Init, Heard, GetData
  <2> QED
    BY <2>2, <2>3 DEF Abstract!Init, Abstract!Nothing, Abstract!Helpers, Helpers
<1>2. IInv /\ [Next]_busVars => [Abstract!Next]_(Abstract!bvars)
  <2> SUFFICES ASSUME IInv, [Next]_busVars PROVE [Abstract!Next]_(Abstract!bvars)
    OBVIOUS
  <2>1. CASE Next
    BY <2>1, StepRefines DEF Next, Requests
  <2>2. CASE UNCHANGED busVars
    BY <2>2 DEF busVars, Abstract!bvars, Pending, Heard, GetData
  <2> QED
    BY <2>1, <2>2
<1> QED
  BY <1>1, <1>2, Invariance, PTL DEF Spec, ImplementsBroadcast, Abstract!Spec

=============================================================================
