---------------------------- MODULE RobUnitProofs ----------------------------
(***************************************************************************)
(* The reorder buffer implements Retirement, for any capacity, any         *)
(* instructions and any results: what goes out of order in comes in order  *)
(* out.                                                                    *)
(***************************************************************************)
EXTENDS RobUnit, TLAPS

-----------------------------------------------------------------------------
(* The ring of slots.  Far is how far slot t is ahead of slot h, and At    *)
(* the slot k ahead of h, without the remainders of queue.c.               *)
Far(h, t) == IF t < h THEN t + RobCapacity - h ELSE t - h
At(h, k) == IF k + h < RobCapacity THEN k + h ELSE k + h - RobCapacity
After(s) == IF s = RobCapacity - 1 THEN 0 ELSE s + 1
Slots == 0 .. RobCapacity - 1

(* The remainder of a number below twice the divisor.                      *)
LEMMA SmallMod ==
  ASSUME NEW C \in Nat \ {0}, NEW x \in 0 .. 2 * C - 1
  PROVE  x % C = IF x < C THEN x ELSE x - C
<1>1. CASE x < C
  BY <1>1, Z3
<1>2. CASE x >= C
  <2> DEFINE y == x - C
  <2>1. y \in 0 .. C - 1 /\ y + C = x
    BY <1>2
  <2>2. (y + C) % C = y
    <3> HIDE DEF y
    <3> QED
      BY <2>1, Z3
  <2> QED
    BY <1>2, <2>1, <2>2
<1> QED
  BY <1>1, <1>2

(* The queue's remainders.                                                 *)
LEMMA Remainders ==
  ASSUME NEW h \in Slots
  PROVE  /\ \A k \in Slots : ROB!robs!Trunc(k + h) = At(h, k) /\ At(h, k) \in Slots
         /\ ROB!robs!Trunc(h + 1) = After(h) /\ After(h) \in Slots
         /\ \A t \in Slots : (t + RobCapacity - h) % RobCapacity = Far(h, t) /\ Far(h, t) \in Slots
<1>1. RobCapacity \in Nat \ {0} /\ h \in 0 .. RobCapacity - 1
  BY RobUnitAssumption DEF Slots
<1>2. ASSUME NEW x \in 0 .. 2 * RobCapacity - 1
      PROVE  x % RobCapacity = IF x < RobCapacity THEN x ELSE x - RobCapacity
  BY <1>1, SmallMod, Zenon
<1>3. ASSUME NEW k \in Slots
      PROVE  ROB!robs!Trunc(k + h) = At(h, k) /\ At(h, k) \in Slots
  <2> DEFINE x == k + h
  <2>1. x \in 0 .. 2 * RobCapacity - 1 /\ ~(x < 0)
    BY <1>1 DEF Slots
  <2>2. ROB!robs!Trunc(x) = x % RobCapacity
    BY <2>1 DEF ROB!robs!Trunc
  <2>3. ROB!robs!Trunc(x) = IF x < RobCapacity THEN x ELSE x - RobCapacity
    <3> HIDE DEF x
    <3> QED
      BY <1>2, <2>1, <2>2
  <2> QED
    BY <1>1, <2>3 DEF At, Slots
<1>4. ROB!robs!Trunc(h + 1) = After(h) /\ After(h) \in Slots
  <2> DEFINE x == h + 1
  <2>1. x \in 0 .. 2 * RobCapacity - 1 /\ ~(x < 0)
    BY <1>1
  <2>2. ROB!robs!Trunc(x) = x % RobCapacity
    BY <2>1 DEF ROB!robs!Trunc
  <2>3. ROB!robs!Trunc(x) = IF x < RobCapacity THEN x ELSE x - RobCapacity
    <3> HIDE DEF x
    <3> QED
      BY <1>2, <2>1, <2>2
  <2> QED
    BY <1>1, <2>3 DEF After, Slots
<1>5. ASSUME NEW t \in Slots
      PROVE  (t + RobCapacity - h) % RobCapacity = Far(h, t) /\ Far(h, t) \in Slots
  <2> DEFINE x == t + RobCapacity - h
  <2>1. x \in 0 .. 2 * RobCapacity - 1
    BY <1>1 DEF Slots
  <2>2. x % RobCapacity = IF x < RobCapacity THEN x ELSE x - RobCapacity
    <3> HIDE DEF x
    <3> QED
      BY <1>2, <2>1
  <2> QED
    BY <1>1, <2>2 DEF Far, Slots
<1> QED
  BY <1>3, <1>4, <1>5

(* The ring in a tick with an optional pop and push.                       *)
LEMMA RingMoves ==
  ASSUME NEW h \in Slots, NEW t \in Slots, NEW pop \in BOOLEAN, NEW push \in BOOLEAN,
         pop => h # t, push => h # After(t),
         NEW h2, h2 = IF pop THEN After(h) ELSE h,
         NEW t2, t2 = IF push THEN After(t) ELSE t
  PROVE  LET stay == IF pop THEN Far(h, t) - 1 ELSE Far(h, t)
         IN  /\ Far(h2, t2) = IF push THEN stay + 1 ELSE stay
             /\ stay \in Nat
             /\ \A k \in 0 .. stay - 1 : At(h2, k) = At(h, IF pop THEN k + 1 ELSE k)
             /\ push => At(h2, stay) = t
<1>1. RobCapacity \in Nat \ {0} /\ h \in 0 .. RobCapacity - 1 /\ t \in 0 .. RobCapacity - 1
  BY RobUnitAssumption DEF Slots
<1> DEFINE stay == IF pop THEN Far(h, t) - 1 ELSE Far(h, t)
<1>2. Far(h, t) = (IF t < h THEN t + RobCapacity - h ELSE t - h)
      /\ Far(h2, t2) = (IF t2 < h2 THEN t2 + RobCapacity - h2 ELSE t2 - h2)
  BY DEF Far
<1>3. /\ After(h) = (IF h = RobCapacity - 1 THEN 0 ELSE h + 1)
      /\ After(t) = (IF t = RobCapacity - 1 THEN 0 ELSE t + 1)
  BY DEF After
<1>4. CASE pop /\ push
  BY <1>1, <1>2, <1>3, <1>4 DEF At
<1>5. CASE pop /\ ~push
  BY <1>1, <1>2, <1>3, <1>5 DEF At
<1>6. CASE ~pop /\ push
  BY <1>1, <1>2, <1>3, <1>6 DEF At
<1>7. CASE ~pop /\ ~push
  BY <1>1, <1>2, <1>3, <1>7 DEF At
<1> QED
  BY <1>4, <1>5, <1>6, <1>7

(* The slots in use lie from the head on, all different, before the tail.  *)
LEMMA InUse ==
  ASSUME NEW h \in Slots, NEW t \in Slots
  PROVE  /\ \A k, l \in Slots : At(h, k) = At(h, l) => k = l
         /\ \A k \in 0 .. Far(h, t) - 1 : At(h, k) # t
         /\ At(h, 0) = h
         /\ Far(h, t) = 0 <=> h = t
         /\ Far(h, t) = RobCapacity - 1 <=> h = After(t)
<1>1. RobCapacity \in Nat \ {0} /\ h \in 0 .. RobCapacity - 1 /\ t \in 0 .. RobCapacity - 1
  BY RobUnitAssumption DEF Slots
<1>2. ASSUME NEW k \in Slots, NEW l \in Slots, At(h, k) = At(h, l)
      PROVE  k = l
  BY <1>1, <1>2 DEF At, Slots
<1>3. \A k \in 0 .. Far(h, t) - 1 : At(h, k) # t
  BY <1>1 DEF At, Far
<1>4. At(h, 0) = h /\ (Far(h, t) = 0 <=> h = t)
  BY <1>1 DEF At, Far
<1>5. Far(h, t) = RobCapacity - 1 <=> h = After(t)
  BY <1>1 DEF After, Far
<1> QED
  BY <1>2, <1>3, <1>4, <1>5

-----------------------------------------------------------------------------
(* The state.                                                              *)

(* Payloads as inst_dispatch leaves them.                                  *)
Payloads ==
  {p \in ROB!RobPayload : /\ p.op = "BRANCH" => p.dest = ROB!NoDest
                          /\ p.op = "JALR" => p.dest \in Reg}

RobInv ==
  /\ robHead \in Slots /\ robTail \in Slots /\ robClear \in BOOLEAN /\ hcf \in BOOLEAN
  /\ ready \in [Slots -> BOOLEAN]
  /\ robPayload \in [Slots -> Payloads]

(* The modules share their vocabulary.                                     *)
LEMMA Shared ==
  /\ Slots = ROB!Slots /\ Word = ROB!Word /\ Reg = ROB!Reg /\ Sizes = ROB!Sizes
  /\ \A f, w : ROB!Written(f, w) = Written(f, w)
BY DEF Slots, ROB!Slots, Word, ROB!Word, Reg, ROB!Reg, Sizes, ROB!Sizes, Written, ROB!Written

(* The queue as a ring.                                                    *)
LEMMA Shape ==
  ASSUME RobInv
  PROVE  /\ ROB!robs!Length = Far(robHead, robTail) /\ Far(robHead, robTail) \in Slots
         /\ \A k \in Slots : ROB!robs!Nth(k) = At(robHead, k) /\ At(robHead, k) \in Slots
         /\ ROB!Live = {At(robHead, k) : k \in 0 .. Far(robHead, robTail) - 1}
         /\ ROB!Live \subseteq Slots /\ robTail \notin ROB!Live
         /\ ROB!robs!Empty <=> robHead = robTail
         /\ ROB!Full <=> robHead = After(robTail)
         /\ ~ROB!robs!Empty => robHead \in ROB!Live
<1>1. robHead \in Slots /\ robTail \in Slots
  BY DEF RobInv
<1>2. ROB!robs!Length = Far(robHead, robTail) /\ Far(robHead, robTail) \in Slots
  BY <1>1, Remainders DEF ROB!robs!Length
<1>3. \A k \in Slots : ROB!robs!Nth(k) = At(robHead, k) /\ At(robHead, k) \in Slots
  BY <1>1, Remainders DEF ROB!robs!Nth
<1> DEFINE n == Far(robHead, robTail)
<1>4. n \in Nat /\ 0 .. n - 1 \subseteq Slots
  BY <1>2, RobUnitAssumption DEF Slots
<1> HIDE DEF n
<1>5. ROB!Live = {At(robHead, k) : k \in 0 .. n - 1}
  <2>1. ROB!Live = {ROB!robs!Nth(k) : k \in 0 .. n - 1}
    BY <1>2, Zenon DEF n, ROB!Live, ROB!robs!Live
  <2> QED
    BY <1>3, <1>4, <2>1
<1>6. ROB!Live \subseteq Slots
  BY <1>3, <1>4, <1>5
<1>7. robTail \notin ROB!Live
  BY <1>1, <1>5, InUse DEF n
<1>8. ROB!robs!Empty <=> robHead = robTail
  BY DEF ROB!robs!Empty
<1>9. ROB!Full <=> robHead = After(robTail)
  BY <1>1, Remainders DEF ROB!Full, ROB!robs!Full
<1>10. robHead # robTail => robHead \in ROB!Live
  <2> SUFFICES ASSUME robHead # robTail PROVE robHead \in ROB!Live
    OBVIOUS
  <2>1. n # 0 /\ At(robHead, 0) = robHead
    BY <1>1, InUse DEF n
  <2>2. 0 \in 0 .. n - 1
    BY <1>4, <2>1
  <2> QED
    BY <1>5, <2>1, <2>2
<1> QED
  BY <1>2, <1>3, <1>5, <1>6, <1>7, <1>8, <1>9, <1>10 DEF n

(* A register holds one of the values written in the tick, or keeps its    *)
(* own.                                                                    *)
LEMMA WrittenAt ==
  ASSUME NEW f, NEW writes, NEW i \in DOMAIN f
  PROVE  \/ \E w \in writes : w[1] = i /\ Written(f, writes)[i] = w[2]
         \/ (~\E w \in writes : w[1] = i) /\ Written(f, writes)[i] = f[i]
<1>1. Written(f, writes)[i] =
        IF \E w \in writes : w[1] = i THEN (CHOOSE w \in writes : w[1] = i)[2] ELSE f[i]
  BY DEF Written
<1>2. CASE \E w \in writes : w[1] = i
  BY <1>1, <1>2
<1>3. CASE ~\E w \in writes : w[1] = i
  BY <1>1, <1>3
<1> QED
  BY <1>2, <1>3

(* What the rest of the machine may do in a tick.                          *)
Inputs(heard, dispatched, updated) ==
  /\ heard \in AtMostOne(Messages)
  /\ dispatched \in AtMostOne(IF ROB!Full \/ robClear THEN {} ELSE Fresh)
  /\ updated \in AtMostOne(IF robClear THEN {} ELSE Updates)

(* An update is for a store that waits, and tells whether it still does.   *)
LEMMA UpdateIs ==
  ASSUME NEW u \in Updates
  PROVE  /\ u.ready = (u.payload.addrReady /\ u.payload.valueReady)
         /\ \E t \in ROB!Live :
              /\ u.id = ROB!Id(t) /\ ~ready[t] /\ robPayload[t].op = "STORE"
              /\ u.payload \in Learnt(robPayload[t])
              /\ u.ready = (u.payload.addrReady /\ u.payload.valueReady)
<1>1. PICK s \in {t \in Waiting : robPayload[t].op = "STORE"} :
        u \in {[id |-> ROB!Id(s), payload |-> p, ready |-> p.addrReady /\ p.valueReady] :
                 p \in Learnt(robPayload[s])}
  BY Zenon DEF Updates
<1>2. PICK p \in Learnt(robPayload[s]) :
        u = [id |-> ROB!Id(s), payload |-> p, ready |-> p.addrReady /\ p.valueReady]
  BY <1>1
<1>3. s \in ROB!Live /\ ~ready[s] /\ robPayload[s].op = "STORE"
  BY DEF Waiting
<1>4. u.id = ROB!Id(s) /\ u.payload = p /\ u.ready = (p.addrReady /\ p.valueReady)
  BY <1>2
<1> QED
  BY <1>3, <1>4

(* Messages are for entries that wait for a result, updates for stores     *)
(* that wait.                                                              *)
LEMMA InputsAre ==
  ASSUME RobInv, NEW heard, NEW dispatched, NEW updated, Inputs(heard, dispatched, updated)
  PROVE  /\ updated \subseteq Updates
         /\ \A m \in heard : /\ m.result \in Word
                             /\ \E s \in ROB!Live : /\ m.rob = ROB!Id(s) /\ ~ready[s]
                                                    /\ robPayload[s].op # "STORE"
         /\ \A m, n \in heard : m = n
         /\ \A p \in dispatched : p \in Payloads /\ p \in Fresh /\ ~ROB!Full /\ ~robClear
         /\ \A p, q \in dispatched : p = q
         /\ \A u \in updated : /\ ~robClear
                               /\ \E s \in ROB!Live :
                                    /\ u.id = ROB!Id(s) /\ ~ready[s] /\ robPayload[s].op = "STORE"
                                    /\ u.payload \in Learnt(robPayload[s])
                                    /\ u.ready = (u.payload.addrReady /\ u.payload.valueReady)
         /\ \A u, v \in updated : u = v
<1>1. ASSUME NEW S, NEW T, T \in AtMostOne(S)
      PROVE  T \subseteq S /\ \A x, y \in T : x = y
  BY <1>1 DEF AtMostOne
<1>2. /\ heard \subseteq Messages /\ \A m, n \in heard : m = n
      /\ dispatched \subseteq (IF ROB!Full \/ robClear THEN {} ELSE Fresh)
      /\ \A p, q \in dispatched : p = q
      /\ updated \subseteq (IF robClear THEN {} ELSE Updates)
      /\ \A u, v \in updated : u = v
  <2> DEFINE D == IF ROB!Full \/ robClear THEN {} ELSE Fresh
             U == IF robClear THEN {} ELSE Updates
  <2>1. heard \in AtMostOne(Messages) /\ dispatched \in AtMostOne(D) /\ updated \in AtMostOne(U)
    BY DEF Inputs
  <2> HIDE DEF D, U
  <2>2. heard \subseteq Messages /\ \A m, n \in heard : m = n
    BY <1>1, <2>1
  <2>3. dispatched \subseteq D /\ \A p, q \in dispatched : p = q
    BY <1>1, <2>1
  <2>4. updated \subseteq U /\ \A u, v \in updated : u = v
    BY <1>1, <2>1
  <2> QED
    BY <2>2, <2>3, <2>4 DEF D, U
<1>3. ASSUME NEW m \in heard
      PROVE  /\ m.result \in Word
             /\ \E s \in ROB!Live : m.rob = ROB!Id(s) /\ ~ready[s] /\ robPayload[s].op # "STORE"
  <2>1. PICK s \in {t \in Waiting : robPayload[t].op # "STORE"}, r \in Results :
          m = [rob |-> ROB!Id(s), result |-> r]
    BY <1>2, <1>3 DEF Messages
  <2>2. s \in ROB!Live /\ ~ready[s] /\ robPayload[s].op # "STORE"
    BY DEF Waiting
  <2> QED
    BY <2>1, <2>2, RobUnitAssumption
<1>4. \A p \in dispatched : p \in Payloads /\ p \in Fresh /\ ~ROB!Full /\ ~robClear
  <2>1. Fresh \subseteq Payloads
    BY RobUnitAssumption DEF Payloads
  <2>2. ROB!Full \/ robClear => dispatched = {}
    BY <1>2
  <2>3. dispatched \subseteq Fresh
    BY <1>2
  <2> QED
    BY <2>1, <2>2, <2>3
<1>5. ASSUME NEW u \in updated
      PROVE  /\ ~robClear
             /\ \E s \in ROB!Live :
                  /\ u.id = ROB!Id(s) /\ ~ready[s] /\ robPayload[s].op = "STORE"
                  /\ u.payload \in Learnt(robPayload[s])
                  /\ u.ready = (u.payload.addrReady /\ u.payload.valueReady)
  <2>1. u \in Updates /\ ~robClear
    BY <1>2, <1>5
  <2> QED
    BY <2>1, UpdateIs
<1>6. updated \subseteq Updates
  BY <1>2
<1> QED
  BY <1>2, <1>3, <1>4, <1>5, <1>6

-----------------------------------------------------------------------------
(* Results.                                                                *)

(* A result leaves a payload one that inst_dispatch could have left.       *)
LEMMA ResultType ==
  ASSUME NEW p \in Payloads, NEW r \in Word
  PROVE  /\ ROB!WithResult(p, r) \in Payloads
         /\ ROB!WithResult(p, r) =
              IF p.op = "JALR" THEN [p EXCEPT !.addr = r] ELSE [p EXCEPT !.value = r]
<1>1. r \in ROB!Word /\ p \in ROB!RobPayload
  BY Shared DEF Payloads
<1>2. [p EXCEPT !.addr = r] \in ROB!RobPayload /\ [p EXCEPT !.value = r] \in ROB!RobPayload
  BY <1>1 DEF ROB!RobPayload
<1>3. /\ [p EXCEPT !.addr = r].op = p.op /\ [p EXCEPT !.addr = r].dest = p.dest
      /\ [p EXCEPT !.value = r].op = p.op /\ [p EXCEPT !.value = r].dest = p.dest
  BY <1>1 DEF ROB!RobPayload
<1>4. [p EXCEPT !.addr = r] \in Payloads /\ [p EXCEPT !.value = r] \in Payloads
  BY <1>2, <1>3 DEF Payloads
<1> QED
  BY <1>4 DEF ROB!WithResult

(* What a store has learnt is its address, its value or both.              *)
LearntAddr(p, q) ==
  \/ q.addr = p.addr /\ q.addrReady = p.addrReady
  \/ ~p.addrReady /\ q.addr \in Word /\ q.addrReady
LearntValue(p, q) ==
  \/ q.value = p.value /\ q.valueReady = p.valueReady
  \/ ~p.valueReady /\ q.value \in Word /\ q.valueReady

LEMMA LearntAre ==
  ASSUME NEW p \in Payloads, NEW q \in Learnt(p)
  PROVE  /\ q \in Payloads
         /\ q = [p EXCEPT !.addr = q.addr, !.addrReady = q.addrReady,
                          !.value = q.value, !.valueReady = q.valueReady]
         /\ LearntAddr(p, q) /\ LearntValue(p, q)
<1>1. PICK a \in WithAddr(p) : q \in WithValue(a)
  BY DEF Learnt
<1>2. p \in ROB!RobPayload /\ Results \subseteq ROB!Word /\ Word = ROB!Word
  BY Shared, RobUnitAssumption DEF Payloads
<1>3. /\ a \in ROB!RobPayload
      /\ a = p \/ (~p.addrReady /\ \E r \in Results : a = [p EXCEPT !.addr = r, !.addrReady = TRUE])
  <2>1. a = p \/ (~p.addrReady /\ \E r \in Results : a = [p EXCEPT !.addr = r, !.addrReady = TRUE])
    <3>1. p.addrReady \in BOOLEAN
      BY <1>2 DEF ROB!RobPayload
    <3>2. CASE p.addrReady
      BY <1>1, <3>2, Zenon DEF WithAddr
    <3>3. CASE ~p.addrReady
      <4> DEFINE new(r) == [p EXCEPT !.addr = r, !.addrReady = TRUE]
      <4>1. a \in {p} \cup {new(r) : r \in Results}
        BY <1>1, <3>3, Zenon DEF WithAddr
      <4> HIDE DEF new
      <4>2. a = p \/ \E r \in Results : a = new(r)
        BY <4>1
      <4> QED
        BY <3>3, <4>2 DEF new
    <3> QED
      BY <3>1, <3>2, <3>3
  <2>2. \A r \in Results : [p EXCEPT !.addr = r, !.addrReady = TRUE] \in ROB!RobPayload
    BY <1>2 DEF ROB!RobPayload
  <2> QED
    BY <1>2, <2>1, <2>2
<1>4. /\ q \in ROB!RobPayload
      /\ q = a \/ (~a.valueReady /\ \E r \in Results : q = [a EXCEPT !.value = r, !.valueReady = TRUE])
  <2>1. q = a \/ (~a.valueReady /\ \E r \in Results : q = [a EXCEPT !.value = r, !.valueReady = TRUE])
    <3>1. a.valueReady \in BOOLEAN
      BY <1>3 DEF ROB!RobPayload
    <3>2. CASE a.valueReady
      BY <1>1, <3>2, Zenon DEF WithValue
    <3>3. CASE ~a.valueReady
      <4> DEFINE new(r) == [a EXCEPT !.value = r, !.valueReady = TRUE]
      <4>1. q \in {a} \cup {new(r) : r \in Results}
        BY <1>1, <3>3, Zenon DEF WithValue
      <4> HIDE DEF new
      <4>2. q = a \/ \E r \in Results : q = new(r)
        BY <4>1
      <4> QED
        BY <3>3, <4>2 DEF new
    <3> QED
      BY <3>1, <3>2, <3>3
  <2>2. \A r \in Results : [a EXCEPT !.value = r, !.valueReady = TRUE] \in ROB!RobPayload
    BY <1>2, <1>3 DEF ROB!RobPayload
  <2> QED
    BY <1>3, <2>1, <2>2
<1>5. /\ a.op = p.op /\ a.dest = p.dest /\ a.value = p.value /\ a.valueReady = p.valueReady
      /\ LearntAddr(p, a)
      /\ a = [p EXCEPT !.addr = a.addr, !.addrReady = a.addrReady]
  <2>1. CASE a = p
    BY <1>2, <2>1 DEF ROB!RobPayload, LearntAddr
  <2>2. CASE a # p
    <3>1. PICK r \in Results : a = [p EXCEPT !.addr = r, !.addrReady = TRUE]
      BY <1>3, <2>2
    <3>2. ~p.addrReady /\ r \in Word
      BY <1>2, <1>3, <2>2
    <3> QED
      BY <1>2, <3>1, <3>2 DEF ROB!RobPayload, LearntAddr
  <2> QED
    BY <2>1, <2>2
<1>6. /\ q.op = a.op /\ q.dest = a.dest /\ q.addr = a.addr /\ q.addrReady = a.addrReady
      /\ LearntValue(a, q)
      /\ q = [a EXCEPT !.value = q.value, !.valueReady = q.valueReady]
  <2>1. CASE q = a
    BY <1>3, <2>1 DEF ROB!RobPayload, LearntValue
  <2>2. CASE q # a
    <3>1. PICK r \in Results : q = [a EXCEPT !.value = r, !.valueReady = TRUE]
      BY <1>4, <2>2
    <3>2. ~a.valueReady /\ r \in Word
      BY <1>2, <1>4, <2>2
    <3> QED
      BY <1>3, <3>1, <3>2 DEF ROB!RobPayload, LearntValue
  <2> QED
    BY <2>1, <2>2
<1>7. q \in Payloads
  BY <1>4, <1>5, <1>6 DEF Payloads
<1>8. LearntAddr(p, q) /\ LearntValue(p, q)
  BY <1>5, <1>6 DEF LearntAddr, LearntValue
<1>9. q = [p EXCEPT !.addr = q.addr, !.addrReady = q.addrReady,
                    !.value = q.value, !.valueReady = q.valueReady]
  BY <1>2, <1>5, <1>6 DEF ROB!RobPayload
<1> QED
  BY <1>7, <1>8, <1>9


-----------------------------------------------------------------------------
(* A tick, slot by slot.                                                   *)

(* The entry in slot s hears the result of message m.                      *)
Hears(heard, s) ==
  /\ ~robClear
  /\ s \in ROB!Live /\ ~ready[s] /\ robPayload[s].op # "STORE"
  /\ \E m \in heard : m.rob = ROB!Id(s)
(* The store in slot s learns its address or its value.                    *)
Learns(updated, s) ==
  /\ ~robClear
  /\ s \in ROB!Live /\ ~ready[s] /\ robPayload[s].op = "STORE"
  /\ \E u \in updated : u.id = ROB!Id(s)

LEMMA HitsAre ==
  ASSUME RobInv, NEW heard, NEW dispatched, NEW updated, Inputs(heard, dispatched, updated),
         NEW s \in Slots
  PROVE  /\ s \in ROB!Hit(heard) <=> Hears(heard, s)
         /\ (\E u \in updated : ROB!Slot(u.id) = s) <=> Learns(updated, s)
         /\ \A u \in updated : ROB!Slot(u.id) = s <=> u.id = ROB!Id(s)
         /\ s = robTail => ~Hears(heard, s) /\ ~Learns(updated, s)
         /\ ~(Hears(heard, s) /\ Learns(updated, s))
         /\ ready[s] => ~Hears(heard, s) /\ ~Learns(updated, s)
<1>1. \A t \in Slots : t \in Int
  BY DEF Slots
<1>2. ROB!Live \subseteq Slots /\ robTail \notin ROB!Live
  BY Shape
<1>3. \A t \in ROB!Live : ROB!Id(t) = ROB!Id(s) => t = s
  BY <1>1, <1>2 DEF ROB!Id
<1>4. s \in ROB!Hit(heard) <=> Hears(heard, s)
  <2>1. ASSUME s \in ROB!Hit(heard) PROVE Hears(heard, s)
    <3>1. ~robClear
      BY <2>1 DEF ROB!Hit
    <3>2. s \in ROB!Live /\ \E m \in heard : m.rob = ROB!Id(s)
      BY <2>1, <3>1 DEF ROB!Hit
    <3>3. PICK m \in heard : m.rob = ROB!Id(s)
      BY <3>2
    <3>4. ~ready[s] /\ robPayload[s].op # "STORE"
      BY <1>3, <3>3, InputsAre
    <3> QED
      BY <3>1, <3>2, <3>4 DEF Hears
  <2>2. ASSUME Hears(heard, s) PROVE s \in ROB!Hit(heard)
    BY <2>2 DEF Hears, ROB!Hit
  <2> QED
    BY <2>1, <2>2
<1>5. ASSUME NEW u \in updated
      PROVE  ROB!Slot(u.id) = s <=> u.id = ROB!Id(s)
  <2>1. PICK t \in ROB!Live : u.id = ROB!Id(t)
    BY InputsAre
  <2> QED
    BY <1>1, <1>2, <2>1 DEF ROB!Id, ROB!Slot
<1>6. (\E u \in updated : ROB!Slot(u.id) = s) <=> Learns(updated, s)
  <2>1. ASSUME NEW u \in updated, ROB!Slot(u.id) = s PROVE Learns(updated, s)
    <3>1. u.id = ROB!Id(s)
      BY <1>5, <2>1
    <3>2. s \in ROB!Live /\ ~robClear /\ ~ready[s] /\ robPayload[s].op = "STORE"
      BY <1>3, <3>1, InputsAre
    <3> QED
      BY <3>1, <3>2 DEF Learns
  <2>2. ASSUME Learns(updated, s) PROVE \E u \in updated : ROB!Slot(u.id) = s
    BY <1>5, <2>2 DEF Learns
  <2> QED
    BY <2>1, <2>2
<1> QED
  BY <1>2, <1>4, <1>5, <1>6 DEF Hears, Learns

(* The payload of every slot.                                              *)
LEMMA PayloadStep ==
  ASSUME RobInv, NEW heard, NEW dispatched, NEW updated, Inputs(heard, dispatched, updated),
         NEW lsFull \in BOOLEAN, ROB!Tick(heard, dispatched, updated, lsFull), NEW s \in Slots
  PROVE  /\ \/ \E m \in heard : /\ Hears(heard, s)
                                /\ robPayload'[s] = ROB!WithResult(robPayload[s], m.result)
            \/ s = robTail /\ robPayload'[s] \in dispatched
            \/ \E u \in updated : /\ Learns(updated, s) /\ u.id = ROB!Id(s)
                                  /\ robPayload'[s] = u.payload
            \/ ~Hears(heard, s) /\ ~Learns(updated, s) /\ robPayload'[s] = robPayload[s]
         /\ s = robTail /\ dispatched # {} => robPayload'[s] \in dispatched
         /\ DOMAIN robPayload' = Slots
<1> DEFINE results == {<<t, m.result>> : t \in ROB!Hit(heard), m \in heard}
           writes ==
             {<<w[1], ROB!WithResult(robPayload[w[1]], w[2])>> : w \in results}
             \cup {<<robTail, p>> : p \in dispatched}
             \cup {<<ROB!Slot(u.id), u.payload>> : u \in updated}
<1>1. robPayload' = Written(robPayload, writes) /\ DOMAIN robPayload = Slots
  BY Shared DEF ROB!Tick, RobInv
<1>2. ASSUME NEW w \in writes
      PROVE  \/ \E t \in ROB!Hit(heard), m \in heard :
                  w = <<t, ROB!WithResult(robPayload[t], m.result)>>
             \/ \E p \in dispatched : w = <<robTail, p>>
             \/ \E u \in updated : w = <<ROB!Slot(u.id), u.payload>>
  <2>1. \/ \E v \in results : w = <<v[1], ROB!WithResult(robPayload[v[1]], v[2])>>
        \/ \E p \in dispatched : w = <<robTail, p>>
        \/ \E u \in updated : w = <<ROB!Slot(u.id), u.payload>>
    <3> HIDE DEF results
    <3> QED
      BY Zenon
  <2>2. CASE \E v \in results : w = <<v[1], ROB!WithResult(robPayload[v[1]], v[2])>>
    BY <2>2
  <2> QED
    BY <2>1, <2>2
<1>3. /\ \A t \in ROB!Hit(heard), m \in heard :
           \E w \in writes : w[1] = t
      /\ \A p \in dispatched : <<robTail, p>> \in writes
      /\ \A u \in updated : <<ROB!Slot(u.id), u.payload>> \in writes
  <2>1. ASSUME NEW t \in ROB!Hit(heard), NEW m \in heard
        PROVE  \E w \in writes : w[1] = t
    <3> DEFINE v == <<t, m.result>>
    <3>1. v \in results /\ v[1] = t
      OBVIOUS
    <3> HIDE DEF v, results
    <3>2. <<v[1], ROB!WithResult(robPayload[v[1]], v[2])>> \in writes
      BY <3>1
    <3> HIDE DEF writes
    <3> QED
      BY <3>1, <3>2
  <2> QED
    BY <2>1
<1> HIDE DEF writes
<1>4. \/ \E w \in writes : w[1] = s /\ robPayload'[s] = w[2]
      \/ (~\E w \in writes : w[1] = s) /\ robPayload'[s] = robPayload[s]
  BY <1>1, WrittenAt
<1>5. ASSUME NEW w \in writes, w[1] = s, robPayload'[s] = w[2]
      PROVE  \/ \E m \in heard : /\ Hears(heard, s)
                                 /\ robPayload'[s] = ROB!WithResult(robPayload[s], m.result)
             \/ s = robTail /\ robPayload'[s] \in dispatched
             \/ \E u \in updated : /\ Learns(updated, s) /\ u.id = ROB!Id(s)
                                   /\ robPayload'[s] = u.payload
  <2>1. CASE \E t \in ROB!Hit(heard), m \in heard :
               w = <<t, ROB!WithResult(robPayload[t], m.result)>>
    <3>1. PICK t \in ROB!Hit(heard), m \in heard :
            w = <<t, ROB!WithResult(robPayload[t], m.result)>>
      BY <2>1
    <3>2. t = s /\ robPayload'[s] = ROB!WithResult(robPayload[s], m.result)
      BY <1>5, <3>1
    <3> QED
      BY <3>2, HitsAre
  <2>2. CASE \E p \in dispatched : w = <<robTail, p>>
    BY <1>5, <2>2
  <2>3. CASE \E u \in updated : w = <<ROB!Slot(u.id), u.payload>>
    <3>1. PICK u \in updated : w = <<ROB!Slot(u.id), u.payload>>
      BY <2>3
    <3>2. ROB!Slot(u.id) = s /\ robPayload'[s] = u.payload
      BY <1>5, <3>1
    <3> QED
      BY <3>2, HitsAre
  <2> QED
    BY <1>2, <2>1, <2>2, <2>3
<1>6. ASSUME ~\E w \in writes : w[1] = s
      PROVE  ~Hears(heard, s) /\ ~Learns(updated, s)
  <2>1. ASSUME Hears(heard, s) PROVE FALSE
    <3>1. s \in ROB!Hit(heard) /\ \E m \in heard : TRUE
      BY <2>1, HitsAre DEF Hears
    <3> QED
      BY <1>3, <1>6, <3>1
  <2>2. ASSUME Learns(updated, s) PROVE FALSE
    <3>1. PICK u \in updated : ROB!Slot(u.id) = s
      BY <2>2, HitsAre
    <3>2. <<ROB!Slot(u.id), u.payload>> \in writes
      BY <1>3
    <3> QED
      BY <1>6, <3>1, <3>2
  <2> QED
    BY <2>1, <2>2
<1>7. ASSUME s = robTail, dispatched # {}
      PROVE  robPayload'[s] \in dispatched
  <2>1. PICK p \in dispatched : TRUE
    BY <1>7
  <2>2. \E w \in writes : w[1] = s
    BY <1>3, <1>7, <2>1
  <2>3. PICK w \in writes : w[1] = s /\ robPayload'[s] = w[2]
    BY <1>4, <2>2
  <2>4. ~Hears(heard, s) /\ ~Learns(updated, s)
    BY <1>7, HitsAre
  <2> QED
    BY <1>5, <2>3, <2>4
<1>8. DOMAIN robPayload' = Slots
  BY <1>1 DEF Written
<1> QED
  BY <1>4, <1>5, <1>6, <1>7, <1>8


(* The ready bit of slot s.                                                *)
ReadyAfter(heard, dispatched, updated, lsFull, s) ==
  /\ Hears(heard, s) => ready'[s] = TRUE
  /\ s = robTail /\ dispatched # {} => ready'[s] = FALSE
  /\ \A u \in updated : Learns(updated, s) /\ u.id = ROB!Id(s) => ready'[s] = u.ready
  /\ \/ Hears(heard, s) \/ Learns(updated, s) \/ (s = robTail /\ dispatched # {})
     \/ (s = robHead /\ ROB!Pops(lsFull))
     \/ ready'[s] = ready[s]

LEMMA ReadyStep ==
  ASSUME RobInv, NEW heard, NEW dispatched, NEW updated, Inputs(heard, dispatched, updated),
         NEW lsFull \in BOOLEAN, ROB!Tick(heard, dispatched, updated, lsFull), NEW s \in Slots
  PROVE  /\ ReadyAfter(heard, dispatched, updated, lsFull, s)
         /\ ready'[s] \in BOOLEAN
         /\ DOMAIN ready' = Slots
<1> DEFINE writes ==
             {<<t, TRUE>> : t \in ROB!Hit(heard)}
             \cup {<<robTail, FALSE>> : p \in dispatched}
             \cup {<<ROB!Slot(u.id), TRUE>> : u \in {v \in updated : v.ready}}
             \cup {<<t, FALSE>> : t \in {h \in {robHead} : ROB!Pops(lsFull)}}
<1>1. ready' = Written(ready, writes) /\ DOMAIN ready = Slots /\ ready[s] \in BOOLEAN
  BY Shared DEF ROB!Tick, RobInv
<1>2. ASSUME NEW w \in writes
      PROVE  \/ w[1] \in ROB!Hit(heard) /\ w[2] = TRUE
             \/ dispatched # {} /\ w[1] = robTail /\ w[2] = FALSE
             \/ \E u \in updated : u.ready /\ w[1] = ROB!Slot(u.id) /\ w[2] = TRUE
             \/ ROB!Pops(lsFull) /\ w[1] = robHead /\ w[2] = FALSE
  <2>1. \/ \E t \in ROB!Hit(heard) : w = <<t, TRUE>>
        \/ \E p \in dispatched : w = <<robTail, FALSE>>
        \/ \E u \in {v \in updated : v.ready} : w = <<ROB!Slot(u.id), TRUE>>
        \/ \E t \in {h \in {robHead} : ROB!Pops(lsFull)} : w = <<t, FALSE>>
    BY Zenon
  <2>2. CASE \E t \in ROB!Hit(heard) : w = <<t, TRUE>>
    BY <2>2
  <2>3. CASE \E p \in dispatched : w = <<robTail, FALSE>>
    BY <2>3
  <2>4. CASE \E u \in {v \in updated : v.ready} : w = <<ROB!Slot(u.id), TRUE>>
    BY <2>4
  <2>5. CASE \E t \in {h \in {robHead} : ROB!Pops(lsFull)} : w = <<t, FALSE>>
    BY <2>5
  <2> QED
    BY <2>1, <2>2, <2>3, <2>4, <2>5
<1>3. /\ \A t \in ROB!Hit(heard) : <<t, TRUE>> \in writes
      /\ dispatched # {} => <<robTail, FALSE>> \in writes
      /\ \A u \in updated : u.ready => <<ROB!Slot(u.id), TRUE>> \in writes
  <2>1. \A t \in ROB!Hit(heard) : <<t, TRUE>> \in writes
    OBVIOUS
  <2>2. dispatched # {} => <<robTail, FALSE>> \in writes
    OBVIOUS
  <2>3. ASSUME NEW u \in updated, u.ready PROVE <<ROB!Slot(u.id), TRUE>> \in writes
    <3>1. u \in {v \in updated : v.ready}
      BY <2>3
    <3>2. <<ROB!Slot(u.id), TRUE>> \in {<<ROB!Slot(v.id), TRUE>> : v \in {v \in updated : v.ready}}
      BY <3>1, Zenon
    <3> QED
      BY <3>2, Zenon
  <2> QED
    BY <2>1, <2>2, <2>3
<1> HIDE DEF writes
<1>4. \/ \E w \in writes : w[1] = s /\ ready'[s] = w[2]
      \/ (~\E w \in writes : w[1] = s) /\ ready'[s] = ready[s]
  BY <1>1, WrittenAt
<1>5. ASSUME ROB!Pops(lsFull), s = robHead
      PROVE  s # robTail /\ ready[s]
  BY <1>5 DEF ROB!Pops, ROB!Commits, ROB!robs!Empty
<1>6. /\ s \in ROB!Hit(heard) <=> Hears(heard, s)
      /\ (\E u \in updated : ROB!Slot(u.id) = s) <=> Learns(updated, s)
      /\ \A u \in updated : ROB!Slot(u.id) = s <=> u.id = ROB!Id(s)
      /\ s = robTail => ~Hears(heard, s) /\ ~Learns(updated, s)
      /\ ~(Hears(heard, s) /\ Learns(updated, s))
      /\ ready[s] => ~Hears(heard, s) /\ ~Learns(updated, s)
  BY HitsAre
<1>7. ASSUME Hears(heard, s) PROVE ready'[s] = TRUE
  <2>1. <<s, TRUE>> \in writes
    BY <1>3, <1>6, <1>7
  <2>2. PICK w \in writes : w[1] = s /\ ready'[s] = w[2]
    BY <1>4, <2>1
  <2> QED
    BY <1>2, <1>5, <1>6, <1>7, <2>2
<1>8. ASSUME s = robTail, dispatched # {} PROVE ready'[s] = FALSE
  <2>1. <<s, FALSE>> \in writes
    BY <1>3, <1>8
  <2>2. PICK w \in writes : w[1] = s /\ ready'[s] = w[2]
    BY <1>4, <2>1
  <2> QED
    BY <1>2, <1>5, <1>6, <1>8, <2>2
<1>9. ASSUME NEW u \in updated, Learns(updated, s), u.id = ROB!Id(s)
      PROVE  ready'[s] = u.ready
  <2>1. \A v \in updated : v = u
    BY InputsAre
  <2>2. u.ready \in BOOLEAN
    <3>1. u.ready = (u.payload.addrReady /\ u.payload.valueReady)
      <4>1. u \in Updates
        BY InputsAre
      <4> QED
        BY <4>1, UpdateIs
    <3>2. (u.payload.addrReady /\ u.payload.valueReady) \in BOOLEAN
      OBVIOUS
    <3> QED
      BY <3>1, <3>2, Zenon
  <2>3. CASE u.ready
    <3>1. <<s, TRUE>> \in writes
      BY <1>3, <1>6, <1>9, <2>3
    <3>2. PICK w \in writes : w[1] = s /\ ready'[s] = w[2]
      BY <1>4, <3>1
    <3> QED
      BY <1>2, <1>5, <1>6, <1>9, <2>2, <2>3, <3>2
  <2>4. CASE ~u.ready
    <3>1. ~\E w \in writes : w[1] = s
      BY <1>2, <1>5, <1>6, <1>9, <2>1, <2>4
    <3>2. ready'[s] = ready[s] /\ ready[s] = FALSE
      BY <1>1, <1>4, <1>9, <3>1 DEF Learns
    <3> QED
      BY <2>2, <2>4, <3>2
  <2> QED
    BY <2>2, <2>3, <2>4
<1>10. \/ Hears(heard, s) \/ Learns(updated, s) \/ (s = robTail /\ dispatched # {})
       \/ (s = robHead /\ ROB!Pops(lsFull))
       \/ ready'[s] = ready[s]
  <2> SUFFICES ASSUME ~Hears(heard, s), ~Learns(updated, s), ~(s = robTail /\ dispatched # {}),
                      ~(s = robHead /\ ROB!Pops(lsFull))
               PROVE  ready'[s] = ready[s]
    OBVIOUS
  <2>1. ~\E w \in writes : w[1] = s
    BY <1>2, <1>6
  <2> QED
    BY <1>4, <2>1
<1>11. ready'[s] \in BOOLEAN
  <2>1. \A w \in writes : w[2] = TRUE \/ w[2] = FALSE
    BY <1>2
  <2> QED
    BY <1>1, <1>4, <2>1
<1>12. DOMAIN ready' = Slots
  BY <1>1 DEF Written
<1>13. ReadyAfter(heard, dispatched, updated, lsFull, s)
  BY <1>7, <1>8, <1>9, <1>10, Zenon DEF ReadyAfter
<1> QED
  BY <1>11, <1>12, <1>13


(* Every slot keeps holding a payload that inst_dispatch could have left.  *)
LEMMA PayloadType ==
  ASSUME RobInv, NEW heard, NEW dispatched, NEW updated, Inputs(heard, dispatched, updated),
         NEW lsFull \in BOOLEAN, ROB!Tick(heard, dispatched, updated, lsFull), NEW s \in Slots
  PROVE  robPayload'[s] \in Payloads
<1>1. robPayload[s] \in Payloads
  BY DEF RobInv
<1>2. CASE \E m \in heard : robPayload'[s] = ROB!WithResult(robPayload[s], m.result)
  <2>1. PICK m \in heard : robPayload'[s] = ROB!WithResult(robPayload[s], m.result)
    BY <1>2
  <2>2. m.result \in Word
    BY InputsAre
  <2> QED
    BY <1>1, <2>1, <2>2, ResultType
<1>3. CASE robPayload'[s] \in dispatched
  BY <1>3, InputsAre
<1>4. CASE \E u \in updated : /\ Learns(updated, s) /\ u.id = ROB!Id(s)
                              /\ robPayload'[s] = u.payload
  <2>1. PICK u \in updated : u.id = ROB!Id(s) /\ robPayload'[s] = u.payload
    BY <1>4
  <2>2. PICK t \in ROB!Live : u.id = ROB!Id(t) /\ u.payload \in Learnt(robPayload[t])
    BY InputsAre
  <2>3. robPayload[t] \in Payloads
    BY <2>2, Shape DEF RobInv
  <2> QED
    BY <2>1, <2>2, <2>3, LearntAre
<1>5. CASE robPayload'[s] = robPayload[s]
  BY <1>1, <1>5
<1> QED
  BY <1>2, <1>3, <1>4, <1>5, PayloadStep

(* The ring after a tick.                                                  *)
LEMMA RingStep ==
  ASSUME RobInv, NEW heard, NEW dispatched, NEW updated, Inputs(heard, dispatched, updated),
         NEW lsFull \in BOOLEAN, ROB!Tick(heard, dispatched, updated, lsFull)
  PROVE  /\ robClear => robHead' = 0 /\ robTail' = 0
         /\ ~robClear => /\ robHead' = IF ROB!Pops(lsFull) THEN After(robHead) ELSE robHead
                         /\ robTail' = IF dispatched # {} THEN After(robTail) ELSE robTail
         /\ robClear' = ROB!Flushes
         /\ robHead' \in Slots /\ robTail' \in Slots /\ robClear' \in BOOLEAN
<1>1. ROB!robs!Move(dispatched # {}, ROB!Pops(lsFull), ROB!Flushes)
  BY DEF ROB!Tick
<1>2. robHead \in Slots /\ robTail \in Slots /\ robClear \in BOOLEAN
  BY DEF RobInv
<1>3. 0 \in Slots
  BY RobUnitAssumption DEF Slots
<1>4. /\ ROB!robs!Trunc(robHead + 1) = After(robHead) /\ After(robHead) \in Slots
      /\ ROB!robs!Trunc(robTail + 1) = After(robTail) /\ After(robTail) \in Slots
  BY <1>2, Remainders
<1>5. ROB!Pops(lsFull) => ~ROB!robs!Empty
  BY DEF ROB!Pops, ROB!Commits
<1>6. dispatched # {} => ~ROB!robs!Full
  BY InputsAre DEF ROB!Full
<1>7. ROB!Flushes \in BOOLEAN
  BY DEF ROB!Flushes, ROB!Commits
<1> QED
  BY <1>1, <1>2, <1>3, <1>4, <1>5, <1>6, <1>7 DEF ROB!robs!Move

LEMMA RobInvInit == Init => RobInv
<1> SUFFICES ASSUME Init PROVE RobInv
  OBVIOUS
<1>1. /\ robHead = 0 /\ robTail = 0 /\ robClear = FALSE /\ hcf = FALSE
      /\ ready = [s \in Slots |-> FALSE] /\ robPayload = [s \in Slots |-> ROB!ZeroEntry]
  BY Shared DEF Init, ROB!Init
<1>2. 0 \in Slots
  BY RobUnitAssumption DEF Slots
<1>3. ROB!ZeroEntry \in Payloads
  <2>1. 0 \in Word /\ 0 \in Reg /\ "BYTE" \in Sizes
    BY Rv32iAssumption DEF Word, Reg, Sizes
  <2> QED
    BY <2>1, Shared DEF ROB!ZeroEntry, Payloads, ROB!RobPayload
<1> QED
  BY <1>1, <1>2, <1>3 DEF RobInv

LEMMA RobInvStep == RobInv /\ [Next]_robUnitVars => RobInv'
<1> SUFFICES ASSUME RobInv, [Next]_robUnitVars PROVE RobInv'
  OBVIOUS
<1>1. CASE UNCHANGED robUnitVars
  BY <1>1 DEF robUnitVars, RobInv
<1>2. CASE Next
  <2>1. PICK heard \in AtMostOne(Messages), lsFull \in BOOLEAN,
             dispatched \in AtMostOne(IF ROB!Full \/ robClear THEN {} ELSE Fresh),
             updated \in AtMostOne(IF robClear THEN {} ELSE Updates) :
          Tick(heard, dispatched, updated, lsFull)
    BY <1>2 DEF Next
  <2>2. Inputs(heard, dispatched, updated)
    BY DEF Inputs
  <2>3. ROB!Tick(heard, dispatched, updated, lsFull) /\ hcf' = ROB!Halts
    BY <2>1 DEF Tick
  <2>4. hcf' \in BOOLEAN
    BY <2>3 DEF ROB!Halts, ROB!Commits
  <2>5. robHead' \in Slots /\ robTail' \in Slots /\ robClear' \in BOOLEAN
    BY <2>2, <2>3, RingStep
  <2>6. ready' \in [Slots -> BOOLEAN]
    <3>1. \A s \in Slots : ready'[s] \in BOOLEAN
      BY <2>2, <2>3, ReadyStep
    <3>2. ready' = [s \in DOMAIN ready |-> ready'[s]] /\ DOMAIN ready = Slots
      <4>1. ready' = [s \in DOMAIN ready' |-> ready'[s]] /\ DOMAIN ready' = DOMAIN ready
        BY <2>3 DEF ROB!Tick, ROB!Written
      <4> QED
        BY <4>1 DEF RobInv
    <3> QED
      BY <3>1, <3>2
  <2>7. robPayload' \in [Slots -> Payloads]
    <3>1. \A s \in Slots : robPayload'[s] \in Payloads
      BY <2>2, <2>3, PayloadType
    <3>2. robPayload' = [s \in DOMAIN robPayload |-> robPayload'[s]] /\ DOMAIN robPayload = Slots
      <4>1. robPayload' = [s \in DOMAIN robPayload' |-> robPayload'[s]]
            /\ DOMAIN robPayload' = DOMAIN robPayload
        BY <2>3 DEF ROB!Tick, ROB!Written
      <4> QED
        BY <4>1 DEF RobInv
    <3> QED
      BY <3>1, <3>2
  <2> QED
    BY <2>4, <2>5, <2>6, <2>7 DEF RobInv
<1> QED
  BY <1>1, <1>2

LEMMA RobInvAlways == Spec => []RobInv
BY RobInvInit, RobInvStep, PTL DEF Spec


-----------------------------------------------------------------------------
(* The window.                                                             *)

(* Entries as records.                                                     *)
Cell(p, id, done) ==
  [op |-> p.op, value |-> p.value, pc |-> p.pc, dest |-> p.dest, size |-> p.size,
   addr |-> p.addr, addrReady |-> p.addrReady, valueReady |-> p.valueReady,
   fallback |-> p.fallback, take |-> p.take, predictedAddr |-> p.predictedAddr,
   id |-> id, done |-> done]

LEMMA CellIs ==
  ASSUME NEW p \in Payloads, NEW id, NEW done
  PROVE  [f \in DOMAIN p \cup {"id", "done"} |->
           IF f = "id" THEN id ELSE IF f = "done" THEN done ELSE p[f]] = Cell(p, id, done)
<1> DEFINE names == {"op", "value", "pc", "dest", "size", "addr", "addrReady", "valueReady",
                     "fallback", "take", "predictedAddr"}
<1>1. DOMAIN p = names
  BY DEF Payloads, ROB!RobPayload
<1> DEFINE g(f) == IF f = "id" THEN id ELSE IF f = "done" THEN done ELSE p[f]
<1>2. [f \in names \cup {"id", "done"} |-> g(f)] = Cell(p, id, done)
  BY DEF Cell
<1> QED
  BY <1>1, <1>2

(* The live cells, oldest first.                                           *)
At1(k) == At(robHead, k - 1)
Cells == [k \in 1 .. Far(robHead, robTail) |->
           Cell(robPayload[At1(k)], ROB!Id(At1(k)), ready[At1(k)])]

LEMMA WindowIs == RobInv => Window = IF robClear THEN <<>> ELSE Cells
<1> SUFFICES ASSUME RobInv, ~robClear PROVE Window = Cells
  BY DEF Window
<1> DEFINE n == Far(robHead, robTail)
<1>1. n \in Slots /\ n = ROB!robs!Length
  BY Shape
<1>2. ASSUME NEW k \in 1 .. n
      PROVE  Entry(ROB!robs!Nth(k - 1)) = Cell(robPayload[At1(k)], ROB!Id(At1(k)), ready[At1(k)])
  <2>1. k - 1 \in Slots
    BY <1>1, RobUnitAssumption DEF Slots
  <2>2. ROB!robs!Nth(k - 1) = At1(k) /\ At1(k) \in Slots
    BY <2>1, Shape DEF At1
  <2>3. robPayload[At1(k)] \in Payloads
    BY <2>2 DEF RobInv
  <2>4. Entry(At1(k)) = Cell(robPayload[At1(k)], ROB!Id(At1(k)), ready[At1(k)])
    BY <2>3, CellIs, Zenon DEF Entry
  <2> QED
    BY <2>2, <2>4
<1>3. Window = [k \in 1 .. n |-> Entry(ROB!robs!Nth(k - 1))]
  BY <1>1 DEF Window
<1> HIDE DEF n
<1>4. Window = [k \in 1 .. n |-> Cell(robPayload[At1(k)], ROB!Id(At1(k)), ready[At1(k)])]
  BY <1>2, <1>3, Zenon
<1> QED
  BY <1>4, Zenon DEF Cells, n

(* Cells are functions on their fields.                                    *)
Names == {"op", "value", "pc", "dest", "size", "addr", "addrReady", "valueReady", "fallback",
          "take", "predictedAddr", "id", "done"}

LEMMA SameCell ==
  ASSUME NEW c, NEW d, c = [f \in Names |-> c[f]], d = [f \in Names |-> d[f]],
         \A f \in Names : c[f] = d[f]
  PROVE  c = d
<1> HIDE DEF Names
<1> QED
  OBVIOUS

LEMMA CellFields ==
  ASSUME NEW p, NEW id, NEW done, NEW c, c = Cell(p, id, done)
  PROVE  /\ c = [f \in Names |-> c[f]]
         /\ c.op = p.op /\ c.pc = p.pc /\ c.dest = p.dest /\ c.size = p.size
         /\ c.fallback = p.fallback /\ c.take = p.take /\ c.predictedAddr = p.predictedAddr
         /\ c.value = p.value /\ c.valueReady = p.valueReady
         /\ c.addr = p.addr /\ c.addrReady = p.addrReady
         /\ c.id = id /\ c.done = done
BY DEF Names, Cell

(* A result in a cell.                                                     *)
LEMMA CellHears ==
  ASSUME NEW p \in Payloads, NEW r \in Word, NEW id, NEW done
  PROVE  Abstract!Hears(Cell(p, id, done), r) = Cell(ROB!WithResult(p, r), id, TRUE)
<1> DEFINE q == ROB!WithResult(p, r)
           value == IF p.op = "JALR" THEN p.value ELSE r
           addr == IF p.op = "JALR" THEN r ELSE p.addr
           c == Cell(p, id, done)
           yes == TRUE
           d == Cell(q, id, yes)
           e == [c EXCEPT !.done = yes, !.value = value, !.addr = addr]
<1>1. /\ q.op = p.op /\ q.pc = p.pc /\ q.dest = p.dest /\ q.size = p.size
      /\ q.addrReady = p.addrReady /\ q.valueReady = p.valueReady
      /\ q.fallback = p.fallback /\ q.take = p.take /\ q.predictedAddr = p.predictedAddr
      /\ q.value = value /\ q.addr = addr
  <2>1. p \in ROB!RobPayload
    BY DEF Payloads
  <2>2. CASE p.op = "JALR"
    <3>1. q = [p EXCEPT !.addr = r]
      BY <2>2 DEF ROB!WithResult
    <3> HIDE DEF q
    <3> QED
      BY <2>1, <2>2, <3>1 DEF ROB!RobPayload
  <2>3. CASE p.op # "JALR"
    <3>1. q = [p EXCEPT !.value = r]
      BY <2>3 DEF ROB!WithResult
    <3> HIDE DEF q
    <3> QED
      BY <2>1, <2>3, <3>1 DEF ROB!RobPayload
  <2> QED
    BY <2>2, <2>3
<1> HIDE DEF q, value, addr, yes
<1>2. /\ c = [f \in Names |-> c[f]]
      /\ c.op = p.op /\ c.pc = p.pc /\ c.dest = p.dest /\ c.size = p.size
      /\ c.fallback = p.fallback /\ c.take = p.take /\ c.predictedAddr = p.predictedAddr
      /\ c.value = p.value /\ c.valueReady = p.valueReady
      /\ c.addr = p.addr /\ c.addrReady = p.addrReady /\ c.id = id
  BY CellFields
<1>3. /\ d = [f \in Names |-> d[f]]
      /\ d.op = q.op /\ d.pc = q.pc /\ d.dest = q.dest /\ d.size = q.size
      /\ d.fallback = q.fallback /\ d.take = q.take /\ d.predictedAddr = q.predictedAddr
      /\ d.value = q.value /\ d.valueReady = q.valueReady
      /\ d.addr = q.addr /\ d.addrReady = q.addrReady /\ d.id = id /\ d.done = yes
  BY CellFields
<1> HIDE DEF c, d
<1>4. /\ (IF c.op = "JALR" THEN c.value ELSE r) = value
      /\ (IF c.op = "JALR" THEN r ELSE c.addr) = addr
  BY <1>2 DEF value, addr
<1>5. Abstract!Hears(c, r) = e
  BY <1>4, Zenon DEF Abstract!Hears, yes
<1>6. /\ e = [f \in Names |-> e[f]]
      /\ e.op = c.op /\ e.pc = c.pc /\ e.dest = c.dest /\ e.size = c.size
      /\ e.fallback = c.fallback /\ e.take = c.take /\ e.predictedAddr = c.predictedAddr
      /\ e.addrReady = c.addrReady /\ e.valueReady = c.valueReady /\ e.id = c.id
      /\ e.addr = addr /\ e.value = value /\ e.done = yes
  <2>1. DOMAIN c = Names
    BY <1>2
  <2>2. DOMAIN e = Names
    BY <2>1
  <2>3. e = [f \in Names |-> e[f]]
    BY <2>2
  <2>4. /\ e.op = c.op /\ e.pc = c.pc /\ e.dest = c.dest /\ e.size = c.size
        /\ e.fallback = c.fallback /\ e.take = c.take /\ e.predictedAddr = c.predictedAddr
        /\ e.addrReady = c.addrReady /\ e.valueReady = c.valueReady /\ e.id = c.id
    BY <2>1 DEF Names
  <2>5. e.addr = addr /\ e.value = value /\ e.done = yes
    BY <2>1 DEF Names
  <2> QED
    BY <2>3, <2>4, <2>5
<1> HIDE DEF e
<1>7. \A f \in Names : e[f] = d[f]
  <2>1. /\ e.op = d.op /\ e.pc = d.pc /\ e.dest = d.dest /\ e.size = d.size
        /\ e.fallback = d.fallback /\ e.take = d.take /\ e.predictedAddr = d.predictedAddr
        /\ e.id = d.id
        /\ e.addr = d.addr /\ e.addrReady = d.addrReady
        /\ e.value = d.value /\ e.valueReady = d.valueReady /\ e.done = d.done
    BY <1>1, <1>2, <1>3, <1>6, Zenon
  <2> QED
    BY <2>1 DEF Names
<1>8. e = d
  BY <1>3, <1>6, <1>7, SameCell
<1> QED
  BY <1>5, <1>8, Zenon DEF c, d, q, yes

(* What a store learns in a cell.                                          *)
LEMMA CellLearns ==
  ASSUME NEW p \in Payloads, NEW q \in Learnt(p), NEW id
  PROVE  Abstract!Learns(Cell(p, id, FALSE), Cell(q, id, q.addrReady /\ q.valueReady))
<1>1. /\ q = [p EXCEPT !.addr = q.addr, !.addrReady = q.addrReady,
                       !.value = q.value, !.valueReady = q.valueReady]
      /\ LearntAddr(p, q) /\ LearntValue(p, q)
  BY LearntAre
<1> DEFINE both == q.addrReady /\ q.valueReady
           no == FALSE
           c == Cell(p, id, no)
           d == Cell(q, id, both)
           e == [c EXCEPT !.addr = d.addr, !.addrReady = d.addrReady, !.value = d.value,
                          !.valueReady = d.valueReady, !.done = d.addrReady /\ d.valueReady]
<1>2. /\ q.op = p.op /\ q.pc = p.pc /\ q.dest = p.dest /\ q.size = p.size
      /\ q.fallback = p.fallback /\ q.take = p.take /\ q.predictedAddr = p.predictedAddr
  BY <1>1 DEF Payloads, ROB!RobPayload
<1> HIDE DEF both, no
<1>3. /\ c = [f \in Names |-> c[f]]
      /\ c.op = p.op /\ c.pc = p.pc /\ c.dest = p.dest /\ c.size = p.size
      /\ c.fallback = p.fallback /\ c.take = p.take /\ c.predictedAddr = p.predictedAddr
      /\ c.value = p.value /\ c.valueReady = p.valueReady
      /\ c.addr = p.addr /\ c.addrReady = p.addrReady /\ c.id = id
  BY CellFields
<1>4. /\ d = [f \in Names |-> d[f]]
      /\ d.op = q.op /\ d.pc = q.pc /\ d.dest = q.dest /\ d.size = q.size
      /\ d.fallback = q.fallback /\ d.take = q.take /\ d.predictedAddr = q.predictedAddr
      /\ d.value = q.value /\ d.valueReady = q.valueReady
      /\ d.addr = q.addr /\ d.addrReady = q.addrReady /\ d.id = id /\ d.done = both
  BY CellFields
<1> HIDE DEF c, d
<1>5. Abstract!LearnsAddr(c, d) /\ Abstract!LearnsValue(c, d)
  <2>1. Abstract!Word = Word
    BY DEF Abstract!Word, Word
  <2>2. Abstract!LearnsAddr(c, d)
    BY <1>1, <1>3, <1>4, <2>1, Zenon DEF Abstract!LearnsAddr, LearntAddr
  <2>3. Abstract!LearnsValue(c, d)
    BY <1>1, <1>3, <1>4, <2>1, Zenon DEF Abstract!LearnsValue, LearntValue
  <2> QED
    BY <2>2, <2>3
<1>6. /\ e = [f \in Names |-> e[f]]
      /\ e.op = c.op /\ e.pc = c.pc /\ e.dest = c.dest /\ e.size = c.size
      /\ e.fallback = c.fallback /\ e.take = c.take /\ e.predictedAddr = c.predictedAddr
      /\ e.id = c.id
      /\ e.addr = d.addr /\ e.addrReady = d.addrReady
      /\ e.value = d.value /\ e.valueReady = d.valueReady
      /\ e.done = (d.addrReady /\ d.valueReady)
  <2> DEFINE done == d.addrReady /\ d.valueReady
  <2>1. e = [c EXCEPT !.addr = d.addr, !.addrReady = d.addrReady, !.value = d.value,
                      !.valueReady = d.valueReady, !.done = done]
    OBVIOUS
  <2> HIDE DEF done, e
  <2>2. DOMAIN c = Names
    BY <1>3
  <2>3. DOMAIN e = Names
    BY <2>1, <2>2
  <2>4. e = [f \in Names |-> e[f]]
    BY <2>1, <2>3
  <2>5. /\ e.op = c.op /\ e.pc = c.pc /\ e.dest = c.dest /\ e.size = c.size
        /\ e.fallback = c.fallback /\ e.take = c.take /\ e.predictedAddr = c.predictedAddr
        /\ e.id = c.id
    BY <2>1, <2>2 DEF Names
  <2>6. /\ e.addr = d.addr /\ e.addrReady = d.addrReady
        /\ e.value = d.value /\ e.valueReady = d.valueReady /\ e.done = done
    BY <2>1, <2>2 DEF Names
  <2> QED
    BY <2>4, <2>5, <2>6, Zenon DEF done
<1>7. (d.addrReady /\ d.valueReady) = both
  BY <1>4, Zenon DEF both
<1>8. e.done = d.done
  BY <1>4, <1>6, <1>7, Zenon
<1>9. \A f \in Names : d[f] = e[f]
  <2> HIDE DEF e
  <2>1. /\ e.op = d.op /\ e.pc = d.pc /\ e.dest = d.dest /\ e.size = d.size
        /\ e.fallback = d.fallback /\ e.take = d.take /\ e.predictedAddr = d.predictedAddr
        /\ e.id = d.id
        /\ e.addr = d.addr /\ e.addrReady = d.addrReady
        /\ e.value = d.value /\ e.valueReady = d.valueReady
    BY <1>2, <1>3, <1>4, <1>6, Zenon
  <2> QED
    BY <1>8, <2>1 DEF Names
<1>10. d = e
  <2> HIDE DEF e
  <2> QED
    BY <1>4, <1>6, <1>9, SameCell
<1> QED
  BY <1>5, <1>10, Zenon DEF Abstract!Learns, c, d, both, no


(* The entry of a slot a tick later.                                       *)
LEMMA EntryBecomes ==
  ASSUME RobInv, ~robClear, NEW heard, NEW dispatched, NEW updated,
         Inputs(heard, dispatched, updated), NEW lsFull \in BOOLEAN,
         ROB!Tick(heard, dispatched, updated, lsFull), effect'.heard = heard,
         NEW s \in ROB!Live, ~(s = robHead /\ ROB!Pops(lsFull))
  PROVE  Abstract!Becomes(Cell(robPayload[s], ROB!Id(s), ready[s]),
                          Cell(robPayload'[s], ROB!Id(s), ready'[s]))
<1> DEFINE p == robPayload[s]
           q == robPayload'[s]
           id == ROB!Id(s)
           old == Cell(p, id, ready[s])
           new == Cell(q, id, ready'[s])
           hit == \E m \in effect'.heard : m.rob = old.id /\ old.op # "STORE" /\ ~old.done
<1> SUFFICES Abstract!Becomes(old, new)
  OBVIOUS
<1>1. s \in Slots /\ s # robTail /\ p \in Payloads /\ ready[s] \in BOOLEAN
  BY Shape DEF RobInv
<1>2. old.id = id /\ old.op = p.op /\ old.done = ready[s]
  BY Zenon DEF Cell
<1>3. hit <=> Hears(heard, s)
  <2>1. hit <=> \E m \in heard : m.rob = id /\ p.op # "STORE" /\ ~ready[s]
    <3> HIDE DEF old
    <3> QED
      BY <1>2, Zenon
  <2> HIDE DEF old, hit
  <2> QED
    BY <2>1 DEF Hears
<1> DEFINE result == (CHOOSE m \in effect'.heard : TRUE).result
           kept == new = old \/ (old.op = "STORE" /\ ~old.done /\ Abstract!Learns(old, new))
<1>8. /\ Hears(heard, s) /\ new = Abstract!Hears(old, result) => Abstract!Becomes(old, new)
      /\ ~Hears(heard, s) /\ kept => Abstract!Becomes(old, new)
  <2>1. Abstract!Becomes(old, new) <=> IF hit THEN new = Abstract!Hears(old, result) ELSE kept
    <3> HIDE DEF old, new
    <3> QED
      BY Zenon DEF Abstract!Becomes
  <2> HIDE DEF hit, kept, result, old, new
  <2> QED
    BY <1>3, <2>1
<1>9. /\ Hears(heard, s) => ready'[s] = TRUE
      /\ \A u \in updated : Learns(updated, s) /\ u.id = ROB!Id(s) => ready'[s] = u.ready
      /\ \/ Hears(heard, s) \/ Learns(updated, s) \/ (s = robTail /\ dispatched # {})
         \/ (s = robHead /\ ROB!Pops(lsFull))
         \/ ready'[s] = ready[s]
  <2>1. ReadyAfter(heard, dispatched, updated, lsFull, s)
    BY <1>1, ReadyStep
  <2> QED
    BY <2>1, Zenon DEF ReadyAfter
<1> HIDE DEF kept, result
<1>4. CASE \E m \in heard : Hears(heard, s) /\ q = ROB!WithResult(p, m.result)
  <2>1. PICK m \in heard : Hears(heard, s) /\ q = ROB!WithResult(p, m.result)
    BY <1>4
  <2>2. (CHOOSE n \in effect'.heard : TRUE) = m
    <3>1. m.result \in Word /\ \A n \in heard : n = m
      BY <2>1, InputsAre
    <3> QED
      BY <2>1, <3>1
  <2>3. m.result \in Word
    BY <2>1, InputsAre
  <2>4. ready'[s] = TRUE
    BY <1>9, <2>1
  <2>5. new = Abstract!Hears(old, m.result)
    <3>1. Abstract!Hears(old, m.result) = Cell(ROB!WithResult(p, m.result), id, TRUE)
      <4> HIDE DEF p, id
      <4> QED
        BY <1>1, <2>3, CellHears
    <3> QED
      BY <2>1, <2>4, <3>1, Zenon
  <2> HIDE DEF old, new
  <2> QED
    BY <1>8, <2>1, <2>2, <2>5, Zenon DEF result
<1>5. CASE \E u \in updated : Learns(updated, s) /\ u.id = id /\ q = u.payload
  <2>1. PICK u \in updated : Learns(updated, s) /\ u.id = id /\ q = u.payload
    BY <1>5
  <2>2. ~Hears(heard, s) /\ p.op = "STORE" /\ ~ready[s]
    BY <2>1 DEF Learns, Hears
  <2>3. q \in Learnt(p) /\ u.ready = (q.addrReady /\ q.valueReady)
    <3>1. PICK t \in ROB!Live : /\ u.id = ROB!Id(t) /\ u.payload \in Learnt(robPayload[t])
                                /\ u.ready = (u.payload.addrReady /\ u.payload.valueReady)
      <4>1. u \in Updates
        BY <2>1, InputsAre
      <4> QED
        BY <4>1, UpdateIs
    <3>2. t = s
      <4>1. t \in Int /\ s \in Int
        BY <1>1, Shape DEF Slots
      <4> QED
        BY <2>1, <3>1, <4>1 DEF ROB!Id
    <3> QED
      BY <2>1, <3>1, <3>2, Zenon
  <2>4. ready'[s] = u.ready
    BY <1>9, <2>1, Zenon
  <2>5. Abstract!Learns(old, new)
    <3> DEFINE both == q.addrReady /\ q.valueReady
    <3>1. ready[s] = FALSE
      BY <1>1, <2>2
    <3>2. Abstract!Learns(Cell(p, id, FALSE), Cell(q, id, both))
      <4> HIDE DEF p, q, id
      <4> QED
        BY <1>1, <2>3, CellLearns, Zenon
    <3>3. ready'[s] = both
      BY <2>3, <2>4, Zenon
    <3> HIDE DEF both
    <3> QED
      BY <3>1, <3>2, <3>3, Zenon
  <2> HIDE DEF old, new
  <2> QED
    BY <1>2, <1>8, <2>2, <2>5, Zenon DEF kept
<1>6. CASE ~Hears(heard, s) /\ ~Learns(updated, s) /\ q = p
  <2>1. ready'[s] = ready[s]
    BY <1>1, <1>6, <1>9, Zenon
  <2>2. new = old
    BY <1>6, <2>1, Zenon
  <2> HIDE DEF old, new
  <2> QED
    BY <1>6, <1>8, <2>2, Zenon DEF kept
<1>7. \/ \E m \in heard : Hears(heard, s) /\ q = ROB!WithResult(p, m.result)
      \/ \E u \in updated : Learns(updated, s) /\ u.id = id /\ q = u.payload
      \/ ~Hears(heard, s) /\ ~Learns(updated, s) /\ q = p
  BY <1>1, PayloadStep
<1> QED
  BY <1>4, <1>5, <1>6, <1>7


-----------------------------------------------------------------------------
(* The window a tick later.                                                *)

(* The cell at place k.                                                    *)
CellAt(k) == Cell(robPayload[At1(k)], ROB!Id(At1(k)), ready[At1(k)])

LEMMA OpenWindow ==
  RobInv /\ ~robClear =>
    /\ Window = [k \in 1 .. Far(robHead, robTail) |-> CellAt(k)]
    /\ Len(Window) = Far(robHead, robTail)
<1> SUFFICES ASSUME RobInv, ~robClear
             PROVE  /\ Window = [k \in 1 .. Far(robHead, robTail) |-> CellAt(k)]
                    /\ Len(Window) = Far(robHead, robTail)
  OBVIOUS
<1> DEFINE n == Far(robHead, robTail)
<1>1. n \in Nat
  BY Shape, RobUnitAssumption DEF Slots
<1>2. Window = Cells
  BY WindowIs
<1>3. Cells = [k \in 1 .. n |-> CellAt(k)]
  BY Zenon DEF Cells, CellAt
<1> HIDE DEF n
<1>4. Len(Window) = n
  BY <1>1, <1>2, <1>3
<1> QED
  BY <1>2, <1>3, <1>4, Zenon DEF n

LEMMA LateWindow ==
  RobInv' /\ ~robClear' =>
    /\ Window' = [k \in 1 .. Far(robHead', robTail') |-> CellAt(k)']
    /\ Len(Window') = Far(robHead', robTail')
<1> DEFINE Same == RobInv /\ ~robClear =>
                     /\ Window = [k \in 1 .. Far(robHead, robTail) |-> CellAt(k)]
                     /\ Len(Window) = Far(robHead, robTail)
           Late == RobInv' /\ ~robClear' =>
                     /\ Window' = [k \in 1 .. Far(robHead', robTail') |-> CellAt(k)']
                     /\ Len(Window') = Far(robHead', robTail')
<1>1. Same
  BY OpenWindow
<1>2. Same' => Late
  BY DEF Far
<1> HIDE DEF Same, Late
<1>3. Late
  BY <1>1, <1>2, PTL
<1> QED
  BY <1>3 DEF Late


(* Without a flush the window loses its oldest entry if that pops, its     *)
(* entries go on learning, and dispatch adds one.                          *)
LEMMA Continuing ==
  ASSUME RobInv, RobInv', ~robClear, ~robClear', NEW heard, NEW dispatched, NEW updated,
         Inputs(heard, dispatched, updated), NEW lsFull \in BOOLEAN,
         ROB!Tick(heard, dispatched, updated, lsFull), effect'.heard = heard,
         NEW left, left = IF ROB!Pops(lsFull) THEN 1 ELSE 0
  PROVE  Abstract!Continues(left)
<1> DEFINE n == Far(robHead, robTail)
           n2 == Far(robHead', robTail')
           stay == n - left
           pop == ROB!Pops(lsFull)
           push == dispatched # {}
           FreshCells == {[f \in DOMAIN p \cup {"id", "done"} |->
                            IF f = "id" THEN 0 ELSE IF f = "done" THEN FALSE ELSE p[f]] :
                              p \in Fresh}
<1>1. /\ robHead \in Slots /\ robTail \in Slots /\ n \in Slots /\ n \in Nat
      /\ n <= RobCapacity - 1
      /\ \A k \in 0 .. n - 1 : At(robHead, k) \in ROB!Live /\ At(robHead, k) \in Slots
  <2>1. robHead \in Slots /\ robTail \in Slots /\ n \in Slots
        /\ ROB!Live = {At(robHead, k) : k \in 0 .. n - 1} /\ ROB!Live \subseteq Slots
    BY Shape DEF RobInv
  <2> HIDE DEF n
  <2> QED
    BY <2>1, RobUnitAssumption DEF Slots
<1>2. /\ pop => robHead # robTail
      /\ push => robHead # After(robTail)
      /\ pop \in BOOLEAN /\ push \in BOOLEAN
  <2>1. pop => robHead # robTail
    BY DEF ROB!Pops, ROB!Commits, ROB!robs!Empty
  <2>2. push => ~ROB!Full
    BY InputsAre
  <2>3. pop \in BOOLEAN
    BY DEF ROB!Pops, ROB!Commits
  <2> QED
    BY <2>1, <2>2, <2>3, Shape
<1>3. /\ robHead' = IF pop THEN After(robHead) ELSE robHead
      /\ robTail' = IF push THEN After(robTail) ELSE robTail
  BY RingStep
<1>4. /\ n2 = IF push THEN stay + 1 ELSE stay
      /\ stay \in Nat
      /\ \A k \in 0 .. stay - 1 : At(robHead', k) = At(robHead, k + left)
      /\ push => At(robHead', stay) = robTail
  <2> DEFINE st == IF pop THEN n - 1 ELSE n
  <2>1. /\ n2 = IF push THEN st + 1 ELSE st
        /\ st \in Nat
        /\ \A k \in 0 .. st - 1 : At(robHead', k) = At(robHead, IF pop THEN k + 1 ELSE k)
        /\ push => At(robHead', st) = robTail
    <3> HIDE DEF pop, push
    <3> QED
      BY <1>1, <1>2, <1>3, RingMoves
  <2> HIDE DEF n, n2
  <2>2. st = stay
    <3>1. CASE pop
      BY <1>1, <3>1
    <3>2. CASE ~pop
      BY <1>1, <3>2
    <3> QED
      BY <1>2, <3>1, <3>2
  <2> HIDE DEF pop, push
  <2>3. \A k \in 0 .. st - 1 : At(robHead', k) = At(robHead, k + left)
    BY <2>1 DEF pop
  <2> QED
    BY <2>1, <2>2, <2>3
<1>5. /\ Window = [k \in 1 .. n |-> CellAt(k)] /\ Len(Window) = n
      /\ Window' = [k \in 1 .. n2 |-> CellAt(k)'] /\ Len(Window') = n2
  BY OpenWindow, LateWindow
<1>6. left \in {0, 1}
  OBVIOUS
<1> HIDE DEF n, n2
<1>7. Len(Window') \in {stay, stay + 1}
  BY <1>4, <1>5
<1>8. ASSUME NEW i \in 1 .. stay
      PROVE  Abstract!Becomes(Window[i + left], Window'[i])
  <2> DEFINE s == At(robHead, i - 1 + left)
  <2>1. i - 1 + left \in 0 .. n - 1 /\ i + left \in 1 .. n /\ i \in 1 .. n2
        /\ i - 1 \in 0 .. stay - 1 /\ (i + left) - 1 = i - 1 + left
    BY <1>1, <1>4, <1>6
  <2>2. s \in ROB!Live /\ s \in Slots
    BY <1>1, <2>1
  <2>3. ~(s = robHead /\ pop)
    <3> SUFFICES ASSUME s = robHead, pop PROVE FALSE
      OBVIOUS
    <3>1. left = 1 /\ i - 1 + left # 0 /\ i - 1 + left \in Slots /\ 0 \in Slots
      BY <1>1, <2>1, RobUnitAssumption DEF Slots
    <3>2. /\ \A k, l \in Slots : At(robHead, k) = At(robHead, l) => k = l
          /\ At(robHead, 0) = robHead
      BY <1>1, InUse
    <3> QED
      BY <3>1, <3>2
  <2>4. Abstract!Becomes(Cell(robPayload[s], ROB!Id(s), ready[s]),
                         Cell(robPayload'[s], ROB!Id(s), ready'[s]))
    <3> HIDE DEF s
    <3> QED
      BY <2>2, <2>3, EntryBecomes
  <2>5. Window[i + left] = Cell(robPayload[s], ROB!Id(s), ready[s])
    <3>1. Window[i + left] = CellAt(i + left)
      BY <1>5, <2>1
    <3>2. At1(i + left) = s
      BY <2>1 DEF At1
    <3> QED
      BY <3>1, <3>2, Zenon DEF CellAt
  <2>6. Window'[i] = Cell(robPayload'[s], ROB!Id(s), ready'[s])
    <3>1. Window'[i] = CellAt(i)'
      BY <1>5, <2>1
    <3>2. At1(i)' = s
      <4>1. At1(i)' = At(robHead', i - 1)
        BY DEF At1, At
      <4> QED
        BY <1>4, <2>1, <4>1
    <3> QED
      BY <3>1, <3>2, Zenon DEF CellAt
  <2> QED
    BY <2>4, <2>5, <2>6, Zenon
<1>9. ASSUME Len(Window') > stay
      PROVE  /\ Len(Window) < RobCapacity - 1
             /\ [Window'[stay + 1] EXCEPT !.id = 0] \in FreshCells
             /\ \A i \in 1 .. Len(Window) : Window[i].id # Window'[stay + 1].id
  <2>1. push /\ n2 = stay + 1
    BY <1>4, <1>5, <1>9
  <2>2. Len(Window) < RobCapacity - 1
    <3>1. n # RobCapacity - 1
      BY <1>1, <1>2, <2>1, InUse DEF n
    <3> QED
      BY <1>1, <1>5, <3>1, RobUnitAssumption
  <2>3. PICK p \in dispatched : robPayload'[robTail] = p
    BY <1>1, <2>1, PayloadStep
  <2>4. ready'[robTail] = FALSE
    <3>1. ReadyAfter(heard, dispatched, updated, lsFull, robTail)
      BY <1>1, ReadyStep
    <3> QED
      BY <2>1, <3>1, Zenon DEF ReadyAfter
  <2> DEFINE no == FALSE
  <2>5. Window'[stay + 1] = Cell(p, ROB!Id(robTail), no)
    <3>1. ASSUME NEW k, k = stay + 1
          PROVE  Window'[k] = Cell(robPayload'[robTail], ROB!Id(robTail), ready'[robTail])
      <4>1. k \in 1 .. n2 /\ k - 1 = stay
        BY <1>4, <2>1, <3>1
      <4>2. Window'[k] = CellAt(k)'
        BY <1>5, <4>1
      <4>3. At1(k)' = robTail
        <5>1. At1(k)' = At(robHead', k - 1)
          BY DEF At1, At
        <5> QED
          BY <1>4, <2>1, <4>1, <5>1
      <4> QED
        BY <4>2, <4>3, Zenon DEF CellAt
    <3> QED
      BY <2>3, <2>4, <3>1, Zenon
  <2>6. [Window'[stay + 1] EXCEPT !.id = 0] \in FreshCells
    <3>1. p \in Payloads /\ p \in Fresh
      BY <2>3, InputsAre
    <3>2. Cell(p, 0, no) \in FreshCells
      <4>1. [f \in DOMAIN p \cup {"id", "done"} |->
               IF f = "id" THEN 0 ELSE IF f = "done" THEN FALSE ELSE p[f]] = Cell(p, 0, no)
        BY <3>1, CellIs, Zenon
      <4>2. [f \in DOMAIN p \cup {"id", "done"} |->
               IF f = "id" THEN 0 ELSE IF f = "done" THEN FALSE ELSE p[f]] \in FreshCells
        BY <3>1, Zenon
      <4> QED
        BY <4>1, <4>2, Zenon
    <3>3. [Window'[stay + 1] EXCEPT !.id = 0] = Cell(p, 0, no)
      <4>1. ASSUME NEW id, NEW done
            PROVE  [Cell(p, id, done) EXCEPT !.id = 0] = Cell(p, 0, done)
        <5> DEFINE c == Cell(p, id, done)
                   d == Cell(p, 0, done)
                   e == [c EXCEPT !.id = 0]
        <5>1. /\ c = [f \in Names |-> c[f]]
              /\ c.op = p.op /\ c.pc = p.pc /\ c.dest = p.dest /\ c.size = p.size
              /\ c.fallback = p.fallback /\ c.take = p.take
              /\ c.predictedAddr = p.predictedAddr
              /\ c.value = p.value /\ c.valueReady = p.valueReady
              /\ c.addr = p.addr /\ c.addrReady = p.addrReady /\ c.done = done
          BY CellFields
        <5>2. /\ d = [f \in Names |-> d[f]]
              /\ d.op = p.op /\ d.pc = p.pc /\ d.dest = p.dest /\ d.size = p.size
              /\ d.fallback = p.fallback /\ d.take = p.take
              /\ d.predictedAddr = p.predictedAddr
              /\ d.value = p.value /\ d.valueReady = p.valueReady
              /\ d.addr = p.addr /\ d.addrReady = p.addrReady /\ d.id = 0 /\ d.done = done
          BY CellFields
        <5> HIDE DEF c, d
        <5>3. DOMAIN c = Names
          BY <5>1
        <5>4. e = [f \in Names |-> e[f]]
          BY <5>3
        <5>5. \A f \in Names : e[f] = IF f = "id" THEN 0 ELSE c[f]
          BY <5>3
        <5> HIDE DEF e
        <5>6. \A f \in Names : e[f] = d[f]
          BY <5>1, <5>2, <5>5 DEF Names
        <5> QED
          BY <5>2, <5>4, <5>6, SameCell DEF c, d, e
      <4> HIDE DEF no
      <4> DEFINE w == Window'[stay + 1]
      <4>2. w = Cell(p, ROB!Id(robTail), no)
        BY <2>5, Zenon
      <4> HIDE DEF w
      <4>3. [w EXCEPT !.id = 0] = Cell(p, 0, no)
        BY <4>1, <4>2, Zenon
      <4> QED
        BY <4>3, Zenon DEF w
    <3> QED
      BY <3>2, <3>3, Zenon
  <2>7. ASSUME NEW i \in 1 .. Len(Window)
        PROVE  Window[i].id # Window'[stay + 1].id
    <3>1. i - 1 \in 0 .. n - 1 /\ i \in 1 .. n
      BY <1>1, <1>5
    <3>2. Window[i] = CellAt(i)
      BY <1>5, <3>1
    <3>3. Window[i].id = ROB!Id(At(robHead, i - 1))
      <4> DEFINE c == Window[i]
      <4>1. c = Cell(robPayload[At1(i)], ROB!Id(At1(i)), ready[At1(i)])
        BY <3>2, Zenon DEF CellAt
      <4> HIDE DEF c
      <4>2. c.id = ROB!Id(At1(i))
        BY <4>1, CellFields
      <4> QED
        BY <4>2, Zenon DEF c, At1
    <3>4. Window'[stay + 1].id = ROB!Id(robTail)
      <4> DEFINE c == Window'[stay + 1]
      <4> HIDE DEF c, no
      <4>1. c = Cell(p, ROB!Id(robTail), no)
        BY <2>5, Zenon DEF c
      <4>2. c.id = ROB!Id(robTail)
        BY <4>1, CellFields
      <4> QED
        BY <4>2, Zenon DEF c
    <3>5. At(robHead, i - 1) # robTail /\ At(robHead, i - 1) \in Slots
      BY <1>1, <3>1, InUse DEF n
    <3>6. ROB!Id(At(robHead, i - 1)) # ROB!Id(robTail)
      BY <1>1, <3>5 DEF ROB!Id, Slots
    <3> QED
      BY <3>3, <3>4, <3>6
  <2> QED
    BY <2>2, <2>6, <2>7
<1> HIDE DEF FreshCells, stay
<1>10. stay = Len(Window) - left
  BY <1>5 DEF stay
<1>11. robClear' = FALSE
  BY DEF RobInv
<1> QED
  BY <1>7, <1>8, <1>9, <1>10, <1>11, Zenon DEF Abstract!Continues, FreshCells


-----------------------------------------------------------------------------
(* What a tick shows to the rest of the machine.                           *)

Shown(heard, write, store, redirect, feedback, jalr) ==
  [heard |-> heard, write |-> write, store |-> store, redirect |-> redirect,
   feedback |-> feedback, feedbackJalr |-> jalr]
Sides == {"heard", "write", "store", "redirect", "feedback", "feedbackJalr"}

LEMMA ShownFields ==
  ASSUME NEW h, NEW w, NEW s, NEW r, NEW f, NEW j, NEW e, e = Shown(h, w, s, r, f, j)
  PROVE  /\ e = [x \in Sides |-> e[x]]
         /\ e.heard = h /\ e.write = w /\ e.store = s /\ e.redirect = r
         /\ e.feedback = f /\ e.feedbackJalr = j
BY DEF Shown, Sides

LEMMA SameShown ==
  ASSUME NEW h, NEW w, NEW s, NEW r, NEW f, NEW j, NEW e, e = [x \in Sides |-> e[x]],
         e.heard = h, e.write = w, e.store = s, e.redirect = r, e.feedback = f,
         e.feedbackJalr = j
  PROVE  e = Shown(h, w, s, r, f, j)
<1> DEFINE d == Shown(h, w, s, r, f, j)
<1>1. /\ d = [x \in Sides |-> d[x]]
      /\ d.heard = h /\ d.write = w /\ d.store = s /\ d.redirect = r
      /\ d.feedback = f /\ d.feedbackJalr = j
  BY ShownFields
<1> HIDE DEF d
<1>2. \A x \in Sides : e[x] = d[x]
  BY <1>1 DEF Sides
<1>3. e = d
  <2> HIDE DEF Sides
  <2> QED
    BY <1>1, <1>2
<1> QED
  BY <1>3 DEF d

LEMMA ShowsIs ==
  ASSUME NEW h, NEW w, NEW s, NEW r, NEW f, NEW j, NEW g,
         NEW e, e = Shown(g, w, s, r, f, j), effect' = Shown(h, w, s, r, f, j)
  PROVE  Abstract!Shows(e)
<1> DEFINE now == effect'
           d == [e EXCEPT !.heard = now.heard]
<1>1. now.heard = h
  <2> HIDE DEF now
  <2>1. now = Shown(h, w, s, r, f, j)
    BY DEF now
  <2> QED
    BY <2>1, ShownFields
<1> HIDE DEF now
<1>2. /\ e = [x \in Sides |-> e[x]]
      /\ e.heard = g /\ e.write = w /\ e.store = s /\ e.redirect = r
      /\ e.feedback = f /\ e.feedbackJalr = j
  BY ShownFields
<1>3. DOMAIN e = Sides
  BY <1>2
<1>4. d = [x \in Sides |-> d[x]] /\ d.heard = h
  BY <1>1, <1>3 DEF Sides
<1>5. /\ d.write = w /\ d.store = s /\ d.redirect = r
      /\ d.feedback = f /\ d.feedbackJalr = j
  BY <1>2, <1>3 DEF Sides
<1> HIDE DEF d
<1>6. d = Shown(h, w, s, r, f, j)
  BY <1>4, <1>5, SameShown
<1>7. effect' = d
  BY <1>6, Zenon
<1> QED
  BY <1>7, Zenon DEF Abstract!Shows, d, now

LEMMA NothingIs == Abstract!Nothing = Shown({}, {}, {}, {}, {}, {})
BY Zenon DEF Abstract!Nothing, Shown

(* What the departure of the oldest instruction shows.                     *)
LEMMA DepartureIs ==
  LET old == Abstract!Oldest
      wrong == Abstract!Wrong
  IN  /\ old.op = "REGISTER" =>
           Abstract!Departure = Shown({}, {Abstract!Writes}, {}, {}, {}, {})
      /\ old.op = "STORE" =>
           Abstract!Departure =
             Shown({}, {}, {[addr |-> old.addr, value |-> old.value]}, {}, {}, {})
      /\ old.op = "BRANCH" =>
           Abstract!Departure =
             Shown({}, {}, {}, IF wrong THEN {old.fallback} ELSE {},
                   {[take |-> old.take, taken |-> old.value]}, {})
      /\ old.op = "JALR" =>
           Abstract!Departure =
             Shown({}, {Abstract!Writes}, {},
                   IF wrong THEN {Abstract!Target(old)} ELSE {}, {},
                   {[actual |-> Abstract!Target(old), correct |-> ~wrong]})
<1> DEFINE old == Abstract!Oldest
           none == Abstract!Nothing
<1>1. /\ none = [x \in Sides |-> none[x]] /\ DOMAIN none = Sides
      /\ none.heard = {} /\ none.write = {} /\ none.store = {} /\ none.redirect = {}
      /\ none.feedback = {} /\ none.feedbackJalr = {}
  <2>1. none = Shown({}, {}, {}, {}, {}, {})
    BY NothingIs
  <2> HIDE DEF none
  <2>2. none = [x \in Sides |-> none[x]]
        /\ none.heard = {} /\ none.write = {} /\ none.store = {} /\ none.redirect = {}
        /\ none.feedback = {} /\ none.feedbackJalr = {}
    BY <2>1, ShownFields
  <2> QED
    BY <2>2
<1>2. ASSUME NEW w, NEW e, e = [none EXCEPT !.write = w]
      PROVE  e = Shown({}, w, {}, {}, {}, {})
  <2> HIDE DEF none
  <2>1. e = [x \in Sides |-> e[x]] /\ e.write = w
    BY <1>1, <1>2 DEF Sides
  <2>2. /\ e.heard = {} /\ e.store = {} /\ e.redirect = {} /\ e.feedback = {}
        /\ e.feedbackJalr = {}
    BY <1>1, <1>2 DEF Sides
  <2> QED
    BY <2>1, <2>2, SameShown
<1>3. ASSUME NEW s, NEW e, e = [none EXCEPT !.store = s]
      PROVE  e = Shown({}, {}, s, {}, {}, {})
  <2> HIDE DEF none
  <2>1. e = [x \in Sides |-> e[x]] /\ e.store = s
    BY <1>1, <1>3 DEF Sides
  <2>2. /\ e.heard = {} /\ e.write = {} /\ e.redirect = {} /\ e.feedback = {}
        /\ e.feedbackJalr = {}
    BY <1>1, <1>3 DEF Sides
  <2> QED
    BY <2>1, <2>2, SameShown
<1>4. ASSUME NEW f, NEW r, NEW e, e = [none EXCEPT !.feedback = f, !.redirect = r]
      PROVE  e = Shown({}, {}, {}, r, f, {})
  <2> HIDE DEF none
  <2>1. e = [x \in Sides |-> e[x]] /\ e.feedback = f /\ e.redirect = r
    BY <1>1, <1>4 DEF Sides
  <2>2. e.heard = {} /\ e.write = {} /\ e.store = {} /\ e.feedbackJalr = {}
    BY <1>1, <1>4 DEF Sides
  <2> QED
    BY <2>1, <2>2, SameShown
<1>5. ASSUME NEW w, NEW j, NEW r, NEW e,
             e = [none EXCEPT !.write = w, !.feedbackJalr = j, !.redirect = r]
      PROVE  e = Shown({}, w, {}, r, {}, j)
  <2> HIDE DEF none
  <2>1. e = [x \in Sides |-> e[x]] /\ e.write = w /\ e.feedbackJalr = j /\ e.redirect = r
    BY <1>1, <1>5 DEF Sides
  <2>2. e.heard = {} /\ e.store = {} /\ e.feedback = {}
    BY <1>1, <1>5 DEF Sides
  <2> QED
    BY <2>1, <2>2, SameShown
<1> HIDE DEF none
<1>6. ASSUME old.op = "REGISTER"
      PROVE  Abstract!Departure = Shown({}, {Abstract!Writes}, {}, {}, {}, {})
  <2>1. Abstract!Departure = [none EXCEPT !.write = {Abstract!Writes}]
    BY <1>6 DEF Abstract!Departure, none
  <2> QED
    BY <1>2, <2>1, Zenon
<1>7. ASSUME old.op = "STORE"
      PROVE  Abstract!Departure =
               Shown({}, {}, {[addr |-> old.addr, value |-> old.value]}, {}, {}, {})
  <2>1. Abstract!Departure =
          [none EXCEPT !.store = {[addr |-> old.addr, value |-> old.value]}]
    BY <1>7 DEF Abstract!Departure, none
  <2> QED
    BY <1>3, <2>1, Zenon
<1>8. ASSUME old.op = "BRANCH"
      PROVE  Abstract!Departure =
               Shown({}, {}, {}, IF Abstract!Wrong THEN {old.fallback} ELSE {},
                     {[take |-> old.take, taken |-> old.value]}, {})
  <2>1. Abstract!Departure =
          [none EXCEPT !.feedback = {[take |-> old.take, taken |-> old.value]},
                       !.redirect = IF Abstract!Wrong THEN {old.fallback} ELSE {}]
    BY <1>8 DEF Abstract!Departure, none
  <2> QED
    BY <1>4, <2>1, Zenon
<1>9. ASSUME old.op = "JALR"
      PROVE  Abstract!Departure =
               Shown({}, {Abstract!Writes}, {},
                     IF Abstract!Wrong THEN {Abstract!Target(old)} ELSE {}, {},
                     {[actual |-> Abstract!Target(old), correct |-> ~Abstract!Wrong]})
  <2>1. Abstract!Departure =
          [none EXCEPT !.write = {Abstract!Writes},
                       !.feedbackJalr = {[actual |-> Abstract!Target(old),
                                          correct |-> ~Abstract!Wrong]},
                       !.redirect = IF Abstract!Wrong THEN {Abstract!Target(old)} ELSE {}]
    BY <1>9 DEF Abstract!Departure, none
  <2> QED
    BY <1>5, <2>1, Zenon
<1> QED
  BY <1>6, <1>7, <1>8, <1>9, Zenon


-----------------------------------------------------------------------------
(* The head of the queue is the oldest instruction of the window.          *)
LEMMA OldestIs ==
  ASSUME RobInv, ~robClear
  PROVE  /\ Abstract!Done <=> ROB!Commits
         /\ ROB!Commits =>
              /\ ROB!First \in Payloads
              /\ Abstract!Oldest = Cell(ROB!First, ROB!Id(robHead), ready[robHead])
<1> DEFINE n == Far(robHead, robTail)
           w == Window
<1>1. /\ robHead \in Slots /\ robTail \in Slots /\ n \in Nat
      /\ n = 0 <=> robHead = robTail
      /\ robPayload[robHead] \in Payloads /\ ready[robHead] \in BOOLEAN
      /\ At(robHead, 0) = robHead
  BY Shape, InUse, RobUnitAssumption DEF RobInv, Slots
<1>2. w = [k \in 1 .. n |-> CellAt(k)] /\ Len(w) = n
  BY OpenWindow
<1> HIDE DEF n
<1>3. n # 0 => w[1] = Cell(ROB!First, ROB!Id(robHead), ready[robHead])
  <2> SUFFICES ASSUME n # 0
               PROVE  w[1] = Cell(ROB!First, ROB!Id(robHead), ready[robHead])
    OBVIOUS
  <2>1. 1 \in 1 .. n
    BY <1>1
  <2>2. w[1] = CellAt(1)
    <3> HIDE DEF w
    <3> QED
      BY <1>2, <2>1
  <2>3. At1(1) = robHead
    BY <1>1 DEF At1
  <2> QED
    BY <2>2, <2>3, Zenon DEF CellAt, ROB!First
<1>4. w # <<>> <=> n # 0
  <2> HIDE DEF w
  <2>1. n # 0 => w # <<>>
    BY <1>2
  <2>2. n = 0 => w = <<>>
    <3>1. n = 0 => 1 .. n = {}
      OBVIOUS
    <3> QED
      BY <1>2, <3>1
  <2> QED
    BY <2>1, <2>2
<1>5. n # 0 => w[1].done = ready[robHead]
  <2> HIDE DEF w
  <2> QED
    BY <1>3, CellFields
<1>6. ROB!Commits <=> n # 0 /\ ready[robHead]
  BY <1>1 DEF ROB!Commits, ROB!robs!Empty
<1>7. Abstract!Done <=> w # <<>> /\ w[1].done
  BY Zenon DEF Abstract!Done
<1>8. Abstract!Oldest = w[1]
  BY Zenon DEF Abstract!Oldest
<1> HIDE DEF w
<1>9. Abstract!Done <=> ROB!Commits
  BY <1>4, <1>5, <1>6, <1>7, Zenon
<1> QED
  BY <1>1, <1>3, <1>6, <1>8, <1>9 DEF ROB!First

(* The oldest instruction, field by field, and its prediction.             *)
LEMMA OldestFields ==
  ASSUME RobInv, ~robClear, ROB!Commits, NEW p, p = ROB!First, NEW old, old = Abstract!Oldest
  PROVE  /\ old.op = p.op /\ old.value = p.value /\ old.dest = p.dest /\ old.addr = p.addr
         /\ old.fallback = p.fallback /\ old.take = p.take
         /\ old.predictedAddr = p.predictedAddr
         /\ p \in Payloads
         /\ p.op \in {"REGISTER", "STORE", "BRANCH", "JALR", "HCF"}
         /\ Abstract!Target(old) = ROB!ClearBit0(p.addr)
         /\ Abstract!Wrong <=> /\ p.op \in {"BRANCH", "JALR"}
                               /\ ROB!Mispredicted(p)
<1>1. p \in Payloads /\ p.op \in {"REGISTER", "STORE", "BRANCH", "JALR", "HCF"}
  <2>1. p \in Payloads
    BY OldestIs
  <2> QED
    BY <2>1 DEF Payloads, ROB!RobPayload
<1>2. /\ old.op = p.op /\ old.value = p.value /\ old.dest = p.dest /\ old.addr = p.addr
      /\ old.fallback = p.fallback /\ old.take = p.take
      /\ old.predictedAddr = p.predictedAddr
  <2>1. old = Cell(p, ROB!Id(robHead), ready[robHead])
    BY OldestIs
  <2> QED
    BY <2>1, CellFields
<1>3. Abstract!Target(old) = ROB!ClearBit0(p.addr)
  BY <1>2, Zenon DEF Abstract!Target, Abstract!ClearBit0, ROB!ClearBit0
<1>4. Abstract!Wrong <=> \/ old.op = "BRANCH" /\ old.take # old.value
                         \/ old.op = "JALR" /\ old.predictedAddr # Abstract!Target(old)
  BY Zenon DEF Abstract!Wrong
<1>5. ROB!Mispredicted(p) =
        IF p.op = "BRANCH" THEN p.take # p.value ELSE p.predictedAddr # ROB!ClearBit0(p.addr)
  BY Zenon DEF ROB!Mispredicted
<1>6. Abstract!Wrong <=> p.op \in {"BRANCH", "JALR"} /\ ROB!Mispredicted(p)
  <2>1. CASE p.op = "BRANCH"
    BY <1>2, <1>4, <1>5, <2>1
  <2>2. CASE p.op = "JALR"
    BY <1>2, <1>3, <1>4, <1>5, <2>2
  <2>3. CASE p.op \notin {"BRANCH", "JALR"}
    BY <1>2, <1>4, <2>3
  <2> QED
    BY <2>1, <2>2, <2>3
<1> QED
  BY <1>1, <1>2, <1>3, <1>6


(* A tick while the buffer is open.                                        *)
LEMMA OpenStep ==
  ASSUME RobInv, RobInv', ~robClear, NEW heard, NEW dispatched, NEW updated,
         Inputs(heard, dispatched, updated), NEW lsFull \in BOOLEAN,
         Tick(heard, dispatched, updated, lsFull)
  PROVE  Abstract!Next
<1> DEFINE p == ROB!First
           old == Abstract!Oldest
           wrong == ROB!Mispredicted(p)
           stores == {[addr |-> q.addr, value |-> q.value] : q \in ROB!Stored(lsFull)}
           redirect == IF ROB!Flushes THEN {ROB!ForcedPc} ELSE {}
<1>1. /\ ROB!Tick(heard, dispatched, updated, lsFull) /\ ~hcf /\ hcf' = ROB!Halts
      /\ effect' = Shown(heard, ROB!RegWrites, stores, redirect, ROB!Feedback,
                         ROB!FeedbackJalr)
  BY Zenon DEF Tick, Shown
<1>2. effect'.heard = heard
  <2> DEFINE now == effect'
  <2>1. now = Shown(heard, ROB!RegWrites, stores, redirect, ROB!Feedback, ROB!FeedbackJalr)
    BY <1>1
  <2> HIDE DEF now, stores, redirect
  <2>2. now.heard = heard
    BY <2>1, ShownFields
  <2> QED
    BY <2>2 DEF now
<1>3. robClear' = ROB!Flushes /\ robClear' \in BOOLEAN /\ (robClear' <=> ROB!Flushes)
  BY <1>1, RingStep
<1>4. /\ ~ROB!Flushes /\ ROB!Pops(lsFull) => Abstract!Continues(1) /\ robClear' = FALSE
      /\ ~ROB!Flushes /\ ~ROB!Pops(lsFull) => Abstract!Continues(0) /\ robClear' = FALSE
  <2>1. ASSUME ~ROB!Flushes, NEW left, left = IF ROB!Pops(lsFull) THEN 1 ELSE 0
        PROVE  Abstract!Continues(left)
    BY <1>1, <1>2, <1>3, <2>1, Continuing
  <2> QED
    BY <1>3, <2>1
<1>5. ROB!Flushes => Window' = <<>> /\ robClear' = TRUE
  <2>1. robClear' => Window' = <<>>
    BY Zenon DEF Window
  <2> QED
    BY <1>3, <2>1
<1>6. Abstract!Done <=> ROB!Commits
  BY OldestIs
<1>7. /\ ~ROB!Halts => hcf' = hcf
      /\ ROB!Halts => hcf' = TRUE
  <2>1. hcf \in BOOLEAN /\ ROB!Halts \in BOOLEAN
    BY DEF RobInv, ROB!Halts, ROB!Commits
  <2> QED
    BY <1>1, <2>1
<1> HIDE DEF redirect, stores
<1>8. ASSUME ROB!RegWrites = {}, stores = {}, redirect = {}, ROB!Feedback = {},
             ROB!FeedbackJalr = {}
      PROVE  Abstract!Shows(Abstract!Nothing)
  <2>1. effect' = Shown(heard, {}, {}, {}, {}, {})
    BY <1>1, <1>8, Zenon
  <2> QED
    BY <2>1, NothingIs, ShowsIs, Zenon
<1>9. ~ROB!Flushes => redirect = {}
  BY DEF redirect
<1>10. ROB!Stored(lsFull) = {} => stores = {}
  BY DEF stores
<1>11. CASE ~ROB!Commits
  <2>1. /\ ~ROB!Flushes /\ ~ROB!Pops(lsFull) /\ ~ROB!Halts
        /\ ROB!RegWrites = {} /\ ROB!Stored(lsFull) = {}
        /\ ROB!Feedback = {} /\ ROB!FeedbackJalr = {}
    BY <1>11 DEF ROB!Flushes, ROB!Pops, ROB!Halts, ROB!RegWrites, ROB!Stored, ROB!Feedback,
       ROB!FeedbackJalr
  <2>2. Abstract!Continues(0) /\ Abstract!Shows(Abstract!Nothing) /\ hcf' = hcf
    BY <1>4, <1>7, <1>8, <1>9, <1>10, <2>1
  <2>3. Abstract!Wait /\ ~Abstract!Done
    BY <1>6, <1>11, <2>2, Zenon DEF Abstract!Wait
  <2> QED
    BY <1>1, <2>3, Zenon DEF Abstract!Next
<1>12. CASE ROB!Commits
  <2>1. /\ old.op = p.op /\ old.value = p.value /\ old.dest = p.dest /\ old.addr = p.addr
        /\ old.fallback = p.fallback /\ old.take = p.take
        /\ p \in Payloads
        /\ p.op \in {"REGISTER", "STORE", "BRANCH", "JALR", "HCF"}
        /\ Abstract!Target(old) = ROB!ClearBit0(p.addr)
        /\ Abstract!Wrong <=> p.op \in {"BRANCH", "JALR"} /\ wrong
    BY <1>12, OldestFields
  <2>2. Abstract!Done
    BY <1>6, <1>12
  <2>3. ROB!Flushes <=> Abstract!Wrong
    BY <1>12, <2>1 DEF ROB!Flushes
  <2>4. p.op # "HCF" => ~ROB!Halts
    BY DEF ROB!Halts
  <2>5. p.op # "HCF" /\ ~(p.op = "STORE" /\ lsFull) => ROB!Pops(lsFull)
    BY <1>12, <2>4 DEF ROB!Pops
  <2>6. ASSUME p.op # "HCF", Abstract!Shows(Abstract!Departure),
               ~(p.op = "STORE" /\ lsFull)
        PROVE  Abstract!Next
    <3>1. hcf' = hcf
      BY <1>7, <2>4, <2>6
    <3>2. CASE Abstract!Wrong
      <4>1. Abstract!Mispredict
        BY <1>5, <2>2, <2>3, <2>6, <3>1, <3>2, Zenon DEF Abstract!Mispredict
      <4> QED
        BY <1>1, <4>1, Zenon DEF Abstract!Next
    <3>3. CASE ~Abstract!Wrong
      <4>1. Abstract!Continues(1)
        BY <1>4, <2>3, <2>5, <2>6, <3>3
      <4>2. Abstract!Leave
        BY <2>1, <2>2, <2>6, <3>1, <3>3, <4>1, Zenon DEF Abstract!Leave
      <4> QED
        BY <1>1, <4>2, Zenon DEF Abstract!Next
    <3> QED
      BY <3>2, <3>3
  <2>7. CASE p.op = "HCF"
    <3>1. /\ ROB!Halts /\ ~ROB!Pops(lsFull) /\ ~ROB!Flushes
          /\ ROB!RegWrites = {} /\ ROB!Stored(lsFull) = {}
          /\ ROB!Feedback = {} /\ ROB!FeedbackJalr = {}
      BY <1>12, <2>7 DEF ROB!Flushes, ROB!Pops, ROB!Halts, ROB!RegWrites, ROB!Stored,
         ROB!Feedback, ROB!FeedbackJalr
    <3>2. Abstract!Continues(0) /\ Abstract!Shows(Abstract!Nothing) /\ hcf' = TRUE
      BY <1>4, <1>7, <1>8, <1>9, <1>10, <3>1
    <3>3. Abstract!Halt
      BY <2>1, <2>2, <2>7, <3>2, Zenon DEF Abstract!Halt
    <3> QED
      BY <1>1, <3>3, Zenon DEF Abstract!Next
  <2>8. CASE p.op = "STORE"
    <3>1. /\ ~ROB!Flushes /\ ~ROB!Halts /\ ROB!RegWrites = {}
          /\ ROB!Feedback = {} /\ ROB!FeedbackJalr = {}
      BY <2>8 DEF ROB!Flushes, ROB!Halts, ROB!RegWrites, ROB!Feedback, ROB!FeedbackJalr
    <3>2. CASE lsFull
      <4>1. ROB!Stored(lsFull) = {} /\ ~ROB!Pops(lsFull)
        BY <2>8, <3>2 DEF ROB!Stored, ROB!Pops
      <4>2. Abstract!Continues(0) /\ Abstract!Shows(Abstract!Nothing) /\ hcf' = hcf
        BY <1>4, <1>7, <1>8, <1>9, <1>10, <3>1, <4>1
      <4>3. Abstract!Hold
        BY <2>1, <2>2, <2>8, <4>2, Zenon DEF Abstract!Hold, Abstract!Wait
      <4> QED
        BY <1>1, <4>3, Zenon DEF Abstract!Next
    <3>3. CASE ~lsFull
      <4>1. stores = {[addr |-> p.addr, value |-> p.value]}
        <5>1. ROB!Stored(lsFull) =
                {[op |-> "STORE", size |-> p.size, addr |-> p.addr, value |-> p.value,
                  rob |-> 0, cleared |-> FALSE]}
          BY <1>12, <2>8, <3>3, Zenon DEF ROB!Stored
        <5> QED
          BY <5>1 DEF stores
      <4>2. effect' = Shown(heard, {}, {[addr |-> old.addr, value |-> old.value]}, {}, {}, {})
        BY <1>1, <1>9, <2>1, <3>1, <4>1, Zenon
      <4>3. Abstract!Departure =
              Shown({}, {}, {[addr |-> old.addr, value |-> old.value]}, {}, {}, {})
        BY <2>1, <2>8, DepartureIs, Zenon
      <4>4. Abstract!Shows(Abstract!Departure)
        BY <4>2, <4>3, ShowsIs, Zenon
      <4> QED
        BY <2>6, <2>8, <3>3, <4>4
    <3> QED
      BY <3>2, <3>3
  <2>9. CASE p.op = "REGISTER"
    <3>1. /\ ~ROB!Flushes /\ ROB!Feedback = {} /\ ROB!FeedbackJalr = {}
          /\ ROB!Stored(lsFull) = {}
      BY <2>9 DEF ROB!Flushes, ROB!Stored, ROB!Feedback, ROB!FeedbackJalr
    <3>2. ROB!RegWrites = {Abstract!Writes}
      <4>1. ROB!RegWrites = {[rd |-> p.dest, value |-> p.value]}
        BY <1>12, <2>9, Zenon DEF ROB!RegWrites
      <4> QED
        BY <2>1, <4>1, Zenon DEF Abstract!Writes
    <3>3. effect' = Shown(heard, {Abstract!Writes}, {}, {}, {}, {})
      BY <1>1, <1>9, <1>10, <3>1, <3>2, Zenon
    <3>4. Abstract!Departure = Shown({}, {Abstract!Writes}, {}, {}, {}, {})
      BY <2>1, <2>9, DepartureIs, Zenon
    <3>5. Abstract!Shows(Abstract!Departure)
      BY <3>3, <3>4, ShowsIs, Zenon
    <3> QED
      BY <2>6, <2>9, <3>5
  <2>10. CASE p.op = "BRANCH"
    <3>1. ROB!FeedbackJalr = {} /\ ROB!Stored(lsFull) = {} /\ ROB!RegWrites = {}
      <4>1. ROB!NoDest = -1 /\ p.dest = ROB!NoDest
        BY <2>1, <2>10 DEF Payloads, ROB!NoDest
      <4> QED
        BY <2>10, <4>1 DEF ROB!Stored, ROB!RegWrites, ROB!FeedbackJalr
    <3>2. ROB!Feedback = {[take |-> old.take, taken |-> old.value]}
      <4>1. ROB!Feedback = {[take |-> p.take, taken |-> p.value]}
        BY <1>12, <2>10, Zenon DEF ROB!Feedback
      <4> QED
        BY <2>1, <4>1, Zenon
    <3>3. redirect = IF Abstract!Wrong THEN {old.fallback} ELSE {}
      <4>1. ROB!ForcedPc = p.fallback
        BY <2>10 DEF ROB!ForcedPc
      <4> QED
        BY <2>1, <2>3, <4>1, Zenon DEF redirect
    <3>4. effect' = Shown(heard, {}, {}, IF Abstract!Wrong THEN {old.fallback} ELSE {},
                          {[take |-> old.take, taken |-> old.value]}, {})
      BY <1>1, <1>10, <3>1, <3>2, <3>3, Zenon
    <3>5. Abstract!Departure =
            Shown({}, {}, {}, IF Abstract!Wrong THEN {old.fallback} ELSE {},
                  {[take |-> old.take, taken |-> old.value]}, {})
      BY <2>1, <2>10, DepartureIs, Zenon
    <3>6. Abstract!Shows(Abstract!Departure)
      BY <3>4, <3>5, ShowsIs, Zenon
    <3> QED
      BY <2>6, <2>10, <3>6
  <2>11. CASE p.op = "JALR"
    <3>1. ROB!Feedback = {} /\ ROB!Stored(lsFull) = {}
      BY <2>11 DEF ROB!Stored, ROB!Feedback
    <3>2. ROB!RegWrites = {Abstract!Writes}
      <4>1. p.dest >= 0
        BY <2>1, <2>11, Rv32iAssumption DEF Payloads, Reg
      <4>2. ROB!RegWrites = {[rd |-> p.dest, value |-> p.value]}
        BY <1>12, <2>11, <4>1 DEF ROB!RegWrites
      <4> QED
        BY <2>1, <4>2, Zenon DEF Abstract!Writes
    <3>3. ROB!FeedbackJalr =
            {[actual |-> Abstract!Target(old), correct |-> ~Abstract!Wrong]}
      <4>1. ROB!FeedbackJalr = {[actual |-> ROB!ClearBit0(p.addr), correct |-> ~wrong]}
        BY <1>12, <2>11, Zenon DEF ROB!FeedbackJalr
      <4>2. wrong <=> Abstract!Wrong
        BY <2>1, <2>11
      <4>3. (~wrong) = (~Abstract!Wrong)
        <5> HIDE DEF wrong
        <5> QED
          BY <4>2
      <4> QED
        BY <2>1, <4>1, <4>3, Zenon
    <3>4. redirect = IF Abstract!Wrong THEN {Abstract!Target(old)} ELSE {}
      <4>1. ROB!ForcedPc = ROB!ClearBit0(p.addr)
        BY <2>11 DEF ROB!ForcedPc
      <4> QED
        BY <2>1, <2>3, <4>1, Zenon DEF redirect
    <3>5. effect' = Shown(heard, {Abstract!Writes}, {},
                          IF Abstract!Wrong THEN {Abstract!Target(old)} ELSE {}, {},
                          {[actual |-> Abstract!Target(old), correct |-> ~Abstract!Wrong]})
      BY <1>1, <1>10, <3>1, <3>2, <3>3, <3>4, Zenon
    <3>6. Abstract!Departure =
            Shown({}, {Abstract!Writes}, {},
                  IF Abstract!Wrong THEN {Abstract!Target(old)} ELSE {}, {},
                  {[actual |-> Abstract!Target(old), correct |-> ~Abstract!Wrong]})
      BY <2>1, <2>11, DepartureIs, Zenon
    <3>7. Abstract!Shows(Abstract!Departure)
      BY <3>5, <3>6, ShowsIs, Zenon
    <3> QED
      BY <2>6, <2>11, <3>7
  <2> QED
    BY <2>1, <2>7, <2>8, <2>9, <2>10, <2>11
<1> QED
  BY <1>11, <1>12


(* A tick while the flags of a flush are up.                               *)
LEMMA ClosedStep ==
  ASSUME RobInv, RobInv', robClear, NEW heard, NEW dispatched, NEW updated,
         Inputs(heard, dispatched, updated), NEW lsFull \in BOOLEAN,
         Tick(heard, dispatched, updated, lsFull)
  PROVE  Abstract!Next
<1> DEFINE stores == {[addr |-> q.addr, value |-> q.value] : q \in ROB!Stored(lsFull)}
           redirect == IF ROB!Flushes THEN {ROB!ForcedPc} ELSE {}
<1>1. /\ ROB!Tick(heard, dispatched, updated, lsFull) /\ ~hcf /\ hcf' = ROB!Halts
      /\ effect' = Shown(heard, ROB!RegWrites, stores, redirect, ROB!Feedback,
                         ROB!FeedbackJalr)
  BY Zenon DEF Tick, Shown
<1>2. ~ROB!Commits
  BY DEF ROB!Commits
<1>3. /\ ~ROB!Flushes /\ ~ROB!Halts
      /\ ROB!RegWrites = {} /\ ROB!Stored(lsFull) = {}
      /\ ROB!Feedback = {} /\ ROB!FeedbackJalr = {}
  BY <1>2 DEF ROB!Flushes, ROB!Halts, ROB!RegWrites, ROB!Stored, ROB!Feedback,
     ROB!FeedbackJalr
<1>4. stores = {} /\ redirect = {}
  BY <1>3
<1>5. effect' = Shown(heard, {}, {}, {}, {}, {})
  BY <1>1, <1>3, <1>4, Zenon
<1>6. Abstract!Shows(Abstract!Nothing)
  BY <1>5, NothingIs, ShowsIs, Zenon
<1>7. robHead' = 0 /\ robTail' = 0 /\ robClear' = FALSE
  <2>1. robHead' = 0 /\ robTail' = 0 /\ robClear' = ROB!Flushes /\ robClear' \in BOOLEAN
    BY <1>1, RingStep
  <2> QED
    BY <1>3, <2>1
<1>8. Window' = <<>>
  <2>1. /\ Window' = [k \in 1 .. Far(robHead', robTail') |-> CellAt(k)']
        /\ Len(Window') = Far(robHead', robTail')
    BY <1>7, LateWindow
  <2>2. Far(robHead', robTail') = 0
    BY <1>7, RobUnitAssumption DEF Far
  <2>3. 1 .. 0 = {}
    OBVIOUS
  <2> DEFINE w == Window'
             n == Far(robHead', robTail')
  <2>4. w = [k \in 1 .. n |-> CellAt(k)'] /\ n = 0
    BY <2>1, <2>2
  <2> HIDE DEF w, n
  <2>5. w = <<>>
    BY <2>3, <2>4
  <2> QED
    BY <2>5 DEF w
<1>9. hcf' = hcf
  BY <1>1, <1>3 DEF RobInv
<1>10. Abstract!Reopen
  BY <1>6, <1>7, <1>8, <1>9, Zenon DEF Abstract!Reopen
<1> QED
  BY <1>1, <1>10, Zenon DEF Abstract!Next

(* The reorder buffer implements Retirement: whatever the order in which   *)
(* results, updates and dispatches arrive, and however often the load/     *)
(* store queue refuses a store, entries leave in program order, each with  *)
(* its own result and once, and a misprediction leaves nothing younger.    *)
THEOREM Refinement == Spec => ImplementsRetirement
<1>1. Init => Abstract!Init
  <2> SUFFICES ASSUME Init PROVE Abstract!Init
    OBVIOUS
  <2>1. RobInv /\ ~robClear /\ robHead = robTail
    BY RobInvInit DEF Init, ROB!Init
  <2>2. Window = <<>>
    <3> DEFINE w == Window
               n == Far(robHead, robTail)
    <3>1. w = [k \in 1 .. n |-> CellAt(k)] /\ n = 0
      BY <2>1, OpenWindow, InUse DEF RobInv
    <3>2. 1 .. 0 = {}
      OBVIOUS
    <3> HIDE DEF w, n
    <3>3. w = <<>>
      BY <3>1, <3>2
    <3> QED
      BY <3>3 DEF w
  <2>3. robClear = FALSE /\ hcf = FALSE
    BY DEF Init, ROB!Init
  <2>4. effect = Abstract!Nothing
    BY Zenon DEF Init, Abstract!Nothing
  <2> QED
    BY <2>2, <2>3, <2>4, Zenon DEF Abstract!Init
<1>2. RobInv /\ RobInv' /\ [Next]_robUnitVars => [Abstract!Next]_(Abstract!retVars)
  <2> SUFFICES ASSUME RobInv, RobInv', [Next]_robUnitVars
               PROVE  [Abstract!Next]_(Abstract!retVars)
    OBVIOUS
  <2>1. CASE UNCHANGED robUnitVars
    <3>1. Window' = Window
      BY <2>1 DEF robUnitVars, Window, Entry, ROB!robs!Length, ROB!robs!Nth, ROB!robs!Trunc
    <3> QED
      BY <2>1, <3>1 DEF robUnitVars, Abstract!retVars
  <2>2. CASE Next
    <3>1. PICK heard \in AtMostOne(Messages), lsFull \in BOOLEAN,
               dispatched \in AtMostOne(IF ROB!Full \/ robClear THEN {} ELSE Fresh),
               updated \in AtMostOne(IF robClear THEN {} ELSE Updates) :
            Tick(heard, dispatched, updated, lsFull)
      BY <2>2 DEF Next
    <3>2. Inputs(heard, dispatched, updated)
      BY DEF Inputs
    <3>3. CASE robClear
      BY <3>1, <3>2, <3>3, ClosedStep
    <3>4. CASE ~robClear
      BY <3>1, <3>2, <3>4, OpenStep
    <3> QED
      BY <3>3, <3>4
  <2> QED
    BY <2>1, <2>2
<1> QED
  BY <1>1, <1>2, RobInvAlways, PTL DEF Spec, ImplementsRetirement, Abstract!Spec

=============================================================================
