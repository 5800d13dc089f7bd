--------------------------- MODULE LsMemoryProofs ---------------------------
(***************************************************************************)
(* The load/store queue and the memory implement a memory whose accesses   *)
(* take effect in the order in which they were pushed, and every access    *)
(* that leaves the queue finds a slot: for queues and memories of any      *)
(* size and latency, any accesses and any number of helpers on the bus.    *)
(***************************************************************************)
EXTENDS LsMemory, FiniteSetTheorems, WellFoundedInduction, TLAPS

-----------------------------------------------------------------------------
(* The ring of the queue's slots: what queue.c does with "%".              *)

(* How many slots lie from slot h up to slot s.                            *)
Distance(C, h, s) == (s + C - h) % C

(* The slot that follows slot s.                                           *)
After(C, s) == IF s = C - 1 THEN 0 ELSE s + 1

(* The remainder of a number below twice the divisor.                      *)
LEMMA SmallMod ==
  ASSUME NEW C \in Nat \ {0}, NEW x \in 0 .. 2 * C - 1
  PROVE  x % C = IF x < C THEN x ELSE x - C
<1>1. CASE x < C
  BY <1>1, Z3
<1>2. CASE x >= C
  <2> DEFINE y == x - C
  <2>1. y \in 0 .. C - 1 /\ y + C = x
    BY <1>2
  <2>2. (y + C) % C = y
    <3> HIDE DEF y
    <3> QED
      BY <2>1, Z3
  <2> QED
    BY <1>2, <2>1, <2>2
<1> QED
  BY <1>1, <1>2

(* A slot number advanced by one.                                          *)
LEMMA Advance ==
  ASSUME NEW C \in Nat \ {0}, NEW s \in 0 .. C - 1
  PROVE  (s + 1) % C = After(C, s) /\ After(C, s) \in 0 .. C - 1
<1>1. s + 1 \in 0 .. 2 * C - 1
  OBVIOUS
<1> DEFINE x == s + 1
<1>2. x % C = IF x < C THEN x ELSE x - C
  <2> HIDE DEF x
  <2> QED
    BY <1>1, SmallMod DEF x
<1> QED
  BY <1>2 DEF After

(* The distance of two slots, without the remainder.                       *)
LEMMA DistanceIs ==
  ASSUME NEW C \in Nat \ {0}, NEW h \in 0 .. C - 1, NEW s \in 0 .. C - 1
  PROVE  /\ Distance(C, h, s) = IF s < h THEN s + C - h ELSE s - h
         /\ Distance(C, h, s) \in 0 .. C - 1
<1> DEFINE x == s + C - h
<1>1. x \in 0 .. 2 * C - 1
  OBVIOUS
<1>2. x % C = IF x < C THEN x ELSE x - C
  <2> HIDE DEF x
  <2> QED
    BY <1>1, SmallMod, Zenon
<1> QED
  BY <1>2 DEF Distance

(* No two slots are equally far.                                           *)
LEMMA DistanceInjective ==
  ASSUME NEW C \in Nat \ {0}, NEW h \in 0 .. C - 1, NEW s \in 0 .. C - 1, NEW t \in 0 .. C - 1,
         Distance(C, h, s) = Distance(C, h, t)
  PROVE  s = t
<1>1. Distance(C, h, s) = IF s < h THEN s + C - h ELSE s - h
  BY DistanceIs
<1>2. Distance(C, h, t) = IF t < h THEN t + C - h ELSE t - h
  BY DistanceIs
<1>3. (IF s < h THEN s + C - h ELSE s - h) = (IF t < h THEN t + C - h ELSE t - h)
  BY <1>1, <1>2
<1>4. CASE s < h
  BY <1>3, <1>4
<1>5. CASE ~(s < h)
  BY <1>3, <1>5
<1> QED
  BY <1>4, <1>5

(* The slot at a distance from h, and no other, is that far from it.       *)
LEMMA AtDistance ==
  ASSUME NEW C \in Nat \ {0}, NEW h \in 0 .. C - 1, NEW s \in 0 .. C - 1,
         NEW ix \in 0 .. C - 1
  PROVE  (ix + h) % C = s <=> Distance(C, h, s) = ix
<1> DEFINE x == ix + h
<1>1. x \in 0 .. 2 * C - 1
  OBVIOUS
<1>2. x % C = IF x < C THEN x ELSE x - C
  <2> HIDE DEF x
  <2> QED
    BY <1>1, SmallMod, Zenon
<1>3. Distance(C, h, s) = IF s < h THEN s + C - h ELSE s - h
  BY DistanceIs
<1> QED
  BY <1>2, <1>3

(* The slots between h and t are those nearer to h than t is.              *)
LEMMA Between ==
  ASSUME NEW C \in Nat \ {0}, NEW h \in 0 .. C - 1, NEW t \in 0 .. C - 1,
         NEW s \in 0 .. C - 1
  PROVE  s \in {(ix + h) % C : ix \in 0 .. Distance(C, h, t) - 1}
           <=> Distance(C, h, s) < Distance(C, h, t)
<1>1. /\ Distance(C, h, s) \in 0 .. C - 1 /\ Distance(C, h, t) \in 0 .. C - 1
      /\ \A ix \in 0 .. Distance(C, h, t) - 1 : ix \in 0 .. C - 1
  <2>1. Distance(C, h, s) \in 0 .. C - 1 /\ Distance(C, h, t) \in 0 .. C - 1
    BY DistanceIs
  <2> QED
    BY <2>1
<1>2. \A ix \in 0 .. C - 1 : (ix + h) % C = s <=> Distance(C, h, s) = ix
  BY AtDistance
<1>3. s \in {(ix + h) % C : ix \in 0 .. Distance(C, h, t) - 1}
        <=> \E ix \in 0 .. Distance(C, h, t) - 1 : (ix + h) % C = s
  OBVIOUS
<1>4. (\E ix \in 0 .. Distance(C, h, t) - 1 : (ix + h) % C = s)
        <=> \E ix \in 0 .. Distance(C, h, t) - 1 : Distance(C, h, s) = ix
  BY <1>1, <1>2
<1>5. (\E ix \in 0 .. Distance(C, h, t) - 1 : Distance(C, h, s) = ix)
        <=> Distance(C, h, s) < Distance(C, h, t)
  BY <1>1
<1> QED
  BY <1>3, <1>4, <1>5

(* What one step of head and tail does to the slots in use and to their    *)
(* distances from the head: pop takes the head away, push adds the tail.   *)
LEMMA RingMoves ==
  ASSUME NEW C \in Nat \ {0}, NEW h \in 0 .. C - 1, NEW t \in 0 .. C - 1,
         NEW h1, NEW t1, NEW pop \in BOOLEAN, NEW push \in BOOLEAN,
         pop => h # t, push => h # After(C, t),
         h1 = IF pop THEN After(C, h) ELSE h,
         t1 = IF push THEN After(C, t) ELSE t,
         NEW s \in 0 .. C - 1
  PROVE  /\ Distance(C, h1, s) < Distance(C, h1, t1)
              <=> \/ Distance(C, h, s) < Distance(C, h, t) /\ ~(pop /\ s = h)
                  \/ push /\ s = t
         /\ Distance(C, h1, s) < Distance(C, h1, t1) =>
              Distance(C, h1, s) = IF pop THEN Distance(C, h, s) - 1 ELSE Distance(C, h, s)
<1>1. h1 \in 0 .. C - 1 /\ t1 \in 0 .. C - 1
  BY DEF After
<1>2. /\ Distance(C, h, s) = IF s < h THEN s + C - h ELSE s - h
      /\ Distance(C, h, t) = IF t < h THEN t + C - h ELSE t - h
      /\ Distance(C, h1, s) = IF s < h1 THEN s + C - h1 ELSE s - h1
      /\ Distance(C, h1, t1) = IF t1 < h1 THEN t1 + C - h1 ELSE t1 - h1
  BY <1>1, DistanceIs
<1>3. CASE pop /\ push
  BY <1>1, <1>2, <1>3 DEF After
<1>4. CASE pop /\ ~push
  BY <1>1, <1>2, <1>4 DEF After
<1>5. CASE ~pop /\ push
  BY <1>1, <1>2, <1>5 DEF After
<1>6. CASE ~pop /\ ~push
  BY <1>1, <1>2, <1>6 DEF After
<1> QED
  BY <1>3, <1>4, <1>5, <1>6

-----------------------------------------------------------------------------
(* Words and bytes.                                                        *)

(* There are at least two words.                                           *)
LEMMA WordSizeFact == /\ WordSize \in Nat \ {0, 1}
                      /\ ByteSize \in Nat \ {0}
<1>1. ByteSize \in Nat /\ ByteSize > 0 /\ WordSize = ByteSize * ByteSize
  BY Rv32iAssumption
<1>2. ByteSize * ByteSize \in Nat /\ ByteSize * ByteSize > 0
  BY <1>1
<1>3. WordSize # 1
  BY Rv32iAssumption
<1> QED
  BY <1>1, <1>2, <1>3

(* The address after one.                                                  *)
LEMMA AddOne ==
  ASSUME NEW a \in Word
  PROVE  Add(a, 0) = a /\ Add(a, 1) \in Word /\ Add(a, 1) # a
<1>1. WordSize \in Nat \ {0, 1} /\ a \in 0 .. WordSize - 1
  BY WordSizeFact DEF Word
<1>2. Add(a, 0) = a
  <2>1. a + 0 = a
    BY <1>1
  <2>2. a % WordSize = a
    BY <1>1
  <2> QED
    BY <2>1, <2>2 DEF Add
<1>3. (a + 1) % WordSize = IF a = WordSize - 1 THEN 0 ELSE a + 1
  BY <1>1, Advance DEF After
<1> QED
  BY <1>1, <1>2, <1>3 DEF Add, Word

(* The bytes of an access.                                                 *)
LEMMA BytesAre ==
  ASSUME NEW r, r.addr \in Word, r.size \in Sizes
  PROVE  /\ Bytes(r) \subseteq Word
         /\ r.size = "WORD" => Bytes(r) = {r.addr, Add(r.addr, 1)}
         /\ r.size # "WORD" => Bytes(r) = {r.addr}
<1>1. Add(r.addr, 0) = r.addr /\ Add(r.addr, 1) \in Word
  BY AddOne
<1>2. ASSUME r.size = "WORD" PROVE Bytes(r) = {r.addr, Add(r.addr, 1)}
  <2>1. LsSize(r.size) = 2
    BY <1>2 DEF LsSize
  <2>2. 0 .. LsSize(r.size) - 1 = {0, 1}
    BY <2>1
  <2> QED
    BY <1>1, <2>2 DEF Bytes
<1>3. ASSUME r.size # "WORD" PROVE Bytes(r) = {r.addr}
  <2>1. LsSize(r.size) = 1
    BY <1>3 DEF LsSize
  <2>2. 0 .. LsSize(r.size) - 1 = {0}
    BY <2>1
  <2> QED
    BY <1>1, <2>2 DEF Bytes
<1> QED
  BY <1>1, <1>2, <1>3

(* Accesses of the same bytes.                                             *)
LEMMA SameBytes ==
  ASSUME NEW r, NEW w, r.addr = w.addr, r.size = w.size
  PROVE  Bytes(r) = Bytes(w)
BY DEF Bytes

(* A load reads its bytes only.                                            *)
LEMMA LoadReads ==
  ASSUME NEW m, NEW n, NEW r, r.addr \in Word, r.size \in Sizes,
         \A a \in Bytes(r) : m[a] = n[a]
  PROVE  MemGetSz(m, r.addr, r.size) = MemGetSz(n, r.addr, r.size)
<1>1. m[r.addr] = n[r.addr] /\ (r.size = "WORD" => m[Add(r.addr, 1)] = n[Add(r.addr, 1)])
  BY BytesAre
<1> QED
  BY <1>1 DEF MemGetSz

(* A store writes its bytes, and no others.                                *)
LEMMA StoreWrites ==
  ASSUME NEW m, DOMAIN m = Word, m = [a \in Word |-> m[a]],
         NEW w, w.addr \in Word, w.size \in Sizes
  PROVE  MemSetSz(m, w.addr, w.value, w.size)
           = [a \in Word |-> IF a \in Bytes(w) THEN PS!Left(w, a) ELSE m[a]]
<1> DEFINE low == [m EXCEPT ![w.addr] = w.value % ByteSize]
<1>1. Add(w.addr, 1) \in Word /\ Add(w.addr, 1) # w.addr
  BY AddOne
<1>2. \A a : PS!Left(w, a) = IF a = w.addr THEN w.value % ByteSize ELSE w.value \div ByteSize
  BY DEF PS!Left
<1>3. low = [a \in Word |-> IF a = w.addr THEN w.value % ByteSize ELSE m[a]]
  OBVIOUS
<1>4. CASE w.size = "WORD"
  <2>1. Bytes(w) = {w.addr, Add(w.addr, 1)}
    BY <1>4, BytesAre
  <2>2. MemSetSz(m, w.addr, w.value, w.size) = [low EXCEPT ![Add(w.addr, 1)] = w.value \div ByteSize]
    BY <1>4 DEF MemSetSz
  <2> QED
    BY <1>1, <1>2, <1>3, <2>1, <2>2
<1>5. CASE w.size # "WORD"
  <2>1. Bytes(w) = {w.addr}
    BY <1>5, BytesAre
  <2>2. MemSetSz(m, w.addr, w.value, w.size) = low
    BY <1>5 DEF MemSetSz
  <2> QED
    BY <1>2, <1>3, <2>1, <2>2
<1> QED
  BY <1>4, <1>5

(* The definitions of Rv32i are the same in every component.               *)
LEMMA Shared ==
  /\ \A m, addr, size : MEM!MemGetSz(m, addr, size) = MemGetSz(m, addr, size)
  /\ \A m, addr, size : Abstract!MemGetSz(m, addr, size) = MemGetSz(m, addr, size)
  /\ \A m, addr, value, size : MEM!MemSetSz(m, addr, value, size) = MemSetSz(m, addr, value, size)
  /\ \A m, addr, value, size : Abstract!MemSetSz(m, addr, value, size) = MemSetSz(m, addr, value, size)
  /\ \A r : PS!Bytes(r) = Bytes(r)
  /\ MEM!Word = Word /\ LSQ!Word = Word /\ PS!Word = Word /\ Abstract!Word = Word
  /\ MEM!Sizes = Sizes /\ LSQ!Sizes = Sizes
BY Zenon DEF MemGetSz, MEM!MemGetSz, Abstract!MemGetSz, MemSetSz, MEM!MemSetSz, Abstract!MemSetSz,
   Add, MEM!Add, Abstract!Add, PS!Add, Word, MEM!Word, LSQ!Word, PS!Word, Abstract!Word,
   Sizes, MEM!Sizes, LSQ!Sizes, Bytes, PS!Bytes, LsSize, PS!LsSize

-----------------------------------------------------------------------------
(* Types.                                                                  *)

Slots == 0 .. LsCapacity - 1
MemSlots == 0 .. MemTicks - 1
EntryType == [op : {"LOAD", "STORE"}, size : Sizes, addr : Word, value : Word,
              rob : 0 .. RobCapacity, cleared : BOOLEAN]
LoadSlot == [busy : BOOLEAN, ticks : Int, addr : Word, size : Sizes, rob : 0 .. RobCapacity]
StoreSlot == [busy : BOOLEAN, ticks : Int, addr : Word, size : Sizes, value : Word]

Types ==
  /\ lsHead \in Slots /\ lsTail \in Slots
  /\ lsData \in [Slots -> EntryType]
  /\ lsClear \in BOOLEAN /\ memClear \in BOOLEAN
  /\ loads \in [MemSlots -> LoadSlot]
  /\ stores \in [MemSlots -> StoreSlot]
  /\ DOMAIN mem = Word /\ mem = [a \in Word |-> mem[a]]
  /\ busClear \in 0 .. 2
  /\ req \subseteq CDB!Helpers
  /\ bhBusy \in [CDB!Helpers -> [{0, 1} -> BOOLEAN]]
  /\ current \in [CDB!Helpers -> {0, 1}]
  /\ workload \in Workloads

(* The queue: its live entries, the one that a tick takes off it, and      *)
(* whether that is a load or a store.                                      *)
Age(s) == Distance(LsCapacity, lsHead, s)
Live == {s \in Slots : Age(s) < Age(lsTail)}
Head == lsData[lsHead]
Popping == ~lsClear /\ ~stall /\ lsHead # lsTail
LoadIn == Popping /\ Head.op = "LOAD" /\ ~Head.cleared
StoreIn == Popping /\ Head.op = "STORE" /\ ~Head.cleared
IsLoad(s) == lsData[s].op = "LOAD" /\ ~lsData[s].cleared
IsStore(s) == lsData[s].op = "STORE"

(* The parameters, in the form in which the proofs use them.               *)
LEMMA Parameters ==
  /\ LsCapacity \in Nat \ {0} /\ MemTicks \in Nat \ {0, 1} /\ RobCapacity \in Nat
  /\ 0 \in Slots /\ 0 \in Word /\ 0 \in 0 .. RobCapacity
  /\ MEM!MemSlots = MemSlots /\ LSQ!queue!Slots = Slots /\ PS!LSQ!queue!Slots = Slots
  /\ PS!MEM!MemSlots = MemSlots
  /\ MemHelper \in CDB!Helpers /\ \A h \in CDB!Helpers : MemHelper <= h
BY LsMemoryAssumption, WordSizeFact
   DEF Slots, MemSlots, Word, MEM!MemSlots, LSQ!queue!Slots, PS!LSQ!queue!Slots, PS!MEM!MemSlots,
       CDB!Helpers, MemHelper

(* What the queue's module calls these things.                             *)
LEMMA QueueIs ==
  ASSUME Types
  PROVE  /\ LSQ!queue!Live = Live /\ PS!LSQ!queue!Live = Live
         /\ LSQ!Popped = IF Popping THEN {Head} ELSE {}
         /\ LSQ!LoadRequests = IF LoadIn THEN {Head} ELSE {}
         /\ LSQ!StoreRequests = IF StoreIn THEN {Head} ELSE {}
         /\ LSQ!queue!Empty <=> lsHead = lsTail
         /\ LSQ!Full <=> lsHead = After(LsCapacity, lsTail)
<1>1. lsHead \in Slots /\ lsTail \in Slots /\ LsCapacity \in Nat \ {0} /\ Slots = 0 .. LsCapacity - 1
  BY Parameters DEF Types, Slots
<1>2. Distance(LsCapacity, lsHead, lsTail) \in Nat
  BY <1>1, DistanceIs
<1> DEFINE R == {(ix + lsHead) % LsCapacity : ix \in 0 .. Distance(LsCapacity, lsHead, lsTail) - 1}
<1>3. R = Live
  <2>1. \A s \in Slots : s \in R <=> s \in Live
    BY <1>1, Between DEF Live, Age
  <2>2. R \subseteq Slots
    <3>1. ASSUME NEW ix \in 0 .. Distance(LsCapacity, lsHead, lsTail) - 1
          PROVE  (ix + lsHead) % LsCapacity \in Slots
      <4>1. ix + lsHead \in Int
        BY <1>1, <1>2
      <4> QED
        BY <1>1, <4>1
    <3> QED
      BY <3>1
  <2>3. Live \subseteq Slots
    BY DEF Live
  <2> HIDE DEF R
  <2> QED
    BY <2>1, <2>2, <2>3
<1>4. \A ix \in 0 .. Distance(LsCapacity, lsHead, lsTail) - 1 :
        /\ LSQ!queue!Nth(ix) = (ix + lsHead) % LsCapacity
        /\ PS!LSQ!queue!Nth(ix) = (ix + lsHead) % LsCapacity
  BY <1>1, <1>2 DEF LSQ!queue!Nth, LSQ!queue!Trunc, PS!LSQ!queue!Nth, PS!LSQ!queue!Trunc
<1>5. LSQ!queue!Live = R /\ PS!LSQ!queue!Live = R
  <2>1. LSQ!queue!Length = Distance(LsCapacity, lsHead, lsTail)
        /\ PS!LSQ!queue!Length = Distance(LsCapacity, lsHead, lsTail)
    BY DEF Distance, LSQ!queue!Length, PS!LSQ!queue!Length
  <2> QED
    BY <1>4, <2>1 DEF LSQ!queue!Live, PS!LSQ!queue!Live
<1>6. LSQ!Popped = IF Popping THEN {Head} ELSE {}
  BY DEF LSQ!Popped, LSQ!queue!Empty, Popping, Head
<1>7. LSQ!LoadRequests = IF LoadIn THEN {Head} ELSE {}
  BY <1>6 DEF LSQ!LoadRequests, LoadIn
<1>8. LSQ!StoreRequests = IF StoreIn THEN {Head} ELSE {}
  BY <1>6 DEF LSQ!StoreRequests, StoreIn
<1>9. LSQ!Full <=> lsHead = After(LsCapacity, lsTail)
  <2>1. (lsTail + 1) % LsCapacity = After(LsCapacity, lsTail)
    BY <1>1, Advance
  <2> QED
    BY <1>1, <2>1 DEF LSQ!Full, LSQ!queue!Full, LSQ!queue!Trunc
<1> QED
  BY <1>3, <1>5, <1>6, <1>7, <1>8, <1>9 DEF LSQ!queue!Empty

(* What may be pushed in a tick.                                           *)
LEMMA PushedIs ==
  ASSUME Types, NEW pushed \in Pushes, pushed # {}
  PROVE  /\ ~lsClear /\ lsHead # After(LsCapacity, lsTail)
         /\ \E r \in Requests :
              /\ r \in Access /\ pushed = {Entry(r)} /\ Entry(r) \in EntryType
              /\ r.op = "LOAD" => Entry(r).rob \in FreeTags
<1>1. PICK r \in workload.requests : Pushable(r) /\ pushed = {Entry(r)}
  BY DEF Pushes
<1>2. r \in Requests /\ r \in Access
  BY LsMemoryAssumption DEF Types
<1>3. r.op = "LOAD" => Entry(r).rob \in FreeTags
  <2>1. r.op = "LOAD" => FreeTags # {}
    BY <1>1 DEF Pushable
  <2>2. r.op = "LOAD" => Tag(r) = CHOOSE t \in FreeTags : TRUE
    BY DEF Tag
  <2>3. Entry(r).rob = Tag(r)
    BY DEF Entry
  <2> QED
    BY <2>1, <2>2, <2>3
<1>4. Tag(r) \in 0 .. RobCapacity
  <2>1. CASE r.op = "STORE"
    BY <2>1, Parameters DEF Tag
  <2>2. CASE r.op = "LOAD"
    <3>1. Entry(r).rob = Tag(r)
      BY DEF Entry
    <3>2. FreeTags \subseteq 0 .. RobCapacity
      BY Parameters DEF FreeTags
    <3> QED
      BY <1>3, <2>2, <3>1, <3>2
  <2> QED
    BY <1>2, <2>1, <2>2 DEF Access
<1>5. Entry(r) \in EntryType
  <2> DEFINE tag == Tag(r)
  <2>1. /\ tag \in 0 .. RobCapacity /\ r.op \in {"LOAD", "STORE"} /\ r.size \in Sizes
        /\ r.addr \in Word /\ r.value \in Word
    BY <1>2, <1>4 DEF Access
  <2>2. Entry(r) = [op |-> r.op, size |-> r.size, addr |-> r.addr, value |-> r.value,
                    rob |-> tag, cleared |-> FALSE]
    BY DEF Entry
  <2> HIDE DEF tag
  <2> QED
    BY <2>1, <2>2 DEF EntryType
<1>6. ~lsClear /\ ~LSQ!Full
  BY <1>1 DEF Pushable
<1> QED
  BY <1>1, <1>2, <1>3, <1>5, <1>6, QueueIs

-----------------------------------------------------------------------------
(* What a tick does to the queue.                                          *)

(* The head leaves, the pushed entry takes the tail, and the others grow   *)
(* older.                                                                  *)
LEMMA RingStep ==
  ASSUME Types, NEW pushed \in Pushes, NEW flush \in BOOLEAN, Tick(pushed, flush)
  PROVE  /\ lsHead' \in Slots /\ lsTail' \in Slots
         /\ \A s \in Slots : s \in Live' <=> \/ s \in Live /\ ~(Popping /\ s = lsHead)
                                             \/ pushed # {} /\ s = lsTail
         /\ \A s \in Live' : Age(s)' = IF Popping THEN Age(s) - 1 ELSE Age(s)
         /\ lsTail \notin Live
         /\ \A s \in Live : Age(s) < Age(lsTail)
         /\ \A s \in Slots : Age(s) \in Nat
         /\ Popping => lsHead \in Live /\ Age(lsHead) = 0
<1>1. /\ lsHead \in Slots /\ lsTail \in Slots /\ LsCapacity \in Nat \ {0}
      /\ Slots = 0 .. LsCapacity - 1
  BY Parameters DEF Types, Slots
<1> DEFINE push == pushed # {}
<1>2. /\ lsHead' = IF Popping THEN After(LsCapacity, lsHead) ELSE lsHead
      /\ lsTail' = IF push THEN After(LsCapacity, lsTail) ELSE lsTail
  <2>1. LSQ!queue!Move(push, LSQ!Popped # {}, FALSE)
    BY DEF Tick, LSQ!Tick
  <2>2. LSQ!Popped # {} <=> Popping
    BY QueueIs
  <2>3. push => lsHead # After(LsCapacity, lsTail)
    BY PushedIs
  <2>4. /\ (lsHead + 1) % LsCapacity = After(LsCapacity, lsHead)
        /\ (lsTail + 1) % LsCapacity = After(LsCapacity, lsTail)
    BY <1>1, Advance
  <2>5. /\ LSQ!queue!Trunc(lsHead + 1) = After(LsCapacity, lsHead)
        /\ LSQ!queue!Trunc(lsTail + 1) = After(LsCapacity, lsTail)
    BY <1>1, <2>4 DEF LSQ!queue!Trunc
  <2> QED
    BY <2>1, <2>2, <2>3, <2>5
       DEF LSQ!queue!Move, LSQ!queue!Empty, LSQ!queue!Full, Popping
<1>3. lsHead' \in Slots /\ lsTail' \in Slots
  BY <1>1, <1>2, Advance
<1>4. /\ Popping => lsHead # lsTail
      /\ push => lsHead # After(LsCapacity, lsTail)
      /\ Popping \in BOOLEAN /\ push \in BOOLEAN
  BY PushedIs DEF Popping
<1>5. ASSUME NEW s \in Slots
      PROVE  /\ Distance(LsCapacity, lsHead', s) < Distance(LsCapacity, lsHead', lsTail')
                  <=> \/ /\ Distance(LsCapacity, lsHead, s) < Distance(LsCapacity, lsHead, lsTail)
                         /\ ~(Popping /\ s = lsHead)
                      \/ push /\ s = lsTail
             /\ Distance(LsCapacity, lsHead', s) < Distance(LsCapacity, lsHead', lsTail') =>
                  Distance(LsCapacity, lsHead', s) =
                    IF Popping THEN Distance(LsCapacity, lsHead, s) - 1
                    ELSE Distance(LsCapacity, lsHead, s)
  <2> HIDE DEF push
  <2> QED
    BY <1>1, <1>2, <1>4, RingMoves
<1>6. /\ \A s \in Slots : s \in Live' <=> \/ s \in Live /\ ~(Popping /\ s = lsHead)
                                          \/ push /\ s = lsTail
      /\ \A s \in Live' : Age(s)' = IF Popping THEN Age(s) - 1 ELSE Age(s)
  BY <1>5 DEF Live, Age, Slots
<1>7. \A s \in Slots : Age(s) \in Nat
  BY <1>1, DistanceIs DEF Age
<1>8. lsTail \notin Live /\ \A s \in Live : Age(s) < Age(lsTail)
  BY <1>1, <1>7 DEF Live
<1>9. Popping => lsHead \in Live /\ Age(lsHead) = 0
  <2>1. /\ Age(lsHead) = lsHead - lsHead
        /\ Age(lsTail) = IF lsTail < lsHead THEN lsTail + LsCapacity - lsHead ELSE lsTail - lsHead
    BY <1>1, DistanceIs DEF Age
  <2> QED
    BY <1>1, <1>4, <2>1 DEF Live
<1> QED
  BY <1>3, <1>6, <1>7, <1>8, <1>9

(* The tick after a flush marks the loads of the queue; apart from that,   *)
(* and from the entry that arrives, nothing changes.                       *)
LEMMA DataStep ==
  ASSUME Types, NEW pushed \in Pushes, NEW flush \in BOOLEAN, Tick(pushed, flush)
  PROVE  /\ lsData' \in [Slots -> EntryType]
         /\ \A s \in Live :
              /\ lsData'[s].op = lsData[s].op /\ lsData'[s].addr = lsData[s].addr
              /\ lsData'[s].size = lsData[s].size /\ lsData'[s].value = lsData[s].value
              /\ lsData'[s].rob = lsData[s].rob
              /\ lsData'[s].cleared <=> lsData[s].cleared \/ (lsClear /\ lsData[s].op = "LOAD")
         /\ \A e : pushed = {e} => lsData'[lsTail] = e
<1>1. /\ lsData \in [Slots -> EntryType] /\ lsTail \in Slots
      /\ LSQ!queue!Slots = Slots /\ LSQ!queue!Live = Live
  BY Parameters, QueueIs DEF Types
<1>2. /\ pushed # {} => ~LSQ!Full
      /\ pushed = {} \/ \E e \in EntryType : pushed = {e}
  <2>1. pushed # {} => lsHead # After(LsCapacity, lsTail)
    BY PushedIs
  <2> QED
    BY <2>1, PushedIs, QueueIs
<1>3. lsData' = [s \in Slots |->
        IF pushed # {} /\ s = lsTail THEN CHOOSE p \in pushed : TRUE
        ELSE IF lsClear /\ s \in Live /\ lsData[s].op = "LOAD"
          THEN [lsData[s] EXCEPT !.cleared = TRUE]
        ELSE lsData[s]]
  BY <1>1, <1>2 DEF Tick, LSQ!Tick
<1>4. \A e : pushed = {e} => (CHOOSE p \in pushed : TRUE) = e
  OBVIOUS
<1>5. \A s \in Slots : /\ lsData[s] \in EntryType
                       /\ [lsData[s] EXCEPT !.cleared = TRUE] \in EntryType
  BY <1>1 DEF EntryType
<1>6. lsData' \in [Slots -> EntryType]
  <2> HIDE DEF EntryType
  <2> QED
    BY <1>2, <1>3, <1>4, <1>5
<1>7. \A e : pushed = {e} => lsData'[lsTail] = e
  BY <1>1, <1>3, <1>4
<1>8. ASSUME NEW s \in Live
      PROVE  /\ lsData'[s].op = lsData[s].op /\ lsData'[s].addr = lsData[s].addr
             /\ lsData'[s].size = lsData[s].size /\ lsData'[s].value = lsData[s].value
             /\ lsData'[s].rob = lsData[s].rob
             /\ lsData'[s].cleared <=> lsData[s].cleared \/ (lsClear /\ lsData[s].op = "LOAD")
  <2>1. s \in Slots /\ s # lsTail
    BY RingStep DEF Live
  <2>2. lsData'[s] = IF lsClear /\ lsData[s].op = "LOAD"
                       THEN [lsData[s] EXCEPT !.cleared = TRUE]
                     ELSE lsData[s]
    BY <1>3, <2>1
  <2>3. lsData[s] \in EntryType
    BY <1>5, <2>1
  <2> QED
    BY <2>2, <2>3 DEF EntryType
<1> QED
  BY <1>6, <1>7, <1>8

-----------------------------------------------------------------------------
(* What a tick does to the memory.                                         *)

(* The load slots.                                                         *)
LEMMA LoadSlotStep ==
  ASSUME Types, NEW pushed \in Pushes, NEW flush \in BOOLEAN, Tick(pushed, flush),
         NEW i \in MemSlots
  PROVE  \/ /\ LoadIn /\ i \in MEM!FirstFree(loads)
            /\ loads'[i] = [busy |-> TRUE, ticks |-> MemTicks - 1, addr |-> Head.addr,
                            size |-> Head.size, rob |-> Head.rob]
         \/ /\ ~(LoadIn /\ i \in MEM!FirstFree(loads))
            /\ loads'[i] \in LoadSlot
            /\ loads'[i].addr = loads[i].addr /\ loads'[i].size = loads[i].size
            /\ loads'[i].rob = loads[i].rob
            /\ loads'[i].busy <=> /\ loads[i].busy /\ ~memClear
                                  /\ i \notin MEM!Sender \/ CDB!Stall(MemHelper)
            /\ loads'[i].ticks = IF loads[i].busy /\ ~memClear
                                   THEN loads[i].ticks - 1 ELSE loads[i].ticks
<1>1. loads[i] \in LoadSlot
  BY DEF Types
<1>2. loads'[i] =
        IF LSQ!LoadRequests # {} /\ i \in MEM!FirstFree(loads)
          THEN LET p == CHOOSE p \in LSQ!LoadRequests : TRUE
               IN  [busy |-> TRUE, ticks |-> MemTicks - 1, addr |-> p.addr,
                    size |-> p.size, rob |-> p.rob]
        ELSE IF memClear THEN [loads[i] EXCEPT !.busy = FALSE]
        ELSE IF loads[i].busy
          THEN [loads[i] EXCEPT !.ticks = loads[i].ticks - 1,
                                !.busy = i \notin MEM!Sender \/ CDB!Stall(MemHelper)]
        ELSE loads[i]
  BY Parameters DEF Tick, MEM!Tick
<1>3. LSQ!LoadRequests = IF LoadIn THEN {Head} ELSE {}
  BY QueueIs
<1>4. CASE LoadIn /\ i \in MEM!FirstFree(loads)
  <2>1. LSQ!LoadRequests # {} /\ (CHOOSE p \in LSQ!LoadRequests : TRUE) = Head
    BY <1>3, <1>4
  <2> QED
    BY <1>2, <1>4, <2>1
<1>5. CASE ~(LoadIn /\ i \in MEM!FirstFree(loads))
  <2>1. loads'[i] =
          IF memClear THEN [loads[i] EXCEPT !.busy = FALSE]
          ELSE IF loads[i].busy
            THEN [loads[i] EXCEPT !.ticks = loads[i].ticks - 1,
                                  !.busy = i \notin MEM!Sender \/ CDB!Stall(MemHelper)]
          ELSE loads[i]
    BY <1>2, <1>3, <1>5
  <2> DEFINE left == i \notin MEM!Sender \/ CDB!Stall(MemHelper)
  <2>2. left \in BOOLEAN /\ loads[i].ticks - 1 \in Int
    BY <1>1 DEF LoadSlot
  <2> HIDE DEF left
  <2>3. CASE memClear
    BY <1>1, <1>5, <2>1, <2>3 DEF LoadSlot, left
  <2>4. CASE ~memClear /\ loads[i].busy
    <3>1. loads'[i] = [loads[i] EXCEPT !.ticks = loads[i].ticks - 1, !.busy = left]
      BY <2>1, <2>4 DEF left
    <3>2. /\ loads'[i] \in LoadSlot
          /\ loads'[i].addr = loads[i].addr /\ loads'[i].size = loads[i].size
          /\ loads'[i].rob = loads[i].rob
          /\ loads'[i].ticks = loads[i].ticks - 1
          /\ loads'[i].busy = left
      BY <1>1, <2>2, <3>1 DEF LoadSlot
    <3> QED
      BY <1>5, <2>4, <3>2 DEF left
  <2>5. CASE ~memClear /\ ~loads[i].busy
    BY <1>1, <1>5, <2>1, <2>5
  <2> QED
    BY <2>3, <2>4, <2>5
<1> QED
  BY <1>4, <1>5

(* The store slots.                                                        *)
LEMMA StoreSlotStep ==
  ASSUME Types, NEW pushed \in Pushes, NEW flush \in BOOLEAN, Tick(pushed, flush),
         NEW i \in MemSlots
  PROVE  \/ /\ StoreIn /\ i \in MEM!FirstFree(stores)
            /\ stores'[i] = [busy |-> TRUE, ticks |-> MemTicks - 1, addr |-> Head.addr,
                             size |-> Head.size, value |-> Head.value]
         \/ /\ ~(StoreIn /\ i \in MEM!FirstFree(stores))
            /\ stores'[i] \in StoreSlot
            /\ stores'[i].addr = stores[i].addr /\ stores'[i].size = stores[i].size
            /\ stores'[i].value = stores[i].value
            /\ stores'[i].busy <=> stores[i].busy /\ i \notin MEM!Completing
            /\ stores'[i].ticks = IF stores[i].busy /\ ~memClear
                                    THEN stores[i].ticks - 1 ELSE stores[i].ticks
<1>1. stores[i] \in StoreSlot
  BY DEF Types
<1>2. stores'[i] =
        IF LSQ!StoreRequests # {} /\ i \in MEM!FirstFree(stores)
          THEN LET p == CHOOSE p \in LSQ!StoreRequests : TRUE
               IN  [busy |-> TRUE, ticks |-> MemTicks - 1, addr |-> p.addr,
                    size |-> p.size, value |-> p.value]
        ELSE IF stores[i].busy /\ ~memClear
          THEN [stores[i] EXCEPT !.ticks = stores[i].ticks - 1, !.busy = i \notin MEM!Completing]
        ELSE stores[i]
  BY Parameters DEF Tick, MEM!Tick, MEM!Counted
<1>3. LSQ!StoreRequests = IF StoreIn THEN {Head} ELSE {}
  BY QueueIs
<1>4. CASE StoreIn /\ i \in MEM!FirstFree(stores)
  <2>1. LSQ!StoreRequests # {} /\ (CHOOSE p \in LSQ!StoreRequests : TRUE) = Head
    BY <1>3, <1>4
  <2> QED
    BY <1>2, <1>4, <2>1
<1>5. CASE ~(StoreIn /\ i \in MEM!FirstFree(stores))
  <2>1. stores'[i] =
          IF stores[i].busy /\ ~memClear
            THEN [stores[i] EXCEPT !.ticks = stores[i].ticks - 1, !.busy = i \notin MEM!Completing]
          ELSE stores[i]
    BY <1>2, <1>3, <1>5
  <2> DEFINE left == i \notin MEM!Completing
  <2>2. left \in BOOLEAN /\ stores[i].ticks - 1 \in Int
    BY <1>1 DEF StoreSlot
  <2>3. memClear => left
    BY DEF MEM!Completing
  <2>4. ~stores[i].busy => left
    BY DEF MEM!Completing
  <2> HIDE DEF left
  <2>5. CASE stores[i].busy /\ ~memClear
    <3>1. stores'[i] = [stores[i] EXCEPT !.ticks = stores[i].ticks - 1, !.busy = left]
      BY <2>1, <2>5 DEF left
    <3>2. /\ stores'[i] \in StoreSlot
          /\ stores'[i].addr = stores[i].addr /\ stores'[i].size = stores[i].size
          /\ stores'[i].value = stores[i].value
          /\ stores'[i].ticks = stores[i].ticks - 1
          /\ stores'[i].busy = left
      BY <1>1, <2>2, <3>1 DEF StoreSlot
    <3> QED
      BY <1>5, <2>5, <3>2 DEF left
  <2>6. CASE ~(stores[i].busy /\ ~memClear)
    <3>1. stores'[i] = stores[i]
      BY <2>1, <2>6
    <3> QED
      BY <1>1, <1>5, <2>3, <2>4, <2>6, <3>1 DEF left
  <2> QED
    BY <2>5, <2>6
<1> QED
  BY <1>4, <1>5

(* The bytes: the store that completes, if any, is all that changes them.  *)
LEMMA MemStep ==
  ASSUME Types, NEW pushed \in Pushes, NEW flush \in BOOLEAN, Tick(pushed, flush)
  PROVE  /\ DOMAIN mem' = Word /\ mem' = [a \in Word |-> mem'[a]]
         /\ MEM!Completing = {} => mem' = mem
         /\ \A i : MEM!Completing = {i} =>
              mem' = [a \in Word |-> IF a \in Bytes(stores[i]) THEN PS!Left(stores[i], a)
                                     ELSE mem[a]]
<1>1. mem' = IF MEM!Completing = {} THEN mem
             ELSE LET s == stores[CHOOSE i \in MEM!Completing : TRUE]
                  IN  MemSetSz(mem, s.addr, s.value, s.size)
  <2> DEFINE s == stores[CHOOSE i \in MEM!Completing : TRUE]
  <2>1. MEM!MemSetSz(mem, s.addr, s.value, s.size) = MemSetSz(mem, s.addr, s.value, s.size)
    BY Shared
  <2>2. mem' = IF MEM!Completing = {} THEN mem ELSE MEM!MemSetSz(mem, s.addr, s.value, s.size)
    BY Zenon DEF Tick, MEM!Tick
  <2> QED
    BY <2>1, <2>2, Zenon
<1>2. ASSUME NEW i \in MemSlots
      PROVE  MemSetSz(mem, stores[i].addr, stores[i].value, stores[i].size)
               = [a \in Word |-> IF a \in Bytes(stores[i]) THEN PS!Left(stores[i], a) ELSE mem[a]]
  <2>1. stores[i].addr \in Word /\ stores[i].size \in Sizes
    BY DEF Types, StoreSlot
  <2>2. DOMAIN mem = Word /\ mem = [a \in Word |-> mem[a]]
    BY DEF Types
  <2> DEFINE w == stores[i]
  <2> HIDE DEF w
  <2>3. MemSetSz(mem, w.addr, w.value, w.size)
          = [a \in Word |-> IF a \in Bytes(w) THEN PS!Left(w, a) ELSE mem[a]]
    <3>1. w.addr \in Word /\ w.size \in Sizes
      BY <2>1 DEF w
    <3> QED
      BY <2>2, <3>1, StoreWrites
  <2> QED
    BY <2>3 DEF w
<1>3. MEM!Completing \subseteq MemSlots
  BY Parameters DEF MEM!Completing
<1>4. CASE MEM!Completing = {}
  <2>1. mem' = mem
    BY <1>1, <1>4
  <2> QED
    BY <1>4, <2>1 DEF Types
<1>5. CASE MEM!Completing # {}
  <2> DEFINE i == CHOOSE i \in MEM!Completing : TRUE
  <2>1. i \in MEM!Completing /\ i \in MemSlots
    BY <1>3, <1>5
  <2>2. mem' = MemSetSz(mem, stores[i].addr, stores[i].value, stores[i].size)
    BY <1>1, <1>5
  <2>3. \A j : MEM!Completing = {j} => i = j
    BY <2>1
  <2> HIDE DEF i
  <2>4. mem' = [a \in Word |-> IF a \in Bytes(stores[i]) THEN PS!Left(stores[i], a) ELSE mem[a]]
    BY <1>2, <2>1, <2>2
  <2> QED
    BY <1>5, <2>3, <2>4
<1> QED
  BY <1>4, <1>5

-----------------------------------------------------------------------------
(* The flags of a flush, and the helpers of the bus.                       *)

(* The tick after a flush finds the queue and the memory clearing, and the *)
(* bus goes on for one more.  Nothing is in the load slots then.           *)
Phase ==
  /\ memClear = lsClear
  /\ (busClear = 2) = lsClear
  /\ busClear = 1 => \A i \in MemSlots : ~loads[i].busy

(* A helper asks for the bus iff its competing buffer is loaded, and the   *)
(* spare one is loaded only behind it.  The memory, which the arbiter      *)
(* prefers, never needs its spare.  A clear leaves every buffer empty.     *)
HelpersInv ==
  /\ busClear = 0 => \A h \in CDB!Helpers :
       /\ h \in req <=> bhBusy[h][current[h]]
       /\ bhBusy[h][1 - current[h]] => bhBusy[h][current[h]] /\ h # MemHelper
  /\ busClear = 1 => \A h \in CDB!Helpers, ix \in {0, 1} : ~bhBusy[h][ix]

LEMMA PhaseStep ==
  ASSUME Types, Phase, NEW pushed \in Pushes, NEW flush \in BOOLEAN, Tick(pushed, flush)
  PROVE  /\ Phase' /\ lsClear' = flush /\ memClear' = flush
         /\ busClear' = IF flush THEN 2 ELSE IF busClear > 0 THEN busClear - 1 ELSE 0
         /\ busClear' \in 0 .. 2
         /\ flush => busClear = 0
         /\ memClear => \A i \in MemSlots : ~loads'[i].busy
<1>1. lsClear' = flush /\ memClear' = flush /\ (flush => busClear = 0)
      /\ busClear' = IF flush THEN 2 ELSE IF busClear > 0 THEN busClear - 1 ELSE 0
  BY DEF Tick, LSQ!Tick, MEM!Tick, CDB!Tick, CDB!Countdown
<1>2. busClear \in 0 .. 2 /\ lsClear \in BOOLEAN /\ memClear = lsClear /\ (busClear = 2) = lsClear
  BY DEF Types, Phase
<1>3. memClear => \A i \in MemSlots : ~loads'[i].busy
  <2>1. memClear => ~LoadIn
    BY <1>2 DEF LoadIn, Popping
  <2> QED
    BY <2>1, LoadSlotStep
<1>4. (busClear' = 2) = lsClear'
  BY <1>1, <1>2
<1>5. busClear' = 1 => memClear
  BY <1>1, <1>2
<1> QED
  BY <1>1, <1>2, <1>3, <1>4, <1>5 DEF Phase, MemSlots

(* Messages are given only to helpers that neither stall nor clear.        *)
LEMMA SentFacts ==
  ASSUME Types, Phase, NEW h \in CDB!Helpers, Sent[h] # {}
  PROVE  ~CDB!Stall(h) /\ busClear = 0
<1>1. busClear \in 0 .. 2 /\ memClear = lsClear /\ lsClear \in BOOLEAN /\ (busClear = 2) = lsClear
  BY DEF Types, Phase
<1>2. Sent[h] = IF h = MemHelper THEN Given
                ELSE IF CDB!Stall(h) \/ CDB!ShouldClear THEN {} ELSE {ZeroMessage}
  BY DEF Sent, CDB!Helpers
<1>3. CASE h = MemHelper
  <2>1. ~CDB!Stall(MemHelper) /\ MEM!Sender # {}
    BY <1>2, <1>3 DEF Given, MEM!Sends
  <2>2. PICK i \in MEM!Sender : ~memClear /\ i \in MemSlots /\ loads[i].busy
    BY <2>1, Parameters DEF MEM!Sender, MEM!Due
  <2> QED
    BY <1>1, <1>3, <2>1, <2>2 DEF Phase
<1>4. CASE h # MemHelper
  BY <1>1, <1>2, <1>4 DEF CDB!ShouldClear
<1> QED
  BY <1>3, <1>4

(* The memory's helper has the lowest number, so that it wins whenever it  *)
(* asks and never makes the memory wait.                                   *)
LEMMA MemoryNeverStalls ==
  ASSUME Types, HelpersInv, busClear # 2
  PROVE  ~CDB!Stall(MemHelper)
<1> DEFINE h == MemHelper
           cur == current[h]
           alt == 1 - current[h]
<1>1. h \in CDB!Helpers /\ \A k \in CDB!Helpers : h <= k
  BY Parameters
<1>2. cur \in {0, 1} /\ alt \in {0, 1} /\ 1 - alt = cur /\ busClear \in {0, 1}
      /\ req \subseteq CDB!Helpers
  BY <1>1 DEF Types
<1>3. CASE busClear = 0
  <2>1. ~bhBusy[h][alt] /\ (h \in req <=> bhBusy[h][cur])
    BY <1>1, <1>3 DEF HelpersInv
  <2>2. bhBusy[h][cur] => CDB!Granted(h)
    BY <1>1, <1>2, <1>3, <2>1 DEF CDB!Granted, CDB!Wins
  <2>3. CDB!ReqIx(h) = CDB!NoBuffer
    BY <2>1, <2>2 DEF CDB!ReqIx, CDB!Keeps, CDB!Swaps
  <2> QED
    BY <2>3 DEF CDB!Stall
<1>4. CASE busClear = 1
  <2>1. ~bhBusy[h][alt] /\ ~bhBusy[h][cur]
    BY <1>1, <1>2, <1>4 DEF HelpersInv
  <2>2. CDB!ReqIx(h) = CDB!NoBuffer
    BY <2>1 DEF CDB!ReqIx, CDB!Keeps, CDB!Swaps
  <2> QED
    BY <2>2 DEF CDB!Stall
<1> QED
  BY <1>2, <1>3, <1>4

(* What a tick outside of a clear does to a helper: the message that wins  *)
(* leaves, the others stay, and a new one finds a free buffer.             *)
LEMMA HelperStep ==
  ASSUME Types, Phase, HelpersInv, busClear = 0,
         NEW pushed \in Pushes, NEW flush \in BOOLEAN, Tick(pushed, flush),
         NEW h \in CDB!Helpers
  PROVE  /\ h \in req' <=> bhBusy'[h][current'[h]]
         /\ bhBusy'[h][1 - current'[h]] => bhBusy'[h][current'[h]] /\ h # MemHelper
<1> DEFINE cur == current[h]
           alt == 1 - current[h]
           new == Sent[h] # {}
<1>1. /\ cur \in {0, 1} /\ alt \in {0, 1} /\ alt # cur /\ 1 - alt = cur
      /\ CDB!Buffers = {0, 1}
      /\ cur # CDB!NoBuffer /\ alt # CDB!NoBuffer
  BY DEF Types, CDB!Buffers, CDB!NoBuffer
<1>2. /\ bhBusy[h][cur] \in BOOLEAN /\ bhBusy[h][alt] \in BOOLEAN
      /\ h \in req <=> bhBusy[h][cur]
      /\ bhBusy[h][alt] => bhBusy[h][cur] /\ h # MemHelper
  BY <1>1 DEF HelpersInv, Types
<1>3. /\ CDB!Granted(h) <=> CDB!Wins(h)
      /\ CDB!Wins(h) => bhBusy[h][cur]
  BY <1>2 DEF CDB!Granted, CDB!Wins
<1>4. /\ CDB!Keeps(h) <=> bhBusy[h][cur] /\ ~CDB!Wins(h)
      /\ CDB!Swaps(h) <=> ~CDB!Keeps(h) /\ bhBusy[h][alt]
  BY <1>3 DEF CDB!Keeps, CDB!Swaps
<1>5. new => ~CDB!Stall(h)
  BY SentFacts
<1>6. /\ h \in req' <=> CDB!Keeps(h) \/ CDB!Swaps(h) \/ (new /\ CDB!ReqIx(h) = CDB!NoBuffer)
      /\ current'[h] = IF CDB!Swaps(h) THEN alt ELSE cur
      /\ \A ix \in CDB!Buffers :
           bhBusy'[h][ix] = (CDB!Keep(h, ix) \/ (new /\ ix = CDB!Acquires(h)))
  BY DEF Tick, CDB!Tick
<1>7. /\ CDB!Keep(h, cur) <=> bhBusy[h][cur] /\ CDB!Keeps(h)
      /\ CDB!Keep(h, alt) <=> bhBusy[h][alt]
  BY <1>1 DEF CDB!Keep
<1>8. h = MemHelper => ~CDB!Keeps(h)
  <2>1. req \subseteq CDB!Helpers
    BY DEF Types
  <2> QED
    BY <1>2, <1>4, <2>1, Parameters DEF CDB!Wins
<1> HIDE DEF new
<1>9. CASE CDB!Keeps(h)
  <2>1. CDB!ReqIx(h) = cur /\ CDB!Acquires(h) = alt
    BY <1>1, <1>9 DEF CDB!ReqIx, CDB!Acquires
  <2> QED
    BY <1>1, <1>2, <1>4, <1>6, <1>7, <1>8, <1>9, <2>1
<1>10. CASE CDB!Swaps(h)
  <2>1. CDB!ReqIx(h) = alt /\ CDB!Acquires(h) = cur /\ ~CDB!Keeps(h)
    BY <1>1, <1>4, <1>10 DEF CDB!ReqIx, CDB!Acquires
  <2>2. bhBusy[h][cur] /\ CDB!Wins(h) /\ bhBusy[h][alt]
    BY <1>2, <1>4, <1>10
  <2>3. ~new
    BY <1>1, <1>5, <2>1, <2>2 DEF CDB!Stall
  <2> QED
    BY <1>1, <1>4, <1>6, <1>7, <1>10, <2>1, <2>2, <2>3
<1>11. CASE ~CDB!Keeps(h) /\ ~CDB!Swaps(h)
  <2>1. CDB!ReqIx(h) = CDB!NoBuffer /\ CDB!Acquires(h) = cur
    BY <1>11 DEF CDB!ReqIx, CDB!Acquires
  <2>2. ~bhBusy[h][alt] /\ (bhBusy[h][cur] <=> CDB!Wins(h))
    BY <1>2, <1>3, <1>4, <1>11
  <2> QED
    BY <1>1, <1>4, <1>6, <1>7, <1>11, <2>1, <2>2
<1> QED
  BY <1>9, <1>10, <1>11

(* The bus keeps its types and the condition of its helpers.               *)
LEMMA HelpersStep ==
  ASSUME Types, Phase, HelpersInv,
         NEW pushed \in Pushes, NEW flush \in BOOLEAN, Tick(pushed, flush)
  PROVE  /\ HelpersInv'
         /\ req' \subseteq CDB!Helpers
         /\ bhBusy' \in [CDB!Helpers -> [{0, 1} -> BOOLEAN]]
         /\ current' \in [CDB!Helpers -> {0, 1}]
<1>1. CDB!Tick(Sent, flush) /\ CDB!Buffers = {0, 1}
  BY DEF Tick, CDB!Buffers
<1>2. req' \subseteq CDB!Helpers
  BY <1>1 DEF CDB!Tick, Types
<1>3. bhBusy' \in [CDB!Helpers -> [{0, 1} -> BOOLEAN]]
  BY <1>1 DEF CDB!Tick, CDB!Keep, Types
<1>4. current' \in [CDB!Helpers -> {0, 1}]
  BY <1>1 DEF CDB!Tick, Types
<1>5. HelpersInv'
  <2>1. busClear \in 0 .. 2
    BY DEF Types
  <2>2. CASE busClear = 0
    <3>1. busClear' # 1
      BY <2>2, PhaseStep
    <3>2. \A h \in CDB!Helpers :
            /\ h \in req' <=> bhBusy'[h][current'[h]]
            /\ bhBusy'[h][1 - current'[h]] => bhBusy'[h][current'[h]] /\ h # MemHelper
      BY <2>2, HelperStep
    <3> QED
      BY <3>1, <3>2 DEF HelpersInv, CDB!Helpers, MemHelper
  <2>3. CASE busClear # 0
    <3>1. \A h \in CDB!Helpers : Sent[h] = {}
      BY <2>3, SentFacts
    <3>2. \A h \in CDB!Helpers, ix \in {0, 1} : ~bhBusy'[h][ix]
      BY <1>1, <2>3, <3>1 DEF CDB!Tick, CDB!Keep
    <3>3. req' = {}
      BY <1>1, <2>3 DEF CDB!Tick
    <3>4. \A h \in CDB!Helpers : current'[h] \in {0, 1} /\ 1 - current'[h] \in {0, 1}
      BY <1>4
    <3>5. \A h \in CDB!Helpers : ~bhBusy'[h][current'[h]] /\ ~bhBusy'[h][1 - current'[h]]
      BY <3>2, <3>4
    <3> QED
      BY <3>2, <3>3, <3>5 DEF HelpersInv, CDB!Helpers, MemHelper
  <2> QED
    BY <2>2, <2>3
<1> QED
  BY <1>2, <1>3, <1>4, <1>5

-----------------------------------------------------------------------------
(* The slots of the memory.                                                *)

(* A set of numbers that is not empty has a least one.                     *)
LEMMA Least ==
  ASSUME NEW T, T \subseteq Nat, T # {}
  PROVE  \E x \in T : \A y \in T : x <= y
<1> DEFINE R == OpToRel(<, Nat)
<1>1. IsWellFoundedOn(R, Nat)
  BY NatLessThanWellFounded, Zenon
<1>2. \A x, y \in Nat : <<y, x>> \in R <=> y < x
  BY DEF OpToRel
<1> HIDE DEF R
<1>3. PICK x \in T : \A y \in T : ~(<<y, x>> \in R)
  BY <1>1, WFMin
<1>4. x \in Nat /\ \A y \in T : y \in Nat /\ ~(y < x)
  BY <1>2, <1>3
<1> QED
  BY <1>4

(* The accesses of one kind entered one by one, and each leaves when its   *)
(* time is up: no two of them have the same time left.                     *)
Staggered(slots) ==
  /\ \A i \in MemSlots : slots[i].busy => slots[i].ticks \in 1 .. MemTicks - 1
  /\ \A i, j \in MemSlots :
       slots[i].busy /\ slots[j].busy /\ slots[i].ticks = slots[j].ticks => i = j

(* Accesses with different times left do not fill the slots.               *)
LEMMA StaggeredLeavesRoom ==
  ASSUME NEW slots, Staggered(slots)
  PROVE  MEM!FirstFree(slots) # {}
<1>1. MemTicks \in Nat \ {0, 1} /\ MEM!MemSlots = 0 .. MemTicks - 1 /\ MemSlots = 0 .. MemTicks - 1
  BY Parameters DEF MemSlots
<1> DEFINE free == {i \in MemSlots : ~slots[i].busy}
<1>2. ASSUME free = {} PROVE FALSE
  <2> DEFINE S == 0 .. MemTicks - 1
             T == 1 .. MemTicks - 1
             f == [i \in S |-> slots[i].ticks]
  <2>1. \A i \in S : slots[i].busy
    BY <1>1, <1>2
  <2>2. f \in [S -> T]
    BY <1>1, <2>1 DEF Staggered
  <2>3. IsFiniteSet(S) /\ Cardinality(S) = MemTicks
    BY <1>1, FS_Interval
  <2>4. IsFiniteSet(T) /\ Cardinality(T) = MemTicks - 1
    BY <1>1, FS_Interval
  <2>5. Cardinality(T) < Cardinality(S)
    BY <1>1, <2>3, <2>4
  <2>6. \E i, j \in S : i # j /\ f[i] = f[j]
    <3> HIDE DEF S, T, f
    <3> QED
      BY <2>2, <2>3, <2>4, <2>5, FS_PigeonHole
  <2>7. PICK i \in S, j \in S : i # j /\ slots[i].ticks = slots[j].ticks
    BY <2>6
  <2> QED
    BY <1>1, <2>1, <2>7 DEF Staggered
<1>3. free \subseteq Nat
  BY <1>1
<1>4. PICK i \in free : \A j \in free : i <= j
  <2> HIDE DEF free
  <2> QED
    BY <1>2, <1>3, Least
<1>5. \A j \in MemSlots : j < i => slots[j].busy
  BY <1>1, <1>4
<1> QED
  BY <1>1, <1>4, <1>5 DEF MEM!FirstFree

(* The first free slot is one, and it is free.                             *)
LEMMA OneFree ==
  ASSUME NEW slots, NEW i \in MEM!FirstFree(slots)
  PROVE  /\ i \in MemSlots /\ ~slots[i].busy
         /\ \A j \in MEM!FirstFree(slots) : i = j
<1>1. MemSlots \subseteq Int /\ MEM!MemSlots = MemSlots
  BY Parameters DEF MemSlots
<1>2. ASSUME NEW j \in MEM!FirstFree(slots) PROVE i = j
  <2>1. i \in Int /\ j \in Int
    BY <1>1 DEF MEM!FirstFree
  <2>2. ~(i < j) /\ ~(j < i)
    BY DEF MEM!FirstFree
  <2> QED
    BY <2>1, <2>2
<1> QED
  BY <1>1, <1>2 DEF MEM!FirstFree

SlotsInv == Types /\ Phase /\ HelpersInv /\ Staggered(loads) /\ Staggered(stores)

(* The load that may send is the one whose time is up.                     *)
LEMMA SenderIs ==
  ASSUME SlotsInv
  PROVE  \A i : i \in MEM!Sender <=> i \in MemSlots /\ ~memClear /\ loads[i].busy /\ loads[i].ticks = 1
<1>1. MEM!MemSlots = MemSlots /\ MemSlots \subseteq Int /\ MemTicks \in Nat
  BY Parameters DEF MemSlots
<1>2. \A i \in MemSlots : MEM!Due(i) <=> loads[i].busy /\ loads[i].ticks = 1
  <2>1. \A i \in MemSlots : loads[i].busy => loads[i].ticks \in 1 .. MemTicks - 1
    BY DEF SlotsInv, Staggered
  <2> QED
    BY <1>1, <2>1 DEF MEM!Due
<1>3. \A i, j \in MemSlots : MEM!Due(i) /\ MEM!Due(j) => i = j
  BY <1>2 DEF SlotsInv, Staggered
<1>4. \A i : i \in MEM!Sender <=> i \in MemSlots /\ ~memClear /\ MEM!Due(i)
  <2>1. \A i : i \in MEM!Sender <=>
          ~memClear /\ i \in MemSlots /\ MEM!Due(i) /\ \A j \in MemSlots : j < i => ~MEM!Due(j)
    BY <1>1 DEF MEM!Sender
  <2>2. \A i, j \in MemSlots : j < i => j # i
    BY <1>1
  <2> QED
    BY <1>3, <2>1, <2>2
<1> QED
  BY <1>2, <1>4

(* The store that completes is the one whose time is up.                   *)
LEMMA CompletingIs ==
  MEM!Completing = IF memClear THEN {} ELSE {i \in MemSlots : stores[i].busy /\ stores[i].ticks = 1}
BY Parameters DEF MEM!Completing

(* Slots are filled with a full count, and the others count down; what is  *)
(* done leaves.  The loads are dropped by a flush, which stops the clock   *)
(* of the stores.                                                          *)
LEMMA LoadCounts ==
  ASSUME SlotsInv, NEW pushed \in Pushes, NEW flush \in BOOLEAN, Tick(pushed, flush),
         NEW i \in MemSlots, loads'[i].busy
  PROVE  /\ ~memClear
         /\ \/ /\ LoadIn /\ i \in MEM!FirstFree(loads) /\ ~loads[i].busy
               /\ loads'[i].ticks = MemTicks - 1 /\ loads'[i].addr = Head.addr
               /\ loads'[i].size = Head.size /\ loads'[i].rob = Head.rob
            \/ /\ loads[i].busy /\ i \notin MEM!Sender /\ loads[i].ticks \in 2 .. MemTicks - 1
               /\ loads'[i].ticks = loads[i].ticks - 1 /\ loads'[i].addr = loads[i].addr
               /\ loads'[i].size = loads[i].size /\ loads'[i].rob = loads[i].rob
<1>1. /\ Types /\ Phase /\ HelpersInv /\ MemTicks \in Nat \ {0, 1}
      /\ busClear \in 0 .. 2
  BY Parameters DEF SlotsInv, Types
<1>2. ~memClear
  BY <1>1, PhaseStep
<1>3. ~CDB!Stall(MemHelper)
  <2>1. busClear # 2
    BY <1>1, <1>2 DEF Phase
  <2> QED
    BY <1>1, <2>1, MemoryNeverStalls
<1>4. CASE LoadIn /\ i \in MEM!FirstFree(loads)
  <2>1. loads'[i] = [busy |-> TRUE, ticks |-> MemTicks - 1, addr |-> Head.addr,
                     size |-> Head.size, rob |-> Head.rob]
    BY <1>1, <1>4, LoadSlotStep
  <2> QED
    BY <1>2, <1>4, <2>1, OneFree
<1>5. CASE ~(LoadIn /\ i \in MEM!FirstFree(loads))
  <2>1. /\ loads'[i].addr = loads[i].addr /\ loads'[i].size = loads[i].size
        /\ loads'[i].rob = loads[i].rob
        /\ loads'[i].busy <=> /\ loads[i].busy /\ ~memClear
                              /\ i \notin MEM!Sender \/ CDB!Stall(MemHelper)
        /\ loads'[i].ticks = IF loads[i].busy /\ ~memClear
                               THEN loads[i].ticks - 1 ELSE loads[i].ticks
    BY <1>1, <1>5, LoadSlotStep
  <2>2. loads[i].busy /\ i \notin MEM!Sender /\ loads'[i].ticks = loads[i].ticks - 1
    BY <1>2, <1>3, <2>1
  <2>3. loads[i].ticks \in 1 .. MemTicks - 1 /\ loads[i].ticks # 1
    BY <1>2, <2>2, SenderIs DEF SlotsInv, Staggered
  <2> QED
    BY <1>1, <1>2, <2>1, <2>2, <2>3
<1> QED
  BY <1>4, <1>5

LEMMA StoreCounts ==
  ASSUME SlotsInv, NEW pushed \in Pushes, NEW flush \in BOOLEAN, Tick(pushed, flush),
         NEW i \in MemSlots, stores'[i].busy
  PROVE  \/ /\ StoreIn /\ i \in MEM!FirstFree(stores) /\ ~stores[i].busy /\ ~memClear
            /\ stores'[i].ticks = MemTicks - 1 /\ stores'[i].addr = Head.addr
            /\ stores'[i].size = Head.size /\ stores'[i].value = Head.value
         \/ /\ stores[i].busy /\ i \notin MEM!Completing
            /\ stores'[i].addr = stores[i].addr
            /\ stores'[i].size = stores[i].size /\ stores'[i].value = stores[i].value
            /\ ~memClear => /\ stores[i].ticks \in 2 .. MemTicks - 1
                            /\ stores'[i].ticks = stores[i].ticks - 1
            /\ memClear => ~StoreIn /\ stores'[i].ticks = stores[i].ticks
<1>1. Types /\ MemTicks \in Nat \ {0, 1} /\ memClear = lsClear
  BY Parameters DEF SlotsInv, Phase
<1>2. memClear => ~StoreIn
  BY <1>1 DEF StoreIn, Popping
<1>3. CASE StoreIn /\ i \in MEM!FirstFree(stores)
  <2>1. stores'[i] = [busy |-> TRUE, ticks |-> MemTicks - 1, addr |-> Head.addr,
                      size |-> Head.size, value |-> Head.value]
    BY <1>1, <1>3, StoreSlotStep
  <2> QED
    BY <1>2, <1>3, <2>1, OneFree
<1>4. CASE ~(StoreIn /\ i \in MEM!FirstFree(stores))
  <2>1. /\ stores'[i].addr = stores[i].addr /\ stores'[i].size = stores[i].size
        /\ stores'[i].value = stores[i].value
        /\ stores'[i].busy <=> stores[i].busy /\ i \notin MEM!Completing
        /\ stores'[i].ticks = IF stores[i].busy /\ ~memClear
                                THEN stores[i].ticks - 1 ELSE stores[i].ticks
    BY <1>1, <1>4, StoreSlotStep
  <2>2. stores[i].ticks \in 1 .. MemTicks - 1
    BY <2>1 DEF SlotsInv, Staggered
  <2>3. ~memClear => stores[i].ticks # 1
    BY <2>1, CompletingIs
  <2> QED
    BY <1>1, <1>2, <2>1, <2>2, <2>3
<1> QED
  BY <1>3, <1>4

(* Two slots that are busy after a tick were busy before, or one of them   *)
(* has just been filled.                                                   *)
LEMMA StaggeredStep ==
  ASSUME SlotsInv, NEW pushed \in Pushes, NEW flush \in BOOLEAN, Tick(pushed, flush)
  PROVE  Staggered(loads)' /\ Staggered(stores)'
<1>1. /\ MemTicks \in Nat \ {0, 1} /\ Staggered(loads) /\ Staggered(stores)
      /\ memClear \in BOOLEAN
  BY Parameters DEF SlotsInv, Types
<1>2. ASSUME NEW i \in MemSlots, NEW j \in MemSlots, loads'[i].busy, loads'[j].busy,
             loads'[i].ticks = loads'[j].ticks
      PROVE  i = j
  <2>1. \/ i \in MEM!FirstFree(loads) /\ loads'[i].ticks = MemTicks - 1
        \/ loads[i].busy /\ loads[i].ticks \in 2 .. MemTicks - 1 /\ loads'[i].ticks = loads[i].ticks - 1
    BY <1>2, LoadCounts
  <2>2. \/ j \in MEM!FirstFree(loads) /\ loads'[j].ticks = MemTicks - 1
        \/ loads[j].busy /\ loads[j].ticks \in 2 .. MemTicks - 1 /\ loads'[j].ticks = loads[j].ticks - 1
    BY <1>2, LoadCounts
  <2>3. CASE i \in MEM!FirstFree(loads) /\ j \in MEM!FirstFree(loads)
    BY <2>3, OneFree
  <2>4. CASE loads[i].busy /\ loads[j].busy /\ loads[i].ticks = loads[j].ticks
    BY <1>1, <2>4 DEF Staggered
  <2> QED
    BY <1>1, <1>2, <2>1, <2>2, <2>3, <2>4
<1>3. ASSUME NEW i \in MemSlots, NEW j \in MemSlots, stores'[i].busy, stores'[j].busy,
             stores'[i].ticks = stores'[j].ticks
      PROVE  i = j
  <2>1. \/ i \in MEM!FirstFree(stores) /\ stores'[i].ticks = MemTicks - 1 /\ StoreIn /\ ~memClear
        \/ stores[i].busy /\ \/ /\ stores[i].ticks \in 2 .. MemTicks - 1 /\ ~memClear
                                /\ stores'[i].ticks = stores[i].ticks - 1
                             \/ memClear /\ stores'[i].ticks = stores[i].ticks
    BY <1>3, StoreCounts
  <2>2. \/ j \in MEM!FirstFree(stores) /\ stores'[j].ticks = MemTicks - 1 /\ StoreIn /\ ~memClear
        \/ stores[j].busy /\ \/ /\ stores[j].ticks \in 2 .. MemTicks - 1 /\ ~memClear
                                /\ stores'[j].ticks = stores[j].ticks - 1
                             \/ memClear /\ stores'[j].ticks = stores[j].ticks
    BY <1>3, StoreCounts
  <2>3. CASE i \in MEM!FirstFree(stores) /\ j \in MEM!FirstFree(stores)
    BY <2>3, OneFree
  <2>4. CASE stores[i].busy /\ stores[j].busy /\ stores[i].ticks = stores[j].ticks
    BY <1>1, <2>4 DEF Staggered
  <2> QED
    BY <1>1, <1>3, <2>1, <2>2, <2>3, <2>4
<1>4. ASSUME NEW i \in MemSlots
      PROVE  /\ loads'[i].busy => loads'[i].ticks \in 1 .. MemTicks - 1
             /\ stores'[i].busy => stores'[i].ticks \in 1 .. MemTicks - 1
  <2>1. loads'[i].busy => \/ loads'[i].ticks = MemTicks - 1
                          \/ /\ loads[i].ticks \in 2 .. MemTicks - 1
                             /\ loads'[i].ticks = loads[i].ticks - 1
    BY LoadCounts
  <2>2. stores'[i].busy => \/ stores'[i].ticks = MemTicks - 1
                           \/ /\ stores[i].busy
                              /\ \/ /\ stores[i].ticks \in 2 .. MemTicks - 1
                                    /\ stores'[i].ticks = stores[i].ticks - 1
                                 \/ stores'[i].ticks = stores[i].ticks
    BY <1>1, StoreCounts
  <2>3. stores[i].busy => stores[i].ticks \in 1 .. MemTicks - 1
    BY <1>1 DEF Staggered
  <2> QED
    BY <1>1, <2>1, <2>2, <2>3
<1> QED
  BY <1>2, <1>3, <1>4 DEF Staggered, MemSlots

(* Every tick keeps the types.                                             *)
LEMMA Typing ==
  ASSUME SlotsInv, NEW pushed \in Pushes, NEW flush \in BOOLEAN, Tick(pushed, flush)
  PROVE  Types'
<1>1. /\ Types /\ Phase /\ HelpersInv /\ MemTicks \in Nat \ {0, 1}
  BY Parameters DEF SlotsInv
<1>2. Head \in EntryType
  BY <1>1 DEF Types, Head
<1>3. loads' \in [MemSlots -> LoadSlot]
  <2>1. DOMAIN loads' = MemSlots /\ loads' = [i \in MemSlots |-> loads'[i]]
    BY Parameters DEF Tick, MEM!Tick
  <2>2. ASSUME NEW i \in MemSlots PROVE loads'[i] \in LoadSlot
    <3>1. CASE LoadIn /\ i \in MEM!FirstFree(loads)
      <4>1. loads'[i] = [busy |-> TRUE, ticks |-> MemTicks - 1, addr |-> Head.addr,
                         size |-> Head.size, rob |-> Head.rob]
        BY <1>1, <3>1, LoadSlotStep
      <4> QED
        BY <1>1, <1>2, <4>1 DEF LoadSlot, EntryType
    <3>2. CASE ~(LoadIn /\ i \in MEM!FirstFree(loads))
      BY <1>1, <3>2, LoadSlotStep
    <3> QED
      BY <3>1, <3>2
  <2> QED
    BY <2>1, <2>2
<1>4. stores' \in [MemSlots -> StoreSlot]
  <2>1. DOMAIN stores' = MemSlots /\ stores' = [i \in MemSlots |-> stores'[i]]
    BY Parameters DEF Tick, MEM!Tick
  <2>2. ASSUME NEW i \in MemSlots PROVE stores'[i] \in StoreSlot
    <3>1. CASE StoreIn /\ i \in MEM!FirstFree(stores)
      <4>1. stores'[i] = [busy |-> TRUE, ticks |-> MemTicks - 1, addr |-> Head.addr,
                          size |-> Head.size, value |-> Head.value]
        BY <1>1, <3>1, StoreSlotStep
      <4> QED
        BY <1>1, <1>2, <4>1 DEF StoreSlot, EntryType
    <3>2. CASE ~(StoreIn /\ i \in MEM!FirstFree(stores))
      BY <1>1, <3>2, StoreSlotStep
    <3> QED
      BY <3>1, <3>2
  <2> QED
    BY <2>1, <2>2
<1>5. lsHead' \in Slots /\ lsTail' \in Slots
  BY <1>1, RingStep
<1>6. lsData' \in [Slots -> EntryType]
  BY <1>1, DataStep
<1>7. lsClear' \in BOOLEAN /\ memClear' \in BOOLEAN /\ busClear' \in 0 .. 2
  BY <1>1, PhaseStep
<1>8. DOMAIN mem' = Word /\ mem' = [a \in Word |-> mem'[a]]
  BY <1>1, MemStep
<1>9. /\ req' \subseteq CDB!Helpers /\ bhBusy' \in [CDB!Helpers -> [{0, 1} -> BOOLEAN]]
      /\ current' \in [CDB!Helpers -> {0, 1}]
  BY <1>1, HelpersStep
<1>10. workload' \in Workloads
  BY <1>1 DEF Tick, Types
<1> QED
  BY <1>3, <1>4, <1>5, <1>6, <1>7, <1>8, <1>9, <1>10
     DEF Types, Slots, MemSlots, EntryType, LoadSlot, StoreSlot, CDB!Helpers

(* The initial states.                                                     *)
LEMMA SlotsInit == Init => SlotsInv
<1> SUFFICES ASSUME Init PROVE SlotsInv
  OBVIOUS
<1>1. /\ lsHead = 0 /\ lsTail = 0 /\ ~lsClear /\ ~memClear /\ busClear = 0 /\ req = {}
      /\ lsClear \in BOOLEAN /\ memClear \in BOOLEAN
      /\ mem = [a \in Word |-> 0]
      /\ bhBusy = [h \in CDB!Helpers |-> [ix \in CDB!Buffers |-> FALSE]]
      /\ current = [h \in CDB!Helpers |-> 0]
      /\ workload \in Workloads
  BY Shared DEF Init, LSQ!Init, MEM!Init, CDB!Init
<1>2. lsData \in [Slots -> EntryType]
  <2>1. LSQ!ZeroEntry \in EntryType
    BY Parameters DEF LSQ!ZeroEntry, EntryType, Sizes
  <2>2. lsData = [s \in Slots |-> LSQ!ZeroEntry]
    BY DEF Init, LSQ!Init, Slots
  <2> QED
    BY <2>1, <2>2
<1>3. loads \in [MemSlots -> LoadSlot] /\ \A i \in MemSlots : ~loads[i].busy
  <2> DEFINE z == [busy |-> FALSE, ticks |-> 0, addr |-> 0, size |-> "BYTE", rob |-> 0]
  <2>1. loads = [i \in MemSlots |-> z]
    BY Parameters DEF Init, MEM!Init
  <2>2. z \in LoadSlot /\ ~z.busy
    BY Parameters DEF LoadSlot, Sizes
  <2> HIDE DEF z
  <2> QED
    BY <2>1, <2>2
<1>4. stores \in [MemSlots -> StoreSlot] /\ \A i \in MemSlots : ~stores[i].busy
  <2> DEFINE z == [busy |-> FALSE, ticks |-> 0, addr |-> 0, size |-> "BYTE", value |-> 0]
  <2>1. stores = [i \in MemSlots |-> z]
    BY Parameters DEF Init, MEM!Init
  <2>2. z \in StoreSlot /\ ~z.busy
    BY Parameters DEF StoreSlot, Sizes
  <2> HIDE DEF z
  <2> QED
    BY <2>1, <2>2
<1>5. /\ bhBusy \in [CDB!Helpers -> [{0, 1} -> BOOLEAN]]
      /\ current \in [CDB!Helpers -> {0, 1}]
      /\ \A h \in CDB!Helpers : ~bhBusy[h][current[h]] /\ ~bhBusy[h][1 - current[h]]
  BY <1>1 DEF CDB!Buffers
<1>6. Types
  BY <1>1, <1>2, <1>3, <1>4, <1>5, Parameters DEF Types
<1>7. Phase /\ HelpersInv
  BY <1>1, <1>5 DEF Phase, HelpersInv
<1>8. Staggered(loads) /\ Staggered(stores)
  BY <1>3, <1>4 DEF Staggered
<1> QED
  BY <1>6, <1>7, <1>8 DEF SlotsInv

LEMMA SlotsStep == SlotsInv /\ [Next]_vars => SlotsInv'
<1> SUFFICES ASSUME SlotsInv, [Next]_vars PROVE SlotsInv'
  OBVIOUS
<1>1. CASE UNCHANGED vars
  BY <1>1 DEF vars, SlotsInv, Types, Phase, HelpersInv, Staggered
<1>2. CASE Next
  <2>1. PICK pushed \in Pushes, flush \in BOOLEAN : Tick(pushed, flush)
    BY <1>2 DEF Next
  <2>2. Types'
    BY <2>1, Typing
  <2>3. Phase' /\ HelpersInv'
    BY <2>1, PhaseStep, HelpersStep DEF SlotsInv
  <2>4. Staggered(loads)' /\ Staggered(stores)'
    BY <2>1, StaggeredStep
  <2> QED
    BY <2>2, <2>3, <2>4 DEF SlotsInv
<1> QED
  BY <1>1, <1>2

(* A load or a store that leaves the queue always finds a free slot, in a  *)
(* memory of any latency and whatever else competes for the bus: the scans *)
(* of _mem_acquire_load_req and _mem_acquire_store_req end within their    *)
(* arrays (memory.c).                                                      *)
THEOREM SlotsCorrect == Spec => []SlotsSuffice
<1>1. Spec => []SlotsInv
  BY SlotsInit, SlotsStep, PTL DEF Spec
<1>2. SlotsInv => SlotsSuffice
  BY StaggeredLeavesRoom DEF SlotsInv, SlotsSuffice, OutOfSlots, MEM!OutOfSlots
<1> QED
  BY <1>1, <1>2, PTL

-----------------------------------------------------------------------------
(* The accesses in flight.                                                 *)

(* Stores are never invalidated.                                           *)
StoresStay == \A s \in Live : IsStore(s) => ~lsData[s].cleared

(* The loads that wait have different tags.                                *)
TagsDiffer ==
  /\ \A s, t \in Live : IsLoad(s) /\ IsLoad(t) /\ lsData[s].rob = lsData[t].rob => s = t
  /\ \A i, j \in MemSlots : loads[i].busy /\ loads[j].busy /\ loads[i].rob = loads[j].rob => i = j
  /\ \A i \in MemSlots, s \in Live : loads[i].busy /\ IsLoad(s) => loads[i].rob # lsData[s].rob

OrderInv == SlotsInv /\ StoresStay /\ TagsDiffer

(* A load for entry rob of the bytes at addr waits, in the queue or in a   *)
(* slot, and its turn is t.                                                *)
WaitsAs(rob, addr, size, t) ==
  \/ \E s \in Live :
       /\ IsLoad(s) /\ t = MemTicks + Age(s)
       /\ rob = lsData[s].rob /\ addr = lsData[s].addr /\ size = lsData[s].size
  \/ \E i \in MemSlots :
       /\ loads[i].busy /\ t = loads[i].ticks
       /\ rob = loads[i].rob /\ addr = loads[i].addr /\ size = loads[i].size

(* What such a load is going to answer.                                    *)
Promise(rob, addr, size, t) ==
  [rob |-> rob, result |-> MemGetSz(PS!MemBefore(t), addr, size)]

(* The loads that wait, one by one.                                        *)
WaitingFacts ==
  Types =>
    /\ lsClear \/ memClear => Waiting = {}
    /\ ~lsClear /\ ~memClear =>
         \A w : w \in Waiting <=> \E rob, addr, size, t :
           WaitsAs(rob, addr, size, t) /\ w = Promise(rob, addr, size, t)

LEMMA WaitingHolds == WaitingFacts
<1> SUFFICES ASSUME Types
             PROVE  /\ lsClear \/ memClear => Waiting = {}
                    /\ ~lsClear /\ ~memClear =>
                         \A w : w \in Waiting <=> \E rob, addr, size, t :
                           WaitsAs(rob, addr, size, t) /\ w = Promise(rob, addr, size, t)
  BY DEF WaitingFacts
<1>1. lsClear \/ memClear => Waiting = {}
  BY DEF Waiting
<1>2. ASSUME ~lsClear, ~memClear, NEW w
      PROVE  w \in Waiting <=> \E rob, addr, size, t :
               WaitsAs(rob, addr, size, t) /\ w = Promise(rob, addr, size, t)
  <2>1. /\ \A q, t : Load(q, t) = Promise(q.rob, q.addr, q.size, t)
        /\ \A s : PS!QueueTurn(s) = MemTicks + Age(s)
    BY DEF Load, Promise, PS!QueueTurn, Age, Distance
  <2>2. QueuedLoads = {s \in Live : IsLoad(s)} /\ SlottedLoads = {i \in MemSlots : loads[i].busy}
    BY QueueIs, Parameters DEF QueuedLoads, SlottedLoads, IsLoad
  <2>3. w \in Waiting <=> \/ \E s \in QueuedLoads : w = Load(lsData[s], PS!QueueTurn(s))
                         \/ \E i \in SlottedLoads : w = Load(loads[i], loads[i].ticks)
    BY <1>2 DEF Waiting
  <2>4. w \in Waiting <=>
          \/ \E s \in Live : IsLoad(s) /\ w = Promise(lsData[s].rob, lsData[s].addr, lsData[s].size,
                                                     MemTicks + Age(s))
          \/ \E i \in MemSlots : loads[i].busy /\ w = Promise(loads[i].rob, loads[i].addr,
                                                     loads[i].size, loads[i].ticks)
    BY <2>1, <2>2, <2>3
  <2> QED
    BY <2>4 DEF WaitsAs
<1> QED
  BY <1>1, <1>2

LEMMA WaitingHoldsNext == WaitingFacts'
BY WaitingHolds, PTL

(* A store is pushed when no flush is under way.                           *)
LEMMA PushedStore ==
  ASSUME SlotsInv, NEW pushed \in Pushes, NEW flush \in BOOLEAN, Tick(pushed, flush),
         pushed # {}, lsData'[lsTail].op = "STORE"
  PROVE  ~lsData'[lsTail].cleared /\ ~flush
<1>1. Types
  BY DEF SlotsInv
<1>2. PICK r \in Requests : pushed = {Entry(r)}
  BY <1>1, PushedIs
<1>3. lsData'[lsTail] = Entry(r) /\ ~Entry(r).cleared
  BY <1>1, <1>2, DataStep DEF Entry
<1>4. flush => \A p \in pushed : p.op = "LOAD"
  BY DEF Tick
<1> QED
  BY <1>2, <1>3, <1>4

(* A load that is pushed has a tag that no waiting load has.               *)
LEMMA PushedLoad ==
  ASSUME SlotsInv, NEW pushed \in Pushes, NEW flush \in BOOLEAN, Tick(pushed, flush),
         pushed # {}, lsData'[lsTail].op = "LOAD"
  PROVE  /\ ~lsData'[lsTail].cleared
         /\ \A s \in Live : IsLoad(s) => lsData[s].rob # lsData'[lsTail].rob
         /\ \A i \in MemSlots : loads[i].busy => loads[i].rob # lsData'[lsTail].rob
<1>1. Types /\ memClear = lsClear
  BY DEF SlotsInv, Phase
<1>2. ~lsClear /\ ~memClear
  BY <1>1, PushedIs
<1>3. PICK r \in Requests : /\ r \in Access /\ pushed = {Entry(r)}
                            /\ r.op = "LOAD" => Entry(r).rob \in FreeTags
  BY <1>1, PushedIs
<1>4. lsData'[lsTail] = Entry(r)
  BY <1>1, <1>3, DataStep
<1>5. Entry(r).op = r.op /\ ~Entry(r).cleared
  BY DEF Entry
<1>6. \A w \in Waiting : w.rob # Entry(r).rob
  BY <1>3, <1>4, <1>5 DEF FreeTags
<1>7. ASSUME NEW rob, NEW addr, NEW size, NEW t, WaitsAs(rob, addr, size, t)
      PROVE  rob # Entry(r).rob
  <2>1. Promise(rob, addr, size, t) \in Waiting
    BY <1>1, <1>2, <1>7, WaitingHolds DEF WaitingFacts
  <2>2. Promise(rob, addr, size, t).rob = rob
    BY DEF Promise
  <2> QED
    BY <1>6, <2>1, <2>2
<1>8. \A s \in Live : IsLoad(s) => lsData[s].rob # Entry(r).rob
  BY <1>7 DEF WaitsAs
<1>9. \A i \in MemSlots : loads[i].busy => loads[i].rob # Entry(r).rob
  BY <1>7 DEF WaitsAs
<1> QED
  BY <1>4, <1>5, <1>8, <1>9

(* What is in the queue after a tick was there before, and no younger      *)
(* than before with respect to the rest, or has just been pushed.          *)
LEMMA EntryFrom ==
  ASSUME SlotsInv, NEW pushed \in Pushes, NEW flush \in BOOLEAN, Tick(pushed, flush),
         NEW s \in Live'
  PROVE  \/ pushed # {} /\ s = lsTail
         \/ /\ s \in Live /\ s # lsTail /\ (Popping => s # lsHead)
            /\ lsData'[s].op = lsData[s].op /\ lsData'[s].addr = lsData[s].addr
            /\ lsData'[s].size = lsData[s].size /\ lsData'[s].rob = lsData[s].rob
            /\ lsData'[s].value = lsData[s].value
            /\ IsLoad(s)' => IsLoad(s) /\ ~lsClear
            /\ IsStore(s)' <=> IsStore(s)
            /\ IsStore(s) /\ ~lsData[s].cleared => ~lsData'[s].cleared
            /\ Age(s)' = IF Popping THEN Age(s) - 1 ELSE Age(s)
<1>1. Types
  BY DEF SlotsInv
<1>2. s \in Slots
  BY DEF Live, Slots
<1>3. /\ (s \in Live /\ ~(Popping /\ s = lsHead)) \/ (pushed # {} /\ s = lsTail)
      /\ lsTail \notin Live
      /\ Age(s)' = IF Popping THEN Age(s) - 1 ELSE Age(s)
  BY <1>1, <1>2, RingStep
<1>4. s \in Live =>
        /\ lsData'[s].op = lsData[s].op /\ lsData'[s].addr = lsData[s].addr
        /\ lsData'[s].size = lsData[s].size /\ lsData'[s].value = lsData[s].value
        /\ lsData'[s].rob = lsData[s].rob
        /\ lsData'[s].cleared <=> lsData[s].cleared \/ (lsClear /\ lsData[s].op = "LOAD")
  BY <1>1, DataStep
<1> QED
  BY <1>3, <1>4 DEF IsLoad, IsStore

LEMMA StoresStayStep ==
  ASSUME OrderInv, NEW pushed \in Pushes, NEW flush \in BOOLEAN, Tick(pushed, flush)
  PROVE  StoresStay'
<1>1. SlotsInv
  BY DEF OrderInv
<1>2. ASSUME NEW s \in Live', IsStore(s)'
      PROVE  ~lsData'[s].cleared
  <2>1. CASE pushed # {} /\ s = lsTail
    <3>1. lsData'[lsTail].op = "STORE"
      BY <1>2, <2>1 DEF IsStore
    <3> QED
      BY <1>1, <2>1, <3>1, PushedStore
  <2>2. CASE ~(pushed # {} /\ s = lsTail)
    BY <1>1, <1>2, <2>2, EntryFrom DEF OrderInv, StoresStay
  <2> QED
    BY <2>1, <2>2
<1> QED
  BY <1>2 DEF StoresStay

LEMMA TagsStep ==
  ASSUME OrderInv, NEW pushed \in Pushes, NEW flush \in BOOLEAN, Tick(pushed, flush)
  PROVE  TagsDiffer'
<1>1. SlotsInv /\ Types /\ TagsDiffer
  BY DEF OrderInv, SlotsInv
<1>2. LoadIn => lsHead \in Live /\ IsLoad(lsHead) /\ Popping
  BY <1>1, RingStep DEF LoadIn, IsLoad, Head
<1>3. ASSUME NEW s \in Live', IsLoad(s)'
      PROVE  \/ /\ pushed # {} /\ s = lsTail
                /\ \A t \in Live : IsLoad(t) => lsData[t].rob # lsData'[s].rob
                /\ \A i \in MemSlots : loads[i].busy => loads[i].rob # lsData'[s].rob
             \/ s \in Live /\ IsLoad(s) /\ lsData'[s].rob = lsData[s].rob /\ (LoadIn => s # lsHead)
  <2>1. CASE pushed # {} /\ s = lsTail
    <3>1. lsData'[lsTail].op = "LOAD"
      BY <1>3, <2>1 DEF IsLoad
    <3> QED
      BY <1>1, <2>1, <3>1, PushedLoad
  <2>2. CASE ~(pushed # {} /\ s = lsTail)
    BY <1>1, <1>2, <1>3, <2>2, EntryFrom
  <2> QED
    BY <2>1, <2>2
<1>4. ASSUME NEW i \in MemSlots, loads'[i].busy
      PROVE  \/ LoadIn /\ i \in MEM!FirstFree(loads) /\ loads'[i].rob = lsData[lsHead].rob
             \/ loads[i].busy /\ loads'[i].rob = loads[i].rob
  BY <1>1, <1>4, LoadCounts DEF Head
<1>5. ASSUME NEW s \in Live', NEW t \in Live', IsLoad(s)', IsLoad(t)',
             lsData'[s].rob = lsData'[t].rob
      PROVE  s = t
  BY <1>1, <1>3, <1>5 DEF TagsDiffer
<1>6. ASSUME NEW i \in MemSlots, NEW j \in MemSlots, loads'[i].busy, loads'[j].busy,
             loads'[i].rob = loads'[j].rob
      PROVE  i = j
  <2>1. CASE i \in MEM!FirstFree(loads) /\ j \in MEM!FirstFree(loads)
    BY <2>1, OneFree
  <2>2. CASE ~(i \in MEM!FirstFree(loads) /\ j \in MEM!FirstFree(loads))
    BY <1>1, <1>2, <1>4, <1>6, <2>2 DEF TagsDiffer
  <2> QED
    BY <2>1, <2>2
<1>7. ASSUME NEW i \in MemSlots, NEW s \in Live', loads'[i].busy, IsLoad(s)'
      PROVE  loads'[i].rob # lsData'[s].rob
  BY <1>1, <1>2, <1>3, <1>4, <1>7 DEF TagsDiffer
<1> QED
  BY <1>5, <1>6, <1>7 DEF TagsDiffer, MemSlots

LEMMA OrderInit == Init => OrderInv
<1> SUFFICES ASSUME Init PROVE OrderInv
  OBVIOUS
<1>1. SlotsInv
  BY SlotsInit
<1>2. Live = {}
  <2>1. lsHead = 0 /\ lsTail = 0
    BY DEF Init, LSQ!Init
  <2>2. \A s \in Slots : Age(s) \in Nat
    BY <1>1, Parameters, DistanceIs DEF SlotsInv, Types, Age, Slots
  <2>3. Age(lsTail) = 0
    BY <2>1, Parameters, DistanceIs DEF Age, Slots
  <2> QED
    BY <2>2, <2>3 DEF Live
<1>3. \A i \in MemSlots : ~loads[i].busy
  BY Parameters DEF Init, MEM!Init
<1> QED
  BY <1>1, <1>2, <1>3
     DEF OrderInv, StoresStay, TagsDiffer

LEMMA OrderStep == OrderInv /\ [Next]_vars => OrderInv'
<1> SUFFICES ASSUME OrderInv, [Next]_vars PROVE OrderInv'
  OBVIOUS
<1>1. SlotsInv'
  BY SlotsStep DEF OrderInv
<1>2. CASE UNCHANGED vars
  BY <1>1, <1>2 DEF vars, OrderInv, StoresStay, TagsDiffer, Live, Age, IsLoad, IsStore
<1>3. CASE Next
  <2>1. PICK pushed \in Pushes, flush \in BOOLEAN : Tick(pushed, flush)
    BY <1>3 DEF Next
  <2> QED
    BY <1>1, <2>1, StoresStayStep, TagsStep DEF OrderInv
<1> QED
  BY <1>2, <1>3

-----------------------------------------------------------------------------
(* The stores in flight, and the memory as an access finds it.             *)

(* Where they are, what they are, and in which order they take effect.     *)
PendingFacts ==
  Types =>
    /\ \A p : p \in PS!Pending <=>
         \/ \E i \in MemSlots : stores[i].busy /\ p = <<"slot", i>>
         \/ \E s \in Live : IsStore(s) /\ p = <<"queue", s>>
    /\ \A i : PS!Access(<<"slot", i>>) = stores[i] /\ PS!Turn(<<"slot", i>>) = stores[i].ticks
    /\ \A s : PS!Access(<<"queue", s>>) = lsData[s] /\ PS!Turn(<<"queue", s>>) = MemTicks + Age(s)

LEMMA PendingIs == PendingFacts
<1> SUFFICES ASSUME Types
             PROVE  /\ \A p : p \in PS!Pending <=>
                         \/ \E i \in MemSlots : stores[i].busy /\ p = <<"slot", i>>
                         \/ \E s \in Live : IsStore(s) /\ p = <<"queue", s>>
                    /\ \A i : /\ PS!Access(<<"slot", i>>) = stores[i]
                              /\ PS!Turn(<<"slot", i>>) = stores[i].ticks
                    /\ \A s : /\ PS!Access(<<"queue", s>>) = lsData[s]
                              /\ PS!Turn(<<"queue", s>>) = MemTicks + Age(s)
  BY DEF PendingFacts
<1>1. /\ PS!Slotted = {<<"slot", i>> : i \in {j \in MemSlots : stores[j].busy}}
      /\ PS!Queued = {<<"queue", s>> : s \in {t \in Live : IsStore(t)}}
  BY Parameters, QueueIs DEF PS!Slotted, PS!Queued, IsStore
<1>2. \A p : p \in PS!Pending <=>
        \/ \E i \in MemSlots : stores[i].busy /\ p = <<"slot", i>>
        \/ \E s \in Live : IsStore(s) /\ p = <<"queue", s>>
  BY <1>1 DEF PS!Pending
<1>3. \A i : PS!Access(<<"slot", i>>) = stores[i] /\ PS!Turn(<<"slot", i>>) = stores[i].ticks
  BY DEF PS!Access, PS!Turn
<1>4. \A s : PS!Access(<<"queue", s>>) = lsData[s] /\ PS!Turn(<<"queue", s>>) = MemTicks + Age(s)
  BY DEF PS!Access, PS!Turn, PS!QueueTurn, Age, Distance
<1> QED
  BY <1>2, <1>3, <1>4

LEMMA PendingIsNext == PendingFacts'
BY PendingIs, PTL

(* A store in flight is one of these two, and no two have the same turn.   *)
LEMMA TurnIs ==
  ASSUME SlotsInv
  PROVE  /\ \A p \in PS!Pending :
              /\ PS!Turn(p) \in 1 .. MemTicks + LsCapacity
              /\ PS!Access(p).addr \in Word /\ PS!Access(p).size \in Sizes
         /\ \A p, q \in PS!Pending : PS!Turn(p) = PS!Turn(q) => p = q
<1>1. /\ Types /\ Staggered(stores)
      /\ MemTicks \in Nat \ {0, 1} /\ LsCapacity \in Nat \ {0}
      /\ lsHead \in Slots /\ Slots = 0 .. LsCapacity - 1
  BY Parameters DEF SlotsInv, Types, Slots
<1>2. \A s \in Live : s \in Slots /\ Age(s) \in 0 .. LsCapacity - 1
  BY <1>1, DistanceIs DEF Live, Age
<1>3. \A s, t \in Live : Age(s) = Age(t) => s = t
  BY <1>1, <1>2, DistanceInjective DEF Age
<1>4. \A p \in PS!Pending :
        \/ \E i \in MemSlots : /\ stores[i].busy /\ p = <<"slot", i>>
                               /\ PS!Access(p) = stores[i] /\ PS!Turn(p) = stores[i].ticks
        \/ \E s \in Live : /\ IsStore(s) /\ p = <<"queue", s>>
                           /\ PS!Access(p) = lsData[s] /\ PS!Turn(p) = MemTicks + Age(s)
  BY <1>1, PendingIs DEF PendingFacts
<1>5. \A i \in MemSlots : /\ stores[i].addr \in Word /\ stores[i].size \in Sizes
                          /\ stores[i].busy => stores[i].ticks \in 1 .. MemTicks - 1
  BY <1>1 DEF Types, StoreSlot, Staggered
<1>6. \A s \in Live : lsData[s].addr \in Word /\ lsData[s].size \in Sizes
  BY <1>1, <1>2 DEF Types, EntryType
<1>7. ASSUME NEW p \in PS!Pending
      PROVE  /\ PS!Turn(p) \in 1 .. MemTicks + LsCapacity
             /\ PS!Access(p).addr \in Word /\ PS!Access(p).size \in Sizes
  <2>1. CASE \E i \in MemSlots : /\ stores[i].busy
                                 /\ PS!Access(p) = stores[i] /\ PS!Turn(p) = stores[i].ticks
    BY <1>1, <1>5, <2>1
  <2>2. CASE \E s \in Live : PS!Access(p) = lsData[s] /\ PS!Turn(p) = MemTicks + Age(s)
    BY <1>1, <1>2, <1>6, <2>2
  <2> QED
    BY <1>4, <2>1, <2>2
<1>8. ASSUME NEW p \in PS!Pending, NEW q \in PS!Pending, PS!Turn(p) = PS!Turn(q)
      PROVE  p = q
  <2>1. CASE PS!Turn(p) < MemTicks
    <3>1. PICK i \in MemSlots : stores[i].busy /\ p = <<"slot", i>> /\ PS!Turn(p) = stores[i].ticks
      BY <1>1, <1>2, <1>4, <2>1
    <3>2. PICK j \in MemSlots : stores[j].busy /\ q = <<"slot", j>> /\ PS!Turn(q) = stores[j].ticks
      BY <1>1, <1>2, <1>4, <1>8, <2>1
    <3>3. i = j
      BY <1>1, <1>8, <3>1, <3>2 DEF Staggered
    <3> QED
      BY <3>1, <3>2, <3>3
  <2>2. CASE ~(PS!Turn(p) < MemTicks)
    <3>1. PICK s \in Live : p = <<"queue", s>> /\ PS!Turn(p) = MemTicks + Age(s)
      BY <1>1, <1>4, <1>5, <2>2
    <3>2. PICK t \in Live : q = <<"queue", t>> /\ PS!Turn(q) = MemTicks + Age(t)
      BY <1>1, <1>4, <1>5, <1>8, <2>2
    <3>3. s = t
      <4>1. MemTicks + Age(s) = MemTicks + Age(t)
        BY <1>8, <3>1, <3>2
      <4>2. Age(s) \in Nat /\ Age(t) \in Nat
        BY <1>1, <1>2
      <4>3. Age(s) = Age(t)
        BY <1>1, <4>1, <4>2
      <4> QED
        BY <1>3, <4>3
    <3> QED
      BY <3>1, <3>2, <3>3
  <2> QED
    BY <2>1, <2>2
<1> QED
  BY <1>7, <1>8

(* The last of the stores before turn t that write byte a.                 *)
IsLast(p, a, t) ==
  /\ p \in PS!Pending /\ PS!Turn(p) < t /\ a \in Bytes(PS!Access(p))
  /\ \A q \in PS!Pending :
       PS!Turn(q) < t /\ a \in Bytes(PS!Access(q)) => PS!Turn(q) <= PS!Turn(p)

(* An access with turn t finds the byte that the last store before it      *)
(* leaves, or that of the memory if none writes it.                        *)
BeforeFacts ==
  SlotsInv => \A t :
    /\ PS!MemBefore(t) = [a \in Word |-> PS!MemBefore(t)[a]]
    /\ \A a \in Word :
         /\ (\A p \in PS!Pending : PS!Turn(p) < t => a \notin Bytes(PS!Access(p)))
              => PS!MemBefore(t)[a] = mem[a]
         /\ \A p : IsLast(p, a, t) => PS!MemBefore(t)[a] = PS!Left(PS!Access(p), a)
         /\ (\E p \in PS!Pending : PS!Turn(p) < t /\ a \in Bytes(PS!Access(p)))
              => \E p : IsLast(p, a, t)

LEMMA BeforeIs == BeforeFacts
<1> SUFFICES ASSUME SlotsInv, NEW t
             PROVE  /\ PS!MemBefore(t) = [a \in Word |-> PS!MemBefore(t)[a]]
                    /\ \A a \in Word :
                         /\ (\A p \in PS!Pending : PS!Turn(p) < t => a \notin Bytes(PS!Access(p)))
                              => PS!MemBefore(t)[a] = mem[a]
                         /\ \A p : IsLast(p, a, t) => PS!MemBefore(t)[a] = PS!Left(PS!Access(p), a)
                         /\ (\E p \in PS!Pending : PS!Turn(p) < t /\ a \in Bytes(PS!Access(p)))
                              => \E p : IsLast(p, a, t)
  BY DEF BeforeFacts
<1> DEFINE early == {p \in PS!Pending : PS!Turn(p) < t}
           Writers(a) == {p \in early : a \in PS!Bytes(PS!Access(p))}
<1>1. PS!MemBefore(t) = [a \in Word |-> IF Writers(a) = {} THEN mem[a]
                                  ELSE PS!Left(PS!Access(PS!Last(Writers(a))), a)]
  BY Shared DEF PS!MemBefore, PS!Applied
<1>2. \A a : Writers(a) = {p \in PS!Pending : PS!Turn(p) < t /\ a \in Bytes(PS!Access(p))}
  BY Shared
<1> HIDE DEF Writers, early
<1>3. /\ \A p \in PS!Pending : PS!Turn(p) \in 1 .. MemTicks + LsCapacity
      /\ \A p, q \in PS!Pending : PS!Turn(p) = PS!Turn(q) => p = q
  BY TurnIs
<1>4. MemTicks \in Nat /\ LsCapacity \in Nat
  BY Parameters
<1>5. ASSUME NEW a \in Word, NEW p, IsLast(p, a, t)
      PROVE  PS!MemBefore(t)[a] = PS!Left(PS!Access(p), a)
  <2>1. p \in Writers(a) /\ \A q \in Writers(a) : PS!Turn(q) <= PS!Turn(p)
    BY <1>2, <1>5 DEF IsLast
  <2>2. /\ PS!Last(Writers(a)) \in Writers(a)
        /\ \A q \in Writers(a) : PS!Turn(q) <= PS!Turn(PS!Last(Writers(a)))
    BY <2>1 DEF PS!Last
  <2>3. PS!Last(Writers(a)) = p
    <3>1. PS!Turn(p) <= PS!Turn(PS!Last(Writers(a))) /\ PS!Turn(PS!Last(Writers(a))) <= PS!Turn(p)
      BY <2>1, <2>2
    <3>2. PS!Last(Writers(a)) \in PS!Pending /\ p \in PS!Pending
      BY <1>2, <2>1, <2>2
    <3>3. PS!Turn(p) = PS!Turn(PS!Last(Writers(a)))
      <4> DEFINE x == PS!Turn(p)
                 y == PS!Turn(PS!Last(Writers(a)))
      <4>1. x \in 1 .. MemTicks + LsCapacity /\ y \in 1 .. MemTicks + LsCapacity
        BY <1>3, <3>2, Zenon
      <4>2. x <= y /\ y <= x
        BY <3>1
      <4> HIDE DEF x, y
      <4>3. x = y
        BY <1>4, <4>1, <4>2
      <4> QED
        BY <4>3 DEF x, y
    <3> QED
      BY <1>3, <3>2, <3>3, Zenon
  <2> QED
    BY <1>1, <2>1, <2>3
<1>6. ASSUME NEW a \in Word, NEW p \in PS!Pending, PS!Turn(p) < t, a \in Bytes(PS!Access(p))
      PROVE  \E q : IsLast(q, a, t)
  <2> DEFINE N == MemTicks + LsCapacity
             T == {N - PS!Turn(q) : q \in Writers(a)}
  <2>1. T \subseteq Nat /\ T # {}
    BY <1>2, <1>3, <1>4, <1>6
  <2>2. PICK x \in T : \A y \in T : x <= y
    <3> HIDE DEF T
    <3> QED
      BY <2>1, Least
  <2>3. PICK q \in Writers(a) : x = N - PS!Turn(q)
    BY <2>2
  <2>4. \A r \in Writers(a) : N - PS!Turn(q) <= N - PS!Turn(r)
    BY <2>2, <2>3
  <2>5. \A r \in Writers(a) : PS!Turn(r) <= PS!Turn(q)
    BY <1>2, <1>3, <1>4, <2>3, <2>4
  <2>6. IsLast(q, a, t)
    BY <1>2, <2>3, <2>5 DEF IsLast
  <2> QED
    BY <2>6
<1>7. ASSUME NEW a \in Word, \A p \in PS!Pending : PS!Turn(p) < t => a \notin Bytes(PS!Access(p))
      PROVE  PS!MemBefore(t)[a] = mem[a]
  <2>1. Writers(a) = {}
    BY <1>2, <1>7
  <2> QED
    BY <1>1, <2>1
<1>8. PS!MemBefore(t) = [a \in Word |-> PS!MemBefore(t)[a]]
  BY <1>1
<1> QED
  BY <1>5, <1>6, <1>7, <1>8

LEMMA BeforeIsNext == BeforeFacts'
BY BeforeIs, PTL

(* An access that is later than every store finds what the next one will.  *)
LateFacts ==
  \A t : (\A p \in PS!Pending : PS!Turn(p) < t) => PS!MemBefore(t) = PS!MemBar

LEMMA LateIs == LateFacts
<1> SUFFICES ASSUME NEW t, \A p \in PS!Pending : PS!Turn(p) < t
             PROVE  PS!MemBefore(t) = PS!MemBar
  BY DEF LateFacts
<1>1. {p \in PS!Pending : PS!Turn(p) < t} = PS!Pending
  OBVIOUS
<1> QED
  BY <1>1 DEF PS!MemBefore, PS!MemBar

LEMMA LateIsNext == LateFacts'
BY LateIs, PTL

(* In a tick a store goes from the head of the queue to a free slot, or    *)
(* stays where it is; one that completes is gone.                          *)
Dest(p) ==
  IF StoreIn /\ p = <<"queue", lsHead>> THEN <<"slot", CHOOSE i \in MEM!FirstFree(stores) : TRUE>>
  ELSE p
Done(p) == \E i \in MEM!Completing : p = <<"slot", i>>
SameStore(r, w) == r.addr = w.addr /\ r.size = w.size /\ r.value = w.value

LEMMA SlotDest ==
  ASSUME SlotsInv, SlotsInv', NEW pushed \in Pushes, NEW flush \in BOOLEAN, Tick(pushed, flush),
         NEW i \in MemSlots, stores[i].busy, i \notin MEM!Completing
  PROVE  /\ stores'[i].busy /\ SameStore(stores'[i], stores[i])
         /\ stores[i].ticks \in 1 .. MemTicks - 1
         /\ stores'[i].ticks = IF memClear THEN stores[i].ticks ELSE stores[i].ticks - 1
<1>1. Types
  BY DEF SlotsInv
<1>2. i \notin MEM!FirstFree(stores)
  BY OneFree
<1>3. /\ stores'[i].addr = stores[i].addr /\ stores'[i].size = stores[i].size
      /\ stores'[i].value = stores[i].value
      /\ stores'[i].busy <=> stores[i].busy /\ i \notin MEM!Completing
      /\ stores'[i].ticks = IF stores[i].busy /\ ~memClear
                              THEN stores[i].ticks - 1 ELSE stores[i].ticks
  BY <1>1, <1>2, StoreSlotStep
<1> QED
  BY <1>3 DEF SameStore, SlotsInv, Staggered

LEMMA HeadDest ==
  ASSUME SlotsInv, SlotsInv', NEW pushed \in Pushes, NEW flush \in BOOLEAN, Tick(pushed, flush),
         StoreIn, NEW i, i = CHOOSE j \in MEM!FirstFree(stores) : TRUE
  PROVE  /\ i \in MemSlots /\ ~stores[i].busy
         /\ stores'[i].busy /\ SameStore(stores'[i], Head) /\ stores'[i].ticks = MemTicks - 1
         /\ Age(lsHead) = 0
<1>1. Types
  BY DEF SlotsInv
<1>2. i \in MEM!FirstFree(stores)
  <2>1. MEM!FirstFree(stores) # {}
    BY StaggeredLeavesRoom DEF SlotsInv
  <2> QED
    BY <2>1
<1>3. i \in MemSlots /\ ~stores[i].busy
  BY <1>2, OneFree
<1>4. stores'[i] = [busy |-> TRUE, ticks |-> MemTicks - 1, addr |-> Head.addr,
                    size |-> Head.size, value |-> Head.value]
  BY <1>1, <1>2, <1>3, StoreSlotStep
<1>5. Age(lsHead) = 0
  BY <1>1, RingStep DEF StoreIn
<1> QED
  BY <1>3, <1>4, <1>5 DEF SameStore

LEMMA QueueDest ==
  ASSUME SlotsInv, SlotsInv', StoresStay,
         NEW pushed \in Pushes, NEW flush \in BOOLEAN, Tick(pushed, flush),
         NEW s \in Live, IsStore(s), ~(StoreIn /\ s = lsHead)
  PROVE  /\ s \in Live' /\ IsStore(s)' /\ SameStore(lsData'[s], lsData[s])
         /\ Age(s)' = IF Popping THEN Age(s) - 1 ELSE Age(s)
         /\ Age(s) \in Nat
<1>1. Types /\ s \in Slots
  BY DEF SlotsInv, Live
<1>2. ~(Popping /\ s = lsHead)
  BY DEF StoreIn, StoresStay, IsStore, Head
<1>3. s \in Live' /\ Age(s)' = (IF Popping THEN Age(s) - 1 ELSE Age(s)) /\ Age(s) \in Nat
  BY <1>1, <1>2, RingStep
<1>4. SameStore(lsData'[s], lsData[s]) /\ IsStore(s)'
  BY <1>1, DataStep DEF SameStore, IsStore
<1> QED
  BY <1>3, <1>4

(* Where a store in flight goes.                                           *)
LEMMA StoreGoes ==
  ASSUME SlotsInv, SlotsInv', StoresStay,
         NEW pushed \in Pushes, NEW flush \in BOOLEAN, Tick(pushed, flush),
         NEW p \in PS!Pending, ~Done(p), NEW d, d = Dest(p)
  PROVE  /\ d \in PS!Pending'
         /\ SameStore(PS!Access(d)', PS!Access(p))
         /\ PS!Turn(d)' = IF memClear \/ (~Popping /\ PS!Turn(p) >= MemTicks)
                            THEN PS!Turn(p) ELSE PS!Turn(p) - 1
<1>1. /\ Types /\ Types' /\ MemTicks \in Nat \ {0, 1} /\ memClear = lsClear
  BY Parameters DEF SlotsInv, Phase
<1>2. \/ \E i \in MemSlots : stores[i].busy /\ p = <<"slot", i>>
      \/ \E s \in Live : IsStore(s) /\ p = <<"queue", s>>
  BY <1>1, PendingIs DEF PendingFacts
<1>3. /\ \A i : PS!Access(<<"slot", i>>) = stores[i] /\ PS!Turn(<<"slot", i>>) = stores[i].ticks
      /\ \A s : PS!Access(<<"queue", s>>) = lsData[s] /\ PS!Turn(<<"queue", s>>) = MemTicks + Age(s)
  BY <1>1, PendingIs DEF PendingFacts
<1>4. /\ \A i \in MemSlots : stores'[i].busy => <<"slot", i>> \in PS!Pending'
      /\ \A s \in Live' : IsStore(s)' => <<"queue", s>> \in PS!Pending'
      /\ \A i : PS!Access(<<"slot", i>>)' = stores'[i] /\ PS!Turn(<<"slot", i>>)' = stores'[i].ticks
      /\ \A s : PS!Access(<<"queue", s>>)' = lsData'[s] /\ PS!Turn(<<"queue", s>>)' = MemTicks + Age(s)'
  BY <1>1, PendingIsNext DEF PendingFacts, MemSlots
<1>5. CASE \E i \in MemSlots : stores[i].busy /\ p = <<"slot", i>>
  <2>1. PICK i \in MemSlots : stores[i].busy /\ p = <<"slot", i>>
    BY <1>5
  <2>2. i \notin MEM!Completing
    BY <2>1 DEF Done
  <2>3. d = <<"slot", i>>
    BY <2>1 DEF Dest
  <2>4. /\ stores'[i].busy /\ SameStore(stores'[i], stores[i])
        /\ stores[i].ticks \in 1 .. MemTicks - 1
        /\ stores'[i].ticks = IF memClear THEN stores[i].ticks ELSE stores[i].ticks - 1
    BY <2>1, <2>2, SlotDest
  <2>5. d \in PS!Pending' /\ PS!Access(d)' = stores'[i] /\ PS!Turn(d)' = stores'[i].ticks
    BY <1>4, <2>3, <2>4
  <2>6. PS!Access(p) = stores[i] /\ PS!Turn(p) = stores[i].ticks
    BY <1>3, <2>1
  <2> QED
    BY <1>1, <2>4, <2>5, <2>6
<1>6. CASE \E s \in Live : IsStore(s) /\ p = <<"queue", s>>
  <2>1. PICK s \in Live : IsStore(s) /\ p = <<"queue", s>>
    BY <1>6
  <2>2. PS!Access(p) = lsData[s] /\ PS!Turn(p) = MemTicks + Age(s)
    BY <1>3, <2>1
  <2>3. Popping => ~memClear
    BY <1>1 DEF Popping
  <2>4. CASE StoreIn /\ s = lsHead
    <3>1. PICK i : i = CHOOSE j \in MEM!FirstFree(stores) : TRUE
      OBVIOUS
    <3>2. d = <<"slot", i>>
      BY <2>1, <2>4, <3>1 DEF Dest
    <3>3. /\ i \in MemSlots /\ stores'[i].busy /\ SameStore(stores'[i], Head)
          /\ stores'[i].ticks = MemTicks - 1 /\ Age(lsHead) = 0 /\ Popping
      BY <2>4, <3>1, HeadDest DEF StoreIn
    <3>4. d \in PS!Pending' /\ PS!Access(d)' = stores'[i] /\ PS!Turn(d)' = stores'[i].ticks
      BY <1>4, <3>2, <3>3
    <3> QED
      BY <1>1, <2>2, <2>3, <2>4, <3>3, <3>4 DEF Head
  <2>5. CASE ~(StoreIn /\ s = lsHead)
    <3>1. /\ s \in Live' /\ IsStore(s)' /\ SameStore(lsData'[s], lsData[s])
          /\ Age(s)' = IF Popping THEN Age(s) - 1 ELSE Age(s)
          /\ Age(s) \in Nat
      BY <2>1, <2>5, QueueDest
    <3>2. d = <<"queue", s>>
      BY <2>1, <2>5 DEF Dest
    <3>3. d \in PS!Pending' /\ PS!Access(d)' = lsData'[s] /\ PS!Turn(d)' = MemTicks + Age(s)'
      BY <1>4, <3>1, <3>2
    <3> QED
      BY <1>1, <2>2, <2>3, <3>1, <3>3
  <2> QED
    BY <2>4, <2>5
<1> QED
  BY <1>2, <1>5, <1>6

(* Where a store in flight comes from: it was in flight, or has just been  *)
(* pushed, and then it is the last one.                                    *)
LEMMA StoreComes ==
  ASSUME SlotsInv, SlotsInv', StoresStay,
         NEW pushed \in Pushes, NEW flush \in BOOLEAN, Tick(pushed, flush),
         NEW d \in PS!Pending'
  PROVE  \/ \E p \in PS!Pending : ~Done(p) /\ d = Dest(p)
         \/ pushed # {} /\ d = <<"queue", lsTail>> /\ lsData'[lsTail].op = "STORE"
<1>1. Types /\ Types' /\ memClear = lsClear
  BY DEF SlotsInv, Phase
<1>2. \/ \E i \in MemSlots : stores'[i].busy /\ d = <<"slot", i>>
      \/ \E s \in Live' : IsStore(s)' /\ d = <<"queue", s>>
  BY <1>1, PendingIsNext DEF PendingFacts, MemSlots
<1>3. /\ \A i \in MemSlots : stores[i].busy => <<"slot", i>> \in PS!Pending
      /\ \A s \in Live : IsStore(s) => <<"queue", s>> \in PS!Pending
  BY <1>1, PendingIs DEF PendingFacts
<1>4. CASE \E i \in MemSlots : stores'[i].busy /\ d = <<"slot", i>>
  <2>1. PICK i \in MemSlots : stores'[i].busy /\ d = <<"slot", i>>
    BY <1>4
  <2>2. CASE StoreIn /\ i \in MEM!FirstFree(stores)
    <3>1. i = CHOOSE j \in MEM!FirstFree(stores) : TRUE
      BY <2>2, OneFree
    <3>2. lsHead \in Live /\ IsStore(lsHead)
      BY <1>1, <2>2, RingStep DEF StoreIn, IsStore, Head
    <3>3. <<"queue", lsHead>> \in PS!Pending /\ ~Done(<<"queue", lsHead>>)
      BY <1>3, <3>2 DEF Done
    <3>4. d = Dest(<<"queue", lsHead>>)
      BY <2>1, <2>2, <3>1 DEF Dest
    <3> QED
      BY <3>3, <3>4
  <2>3. CASE stores[i].busy /\ i \notin MEM!Completing
    <3>1. <<"slot", i>> \in PS!Pending /\ ~Done(<<"slot", i>>)
      BY <1>3, <2>3 DEF Done
    <3>2. d = Dest(<<"slot", i>>)
      BY <2>1 DEF Dest
    <3> QED
      BY <3>1, <3>2
  <2> QED
    BY <2>1, <2>2, <2>3, StoreCounts
<1>5. CASE \E s \in Live' : IsStore(s)' /\ d = <<"queue", s>>
  <2>1. PICK s \in Live' : IsStore(s)' /\ d = <<"queue", s>>
    BY <1>5
  <2>2. CASE pushed # {} /\ s = lsTail
    BY <2>1, <2>2 DEF IsStore
  <2>3. CASE ~(pushed # {} /\ s = lsTail)
    <3>1. s \in Live /\ IsStore(s) /\ (Popping => s # lsHead)
      BY <2>1, <2>3, EntryFrom
    <3>2. <<"queue", s>> \in PS!Pending /\ ~Done(<<"queue", s>>)
      BY <1>3, <3>1 DEF Done
    <3>3. d = Dest(<<"queue", s>>)
      BY <2>1, <3>1 DEF Dest, StoreIn
    <3> QED
      BY <3>2, <3>3
  <2> QED
    BY <2>2, <2>3
<1> QED
  BY <1>2, <1>4, <1>5

LEMMA StoreArrives ==
  ASSUME SlotsInv, SlotsInv', NEW pushed \in Pushes, NEW flush \in BOOLEAN, Tick(pushed, flush),
         pushed # {}, lsData'[lsTail].op = "STORE", NEW d, d = <<"queue", lsTail>>
  PROVE  /\ d \in PS!Pending' /\ PS!Access(d)' = lsData'[lsTail]
         /\ \A q \in PS!Pending' : PS!Turn(q)' <= PS!Turn(d)'
         /\ PS!Turn(d)' \in Int /\ MemTicks <= PS!Turn(d)'
         /\ \A s \in Live' : Age(s)' \in Nat /\ MemTicks + Age(s)' <= PS!Turn(d)'
<1>1. /\ Types /\ Types' /\ MemTicks \in Nat \ {0, 1}
      /\ lsTail \in Slots /\ lsHead' \in Slots /\ LsCapacity \in Nat \ {0}
      /\ Slots = 0 .. LsCapacity - 1
  BY Parameters DEF SlotsInv, Types, Slots
<1>2. PICK t : t = lsTail
  OBVIOUS
<1>3. t \in Live' /\ IsStore(t)'
  <2>1. t \in Live'
    BY <1>1, <1>2, RingStep
  <2>2. lsData'[t].op = "STORE"
    BY <1>2
  <2> QED
    BY <2>1, <2>2 DEF IsStore
<1>4. /\ d \in PS!Pending' /\ PS!Access(d)' = lsData'[t] /\ PS!Turn(d)' = MemTicks + Age(t)'
  BY <1>1, <1>2, <1>3, PendingIsNext DEF PendingFacts
<1>5. \A s \in Slots : Age(s)' \in Nat
  <2>1. \A s \in Slots : Distance(LsCapacity, lsHead', s) \in 0 .. LsCapacity - 1
    BY <1>1, DistanceIs
  <2>2. 0 .. LsCapacity - 1 \subseteq Nat
    OBVIOUS
  <2> QED
    BY <2>1, <2>2, Zenon DEF Age
<1>6. ASSUME NEW s \in Live'
      PROVE  Age(s)' <= Age(t)'
  <2>1. Age(s)' = (IF Popping THEN Age(s) - 1 ELSE Age(s)) /\ s \in Slots
    BY <1>1, <1>6, RingStep DEF Live, Slots
  <2>2. Age(t)' = (IF Popping THEN Age(t) - 1 ELSE Age(t)) /\ t \in Slots
    BY <1>1, <1>2, <1>3, RingStep
  <2>3. s = t \/ Age(s) < Age(t)
    BY <1>1, <1>2, <1>6, <2>1, RingStep
  <2>4. Age(s) \in Nat /\ Age(t) \in Nat
    BY <1>1, <2>1, <2>2, RingStep
  <2> QED
    BY <2>1, <2>2, <2>3, <2>4
<1>7. ASSUME NEW q \in PS!Pending'
      PROVE  PS!Turn(q)' <= PS!Turn(d)'
  <2>1. \/ \E i \in MemSlots : stores'[i].busy /\ PS!Turn(q)' = stores'[i].ticks
        \/ \E s \in Live' : PS!Turn(q)' = MemTicks + Age(s)'
    BY <1>1, <1>7, PendingIsNext DEF PendingFacts, MemSlots
  <2>2. CASE \E i \in MemSlots : stores'[i].busy /\ PS!Turn(q)' = stores'[i].ticks
    <3>1. PS!Turn(q)' \in 1 .. MemTicks - 1
      BY <2>2 DEF SlotsInv, Staggered, MemSlots
    <3> QED
      BY <1>1, <1>2, <1>4, <1>5, <3>1
  <2>3. CASE \E s \in Live' : PS!Turn(q)' = MemTicks + Age(s)'
    <3>1. PICK s \in Live' : PS!Turn(q)' = MemTicks + Age(s)'
      BY <2>3
    <3>2. Age(s)' <= Age(t)' /\ Age(s)' \in Nat
      <4>1. s \in Slots
        BY DEF Live, Slots
      <4>2. Age(s)' \in Nat
        BY <1>5, <4>1
      <4> QED
        BY <1>6, <4>2, Zenon
    <3> QED
      BY <1>1, <1>2, <1>4, <1>5, <3>1, <3>2
  <2> QED
    BY <2>1, <2>2, <2>3
<1>8. PS!Turn(d)' \in Int /\ MemTicks <= PS!Turn(d)'
  BY <1>1, <1>2, <1>4, <1>5
<1>9. ASSUME NEW s \in Live'
      PROVE  Age(s)' \in Nat /\ MemTicks + Age(s)' <= PS!Turn(d)'
  <2>1. s \in Slots
    BY DEF Live, Slots
  <2>2. Age(s)' \in Nat /\ Age(t)' \in Nat /\ Age(s)' <= Age(t)'
    BY <1>1, <1>2, <1>5, <1>6, <2>1, Zenon
  <2> QED
    BY <1>1, <1>4, <2>2
<1> QED
  BY <1>2, <1>4, <1>7, <1>8, <1>9

(* A store that completes was the first in the order.                      *)
LEMMA DoneFirst ==
  ASSUME SlotsInv, NEW p \in PS!Pending, Done(p)
  PROVE  /\ PS!Turn(p) = 1
         /\ \A q \in PS!Pending : PS!Turn(q) <= PS!Turn(p) => q = p
         /\ \E i \in MemSlots : MEM!Completing = {i} /\ PS!Access(p) = stores[i]
<1>1. PICK i \in MEM!Completing : p = <<"slot", i>>
  BY DEF Done
<1>2. i \in MemSlots /\ stores[i].busy /\ stores[i].ticks = 1 /\ ~memClear
  BY <1>1, CompletingIs
<1>3. PS!Access(p) = stores[i] /\ PS!Turn(p) = 1
  BY <1>1, <1>2, PendingIs DEF PendingFacts, SlotsInv
<1>4. MEM!Completing = {i}
  <2>1. \A j \in MEM!Completing : j \in MemSlots /\ stores[j].busy /\ stores[j].ticks = 1
    BY CompletingIs
  <2>2. \A j \in MEM!Completing : j = i
    BY <1>2, <2>1 DEF SlotsInv, Staggered
  <2> QED
    BY <1>1, <2>2
<1>5. ASSUME NEW q \in PS!Pending, PS!Turn(q) <= PS!Turn(p) PROVE q = p
  <2>1. PS!Turn(q) \in 1 .. MemTicks + LsCapacity /\ MemTicks \in Nat /\ LsCapacity \in Nat
    BY TurnIs, Parameters
  <2>2. PS!Turn(q) = PS!Turn(p)
    BY <1>3, <1>5, <2>1
  <2> QED
    BY <2>2, TurnIs
<1> QED
  BY <1>2, <1>3, <1>4, <1>5

(* Same stores leave the same bytes.                                       *)
LEMMA SameLeft ==
  ASSUME NEW r, NEW w, SameStore(r, w)
  PROVE  Bytes(r) = Bytes(w) /\ \A a : PS!Left(r, a) = PS!Left(w, a)
BY DEF SameStore, Bytes, PS!Left

(* Turn u after the tick is for the stores in flight what turn t was       *)
(* before it, those that complete being earlier than t; and a store that   *)
(* is pushed to byte a is not before it.                                   *)
SameMoment(t, u) ==
  \A p \in PS!Pending :
    /\ Done(p) => PS!Turn(p) < t
    /\ \A d : ~Done(p) /\ d = Dest(p) => (PS!Turn(p) < t <=> PS!Turn(d)' < u)
NotBefore(pushed, a, u) ==
  pushed # {} /\ lsData'[lsTail].op = "STORE" /\ a \in Bytes(lsData'[lsTail])
    => \A d : d = <<"queue", lsTail>> => ~(PS!Turn(d)' < u)

(* A store that is last stays last if it does not complete.                *)
LEMMA LastStays ==
  ASSUME SlotsInv, SlotsInv', StoresStay,
         NEW pushed \in Pushes, NEW flush \in BOOLEAN, Tick(pushed, flush),
         NEW t, NEW u, SameMoment(t, u), NEW a \in Word, NotBefore(pushed, a, u),
         NEW p, IsLast(p, a, t), ~Done(p), NEW d, d = Dest(p)
  PROVE  IsLast(d, a, u)' /\ PS!Left(PS!Access(d)', a) = PS!Left(PS!Access(p), a)
<1>1. p \in PS!Pending /\ PS!Turn(p) < t /\ a \in Bytes(PS!Access(p))
  BY DEF IsLast
<1>2. /\ d \in PS!Pending'
      /\ SameStore(PS!Access(d)', PS!Access(p))
      /\ PS!Turn(d)' = IF memClear \/ (~Popping /\ PS!Turn(p) >= MemTicks)
                         THEN PS!Turn(p) ELSE PS!Turn(p) - 1
      /\ PS!Turn(d)' < u
  BY <1>1, StoreGoes DEF SameMoment
<1>3. a \in Bytes(PS!Access(d)') /\ PS!Left(PS!Access(d)', a) = PS!Left(PS!Access(p), a)
  <2> DEFINE r == PS!Access(d)'
             w == PS!Access(p)
  <2>1. SameStore(r, w) /\ a \in Bytes(w)
    BY <1>1, <1>2
  <2> HIDE DEF r, w
  <2>2. Bytes(r) = Bytes(w) /\ PS!Left(r, a) = PS!Left(w, a)
    BY <2>1, SameLeft
  <2> QED
    BY <2>1, <2>2 DEF r, w
<1>4. ASSUME NEW e \in PS!Pending', PS!Turn(e)' < u, a \in Bytes(PS!Access(e)')
      PROVE  PS!Turn(e)' <= PS!Turn(d)'
  <2>1. CASE \E q \in PS!Pending : ~Done(q) /\ e = Dest(q)
    <3>1. PICK q \in PS!Pending : ~Done(q) /\ e = Dest(q)
      BY <2>1
    <3>2. /\ SameStore(PS!Access(e)', PS!Access(q))
          /\ PS!Turn(e)' = IF memClear \/ (~Popping /\ PS!Turn(q) >= MemTicks)
                             THEN PS!Turn(q) ELSE PS!Turn(q) - 1
      BY <3>1, StoreGoes
    <3>3. a \in Bytes(PS!Access(q))
      <4> DEFINE r == PS!Access(e)'
                 w == PS!Access(q)
      <4>1. SameStore(r, w) /\ a \in Bytes(r)
        BY <1>4, <3>2
      <4> HIDE DEF r, w
      <4>2. a \in Bytes(w)
        BY <4>1, SameLeft
      <4> QED
        BY <4>2 DEF w
    <3>4. PS!Turn(q) <= PS!Turn(p)
      BY <1>4, <3>1, <3>3 DEF IsLast, SameMoment
    <3>5. /\ PS!Turn(q) \in 1 .. MemTicks + LsCapacity
          /\ PS!Turn(p) \in 1 .. MemTicks + LsCapacity
          /\ MemTicks \in Nat /\ LsCapacity \in Nat
      BY <1>1, <3>1, TurnIs, Parameters
    <3> DEFINE x == PS!Turn(q)
               y == PS!Turn(p)
    <3>6. (IF memClear \/ (~Popping /\ x >= MemTicks) THEN x ELSE x - 1)
            <= (IF memClear \/ (~Popping /\ y >= MemTicks) THEN y ELSE y - 1)
      <4> HIDE DEF x, y
      <4>1. x \in Nat /\ y \in Nat /\ x <= y /\ MemTicks \in Nat
        BY <3>4, <3>5 DEF x, y
      <4> QED
        BY <4>1
    <3> QED
      BY <1>2, <3>2, <3>6
  <2>2. CASE ~\E q \in PS!Pending : ~Done(q) /\ e = Dest(q)
    <3>1. pushed # {} /\ e = <<"queue", lsTail>> /\ lsData'[lsTail].op = "STORE"
      BY <1>4, <2>2, StoreComes
    <3>2. PS!Access(e)' = lsData'[lsTail]
      BY <3>1, StoreArrives
    <3> QED
      BY <1>4, <3>1, <3>2 DEF NotBefore
  <2> QED
    BY <2>1, <2>2
<1> QED
  BY <1>2, <1>3, <1>4 DEF IsLast

(* A tick leaves a byte as it is found at such a turn.                     *)
LEMMA ByteKept ==
  ASSUME SlotsInv, SlotsInv', StoresStay,
         NEW pushed \in Pushes, NEW flush \in BOOLEAN, Tick(pushed, flush),
         NEW t, NEW u, SameMoment(t, u), NEW a \in Word, NotBefore(pushed, a, u)
  PROVE  PS!MemBefore(u)'[a] = PS!MemBefore(t)[a]
<1>1. Types
  BY DEF SlotsInv
<1>2. ASSUME \A p \in PS!Pending : PS!Turn(p) < t /\ a \in Bytes(PS!Access(p)) => Done(p)
      PROVE  \A d \in PS!Pending' : PS!Turn(d)' < u => a \notin Bytes(PS!Access(d)')
  <2>1. ASSUME NEW d \in PS!Pending', PS!Turn(d)' < u, a \in Bytes(PS!Access(d)') PROVE FALSE
    <3>1. CASE \E q \in PS!Pending : ~Done(q) /\ d = Dest(q)
      <4>1. PICK q \in PS!Pending : ~Done(q) /\ d = Dest(q)
        BY <3>1
      <4>2. SameStore(PS!Access(d)', PS!Access(q))
        BY <4>1, StoreGoes
      <4> DEFINE r == PS!Access(d)'
                 w == PS!Access(q)
      <4>3. SameStore(r, w) /\ a \in Bytes(r)
        BY <2>1, <4>2
      <4> HIDE DEF r, w
      <4>4. a \in Bytes(w)
        BY <4>3, SameLeft
      <4> QED
        BY <1>2, <2>1, <4>1, <4>4 DEF w, SameMoment
    <3>2. CASE ~\E q \in PS!Pending : ~Done(q) /\ d = Dest(q)
      <4>1. pushed # {} /\ d = <<"queue", lsTail>> /\ lsData'[lsTail].op = "STORE"
        BY <2>1, <3>2, StoreComes
      <4>2. PS!Access(d)' = lsData'[lsTail]
        BY <4>1, StoreArrives
      <4> QED
        BY <2>1, <4>1, <4>2 DEF NotBefore
    <3> QED
      BY <3>1, <3>2
  <2> QED
    BY <2>1
<1>3. (\A d \in PS!Pending' : PS!Turn(d)' < u => a \notin Bytes(PS!Access(d)')) 
        => PS!MemBefore(u)'[a] = mem'[a]
  BY BeforeIsNext DEF BeforeFacts
<1>4. CASE \E p \in PS!Pending : PS!Turn(p) < t /\ a \in Bytes(PS!Access(p))
  <2>1. PICK p : IsLast(p, a, t)
    BY <1>4, BeforeIs DEF BeforeFacts
  <2>2. PS!MemBefore(t)[a] = PS!Left(PS!Access(p), a)
    BY <2>1, BeforeIs DEF BeforeFacts
  <2>3. CASE Done(p)
    <3>1. p \in PS!Pending /\ a \in Bytes(PS!Access(p))
      BY <2>1 DEF IsLast
    <3>2. \A q \in PS!Pending : PS!Turn(q) < t /\ a \in Bytes(PS!Access(q)) => q = p
      BY <2>1, <2>3, <3>1, DoneFirst DEF IsLast
    <3>3. PS!MemBefore(u)'[a] = mem'[a]
      BY <1>2, <1>3, <2>3, <3>2
    <3>4. PICK i \in MemSlots : MEM!Completing = {i} /\ PS!Access(p) = stores[i]
      BY <2>3, <3>1, DoneFirst
    <3>5. mem'[a] = PS!Left(stores[i], a)
      <4>1. mem' = [b \in Word |-> IF b \in Bytes(stores[i]) THEN PS!Left(stores[i], b) ELSE mem[b]]
        BY <1>1, <3>4, MemStep
      <4>2. a \in Bytes(stores[i])
        BY <3>1, <3>4
      <4> QED
        BY <4>1, <4>2
    <3> QED
      BY <2>2, <3>3, <3>4, <3>5
  <2>4. CASE ~Done(p)
    <3>1. PICK d : d = Dest(p)
      OBVIOUS
    <3>2. IsLast(d, a, u)' /\ PS!Left(PS!Access(d)', a) = PS!Left(PS!Access(p), a)
      BY <2>1, <2>4, <3>1, LastStays
    <3>3. PS!MemBefore(u)'[a] = PS!Left(PS!Access(d), a)'
      BY <3>2, BeforeIsNext DEF BeforeFacts
    <3>4. PS!Left(PS!Access(d), a)' = PS!Left(PS!Access(d)', a)
      BY DEF PS!Left
    <3> QED
      BY <2>2, <3>2, <3>3, <3>4
  <2> QED
    BY <2>3, <2>4
<1>5. CASE ~\E p \in PS!Pending : PS!Turn(p) < t /\ a \in Bytes(PS!Access(p))
  <2>1. PS!MemBefore(t)[a] = mem[a]
    BY <1>5, BeforeIs DEF BeforeFacts
  <2>2. PS!MemBefore(u)'[a] = mem'[a]
    BY <1>2, <1>3, <1>5
  <2>3. mem'[a] = mem[a]
    <3>1. CASE MEM!Completing = {}
      BY <1>1, <3>1, MemStep
    <3>2. CASE MEM!Completing # {}
      <4>1. PICK i \in MEM!Completing : i \in MemSlots /\ stores[i].busy
        BY <3>2, CompletingIs
      <4>2. PICK p : p = <<"slot", i>>
        OBVIOUS
      <4>3. p \in PS!Pending /\ Done(p)
        BY <1>1, <4>1, <4>2, PendingIs DEF PendingFacts, Done
      <4>4. PICK j \in MemSlots : MEM!Completing = {j} /\ PS!Access(p) = stores[j]
        BY <4>3, DoneFirst
      <4>5. a \notin Bytes(stores[j])
        BY <1>5, <4>3, <4>4 DEF SameMoment
      <4>6. mem' = [b \in Word |-> IF b \in Bytes(stores[j]) THEN PS!Left(stores[j], b) ELSE mem[b]]
        BY <1>1, <4>4, MemStep
      <4> QED
        BY <4>5, <4>6
    <3> QED
      BY <3>1, <3>2
  <2> QED
    BY <2>1, <2>2, <2>3
<1> QED
  BY <1>4, <1>5

(* The next access comes after all the stores in flight.                   *)
Horizon == MemTicks + LsCapacity + 1
HorizonFacts ==
  SlotsInv => /\ PS!MemBar = PS!MemBefore(Horizon)
              /\ \A p \in PS!Pending : PS!Turn(p) < Horizon

LEMMA HorizonIs == HorizonFacts
<1> SUFFICES ASSUME SlotsInv
             PROVE  /\ PS!MemBar = PS!MemBefore(Horizon)
                    /\ \A p \in PS!Pending : PS!Turn(p) < Horizon
  BY DEF HorizonFacts
<1>1. ASSUME NEW p \in PS!Pending PROVE PS!Turn(p) < Horizon
  <2>1. PS!Turn(p) \in 1 .. MemTicks + LsCapacity /\ MemTicks \in Nat /\ LsCapacity \in Nat
    BY TurnIs, Parameters
  <2> QED
    BY <2>1 DEF Horizon
<1>2. PS!MemBefore(Horizon) = PS!MemBar
  BY <1>1, LateIs DEF LateFacts
<1> QED
  BY <1>1, <1>2

LEMMA HorizonIsNext == HorizonFacts'
BY HorizonIs, PTL

(* So a byte is found as before, unless a store to it is pushed.           *)
LEMMA BarKept ==
  ASSUME SlotsInv, SlotsInv', StoresStay,
         NEW pushed \in Pushes, NEW flush \in BOOLEAN, Tick(pushed, flush),
         NEW a \in Word,
         ~(pushed # {} /\ lsData'[lsTail].op = "STORE" /\ a \in Bytes(lsData'[lsTail]))
  PROVE  PS!MemBar'[a] = PS!MemBar[a]
<1>1. PICK t : t = Horizon
  OBVIOUS
<1>2. PS!MemBar = PS!MemBefore(t) /\ \A p \in PS!Pending : PS!Turn(p) < t
  BY <1>1, HorizonIs DEF HorizonFacts
<1>3. PS!MemBar' = PS!MemBefore(t)' /\ \A p \in PS!Pending' : PS!Turn(p)' < t
  BY <1>1, HorizonIsNext DEF HorizonFacts, Horizon
<1>4. ASSUME NEW p \in PS!Pending, ~Done(p), NEW d, d = Dest(p)
      PROVE  PS!Turn(d)' < t
  BY <1>3, <1>4, StoreGoes
<1>5. SameMoment(t, t) /\ NotBefore(pushed, a, t)
  BY <1>2, <1>4 DEF SameMoment, NotBefore
<1>6. PS!MemBefore(t)'[a] = PS!MemBefore(t)[a]
  BY <1>5, ByteKept
<1> QED
  BY <1>2, <1>3, <1>6

(* A store that is pushed is the last one at once.                         *)
LEMMA ByteWritten ==
  ASSUME SlotsInv, SlotsInv', NEW pushed \in Pushes, NEW flush \in BOOLEAN, Tick(pushed, flush),
         NEW a \in Word,
         pushed # {}, lsData'[lsTail].op = "STORE", a \in Bytes(lsData'[lsTail])
  PROVE  PS!MemBar'[a] = PS!Left(lsData'[lsTail], a)
<1>1. PICK d : d = <<"queue", lsTail>>
  OBVIOUS
<1>2. /\ d \in PS!Pending' /\ PS!Access(d)' = lsData'[lsTail]
      /\ \A q \in PS!Pending' : PS!Turn(q)' <= PS!Turn(d)'
  BY <1>1, StoreArrives
<1>3. PS!MemBar' = PS!MemBefore(Horizon)' /\ \A q \in PS!Pending' : PS!Turn(q)' < Horizon
  BY HorizonIsNext DEF HorizonFacts
<1>4. IsLast(d, a, Horizon)'
  BY <1>2, <1>3 DEF IsLast, Horizon
<1>6. PS!MemBefore(Horizon)'[a] = PS!Left(PS!Access(d), a)'
  <2>1. \A t : /\ IsLast(d, a, t)' => PS!MemBefore(t)'[a] = PS!Left(PS!Access(d), a)'
    BY BeforeIsNext DEF BeforeFacts
  <2> QED
    BY <1>4, <2>1 DEF Horizon
<1>5. PS!Left(PS!Access(d), a)' = PS!Left(PS!Access(d)', a)
  BY DEF PS!Left
<1> QED
  BY <1>2, <1>3, <1>5, <1>6

(* What the next access finds, over one tick.                              *)
LEMMA BarStep ==
  ASSUME SlotsInv, SlotsInv', StoresStay,
         NEW pushed \in Pushes, NEW flush \in BOOLEAN, Tick(pushed, flush)
  PROVE  /\ pushed = {} => PS!MemBar' = PS!MemBar
         /\ \A e : pushed = {e} => PS!MemBar' =
              IF e.op = "STORE" THEN MemSetSz(PS!MemBar, e.addr, e.value, e.size) ELSE PS!MemBar
<1>1. /\ PS!MemBar = [a \in Word |-> PS!MemBar[a]]
      /\ PS!MemBar' = [a \in Word |-> PS!MemBar'[a]]
      /\ DOMAIN PS!MemBar = Word
  <2>1. PS!MemBar = [a \in Word |-> PS!MemBar[a]]
    BY HorizonIs, BeforeIs DEF HorizonFacts, BeforeFacts
  <2>2. PS!MemBar' = [a \in Word |-> PS!MemBar'[a]]
    BY HorizonIsNext, BeforeIsNext DEF HorizonFacts, BeforeFacts, Word, Horizon
  <2> DEFINE m == PS!MemBar
  <2>3. m = [a \in Word |-> m[a]]
    BY <2>1
  <2> HIDE DEF m
  <2>4. DOMAIN m = Word
    BY <2>3
  <2> QED
    BY <2>1, <2>2, <2>4 DEF m
<1>2. ASSUME pushed = {} \/ lsData'[lsTail].op # "STORE"
      PROVE  PS!MemBar' = PS!MemBar
  <2>1. \A a \in Word : PS!MemBar'[a] = PS!MemBar[a]
    BY <1>2, BarKept
  <2> DEFINE m == PS!MemBar
             n == PS!MemBar'
  <2>2. m = [a \in Word |-> m[a]] /\ n = [a \in Word |-> n[a]] /\ \A a \in Word : n[a] = m[a]
    BY <1>1, <2>1
  <2> HIDE DEF m, n
  <2>3. n = m
    BY <2>2
  <2> QED
    BY <2>3 DEF m, n
<1>3. ASSUME NEW e, pushed = {e}
      PROVE  lsData'[lsTail] = e /\ e.addr \in Word /\ e.size \in Sizes
  <2>1. Types
    BY DEF SlotsInv
  <2>2. e \in EntryType
    BY <1>3, <2>1, PushedIs
  <2> QED
    BY <1>3, <2>1, <2>2, DataStep DEF EntryType
<1>4. ASSUME NEW e, pushed = {e}, e.op = "STORE"
      PROVE  PS!MemBar' = MemSetSz(PS!MemBar, e.addr, e.value, e.size)
  <2>1. lsData'[lsTail] = e /\ e.addr \in Word /\ e.size \in Sizes
    BY <1>3, <1>4
  <2>2. \A a \in Word : PS!MemBar'[a] = IF a \in Bytes(e) THEN PS!Left(e, a) ELSE PS!MemBar[a]
    BY <1>4, <2>1, BarKept, ByteWritten
  <2> DEFINE m == PS!MemBar
             n == PS!MemBar'
  <2>3. /\ m = [a \in Word |-> m[a]] /\ n = [a \in Word |-> n[a]] /\ DOMAIN m = Word
        /\ \A a \in Word : n[a] = IF a \in Bytes(e) THEN PS!Left(e, a) ELSE m[a]
    BY <1>1, <2>2
  <2> HIDE DEF m, n
  <2>4. n = [a \in Word |-> IF a \in Bytes(e) THEN PS!Left(e, a) ELSE m[a]]
    BY <2>3
  <2>5. MemSetSz(m, e.addr, e.value, e.size)
          = [a \in Word |-> IF a \in Bytes(e) THEN PS!Left(e, a) ELSE m[a]]
    BY <2>1, <2>3, StoreWrites
  <2> QED
    BY <2>4, <2>5 DEF m, n
<1> QED
  BY <1>2, <1>3, <1>4


-----------------------------------------------------------------------------
(* Time.                                                                   *)

(* What a tick makes of a turn, outside a flush: the slots count down, and *)
(* the queue moves up when its head leaves.                                *)
NextTurn(t) == IF ~Popping /\ t >= MemTicks THEN t ELSE t - 1

(* The turns of the loads that wait.                                       *)
LEMMA WaitTurn ==
  ASSUME SlotsInv, NEW rob, NEW addr, NEW size, NEW t, WaitsAs(rob, addr, size, t)
  PROVE  t \in Nat \ {0} /\ addr \in Word /\ size \in Sizes
<1>1. Types /\ Staggered(loads) /\ MemTicks \in Nat \ {0, 1}
  BY Parameters DEF SlotsInv
<1>2. CASE \E s \in Live : /\ t = MemTicks + Age(s)
                           /\ addr = lsData[s].addr /\ size = lsData[s].size
  <2>1. PICK s \in Live : t = MemTicks + Age(s) /\ addr = lsData[s].addr /\ size = lsData[s].size
    BY <1>2
  <2>2. s \in Slots
    BY DEF Live
  <2>3. Age(s) \in Nat
    <3>1. /\ LsCapacity \in Nat \ {0} /\ lsHead \in 0 .. LsCapacity - 1 /\ s \in 0 .. LsCapacity - 1
      BY <1>1, <2>2, Parameters DEF Types, Slots
    <3>2. Distance(LsCapacity, lsHead, s) \in 0 .. LsCapacity - 1
      BY <3>1, DistanceIs
    <3> QED
      BY <3>1, <3>2 DEF Age
  <2>4. lsData[s].addr \in Word /\ lsData[s].size \in Sizes
    BY <1>1, <2>2 DEF Types, EntryType
  <2> QED
    BY <1>1, <2>1, <2>3, <2>4
<1>3. CASE \E i \in MemSlots : /\ loads[i].busy /\ t = loads[i].ticks
                               /\ addr = loads[i].addr /\ size = loads[i].size
  <2>1. PICK i \in MemSlots : /\ loads[i].busy /\ t = loads[i].ticks
                              /\ addr = loads[i].addr /\ size = loads[i].size
    BY <1>3
  <2>2. loads[i].ticks \in 1 .. MemTicks - 1
    BY <1>1, <2>1 DEF Staggered
  <2>3. loads[i].addr \in Word /\ loads[i].size \in Sizes
    BY <1>1 DEF Types, LoadSlot
  <2> QED
    BY <1>1, <2>1, <2>2, <2>3
<1> QED
  BY <1>2, <1>3 DEF WaitsAs

(* Time goes on for the loads as for the stores: a turn and what a tick    *)
(* makes of it are the same moment, unless it is up.                       *)
LEMMA TimeGoesOn ==
  ASSUME SlotsInv, SlotsInv', StoresStay,
         NEW pushed \in Pushes, NEW flush \in BOOLEAN, Tick(pushed, flush), ~memClear,
         NEW t \in Nat \ {0, 1}, NEW u, u = NextTurn(t)
  PROVE  SameMoment(t, u)
<1>1. MemTicks \in Nat \ {0, 1} /\ LsCapacity \in Nat
  BY Parameters
<1>2. ASSUME NEW p \in PS!Pending, Done(p) PROVE PS!Turn(p) < t
  <2>1. PS!Turn(p) = 1
    BY <1>2, DoneFirst
  <2> QED
    BY <2>1
<1>3. ASSUME NEW p \in PS!Pending, NEW d, ~Done(p), d = Dest(p)
      PROVE  PS!Turn(p) < t <=> PS!Turn(d)' < u
  <2>1. PICK x : x = PS!Turn(p)
    OBVIOUS
  <2>2. x \in Nat
    BY <1>1, <2>1, TurnIs
  <2>3. PS!Turn(d)' = IF ~Popping /\ x >= MemTicks THEN x ELSE x - 1
    BY <1>3, <2>1, StoreGoes
  <2>4. x < t <=> (IF ~Popping /\ x >= MemTicks THEN x ELSE x - 1)
                    < (IF ~Popping /\ t >= MemTicks THEN t ELSE t - 1)
    BY <1>1, <2>2
  <2> QED
    BY <2>1, <2>3, <2>4 DEF NextTurn
<1> QED
  BY <1>2, <1>3 DEF SameMoment

(* A load that waits after a tick in which a store was pushed comes before *)
(* the store.                                                              *)
LEMMA BeforePushed ==
  ASSUME SlotsInv, SlotsInv', NEW pushed \in Pushes, NEW flush \in BOOLEAN, Tick(pushed, flush),
         NEW rob, NEW addr, NEW size, NEW u, WaitsAs(rob, addr, size, u)', NEW a
  PROVE  NotBefore(pushed, a, u)
<1> SUFFICES ASSUME pushed # {}, lsData'[lsTail].op = "STORE", NEW d, d = <<"queue", lsTail>>
             PROVE  ~(PS!Turn(d)' < u)
  BY DEF NotBefore
<1>1. MemTicks \in Nat \ {0, 1}
  BY Parameters
<1>2. /\ PS!Turn(d)' \in Int /\ MemTicks <= PS!Turn(d)'
      /\ \A s \in Live' : Age(s)' \in Nat /\ MemTicks + Age(s)' <= PS!Turn(d)'
  BY StoreArrives
<1>3. \/ \E s \in Live' : u = MemTicks + Age(s)'
      \/ \E i \in MemSlots : loads'[i].busy /\ u = loads'[i].ticks
  BY DEF WaitsAs, MemSlots
<1>4. CASE \E s \in Live' : u = MemTicks + Age(s)'
  BY <1>1, <1>2, <1>4
<1>5. CASE \E i \in MemSlots : loads'[i].busy /\ u = loads'[i].ticks
  <2>1. u \in 1 .. MemTicks - 1
    BY <1>5 DEF SlotsInv, Staggered, MemSlots
  <2> QED
    BY <1>1, <1>2, <2>1
<1> QED
  BY <1>3, <1>4, <1>5

(* So what a load is going to answer does not change while it waits.       *)
LEMMA PromiseKept ==
  ASSUME SlotsInv, SlotsInv', StoresStay,
         NEW pushed \in Pushes, NEW flush \in BOOLEAN, Tick(pushed, flush), ~memClear,
         NEW rob, NEW addr, NEW size, NEW t, WaitsAs(rob, addr, size, t), t # 1,
         NEW u, u = NextTurn(t), WaitsAs(rob, addr, size, u)'
  PROVE  Promise(rob, addr, size, u)' = Promise(rob, addr, size, t)
<1>1. t \in Nat \ {0, 1} /\ addr \in Word /\ size \in Sizes
  BY WaitTurn
<1>2. SameMoment(t, u)
  BY <1>1, TimeGoesOn
<1>3. PICK r : r = [addr |-> addr, size |-> size]
  OBVIOUS
<1>4. r.addr = addr /\ r.size = size
  BY <1>3
<1>5. Bytes(r) \subseteq Word
  BY <1>1, <1>4, BytesAre
<1>6. ASSUME NEW a \in Bytes(r)
      PROVE  PS!MemBefore(u)'[a] = PS!MemBefore(t)[a]
  <2>1. a \in Word
    BY <1>5
  <2>2. NotBefore(pushed, a, u)
    BY BeforePushed
  <2> QED
    BY <1>2, <2>1, <2>2, ByteKept
<1> DEFINE m == PS!MemBefore(u)'
           n == PS!MemBefore(t)
<1>7. \A a \in Bytes(r) : m[a] = n[a]
  BY <1>6
<1> HIDE DEF m, n
<1>8. MemGetSz(m, addr, size) = MemGetSz(n, addr, size)
  BY <1>1, <1>4, <1>7, LoadReads
<1>9. Promise(rob, addr, size, u)' = [rob |-> rob, result |-> MemGetSz(m, addr, size)]
  BY DEF Promise, m, MemGetSz, Add
<1> QED
  BY <1>8, <1>9 DEF Promise, n

-----------------------------------------------------------------------------
(* The loads that wait, over one tick.                                     *)

(* The loads answered in a tick: at most one, with what it was promised,   *)
(* as all the stores before it have reached the memory when its time is    *)
(* up and none of those behind it has.                                     *)
Served == {[rob |-> loads[i].rob,
            result |-> MemGetSz(mem, loads[i].addr, loads[i].size)] : i \in MEM!Sender}

LEMMA ServedIs ==
  ASSUME SlotsInv
  PROVE  \A w : w \in Served <=> ~memClear /\ \E rob, addr, size :
           WaitsAs(rob, addr, size, 1) /\ w = Promise(rob, addr, size, 1)
<1>1. Types /\ MemTicks \in Nat \ {0, 1}
  BY Parameters DEF SlotsInv
<1>2. ASSUME NEW rob, NEW addr \in Word, NEW size \in Sizes
      PROVE  Promise(rob, addr, size, 1) = [rob |-> rob, result |-> MemGetSz(mem, addr, size)]
  <2>1. PICK r : r = [addr |-> addr, size |-> size]
    OBVIOUS
  <2>2. r.addr = addr /\ r.size = size
    BY <2>1
  <2>3. Bytes(r) \subseteq Word
    BY <2>2, BytesAre
  <2>4. \A p \in PS!Pending : ~(PS!Turn(p) < 1)
    <3>1. \A p \in PS!Pending : PS!Turn(p) \in 1 .. MemTicks + LsCapacity
      BY TurnIs
    <3>2. \A x \in 1 .. MemTicks + LsCapacity : ~(x < 1)
      BY Parameters
    <3> QED
      BY <3>1, <3>2
  <2>5. \A a \in Bytes(r) : PS!MemBefore(1)[a] = mem[a]
    BY <2>3, <2>4, BeforeIs DEF BeforeFacts
  <2> DEFINE m == PS!MemBefore(1)
  <2>6. \A a \in Bytes(r) : m[a] = mem[a]
    BY <2>5
  <2> HIDE DEF m
  <2>7. MemGetSz(m, addr, size) = MemGetSz(mem, addr, size)
    BY <2>2, <2>6, LoadReads
  <2> QED
    BY <2>7 DEF Promise, m
<1>3. \A rob, addr, size : WaitsAs(rob, addr, size, 1) <=>
        \E i \in MemSlots : /\ loads[i].busy /\ loads[i].ticks = 1
                            /\ rob = loads[i].rob /\ addr = loads[i].addr /\ size = loads[i].size
  <2>1. \A s \in Live : 1 # MemTicks + Age(s)
    <3>1. \A s \in Live : Age(s) \in Nat
      BY <1>1, Parameters, DistanceIs DEF Live, Age, Types, Slots
    <3> QED
      BY <1>1, <3>1
  <2> QED
    BY <2>1 DEF WaitsAs
<1>4. \A i \in MemSlots : loads[i].addr \in Word /\ loads[i].size \in Sizes
  BY <1>1 DEF Types, LoadSlot
<1>5. ASSUME NEW w
      PROVE  w \in Served <=> ~memClear /\ \E i \in MemSlots :
               /\ loads[i].busy /\ loads[i].ticks = 1
               /\ w = Promise(loads[i].rob, loads[i].addr, loads[i].size, 1)
  <2>1. w \in Served <=> \E i \in MEM!Sender :
          w = [rob |-> loads[i].rob, result |-> MemGetSz(mem, loads[i].addr, loads[i].size)]
    BY DEF Served
  <2>2. \A i \in MemSlots :
          Promise(loads[i].rob, loads[i].addr, loads[i].size, 1)
            = [rob |-> loads[i].rob, result |-> MemGetSz(mem, loads[i].addr, loads[i].size)]
    BY <1>2, <1>4
  <2> QED
    BY <2>1, <2>2, SenderIs
<1> QED
  BY <1>3, <1>5

LEMMA OneServed ==
  ASSUME SlotsInv
  PROVE  /\ Served \subseteq Waiting
         /\ IsFiniteSet(Served) /\ Cardinality(Served) <= 1
<1>1. Types /\ memClear = lsClear
  BY DEF SlotsInv, Phase
<1>2. Served \subseteq Waiting
  BY <1>1, ServedIs, WaitingHolds DEF WaitingFacts
<1>3. \A i, j \in MEM!Sender : i = j
  BY SenderIs DEF SlotsInv, Staggered
<1>4. CASE MEM!Sender = {}
  <2>1. Served = {}
    BY <1>4 DEF Served
  <2>2. IsFiniteSet({}) /\ Cardinality({}) = 0
    BY FS_EmptySet
  <2>3. Cardinality(Served) = 0 /\ IsFiniteSet(Served)
    BY <2>1, <2>2, Zenon
  <2> QED
    BY <1>2, <2>3
<1>5. CASE MEM!Sender # {}
  <2>1. PICK i : i \in MEM!Sender
    BY <1>5
  <2>2. PICK w : w = [rob |-> loads[i].rob,
                      result |-> MemGetSz(mem, loads[i].addr, loads[i].size)]
    OBVIOUS
  <2>3. Served = {w}
    BY <1>3, <2>1, <2>2 DEF Served
  <2>4. IsFiniteSet({w}) /\ Cardinality({w}) = 1
    BY FS_Singleton
  <2>5. Cardinality(Served) = 1 /\ IsFiniteSet(Served)
    BY <2>3, <2>4, Zenon
  <2> QED
    BY <1>2, <2>5
<1> QED
  BY <1>4, <1>5

(* They are what the memory gives to its helper: it does not stall.        *)
LEMMA Answered ==
  ASSUME SlotsInv, NEW pushed \in Pushes, NEW flush \in BOOLEAN, Tick(pushed, flush)
  PROVE  answer' = Served
<1>1. Types /\ HelpersInv /\ (busClear = 2) = memClear
  BY DEF SlotsInv, Phase
<1>2. answer' = MEM!Sends(CDB!Stall(MemHelper))
  BY DEF Tick, Given
<1>3. CASE memClear
  <2>1. MEM!Sender = {}
    BY <1>3, SenderIs
  <2> QED
    BY <1>2, <2>1 DEF MEM!Sends, Served
<1>4. CASE ~memClear
  <2>1. ~CDB!Stall(MemHelper)
    BY <1>1, <1>4, MemoryNeverStalls
  <2>2. answer' = {[rob |-> loads[i].rob,
                    result |-> MEM!MemGetSz(mem, loads[i].addr, loads[i].size)] : i \in MEM!Sender}
    BY <1>2, <2>1 DEF MEM!Sends
  <2> QED
    BY <2>2, Shared DEF Served
<1> QED
  BY <1>3, <1>4

(* The load whose time is up is not another one in disguise: tags differ.  *)
LEMMA ServedTag ==
  ASSUME OrderInv, NEW rob, NEW addr, NEW size, NEW t, WaitsAs(rob, addr, size, t), t # 1
  PROVE  Promise(rob, addr, size, t) \notin Served
<1>1. SlotsInv /\ TagsDiffer
  BY DEF OrderInv
<1>2. \A j \in MEM!Sender : j \in MemSlots /\ loads[j].busy /\ loads[j].ticks = 1
  BY <1>1, SenderIs
<1>3. \A w \in Served : \E j \in MEM!Sender : w.rob = loads[j].rob
  BY DEF Served
<1>4. Promise(rob, addr, size, t).rob = rob
  BY DEF Promise
<1>5. \A j \in MEM!Sender : loads[j].rob # rob
  <2>1. CASE \E s \in Live : IsLoad(s) /\ rob = lsData[s].rob
    BY <1>1, <1>2, <2>1 DEF TagsDiffer
  <2>2. CASE \E i \in MemSlots : loads[i].busy /\ rob = loads[i].rob /\ t = loads[i].ticks
    BY <1>1, <1>2, <2>2 DEF TagsDiffer
  <2> QED
    BY <2>1, <2>2 DEF WaitsAs
<1> QED
  BY <1>3, <1>4, <1>5

(* A load that is not served goes on waiting: in the queue, or in a slot   *)
(* of the memory, where there is room for it.                              *)
LEMMA LoadGoes ==
  ASSUME OrderInv, SlotsInv', NEW pushed \in Pushes, NEW flush \in BOOLEAN, Tick(pushed, flush),
         ~lsClear,
         NEW rob, NEW addr, NEW size, NEW t, WaitsAs(rob, addr, size, t), t # 1,
         NEW u, u = NextTurn(t)
  PROVE  WaitsAs(rob, addr, size, u)'
<1>1. SlotsInv /\ Types /\ Phase /\ ~memClear /\ MemTicks \in Nat \ {0, 1}
  BY Parameters DEF OrderInv, SlotsInv, Phase
<1>2. CASE \E s \in Live :
             /\ IsLoad(s) /\ t = MemTicks + Age(s)
             /\ rob = lsData[s].rob /\ addr = lsData[s].addr /\ size = lsData[s].size
  <2>1. PICK s \in Live :
          /\ IsLoad(s) /\ t = MemTicks + Age(s)
          /\ rob = lsData[s].rob /\ addr = lsData[s].addr /\ size = lsData[s].size
    BY <1>2
  <2>2. s \in Slots /\ Age(s) \in Nat /\ (Popping => Age(lsHead) = 0)
    BY <1>1, RingStep DEF Live
  <2>3. CASE Popping /\ s = lsHead
    <3>1. LoadIn
      BY <2>1, <2>3 DEF LoadIn, IsLoad, Head
    <3>2. PICK i : i \in MEM!FirstFree(loads)
      BY <1>1, StaggeredLeavesRoom DEF SlotsInv
    <3>3. i \in MemSlots
      BY <3>2, OneFree
    <3>4. loads'[i] = [busy |-> TRUE, ticks |-> MemTicks - 1, addr |-> Head.addr,
                       size |-> Head.size, rob |-> Head.rob]
      BY <1>1, <3>1, <3>2, <3>3, LoadSlotStep
    <3>5. /\ loads'[i].busy /\ addr = loads'[i].addr /\ size = loads'[i].size
          /\ rob = loads'[i].rob /\ loads'[i].ticks = MemTicks - 1
      BY <2>1, <2>3, <3>4 DEF Head
    <3>6. u = loads'[i].ticks
      BY <1>1, <2>1, <2>2, <2>3, <3>5 DEF NextTurn
    <3> QED
      BY <3>3, <3>5, <3>6 DEF WaitsAs, MemSlots
  <2>4. CASE ~(Popping /\ s = lsHead)
    <3>1. s \in Live' /\ Age(s)' = IF Popping THEN Age(s) - 1 ELSE Age(s)
      BY <1>1, <2>2, <2>4, RingStep
    <3>2. /\ lsData'[s].op = lsData[s].op /\ lsData'[s].addr = lsData[s].addr
          /\ lsData'[s].size = lsData[s].size /\ lsData'[s].rob = lsData[s].rob
          /\ lsData'[s].cleared <=> lsData[s].cleared
      BY <1>1, DataStep
    <3>3. IsLoad(s)'
      BY <2>1, <3>2 DEF IsLoad
    <3>4. u = MemTicks + Age(s)'
      BY <1>1, <2>1, <2>2, <3>1 DEF NextTurn
    <3> QED
      BY <2>1, <3>1, <3>2, <3>3, <3>4 DEF WaitsAs
  <2> QED
    BY <2>3, <2>4
<1>3. CASE \E i \in MemSlots :
             /\ loads[i].busy /\ t = loads[i].ticks
             /\ rob = loads[i].rob /\ addr = loads[i].addr /\ size = loads[i].size
  <2>1. PICK i \in MemSlots :
          /\ loads[i].busy /\ t = loads[i].ticks
          /\ rob = loads[i].rob /\ addr = loads[i].addr /\ size = loads[i].size
    BY <1>3
  <2>2. i \notin MEM!Sender
    BY <1>1, <2>1, SenderIs
  <2>3. i \notin MEM!FirstFree(loads)
    BY <2>1, OneFree
  <2>4. /\ loads'[i].busy /\ loads'[i].addr = loads[i].addr
        /\ loads'[i].size = loads[i].size /\ loads'[i].rob = loads[i].rob
        /\ loads'[i].ticks = loads[i].ticks - 1
    BY <1>1, <2>1, <2>2, <2>3, LoadSlotStep
  <2>5. loads[i].ticks \in 1 .. MemTicks - 1
    BY <1>1, <2>1 DEF SlotsInv, Staggered
  <2>6. u = loads'[i].ticks
    BY <1>1, <2>1, <2>4, <2>5 DEF NextTurn
  <2> QED
    BY <2>1, <2>4, <2>6 DEF WaitsAs, MemSlots
<1> QED
  BY <1>2, <1>3 DEF WaitsAs

(* A load that waits after a tick waited before and was not served, or has *)
(* just been pushed, and then its turn comes after all the stores.         *)
LEMMA LoadComes ==
  ASSUME OrderInv, SlotsInv', NEW pushed \in Pushes, NEW flush \in BOOLEAN, Tick(pushed, flush),
         ~lsClear,
         NEW rob, NEW addr, NEW size, NEW u, WaitsAs(rob, addr, size, u)'
  PROVE  \/ \E t : WaitsAs(rob, addr, size, t) /\ t # 1 /\ u = NextTurn(t)
         \/ /\ pushed # {} /\ lsData'[lsTail].op = "LOAD"
            /\ rob = lsData'[lsTail].rob /\ addr = lsData'[lsTail].addr
            /\ size = lsData'[lsTail].size
            /\ \A s : s = lsTail => u = MemTicks + Age(s)'
<1>1. SlotsInv /\ Types /\ Phase /\ ~memClear /\ MemTicks \in Nat \ {0, 1}
  BY Parameters DEF OrderInv, SlotsInv, Phase
<1>2. \/ \E s \in Live' :
           /\ IsLoad(s)' /\ u = MemTicks + Age(s)'
           /\ rob = lsData'[s].rob /\ addr = lsData'[s].addr /\ size = lsData'[s].size
      \/ \E i \in MemSlots :
           /\ loads'[i].busy /\ u = loads'[i].ticks
           /\ rob = loads'[i].rob /\ addr = loads'[i].addr /\ size = loads'[i].size
  BY DEF WaitsAs, MemSlots
<1>3. CASE \E s \in Live' :
             /\ IsLoad(s)' /\ u = MemTicks + Age(s)'
             /\ rob = lsData'[s].rob /\ addr = lsData'[s].addr /\ size = lsData'[s].size
  <2>1. PICK s \in Live' :
          /\ IsLoad(s)' /\ u = MemTicks + Age(s)'
          /\ rob = lsData'[s].rob /\ addr = lsData'[s].addr /\ size = lsData'[s].size
    BY <1>3
  <2>2. CASE pushed # {} /\ s = lsTail
    BY <2>1, <2>2 DEF IsLoad
  <2>3. CASE ~(pushed # {} /\ s = lsTail)
    <3>1. /\ s \in Live /\ IsLoad(s) /\ (Popping => s # lsHead)
          /\ lsData'[s].addr = lsData[s].addr
          /\ lsData'[s].size = lsData[s].size /\ lsData'[s].rob = lsData[s].rob
          /\ Age(s)' = IF Popping THEN Age(s) - 1 ELSE Age(s)
      BY <1>1, <2>1, <2>3, EntryFrom
    <3>2. PICK t : t = MemTicks + Age(s)
      OBVIOUS
    <3>3. Age(s) \in Nat
      BY <1>1, <3>1, RingStep DEF Live
    <3>4. t # 1 /\ u = NextTurn(t)
      BY <1>1, <2>1, <3>1, <3>2, <3>3 DEF NextTurn
    <3>5. WaitsAs(rob, addr, size, t)
      BY <2>1, <3>1, <3>2 DEF WaitsAs
    <3> QED
      BY <3>4, <3>5
  <2> QED
    BY <2>2, <2>3
<1>4. CASE \E i \in MemSlots :
             /\ loads'[i].busy /\ u = loads'[i].ticks
             /\ rob = loads'[i].rob /\ addr = loads'[i].addr /\ size = loads'[i].size
  <2>1. PICK i \in MemSlots :
          /\ loads'[i].busy /\ u = loads'[i].ticks
          /\ rob = loads'[i].rob /\ addr = loads'[i].addr /\ size = loads'[i].size
    BY <1>4
  <2>2. CASE /\ LoadIn /\ loads'[i].ticks = MemTicks - 1 /\ loads'[i].addr = Head.addr
             /\ loads'[i].size = Head.size /\ loads'[i].rob = Head.rob
    <3>1. lsHead \in Live /\ IsLoad(lsHead) /\ Age(lsHead) = 0 /\ Popping
      BY <1>1, <2>2, RingStep DEF LoadIn, IsLoad, Head
    <3>2. PICK t : t = MemTicks + Age(lsHead)
      OBVIOUS
    <3>3. t # 1 /\ u = NextTurn(t)
      BY <1>1, <2>1, <2>2, <3>1, <3>2 DEF NextTurn
    <3>4. WaitsAs(rob, addr, size, t)
      BY <2>1, <2>2, <3>1, <3>2 DEF WaitsAs, Head
    <3> QED
      BY <3>3, <3>4
  <2>3. CASE /\ loads[i].busy /\ loads[i].ticks \in 2 .. MemTicks - 1
             /\ loads'[i].ticks = loads[i].ticks - 1 /\ loads'[i].addr = loads[i].addr
             /\ loads'[i].size = loads[i].size /\ loads'[i].rob = loads[i].rob
    <3>1. PICK t : t = loads[i].ticks
      OBVIOUS
    <3>2. t # 1 /\ u = NextTurn(t)
      BY <1>1, <2>1, <2>3, <3>1 DEF NextTurn
    <3>3. WaitsAs(rob, addr, size, t)
      BY <2>1, <2>3, <3>1 DEF WaitsAs
    <3> QED
      BY <3>2, <3>3
  <2> QED
    BY <1>1, <2>1, <2>2, <2>3, LoadCounts
<1> QED
  BY <1>2, <1>3, <1>4

(* The load that is pushed: what it is promised is what the next access    *)
(* finds.                                                                  *)
Newest == [rob |-> lsData'[lsTail].rob,
           result |-> MemGetSz(PS!MemBar, lsData'[lsTail].addr, lsData'[lsTail].size)]

LEMMA NewestPromise ==
  ASSUME OrderInv, SlotsInv', NEW pushed \in Pushes, NEW flush \in BOOLEAN, Tick(pushed, flush),
         pushed # {}, lsData'[lsTail].op = "LOAD",
         NEW s, s = lsTail, NEW u, u = MemTicks + Age(s)',
         NEW rob, rob = lsData'[s].rob, NEW addr, addr = lsData'[s].addr,
         NEW size, size = lsData'[s].size
  PROVE  WaitsAs(rob, addr, size, u)' /\ Promise(rob, addr, size, u)' = Newest
<1>1. /\ SlotsInv /\ StoresStay /\ Types /\ Types' /\ MemTicks \in Nat \ {0, 1}
      /\ s \in Slots
  BY Parameters DEF OrderInv, SlotsInv, Types
<1>2. s \in Live' /\ IsLoad(s)'
  <2>1. s \in Live'
    BY <1>1, RingStep
  <2>2. lsData'[s].op = "LOAD" /\ ~lsData'[s].cleared
    BY <1>1, PushedLoad
  <2> QED
    BY <2>1, <2>2 DEF IsLoad
<1>3. WaitsAs(rob, addr, size, u)'
  BY <1>2 DEF WaitsAs
<1>4. /\ Age(s)' = IF Popping THEN Age(s) - 1 ELSE Age(s)
      /\ Age(s) \in Nat
  BY <1>1, <1>2, RingStep
<1>5. u \in Int /\ MemTicks <= u
  <2>1. /\ LsCapacity \in Nat \ {0} /\ lsHead' \in 0 .. LsCapacity - 1 /\ s \in 0 .. LsCapacity - 1
    BY <1>1, Parameters DEF Types, Slots
  <2>2. Distance(LsCapacity, lsHead', s) \in 0 .. LsCapacity - 1
    BY <2>1, DistanceIs
  <2>3. Age(s)' \in 0 .. LsCapacity - 1
    BY <2>2, Zenon DEF Age
  <2> QED
    BY <1>1, <2>1, <2>3
<1>6. ASSUME NEW p \in PS!Pending'
      PROVE  PS!Turn(p)' < u
  <2>1. \/ \E i \in MemSlots : stores'[i].busy /\ PS!Turn(p)' = stores'[i].ticks
        \/ \E q \in Live' : IsStore(q)' /\ PS!Turn(p)' = MemTicks + Age(q)'
    BY <1>1, <1>6, PendingIsNext DEF PendingFacts, MemSlots
  <2>2. CASE \E i \in MemSlots : stores'[i].busy /\ PS!Turn(p)' = stores'[i].ticks
    <3>1. PS!Turn(p)' \in 1 .. MemTicks - 1
      BY <2>2 DEF SlotsInv, Staggered, MemSlots
    <3> QED
      BY <1>1, <1>5, <3>1
  <2>3. CASE \E q \in Live' : IsStore(q)' /\ PS!Turn(p)' = MemTicks + Age(q)'
    <3>1. PICK q \in Live' : IsStore(q)' /\ PS!Turn(p)' = MemTicks + Age(q)'
      BY <2>3
    <3>2. q # s
      BY <1>2, <3>1 DEF IsLoad, IsStore
    <3>3. q \in Live /\ Age(q)' = IF Popping THEN Age(q) - 1 ELSE Age(q)
      BY <1>1, <3>1, <3>2, EntryFrom
    <3>4. Age(q) < Age(s) /\ Age(q) \in Nat
      BY <1>1, <3>3, RingStep DEF Live
    <3> QED
      BY <1>1, <1>4, <3>1, <3>3, <3>4
  <2> QED
    BY <2>1, <2>2, <2>3
<1>7. PS!MemBefore(u)' = PS!MemBar'
  BY <1>6, LateIsNext DEF LateFacts
<1>8. PS!MemBar' = PS!MemBar
  <2>1. PICK e : pushed = {e}
    BY <1>1, PushedIs
  <2>2. e.op # "STORE"
    BY <1>1, <2>1, DataStep
  <2> QED
    BY <1>1, <2>1, <2>2, BarStep
<1> DEFINE m == PS!MemBefore(u)'
<1>9. Promise(rob, addr, size, u)' = [rob |-> rob, result |-> MemGetSz(m, addr, size)]
  BY DEF Promise, MemGetSz, Add
<1>10. m = PS!MemBar
  BY <1>7, <1>8
<1> HIDE DEF m
<1> QED
  BY <1>3, <1>9, <1>10 DEF Newest

(* A load that waits after a tick waited before, or has just been pushed.  *)
LEMMA WaitsBefore ==
  ASSUME OrderInv, SlotsInv', NEW pushed \in Pushes, NEW flush \in BOOLEAN, Tick(pushed, flush),
         ~lsClear, ~flush, NEW w \in Waiting'
  PROVE  \/ w \in Waiting /\ w \notin Served
         \/ pushed # {} /\ lsData'[lsTail].op = "LOAD" /\ w = Newest
<1>1. SlotsInv /\ StoresStay /\ Types /\ Types' /\ Phase /\ ~memClear
  BY DEF OrderInv, SlotsInv, Phase
<1>2. ~lsClear' /\ ~memClear'
  BY <1>1, PhaseStep
<1>3. PICK rob, addr, size, u :
        WaitsAs(rob, addr, size, u)' /\ w = Promise(rob, addr, size, u)'
  BY <1>1, <1>2, WaitingHoldsNext DEF WaitingFacts
<1>4. CASE \E t : WaitsAs(rob, addr, size, t) /\ t # 1 /\ u = NextTurn(t)
  <2>1. PICK t : WaitsAs(rob, addr, size, t) /\ t # 1 /\ u = NextTurn(t)
    BY <1>4
  <2>2. w = Promise(rob, addr, size, t)
    BY <1>1, <1>3, <2>1, PromiseKept
  <2>3. w \in Waiting
    BY <1>1, <2>1, <2>2, WaitingHolds DEF WaitingFacts
  <2> QED
    BY <2>1, <2>2, <2>3, ServedTag
<1>5. CASE ~\E t : WaitsAs(rob, addr, size, t) /\ t # 1 /\ u = NextTurn(t)
  <2>1. PICK s : s = lsTail
    OBVIOUS
  <2>2. /\ pushed # {} /\ lsData'[lsTail].op = "LOAD"
        /\ rob = lsData'[s].rob /\ addr = lsData'[s].addr /\ size = lsData'[s].size
        /\ u = MemTicks + Age(s)'
    BY <1>3, <1>5, <2>1, LoadComes
  <2>3. Promise(rob, addr, size, u)' = Newest
    BY <2>1, <2>2, NewestPromise
  <2> QED
    BY <1>3, <2>2, <2>3
<1> QED
  BY <1>4, <1>5

LEMMA WaitsOn ==
  ASSUME OrderInv, SlotsInv', NEW pushed \in Pushes, NEW flush \in BOOLEAN, Tick(pushed, flush),
         ~lsClear, ~flush, NEW w \in Waiting, w \notin Served
  PROVE  w \in Waiting'
<1>1. SlotsInv /\ StoresStay /\ Types /\ Types' /\ Phase /\ ~memClear
  BY DEF OrderInv, SlotsInv, Phase
<1>2. ~lsClear' /\ ~memClear'
  BY <1>1, PhaseStep
<1>3. PICK rob, addr, size, t :
        WaitsAs(rob, addr, size, t) /\ w = Promise(rob, addr, size, t)
  BY <1>1, WaitingHolds DEF WaitingFacts
<1>4. t # 1
  BY <1>1, <1>3, ServedIs
<1>5. PICK u : u = NextTurn(t)
  OBVIOUS
<1>6. WaitsAs(rob, addr, size, u)'
  BY <1>3, <1>4, <1>5, LoadGoes
<1>7. w = Promise(rob, addr, size, u)'
  BY <1>1, <1>3, <1>4, <1>5, <1>6, PromiseKept
<1> QED
  BY <1>1, <1>2, <1>6, <1>7, WaitingHoldsNext DEF WaitingFacts

(* A load that is pushed waits.                                            *)
LEMMA PushedWaits ==
  ASSUME OrderInv, SlotsInv', NEW pushed \in Pushes, NEW flush \in BOOLEAN, Tick(pushed, flush),
         ~flush, pushed # {}, lsData'[lsTail].op = "LOAD"
  PROVE  Newest \in Waiting'
<1>1. SlotsInv /\ Types /\ Types' /\ Phase
  BY DEF OrderInv, SlotsInv
<1>2. ~lsClear' /\ ~memClear'
  BY <1>1, PhaseStep
<1>3. PICK s, u : s = lsTail /\ u = MemTicks + Age(s)'
  OBVIOUS
<1>4. PICK rob, addr, size :
        rob = lsData'[s].rob /\ addr = lsData'[s].addr /\ size = lsData'[s].size
  OBVIOUS
<1>5. WaitsAs(rob, addr, size, u)' /\ Promise(rob, addr, size, u)' = Newest
  BY <1>3, <1>4, NewestPromise
<1> QED
  BY <1>1, <1>2, <1>5, WaitingHoldsNext DEF WaitingFacts

(* Nothing waits after a flush, nor after the tick that follows it.        *)
LEMMA NothingWaits ==
  ASSUME OrderInv, SlotsInv', NEW pushed \in Pushes, NEW flush \in BOOLEAN, Tick(pushed, flush)
  PROVE  /\ flush => Waiting' = {}
         /\ lsClear => Waiting = {} /\ Waiting' = {} /\ pushed = {}
<1>1. SlotsInv /\ Types /\ Types' /\ Phase
  BY DEF OrderInv, SlotsInv
<1>2. lsClear' = flush /\ memClear' = flush
  BY <1>1, PhaseStep
<1>3. flush => Waiting' = {}
  BY <1>2 DEF Waiting
<1>4. ASSUME lsClear PROVE Waiting = {} /\ pushed = {}
  <2>1. Waiting = {}
    BY <1>4 DEF Waiting
  <2> QED
    BY <1>1, <1>4, <2>1, PushedIs
<1>5. ASSUME lsClear PROVE Waiting' = {}
  <2>1. CASE flush
    BY <1>3, <2>1
  <2>2. CASE ~flush
    <3>1. \A i \in MemSlots : ~loads'[i].busy
      BY <1>1, <1>5, PhaseStep DEF Phase
    <3>2. \A s \in Live' : ~IsLoad(s)'
      BY <1>1, <1>4, <1>5, EntryFrom
    <3>3. \A rob, addr, size, u : ~WaitsAs(rob, addr, size, u)'
      BY <3>1, <3>2 DEF WaitsAs, MemSlots
    <3> QED
      BY <1>1, <1>2, <2>2, <3>3, WaitingHoldsNext DEF WaitingFacts
  <2> QED
    BY <2>1, <2>2
<1> QED
  BY <1>3, <1>4, <1>5

-----------------------------------------------------------------------------
(* The refinement.                                                         *)

LEMMA AbstractInit == Init => Abstract!Init
<1> SUFFICES ASSUME Init PROVE Abstract!Init
  OBVIOUS
<1>1. SlotsInv /\ Types /\ ~lsClear
  BY SlotsInit DEF Init, LSQ!Init, SlotsInv
<1>2. Live = {}
  <2>1. lsHead = 0 /\ lsTail = 0
    BY DEF Init, LSQ!Init
  <2>2. \A s \in Slots : Age(s) \in Nat
    BY <1>1, Parameters, DistanceIs DEF Types, Age, Slots
  <2>3. Age(lsTail) = 0
    BY <2>1, Parameters, DistanceIs DEF Age, Slots
  <2> QED
    BY <2>2, <2>3 DEF Live
<1>3. \A i \in MemSlots : ~loads[i].busy /\ ~stores[i].busy
  BY Parameters DEF Init, MEM!Init
<1>4. Waiting = {}
  <2>1. ~memClear
    BY DEF Init, MEM!Init
  <2> QED
    BY <1>1, <1>2, <1>3, <2>1, WaitingHolds DEF WaitingFacts, WaitsAs
<1>5. PS!MemBar = [a \in Word |-> 0]
  <2>1. PS!Pending = {}
    BY <1>1, <1>2, <1>3, PendingIs DEF PendingFacts
  <2>2. mem = [a \in Word |-> 0]
    BY Shared DEF Init, MEM!Init
  <2> DEFINE m == PS!MemBar
  <2>3. m = [a \in Word |-> m[a]] /\ \A a \in Word : m[a] = mem[a]
    BY <1>1, <2>1, HorizonIs, BeforeIs DEF HorizonFacts, BeforeFacts
  <2> HIDE DEF m
  <2>4. m = [a \in Word |-> 0]
    BY <2>2, <2>3
  <2> QED
    BY <2>4 DEF m
<1>6. answer = {}
  BY DEF Init
<1> QED
  BY <1>4, <1>5, <1>6, Shared DEF Abstract!Init

(* A tick is one step of the abstract memory: it serves the load whose     *)
(* time is up and takes the access that is pushed, or forgets the loads.   *)
LEMMA AbstractTick ==
  ASSUME OrderInv, SlotsInv', NEW pushed \in Pushes, NEW flush \in BOOLEAN, Tick(pushed, flush)
  PROVE  Abstract!Next
<1>1. SlotsInv /\ Types /\ StoresStay
  BY DEF OrderInv, SlotsInv
<1>2. Abstract!Serve(Served) /\ Served \in SUBSET Waiting
  <2>1. Served \subseteq Waiting /\ Cardinality(Served) <= 1
    BY <1>1, OneServed
  <2>2. answer' = Served
    BY <1>1, Answered
  <2>3. Abstract!Cardinality(Served) = Cardinality(Served)
    BY DEF Cardinality, Abstract!Cardinality
  <2>4. Served \subseteq Waiting /\ Abstract!Cardinality(Served) <= 1
    BY <2>1, <2>3, Zenon
  <2> QED
    BY <2>2, <2>4, Zenon DEF Abstract!Serve
<1>3. SUFFICES \/ Abstract!Quiet(Served) \/ Abstract!Load(Served)
               \/ Abstract!Store(Served) \/ Abstract!Flush
  BY <1>2 DEF Abstract!Next
<1>4. CASE flush
  <2>1. Waiting' = {}
    BY <1>4, NothingWaits
  <2>2. \A p \in pushed : p.op = "LOAD"
    BY <1>4 DEF Tick
  <2>3. PS!MemBar' = PS!MemBar
    <3>1. CASE pushed = {}
      BY <1>1, <3>1, BarStep
    <3>2. CASE pushed # {}
      <4>1. PICK e : pushed = {e}
        BY <1>1, <3>2, PushedIs
      <4>2. e.op # "STORE"
        BY <2>2, <4>1
      <4> QED
        BY <1>1, <4>1, <4>2, BarStep
    <3> QED
      BY <3>1, <3>2
  <2> QED
    BY <2>1, <2>3 DEF Abstract!Flush
<1>5. CASE ~flush /\ lsClear
  <2>1. Waiting' = Waiting \ Served /\ pushed = {}
    BY <1>5, NothingWaits
  <2>2. PS!MemBar' = PS!MemBar
    BY <1>1, <2>1, BarStep
  <2> QED
    BY <2>1, <2>2 DEF Abstract!Quiet
<1>6. CASE ~flush /\ ~lsClear /\ pushed = {}
  <2>1. Waiting' = Waiting \ Served
    BY <1>6, WaitsBefore, WaitsOn
  <2>2. PS!MemBar' = PS!MemBar
    BY <1>1, <1>6, BarStep
  <2> QED
    BY <2>1, <2>2 DEF Abstract!Quiet
<1>7. CASE ~flush /\ ~lsClear /\ pushed # {}
  <2>1. PICK r \in Requests : /\ r \in Access /\ pushed = {Entry(r)} /\ Entry(r) \in EntryType
                              /\ r.op = "LOAD" => Entry(r).rob \in FreeTags
    BY <1>1, <1>7, PushedIs
  <2>2. PICK e : e = Entry(r)
    OBVIOUS
  <2>3. lsData'[lsTail] = e /\ pushed = {e}
    BY <1>1, <2>1, <2>2, DataStep
  <2>4. e.op = r.op /\ e.addr = r.addr /\ e.size = r.size /\ e.value = r.value
    BY <2>2 DEF Entry
  <2>5. CASE r.op = "LOAD"
    <3>1. Newest \in Waiting'
      BY <1>7, <2>3, <2>4, <2>5, PushedWaits
    <3>2. Waiting' = (Waiting \ Served) \cup {Newest}
      BY <1>7, <2>3, <3>1, WaitsBefore, WaitsOn
    <3>3. e.rob \in 1 .. RobCapacity
      BY <2>1, <2>2, <2>5 DEF FreeTags
    <3>4. Newest = [rob |-> e.rob, result |-> Abstract!MemGetSz(PS!MemBar, r.addr, r.size)]
      BY <2>3, <2>4, Shared DEF Newest
    <3>5. PS!MemBar' = PS!MemBar
      BY <1>1, <2>3, <2>4, <2>5, BarStep
    <3>6. Abstract!Load(Served)
      BY <2>5, <3>2, <3>3, <3>4, <3>5 DEF Abstract!Load
    <3> QED
      BY <3>6
  <2>6. CASE r.op = "STORE"
    <3>1. Waiting' = Waiting \ Served
      BY <1>7, <2>3, <2>4, <2>6, WaitsBefore, WaitsOn
    <3>2. PS!MemBar' = MemSetSz(PS!MemBar, r.addr, r.value, r.size)
      BY <1>1, <2>3, <2>4, <2>6, BarStep
    <3>3. PS!MemBar' = Abstract!MemSetSz(PS!MemBar, r.addr, r.value, r.size)
      BY <3>2, Shared
    <3>4. Abstract!Store(Served)
      BY <2>6, <3>1, <3>3 DEF Abstract!Store
    <3> QED
      BY <3>4
  <2> QED
    BY <2>1, <2>5, <2>6 DEF Access
<1> QED
  BY <1>4, <1>5, <1>6, <1>7

(* A step that changes nothing here changes nothing there.                 *)
LEMMA AbstractStutters == UNCHANGED vars => UNCHANGED Abstract!omvars
<1> SUFFICES ASSUME UNCHANGED vars PROVE UNCHANGED Abstract!omvars
  OBVIOUS
<1>1. /\ lsHead' = lsHead /\ lsTail' = lsTail /\ lsData' = lsData /\ lsClear' = lsClear
      /\ mem' = mem /\ loads' = loads /\ stores' = stores /\ memClear' = memClear
      /\ answer' = answer
  BY DEF vars
<1>2. PS!Pending' = PS!Pending
  <2>1. PS!LSQ!queue!Live' = PS!LSQ!queue!Live
    BY <1>1 DEF PS!LSQ!queue!Live, PS!LSQ!queue!Nth, PS!LSQ!queue!Length
  <2> QED
    BY <1>1, <2>1 DEF PS!Pending, PS!Slotted, PS!Queued, PS!MEM!MemSlots
<1>3. \A p : PS!Access(p)' = PS!Access(p) /\ PS!Turn(p)' = PS!Turn(p)
  BY <1>1 DEF PS!Access, PS!Turn, PS!QueueTurn
<1>4. \A S : PS!Applied(S)' = PS!Applied(S)
  <2>1. \A S : PS!Last(S)' = PS!Last(S)
    BY <1>3 DEF PS!Last
  <2> QED
    BY <1>1, <1>3, <2>1 DEF PS!Applied
<1>5. PS!MemBar' = PS!MemBar
  BY <1>2, <1>4 DEF PS!MemBar
<1>6. \A t : PS!MemBefore(t)' = PS!MemBefore(t)
  <2>1. ASSUME NEW t
        PROVE  {p \in PS!Pending : PS!Turn(p) < t}' = {p \in PS!Pending : PS!Turn(p) < t}
    BY <1>2, <1>3
  <2> QED
    BY <1>4, <2>1 DEF PS!MemBefore
<1>7. Waiting' = Waiting
  <2>1. LSQ!queue!Live' = LSQ!queue!Live
    BY <1>1 DEF LSQ!queue!Live, LSQ!queue!Nth, LSQ!queue!Length, LSQ!queue!Trunc
  <2>2. QueuedLoads' = QueuedLoads /\ SlottedLoads' = SlottedLoads
    BY <1>1, <2>1 DEF QueuedLoads, SlottedLoads, MEM!MemSlots
  <2>3. \A q, t : Load(q, t)' = Load(q, t)
    BY <1>6 DEF Load
  <2>4. \A s : PS!QueueTurn(s)' = PS!QueueTurn(s)
    BY <1>1 DEF PS!QueueTurn
  <2> QED
    BY <1>1, <2>2, <2>3, <2>4 DEF Waiting
<1> QED
  BY <1>1, <1>5, <1>7 DEF Abstract!omvars

(* The load/store queue (ls-queue.c) and the memory (memory.c) implement   *)
(* the ordered memory: whatever bytes the accesses in flight touch,        *)
(* whatever the helpers of the bus do and whenever mispredictions flush, a *)
(* load is answered at most once, with what the stores pushed before it    *)
(* left and nothing of those pushed behind it, and no store is lost or     *)
(* reordered.                                                              *)
THEOREM LoadsSeeOlderStores == Spec => ImplementsOrderedMemory
<1>1. Spec => []OrderInv
  BY OrderInit, OrderStep, PTL DEF Spec
<1>2. OrderInv /\ OrderInv' /\ [Next]_vars => [Abstract!Next]_(Abstract!omvars)
  <2> SUFFICES ASSUME OrderInv, OrderInv', [Next]_vars
               PROVE  [Abstract!Next]_(Abstract!omvars)
    OBVIOUS
  <2>1. CASE UNCHANGED vars
    BY <2>1, AbstractStutters
  <2>2. CASE Next
    <3>1. PICK pushed \in Pushes, flush \in BOOLEAN : Tick(pushed, flush)
      BY <2>2 DEF Next
    <3>2. SlotsInv'
      BY DEF OrderInv
    <3> QED
      BY <3>1, <3>2, AbstractTick
  <2> QED
    BY <2>1, <2>2
<1> QED
  BY <1>1, <1>2, AbstractInit, PTL DEF Spec, ImplementsOrderedMemory

=============================================================================
