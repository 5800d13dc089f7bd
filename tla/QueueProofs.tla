---------------------------- MODULE QueueProofs ----------------------------
(***************************************************************************)
(* The circular queue keeps its types and implements Fifo, for every       *)
(* capacity and every set of payloads.                                     *)
(***************************************************************************)
EXTENDS Queue, SequenceTheorems, TLAPS

(* The remainder of a number that is off by less than one capacity.        *)
LEMMA SmallMod ==
  ASSUME NEW C \in Nat \ {0}, NEW x \in 0 .. 2 * C - 1
  PROVE  x % C = IF x < C THEN x ELSE x - C
<1>1. CASE x < C
  BY <1>1, Z3
<1>2. CASE x >= C
  <2> DEFINE y == x - C
  <2>1. y \in 0 .. C - 1
    BY <1>2
  <2>2. (y + C) % C = y
    <3> HIDE DEF y
    <3> QED
      BY <2>1, Z3
  <2>3. y + C = x
    OBVIOUS
  <2> QED
    BY <1>2, <2>2, <2>3
<1> QED
  BY <1>1, <1>2

(* A slot number advanced by at most one capacity.                         *)
LEMMA Wrap ==
  ASSUME NEW s \in Slots, NEW n \in 0 .. Capacity
  PROVE  /\ Trunc(n + s) = IF n + s < Capacity THEN n + s ELSE n + s - Capacity
         /\ Trunc(n + s) \in Slots
<1> DEFINE x == n + s
<1>1. x \in 0 .. 2 * Capacity - 1
  BY CapacityAssumption DEF Slots
<1>2. x % Capacity = IF x < Capacity THEN x ELSE x - Capacity
  <2> HIDE DEF x
  <2> QED
    BY <1>1, CapacityAssumption, SmallMod, Zenon
<1> QED
  BY <1>1, <1>2, CapacityAssumption DEF Trunc, Slots

(* The number of slots from one to another.                                *)
LEMMA Distance ==
  ASSUME NEW h \in Slots, NEW t \in Slots
  PROVE  (t + Capacity - h) % Capacity = IF t < h THEN t + Capacity - h ELSE t - h
<1> DEFINE x == t + Capacity - h
<1>1. x \in 0 .. 2 * Capacity - 1
  BY CapacityAssumption DEF Slots
<1>2. x % Capacity = IF x < Capacity THEN x ELSE x - Capacity
  <2> HIDE DEF x
  <2> QED
    BY <1>1, CapacityAssumption, SmallMod, Zenon
<1> QED
  BY <1>2, CapacityAssumption DEF Slots

(* A slot number advanced by one.                                          *)
LEMMA NextSlot ==
  ASSUME NEW s \in Slots
  PROVE  /\ Trunc(s + 1) = IF s = Capacity - 1 THEN 0 ELSE s + 1
         /\ Trunc(s + 1) \in Slots
<1>1. 1 \in 0 .. Capacity
  BY CapacityAssumption
<1>2. /\ Trunc(1 + s) = IF 1 + s < Capacity THEN 1 + s ELSE 1 + s - Capacity
      /\ Trunc(1 + s) \in Slots
  BY <1>1, Wrap
<1>3. s + 1 = 1 + s
  BY CapacityAssumption DEF Slots
<1> QED
  BY <1>2, <1>3, CapacityAssumption DEF Slots

(* One slot is always left empty, which is what tells full from empty.     *)
LEMMA FullEmpty ==
  ASSUME head \in Slots, tail \in Slots
  PROVE  /\ Length \in 0 .. Capacity - 1
         /\ Full <=> Length = Capacity - 1
         /\ Empty <=> Length = 0
<1>1. Length = IF tail < head THEN tail + Capacity - head ELSE tail - head
  BY Distance DEF Length
<1> QED
  BY <1>1, NextSlot, CapacityAssumption DEF Full, Empty, Slots

(* Every tick keeps the types.                                             *)
LEMMA Typing ==
  ASSUME TypeOK, [Next]_vars
  PROVE  TypeOK'
<1>1. CASE UNCHANGED vars
  BY <1>1 DEF vars, TypeOK
<1>2. CASE Next
  <2>1. PICK pushed \in {{}} \cup {{p} : p \in Payload}, pop \in BOOLEAN, clr \in BOOLEAN :
          Tick(pushed, pop, clr)
    BY <1>2 DEF Next
  <2>2. Move(pushed # {}, pop, clr)
    BY <2>1 DEF Tick
  <2>3. head' \in Slots /\ tail' \in Slots
    <3>1. 0 \in Slots
      BY CapacityAssumption DEF Slots
    <3> QED
      BY <2>2, <3>1, NextSlot DEF Move, TypeOK
  <2>4. data' \in [Slots -> Payload]
    BY <2>1 DEF Tick, TypeOK
  <2> QED
    BY <2>2, <2>3, <2>4 DEF Move, TypeOK
<1> QED
  BY <1>1, <1>2

(* The head, the tail and the slots of the queue keep their types: indices *)
(* never leave the array (queue.c, _queue_trunc).                          *)
THEOREM TypeCorrect == Spec => []TypeOK
<1>1. Init => TypeOK
  <2>1. 0 \in Slots
    BY CapacityAssumption DEF Slots
  <2> QED
    BY <2>1, PayloadAssumption DEF Init, TypeOK
<1>2. TypeOK /\ [Next]_vars => TypeOK'
  BY Typing
<1> QED
  BY <1>1, <1>2, PTL DEF Spec

-----------------------------------------------------------------------------
(* The entries of an open queue as a sequence.                             *)
LEMMA ItemsSeq ==
  ASSUME TypeOK, ~clear
  PROVE  /\ Items \in Seq(Payload)
         /\ Len(Items) = Length
         /\ \A i \in 1 .. Length : Items[i] = data[Nth(i - 1)]
<1>1. Length \in 0 .. Capacity - 1
  BY FullEmpty DEF TypeOK
<1>2. Length \in Nat
  BY <1>1, CapacityAssumption
<1>3. ASSUME NEW i \in 1 .. Length
      PROVE  data[Nth(i - 1)] \in Payload
  <2>1. i - 1 \in 0 .. Capacity
    BY <1>1, CapacityAssumption
  <2>2. Nth(i - 1) \in Slots
    BY <2>1, Wrap DEF TypeOK, Nth
  <2> QED
    BY <2>2 DEF TypeOK
<1>4. Items = [i \in 1 .. Length |-> data[Nth(i - 1)]]
  BY DEF Items
<1> QED
  BY <1>2, <1>3, <1>4

(* What is left after a pop, and where it lies once head has moved.        *)
Kept(pop) == IF pop /\ ~Empty THEN Length - 1 ELSE Length

(* The popped sequence, element by element.                                *)
LEMMA PoppedSeq ==
  ASSUME TypeOK, ~clear, NEW pop \in BOOLEAN,
         head' = IF pop /\ ~Empty THEN Trunc(head + 1) ELSE head
  PROVE  /\ Abstract!Popped(pop) \in Seq(Payload)
         /\ Len(Abstract!Popped(pop)) = Kept(pop)
         /\ \A i \in 1 .. Kept(pop) :
              Abstract!Popped(pop)[i] = data[Trunc(i - 1 + head')]
<1>1. /\ Items \in Seq(Payload)
      /\ Len(Items) = Length
      /\ \A i \in 1 .. Length : Items[i] = data[Nth(i - 1)]
  BY ItemsSeq
<1>2. /\ Length \in 0 .. Capacity - 1
      /\ Empty <=> Length = 0
  BY FullEmpty DEF TypeOK
<1>3. Items = <<>> <=> Empty
  BY <1>1, <1>2
<1>4. CASE pop /\ ~Empty
  <2>1. Abstract!Popped(pop) = Tail(Items) /\ Kept(pop) = Length - 1
    BY <1>3, <1>4 DEF Abstract!Popped, Kept
  <2>2. /\ Tail(Items) \in Seq(Payload)
        /\ Len(Tail(Items)) = Length - 1
        /\ \A i \in 1 .. Length - 1 : Tail(Items)[i] = Items[i + 1]
    BY <1>1, <1>2, <1>3, <1>4
  <2>3. ASSUME NEW i \in 1 .. Length - 1
        PROVE  Items[i + 1] = data[Trunc(i - 1 + head')]
    <3>1. i \in 0 .. Capacity /\ i - 1 \in 0 .. Capacity
      BY <1>2, CapacityAssumption
    <3>2. head \in Slots /\ head' = Trunc(head + 1) /\ head' \in Slots
      BY <1>4, NextSlot DEF TypeOK
    <3>3. Trunc(i + head) = IF i + head < Capacity THEN i + head ELSE i + head - Capacity
      BY <3>1, <3>2, Wrap
    <3>4. Trunc(i - 1 + head') =
            IF i - 1 + head' < Capacity THEN i - 1 + head' ELSE i - 1 + head' - Capacity
      BY <3>1, <3>2, Wrap
    <3>5. head' = IF head = Capacity - 1 THEN 0 ELSE head + 1
      BY <3>2, NextSlot
    <3>6. Trunc(i - 1 + head') = Trunc(i + head)
      BY <1>2, <3>2, <3>3, <3>4, <3>5, CapacityAssumption DEF Slots
    <3>7. i + 1 \in 1 .. Length /\ i + 1 - 1 = i
      BY <1>2
    <3> QED
      BY <1>1, <3>6, <3>7 DEF Nth
  <2> QED
    BY <2>1, <2>2, <2>3
<1>5. CASE ~(pop /\ ~Empty)
  <2>1. Abstract!Popped(pop) = Items /\ Kept(pop) = Length /\ head' = head
    BY <1>3, <1>5 DEF Abstract!Popped, Kept
  <2> QED
    BY <1>1, <2>1 DEF Nth
<1> QED
  BY <1>4, <1>5

(* A sequence is the function of its elements.                             *)
LEMMA SeqAsFunction ==
  ASSUME NEW S, NEW s \in Seq(S), NEW n, Len(s) = n
  PROVE  s = [i \in 1 .. n |-> s[i]]
OBVIOUS

(* Entries at different distances from the head lie in different slots.    *)
LEMMA SlotsDistinct ==
  ASSUME NEW s \in Slots, NEW n \in 0 .. Capacity - 1, NEW k \in 0 .. Capacity - 1, n # k
  PROVE  Trunc(n + s) # Trunc(k + s)
<1>1. n \in 0 .. Capacity /\ k \in 0 .. Capacity
  BY CapacityAssumption
<1>2. Trunc(n + s) = IF n + s < Capacity THEN n + s ELSE n + s - Capacity
  BY <1>1, Wrap
<1>3. Trunc(k + s) = IF k + s < Capacity THEN k + s ELSE k + s - Capacity
  BY <1>1, Wrap
<1> QED
  BY <1>2, <1>3, CapacityAssumption DEF Slots

(* A tick on an open queue that is not being cleared: the pop takes the    *)
(* first entry, the push adds one behind the last.                         *)
LEMMA OpenTick ==
  ASSUME TypeOK, TypeOK', ~clear, NEW pushed \in {{}} \cup {{p} : p \in Payload},
         NEW pop \in BOOLEAN, Tick(pushed, pop, FALSE)
  PROVE  \/ Items' = Abstract!Popped(pop)
         \/ /\ Abstract!Room
            /\ \E p \in Payload : Items' = Append(Abstract!Popped(pop), p)
<1> DEFINE q == Abstract!Popped(pop)
           kept == Kept(pop)
<1>1. /\ ~clear'
      /\ head' = IF pop /\ ~Empty THEN Trunc(head + 1) ELSE head
      /\ tail' = IF pushed # {} /\ ~Full THEN Trunc(tail + 1) ELSE tail
  BY DEF Tick, Move
<1>2. /\ head \in Slots /\ tail \in Slots
      /\ head' \in Slots /\ tail' \in Slots
  BY DEF TypeOK
<1>3. /\ Length = IF tail < head THEN tail + Capacity - head ELSE tail - head
      /\ Length' = IF tail' < head' THEN tail' + Capacity - head' ELSE tail' - head'
  BY <1>2, Distance DEF Length
<1>4. /\ Length \in 0 .. Capacity - 1
      /\ Full <=> Length = Capacity - 1
      /\ Empty <=> Length = 0
  BY <1>2, FullEmpty
<1>5. /\ Trunc(head + 1) = IF head = Capacity - 1 THEN 0 ELSE head + 1
      /\ Trunc(tail + 1) = IF tail = Capacity - 1 THEN 0 ELSE tail + 1
  BY <1>2, NextSlot
<1>6. kept \in 0 .. Capacity - 1
  BY <1>4, CapacityAssumption DEF Kept
<1>7. /\ q \in Seq(Payload)
      /\ Len(q) = kept
      /\ \A i \in 1 .. kept : q[i] = data[Trunc(i - 1 + head')]
  BY <1>1, PoppedSeq
<1>8. Items' = [i \in 1 .. Length' |-> data'[Trunc(i - 1 + head')]]
  BY <1>1 DEF Items, Nth
<1>9. CASE pushed = {} \/ Full
  <2>1. tail' = tail /\ data' = data
    BY <1>1, <1>9 DEF Tick
  <2>2. Length' = kept
    BY <1>1, <1>2, <1>3, <1>4, <1>5, <2>1, CapacityAssumption DEF Slots, Kept
  <2>3. Items' = q
    <3> HIDE DEF q, kept
    <3> QED
      BY <1>6, <1>7, <1>8, <2>1, <2>2
  <2> QED
    BY <2>3
<1>10. CASE pushed # {} /\ ~Full
  <2>1. PICK p \in Payload : data' = [data EXCEPT ![tail] = p]
    BY <1>10 DEF Tick
  <2>2. Length' = kept + 1
    BY <1>1, <1>2, <1>3, <1>4, <1>5, <1>10, CapacityAssumption DEF Slots, Kept
  <2>3. Trunc(kept + head') = tail
    <3>1. kept \in 0 .. Capacity
      BY <1>6, CapacityAssumption
    <3>2. Trunc(kept + head') = IF kept + head' < Capacity THEN kept + head'
                                ELSE kept + head' - Capacity
      BY <1>2, <3>1, Wrap
    <3> QED
      BY <1>1, <1>2, <1>3, <1>4, <1>5, <3>2, CapacityAssumption DEF Slots, Kept
  <2>4. ASSUME NEW i \in 1 .. kept
        PROVE  data'[Trunc(i - 1 + head')] = q[i]
    <3>1. i - 1 \in 0 .. Capacity - 1 /\ i - 1 \in 0 .. Capacity /\ i - 1 # kept
      BY <1>6, CapacityAssumption
    <3>2. Trunc(i - 1 + head') # Trunc(kept + head')
      BY <1>2, <1>6, <3>1, SlotsDistinct
    <3>3. Trunc(i - 1 + head') \in Slots
      BY <1>2, <3>1, Wrap
    <3> QED
      BY <1>7, <2>1, <2>3, <3>2, <3>3 DEF TypeOK
  <2>5. data'[Trunc(kept + head')] = p
    BY <1>2, <2>1, <2>3 DEF TypeOK
  <2>6. Items' = Append(q, p)
    <3>1. /\ Append(q, p) \in Seq(Payload)
          /\ Len(Append(q, p)) = kept + 1
          /\ \A i \in 1 .. kept : Append(q, p)[i] = q[i]
          /\ Append(q, p)[kept + 1] = p
      BY <1>7, AppendProperties
    <3>2. Append(q, p) = [i \in 1 .. kept + 1 |-> Append(q, p)[i]]
      <4> HIDE DEF q, kept
      <4> QED
        BY <3>1, SeqAsFunction, Zenon
    <3>3. ASSUME NEW i \in 1 .. kept + 1
          PROVE  Append(q, p)[i] = data'[Trunc(i - 1 + head')]
      <4>1. CASE i = kept + 1
        <5> HIDE DEF q, kept
        <5>1. Append(q, p)[i] = p
          BY <3>1, <4>1, Zenon
        <5>2. i - 1 = kept
          BY <1>6, <4>1
        <5> QED
          BY <2>5, <5>1, <5>2, Zenon
      <4>2. CASE i # kept + 1
        <5>1. i \in 1 .. kept
          BY <1>6, <4>2
        <5> QED
          BY <2>4, <3>1, <5>1, Zenon
      <4> QED
        BY <4>1, <4>2
    <3> QED
      BY <1>8, <2>2, <3>2, <3>3
  <2>7. Abstract!Room
    BY <1>4, <1>10, ItemsSeq, CapacityAssumption DEF Abstract!Room
  <2> QED
    BY <2>6, <2>7
<1> QED
  BY <1>9, <1>10

(* The circular queue implements the first-in first-out queue: head and    *)
(* tail wrapping around the slots never lose, duplicate or reorder an      *)
(* entry (queue.c, every operation).                                       *)
THEOREM Refinement == Spec => ImplementsFifo
<1>1. Init => Abstract!Init
  <2> SUFFICES ASSUME Init PROVE Abstract!Init
    OBVIOUS
  <2>1. Length = 0
    BY Distance, CapacityAssumption DEF Init, Length, Slots
  <2> QED
    BY <2>1 DEF Init, Items, Abstract!Init
<1>2. TypeOK /\ TypeOK' /\ [Next]_vars => [Abstract!Next]_(Abstract!fvars)
  <2> SUFFICES ASSUME TypeOK, TypeOK', [Next]_vars
               PROVE  [Abstract!Next]_(Abstract!fvars)
    OBVIOUS
  <2>1. CASE UNCHANGED vars
    BY <2>1 DEF vars, Abstract!fvars, Items, Length, Nth
  <2>2. CASE Next
    <3>1. PICK pushed \in {{}} \cup {{p} : p \in Payload}, pop \in BOOLEAN, clr \in BOOLEAN :
            Tick(pushed, pop, clr)
      BY <2>2 DEF Next
    <3>2. clear' = clr
      BY <3>1 DEF Tick, Move
    <3>3. CASE clear
      <4>1. ~clr /\ head' = 0 /\ tail' = 0
        BY <3>1, <3>3 DEF Tick, Move, DoubleWrite
      <4>2. Length' = 0
        <5>1. head' \in Slots /\ tail' \in Slots
          BY DEF TypeOK
        <5> QED
          BY <4>1, <5>1, Distance DEF Length
      <4>3. Items = <<>> /\ Items' = <<>>
        BY <3>2, <3>3, <4>1, <4>2 DEF Items
      <4> QED
        BY <3>2, <3>3, <4>1, <4>3 DEF Abstract!Next, Abstract!Reopen
    <3>4. CASE ~clear /\ clr
      <4>1. Items' = <<>>
        BY <3>2, <3>4 DEF Items
      <4> QED
        BY <3>2, <3>4, <4>1 DEF Abstract!Next, Abstract!Clear
    <3>5. CASE ~clear /\ ~clr
      <4>1. Tick(pushed, pop, FALSE)
        BY <3>1, <3>5
      <4>2. Abstract!Step(pop)
        BY <3>2, <3>5, <4>1, OpenTick DEF Abstract!Step
      <4> QED
        BY <4>2 DEF Abstract!Next
    <3> QED
      BY <3>3, <3>4, <3>5
  <2> QED
    BY <2>1, <2>2
<1> QED
  BY <1>1, <1>2, TypeCorrect, PTL DEF Spec, ImplementsFifo, Abstract!Spec

=============================================================================
