----------------------------- MODULE CpuProofs -----------------------------
(***************************************************************************)
(* The processor keeps its types, its renaming table always names the      *)
(* youngest writer of a register, memory accesses always find a slot, and  *)
(* what a station waits for is an older entry of the reorder buffer with   *)
(* exactly one producer: for machines of any size and any programs.        *)
(***************************************************************************)
EXTENDS CpuProperties, FiniteSetTheorems, WellFoundedInduction, TLAPS

-----------------------------------------------------------------------------
(* A ring of RobCapacity or LsCapacity slots: what queue.c does with "%",  *)
(* and what the reorder buffer's order of age rests on.                    *)

(* How many slots lie from slot h up to slot s.                            *)
Distance(C, h, s) == (s + C - h) % C

(* The slot that follows slot s.                                           *)
After(C, s) == IF s = C - 1 THEN 0 ELSE s + 1

(* The remainder of a number below twice the divisor.                      *)
LEMMA SmallMod ==
  ASSUME NEW C \in Nat \ {0}, NEW x \in 0 .. 2 * C - 1
  PROVE  x % C = IF x < C THEN x ELSE x - C
<1>1. CASE x < C
  BY <1>1, Z3
<1>2. CASE x >= C
  <2> DEFINE y == x - C
  <2>1. y \in 0 .. C - 1 /\ y + C = x
    BY <1>2
  <2>2. (y + C) % C = y
    <3> HIDE DEF y
    <3> QED
      BY <2>1, Z3
  <2> QED
    BY <1>2, <2>1, <2>2
<1> QED
  BY <1>1, <1>2

(* A slot number advanced by one.                                          *)
LEMMA Advance ==
  ASSUME NEW C \in Nat \ {0}, NEW s \in 0 .. C - 1
  PROVE  (s + 1) % C = After(C, s) /\ After(C, s) \in 0 .. C - 1
<1>1. s + 1 \in 0 .. 2 * C - 1
  OBVIOUS
<1> DEFINE x == s + 1
<1>2. x % C = IF x < C THEN x ELSE x - C
  <2> HIDE DEF x
  <2> QED
    BY <1>1, SmallMod DEF x
<1> QED
  BY <1>2 DEF After

(* The distance of two slots, without the remainder.                       *)
LEMMA DistanceIs ==
  ASSUME NEW C \in Nat \ {0}, NEW h \in 0 .. C - 1, NEW s \in 0 .. C - 1
  PROVE  /\ Distance(C, h, s) = IF s < h THEN s + C - h ELSE s - h
         /\ Distance(C, h, s) \in 0 .. C - 1
<1> DEFINE x == s + C - h
<1>1. x \in 0 .. 2 * C - 1
  OBVIOUS
<1>2. x % C = IF x < C THEN x ELSE x - C
  <2> HIDE DEF x
  <2> QED
    BY <1>1, SmallMod, Zenon
<1> QED
  BY <1>2 DEF Distance

(* No two slots are equally far.                                           *)
LEMMA DistanceInjective ==
  ASSUME NEW C \in Nat \ {0}, NEW h \in 0 .. C - 1, NEW s \in 0 .. C - 1, NEW t \in 0 .. C - 1,
         Distance(C, h, s) = Distance(C, h, t)
  PROVE  s = t
<1>1. Distance(C, h, s) = IF s < h THEN s + C - h ELSE s - h
  BY DistanceIs
<1>2. Distance(C, h, t) = IF t < h THEN t + C - h ELSE t - h
  BY DistanceIs
<1>3. (IF s < h THEN s + C - h ELSE s - h) = (IF t < h THEN t + C - h ELSE t - h)
  BY <1>1, <1>2
<1>4. CASE s < h
  BY <1>3, <1>4
<1>5. CASE ~(s < h)
  BY <1>3, <1>5
<1> QED
  BY <1>4, <1>5

(* The slot at a distance from h, and no other, is that far from it.       *)
LEMMA AtDistance ==
  ASSUME NEW C \in Nat \ {0}, NEW h \in 0 .. C - 1, NEW s \in 0 .. C - 1,
         NEW ix \in 0 .. C - 1
  PROVE  (ix + h) % C = s <=> Distance(C, h, s) = ix
<1> DEFINE x == ix + h
<1>1. x \in 0 .. 2 * C - 1
  OBVIOUS
<1>2. x % C = IF x < C THEN x ELSE x - C
  <2> HIDE DEF x
  <2> QED
    BY <1>1, SmallMod, Zenon
<1>3. Distance(C, h, s) = IF s < h THEN s + C - h ELSE s - h
  BY DistanceIs
<1> QED
  BY <1>2, <1>3

(* The slots between h and t are those nearer to h than t is.              *)
LEMMA Between ==
  ASSUME NEW C \in Nat \ {0}, NEW h \in 0 .. C - 1, NEW t \in 0 .. C - 1,
         NEW s \in 0 .. C - 1
  PROVE  s \in {(ix + h) % C : ix \in 0 .. Distance(C, h, t) - 1}
           <=> Distance(C, h, s) < Distance(C, h, t)
<1>1. /\ Distance(C, h, s) \in 0 .. C - 1 /\ Distance(C, h, t) \in 0 .. C - 1
      /\ \A ix \in 0 .. Distance(C, h, t) - 1 : ix \in 0 .. C - 1
  <2>1. Distance(C, h, s) \in 0 .. C - 1 /\ Distance(C, h, t) \in 0 .. C - 1
    BY DistanceIs
  <2> QED
    BY <2>1
<1>2. \A ix \in 0 .. C - 1 : (ix + h) % C = s <=> Distance(C, h, s) = ix
  BY AtDistance
<1>3. s \in {(ix + h) % C : ix \in 0 .. Distance(C, h, t) - 1}
        <=> \E ix \in 0 .. Distance(C, h, t) - 1 : (ix + h) % C = s
  OBVIOUS
<1>4. (\E ix \in 0 .. Distance(C, h, t) - 1 : (ix + h) % C = s)
        <=> \E ix \in 0 .. Distance(C, h, t) - 1 : Distance(C, h, s) = ix
  BY <1>1, <1>2
<1>5. (\E ix \in 0 .. Distance(C, h, t) - 1 : Distance(C, h, s) = ix)
        <=> Distance(C, h, s) < Distance(C, h, t)
  BY <1>1
<1> QED
  BY <1>3, <1>4, <1>5

(* What one step of head and tail does to the slots in use and to their    *)
(* distances from the head: pop takes the head away, push adds the tail.   *)
LEMMA RingMoves ==
  ASSUME NEW C \in Nat \ {0}, NEW h \in 0 .. C - 1, NEW t \in 0 .. C - 1,
         NEW h1, NEW t1, NEW pop \in BOOLEAN, NEW push \in BOOLEAN,
         pop => h # t, push => h # After(C, t),
         h1 = IF pop THEN After(C, h) ELSE h,
         t1 = IF push THEN After(C, t) ELSE t,
         NEW s \in 0 .. C - 1
  PROVE  /\ Distance(C, h1, s) < Distance(C, h1, t1)
              <=> \/ Distance(C, h, s) < Distance(C, h, t) /\ ~(pop /\ s = h)
                  \/ push /\ s = t
         /\ Distance(C, h1, s) < Distance(C, h1, t1) =>
              Distance(C, h1, s) = IF pop THEN Distance(C, h, s) - 1 ELSE Distance(C, h, s)
<1>1. h1 \in 0 .. C - 1 /\ t1 \in 0 .. C - 1
  BY DEF After
<1>2. /\ Distance(C, h, s) = IF s < h THEN s + C - h ELSE s - h
      /\ Distance(C, h, t) = IF t < h THEN t + C - h ELSE t - h
      /\ Distance(C, h1, s) = IF s < h1 THEN s + C - h1 ELSE s - h1
      /\ Distance(C, h1, t1) = IF t1 < h1 THEN t1 + C - h1 ELSE t1 - h1
  BY <1>1, DistanceIs
<1>3. CASE pop /\ push
  BY <1>1, <1>2, <1>3 DEF After
<1>4. CASE pop /\ ~push
  BY <1>1, <1>2, <1>4 DEF After
<1>5. CASE ~pop /\ push
  BY <1>1, <1>2, <1>5 DEF After
<1>6. CASE ~pop /\ ~push
  BY <1>1, <1>2, <1>6 DEF After
<1> QED
  BY <1>3, <1>4, <1>5, <1>6

-----------------------------------------------------------------------------
(* Words.                                                                  *)

(* There are at least two words.                                           *)
LEMMA WordSizeFact == /\ WordSize \in Nat \ {0, 1}
                      /\ ByteSize \in Nat \ {0}
<1>1. ByteSize \in Nat /\ ByteSize > 0 /\ WordSize = ByteSize * ByteSize
  BY Rv32iAssumption
<1>2. ByteSize * ByteSize \in Nat /\ ByteSize * ByteSize > 0
  BY <1>1
<1>3. WordSize # 1
  BY Rv32iAssumption
<1> QED
  BY <1>1, <1>2, <1>3

(* Sums wrap to words.                                                     *)
LEMMA AddType ==
  ASSUME NEW base \in Int, NEW dx \in Int
  PROVE  Add(base, dx) \in Word
BY WordSizeFact DEF Add, Word

(* Clearing the last bit leaves a word.                                    *)
LEMMA ClearBit0Type ==
  ASSUME NEW addr \in Word
  PROVE  ClearBit0(addr) \in Word
BY WordSizeFact DEF ClearBit0, Word

(* The results of the known operations are words.                          *)
LEMMA AluType ==
  ASSUME NEW op \in AluOps, NEW value1 \in Word, NEW value2 \in Word
  PROVE  AluExecute(op, value1, value2) \in Word
<1>1. 0 \in Word /\ 1 \in Word
  BY WordSizeFact DEF Word
<1>2. Add(value1, value2) \in Word
  BY AddType, WordSizeFact DEF Word
<1>3. CASE op = "ADD"
  BY <1>2, <1>3 DEF AluExecute
<1>4. CASE op = "BEQ"
  BY <1>1, <1>4 DEF AluExecute
<1>5. CASE op = "BNE"
  BY <1>1, <1>5 DEF AluExecute
<1> QED
  BY <1>3, <1>4, <1>5 DEF AluOps

(* A bank of registers keeps its type when values of it are written.       *)
LEMMA WrittenType ==
  ASSUME NEW D, NEW T, NEW f \in [D -> T], NEW writes,
         \A w \in writes : w[2] \in T
  PROVE  Written(f, writes) \in [D -> T]
BY DEF Written

(* A register holds one of the values written in the tick, or keeps its    *)
(* own.                                                                    *)
LEMMA WrittenAt ==
  ASSUME NEW f, NEW writes, NEW i \in DOMAIN f
  PROVE  \/ \E w \in writes : w[1] = i /\ Written(f, writes)[i] = w[2]
         \/ (~\E w \in writes : w[1] = i) /\ Written(f, writes)[i] = f[i]
<1>1. Written(f, writes)[i] =
        IF \E w \in writes : w[1] = i THEN (CHOOSE w \in writes : w[1] = i)[2] ELSE f[i]
  BY DEF Written
<1>2. CASE \E w \in writes : w[1] = i
  BY <1>1, <1>2
<1>3. CASE ~\E w \in writes : w[1] = i
  BY <1>1, <1>3
<1> QED
  BY <1>2, <1>3

(* A load reads a word.                                                    *)
LEMMA MemGetType ==
  ASSUME NEW m \in [Word -> Byte], NEW addr \in Word, NEW size \in Sizes
  PROVE  MemGetSz(m, addr, size) \in Word
<1>1. Add(addr, 1) \in Word
  <2>1. addr \in Int
    BY WordSizeFact DEF Word
  <2> QED
    BY <2>1, AddType
<1>2. ASSUME NEW lo \in Byte, NEW hi \in Byte
      PROVE  lo \in Word /\ lo + ByteSize * hi \in Word
  <2>1. /\ ByteSize \in Nat /\ ByteSize >= 1 /\ WordSize = ByteSize * ByteSize
        /\ lo \in Nat /\ lo <= ByteSize - 1 /\ hi \in Nat /\ hi <= ByteSize - 1
    BY Rv32iAssumption DEF Byte
  <2>2. ByteSize * hi \in Nat /\ ByteSize * hi <= ByteSize * (ByteSize - 1)
    BY <2>1
  <2>3. ByteSize * (ByteSize - 1) = ByteSize * ByteSize - ByteSize
    BY <2>1
  <2>4. ByteSize * ByteSize >= ByteSize
    BY <2>1
  <2> QED
    BY <2>1, <2>2, <2>3, <2>4 DEF Word
<1> QED
  BY <1>1, <1>2 DEF MemGetSz

(* A store writes bytes.                                                   *)
LEMMA MemSetType ==
  ASSUME NEW m \in [Word -> Byte], NEW addr \in Word, NEW value \in Word, NEW size \in Sizes
  PROVE  MemSetSz(m, addr, value, size) \in [Word -> Byte]
<1>1. value % ByteSize \in Byte
  BY WordSizeFact DEF Word, Byte
<1>2. value \div ByteSize \in Byte
  <2>1. ByteSize \in Nat /\ ByteSize > 0 /\ value \in Nat /\ value < ByteSize * ByteSize
    BY Rv32iAssumption, WordSizeFact DEF Word
  <2> QED
    BY <2>1 DEF Byte
<1> QED
  BY <1>1, <1>2 DEF MemSetSz

(* Slots and ids of the reorder buffer.                                    *)
LEMMA RobSlots ==
  /\ \A s \in ROB!Slots : ROB!Id(s) \in RF!RobIds /\ ROB!Slot(ROB!Id(s)) = s
  /\ \A id \in RF!RobIds : ROB!Slot(id) \in ROB!Slots /\ ROB!Id(ROB!Slot(id)) = id
  /\ RF!RobIds \subseteq 0 .. RobCapacity
  /\ 0 \in ROB!Slots
BY CpuAssumption DEF ROB!Slots, ROB!Id, ROB!Slot, RF!RobIds

(* The slot behind one is a slot.                                          *)
LEMMA NextSlot ==
  /\ \A s \in ROB!Slots : ROB!robs!Trunc(s + 1) = IF s = RobCapacity - 1 THEN 0 ELSE s + 1
  /\ \A s \in LSQ!queue!Slots : LSQ!queue!Trunc(s + 1) = IF s = LsCapacity - 1 THEN 0 ELSE s + 1
<1>1. RobCapacity \in Nat \ {0} /\ LsCapacity \in Nat \ {0}
  BY CpuAssumption
<1>2. /\ \A s \in 0 .. RobCapacity - 1 : (s + 1) % RobCapacity = After(RobCapacity, s)
      /\ \A s \in 0 .. LsCapacity - 1 : (s + 1) % LsCapacity = After(LsCapacity, s)
  BY <1>1, Advance
<1> QED
  BY <1>1, <1>2 DEF After, ROB!robs!Trunc, LSQ!queue!Trunc, ROB!Slots, LSQ!queue!Slots

-----------------------------------------------------------------------------
(* The sets and operators of Rv32i are the same in every component.        *)
LEMMA Shared ==
  /\ \A ids : MEM!Message(ids) = Message(ids)
  /\ \A m, addr, size : MEM!MemGetSz(m, addr, size) = MemGetSz(m, addr, size)
  /\ \A m, addr, value, size : MEM!MemSetSz(m, addr, value, size) = MemSetSz(m, addr, value, size)
  /\ \A op, v1, v2 : ALU!AluExecute(op, v1, v2) = AluExecute(op, v1, v2)
  /\ \A b, d : RS!Add(b, d) = Add(b, d) /\ IU!Add(b, d) = Add(b, d)
  /\ \A a : ROB!ClearBit0(a) = ClearBit0(a) /\ IU!ClearBit0(a) = ClearBit0(a)
  /\ \A f, w : /\ RF!Written(f, w) = Written(f, w)
              /\ ROB!Written(f, w) = Written(f, w)
              /\ RS!Written(f, w) = Written(f, w)
BY Zenon DEF Message, MEM!Message, Word, MEM!Word, MemGetSz, MEM!MemGetSz, MemSetSz, MEM!MemSetSz,
   Add, MEM!Add, RS!Add, IU!Add, ALU!Add, AluExecute, ALU!AluExecute,
   ClearBit0, ROB!ClearBit0, IU!ClearBit0, Written, RF!Written, ROB!Written, RS!Written

(* What an ALU computes is a message.                                      *)
LEMMA OutputType ==
  ASSUME AluTypes, ~UnknownOperation, NEW a \in ALU!Alus,
         aluBusy[a], ~result[a].busy, ~CDB!ShouldClear
  PROVE  ALU!Output(a) \in BusMessage
<1>1. task[a].op \in AluOps
  BY DEF UnknownOperation, ALU!Aborts, AluOps, ALU!AluOps
<1>2. task[a].value1 \in Word /\ task[a].value2 \in Word /\ task[a].rob \in 0 .. RobCapacity
  BY DEF AluTypes, ALU!AluTask, ALU!Word, Word
<1>3. AluExecute(task[a].op, task[a].value1, task[a].value2) \in Word
  BY <1>1, <1>2, AluType
<1> QED
  BY <1>2, <1>3, Shared DEF ALU!Output, BusMessage, Message

(* What the bus delivers, and the messages given to its helpers.           *)
LEMMA BusTypes ==
  ASSUME TypeOK, ~UnknownOperation
  PROVE  /\ CDB!Heard \subseteq BusMessage
         /\ CDB!GetData \subseteq BusMessage
         /\ \A h \in 1 .. HelperCount : Sent[h] \subseteq BusMessage
<1>1. CDB!GetData \subseteq BusMessage
  BY DEF TypeOK, CdbTypes, CDB!GetData
<1>2. CDB!Heard \subseteq BusMessage
  BY <1>1 DEF CDB!Heard
<1>3. MEM!Sends(MemStall) \subseteq BusMessage
  <2>1. ASSUME NEW i \in MEM!Sender
        PROVE  [rob |-> loads[i].rob,
                result |-> MemGetSz(mem, loads[i].addr, loads[i].size)] \in BusMessage
    <3>1. i \in MEM!MemSlots
      BY <2>1 DEF MEM!Sender
    <3>2. /\ mem \in [Word -> Byte]
          /\ loads[i].rob \in 0 .. RobCapacity
          /\ loads[i].addr \in Word /\ loads[i].size \in Sizes
      BY <3>1 DEF TypeOK, MemTypes, MEM!MemBytes, MEM!Word, MEM!Byte, Word, Byte
    <3>3. MemGetSz(mem, loads[i].addr, loads[i].size) \in Word
      BY <3>2, MemGetType
    <3> QED
      BY <3>2, <3>3 DEF BusMessage, Message
  <2> QED
    BY <2>1, Shared DEF MEM!Sends
<1>4. ASSUME NEW a \in ALU!Alus
      PROVE  ALU!Sends(a, AluStall, CDB!ShouldClear) \subseteq BusMessage
  <2>1. task[a] \in ALU!AluTask /\ result[a].msg \in BusMessage
    BY DEF TypeOK, AluTypes
  <2>2. aluBusy[a] /\ ~result[a].busy /\ ~CDB!ShouldClear => ALU!Output(a) \in BusMessage
    BY OutputType DEF TypeOK
  <2> QED
    BY <2>1, <2>2 DEF ALU!Sends
<1>5. ASSUME NEW h \in 1 .. HelperCount, h # MemHelper
      PROVE  h - 1 \in ALU!Alus
  BY <1>5, CpuAssumption DEF HelperCount, MemHelper, ALU!Alus
<1> QED
  BY <1>1, <1>2, <1>3, <1>4, <1>5 DEF Sent

-----------------------------------------------------------------------------
(* Every tick keeps the types, component by component.                     *)

(* The fetched instruction, and what dispatch derives from it.             *)
LEMMA InstType == ASSUME IuTypes PROVE IU!inst \in Instruction
<1>1. CASE pc \in DOMAIN prog
  BY <1>1 DEF IuTypes, IU!inst, IU!Fetch
<1>2. CASE pc \notin DOMAIN prog
  <2>1. IU!inst = [op |-> "UNIMP", alu |-> "ADD", size |-> "BYTE", rd |-> 0, rs1 |-> 0,
                   rs2 |-> 0, imm |-> 0]
    BY <1>2 DEF IU!inst, IU!Fetch, IU!Unimp, IU!Instr
  <2>2. 0 \in Reg /\ 0 \in Word
    BY WordSizeFact, Rv32iAssumption DEF Reg, Word
  <2> QED
    BY <2>1, <2>2 DEF Instruction, Ops, AluCodes, AluOps, Sizes
<1> QED
  BY <1>1, <1>2

(* The pcs that dispatch computes.                                         *)
LEMMA PcTypes ==
  ASSUME IuTypes, RfTypes, RobTypes
  PROVE  /\ IU!NextPc \in Word /\ IU!JumpTarget \in Word /\ IU!JalrPrediction \in Word
         /\ \A take \in {0, 1} : IU!Predicted(take) \in Word
<1>1. /\ IU!inst.imm \in Word /\ IU!inst.rs1 \in Reg
      /\ pc \in Int /\ IU!inst.imm \in Int /\ InstSize \in Int
  BY InstType, WordSizeFact, Rv32iAssumption DEF Instruction, IuTypes, Word
<1>2. IU!NextPc \in Word /\ IU!JumpTarget \in Word
  BY <1>1, AddType, Shared DEF IU!NextPc, IU!JumpTarget
<1>3. IU!JalrPrediction \in Word
  <2> DEFINE id == IU!RF!RobId(IU!inst.rs1)
             curr == IF id > 0 /\ ready[IU!ROB!Slot(id)] THEN robPayload[IU!ROB!Slot(id)].value
                     ELSE IU!RF!Get(IU!inst.rs1)
  <2>1. id \in 0 .. RobCapacity
    BY <1>1, CpuAssumption DEF RfTypes, IU!RF!RobId, IU!RF!NoRob
  <2>2. curr \in Word
    <3>1. CASE id > 0
      <4>1. IU!ROB!Slot(id) \in ROB!Slots
        BY <2>1, <3>1, CpuAssumption DEF IU!ROB!Slot, ROB!Slots
      <4>2. robPayload[IU!ROB!Slot(id)].value \in Word
        BY <4>1 DEF RobTypes, ROB!RobPayload, ROB!Word, Word
      <4>3. IU!RF!Get(IU!inst.rs1) \in Word
        BY <1>1, WordSizeFact DEF RfTypes, IU!RF!Get, Word
      <4> QED
        BY <4>2, <4>3
    <3>2. CASE ~(id > 0)
      BY <1>1, <3>2, WordSizeFact DEF RfTypes, IU!RF!Get, Word
    <3> QED
      BY <3>1, <3>2
  <2>3. curr \in Int
    BY <2>2, WordSizeFact DEF Word
  <2>4. Add(curr, IU!inst.imm) \in Word
    BY <1>1, <2>3, AddType
  <2>5. IU!JalrPrediction = ClearBit0(Add(curr, IU!inst.imm))
    BY Shared DEF IU!JalrPrediction
  <2> QED
    BY <2>4, <2>5, ClearBit0Type
<1>4. ASSUME NEW take \in {0, 1}
      PROVE  IU!Predicted(take) \in Word
  <2>1. \/ IU!Predicted(take) = IU!JalrPrediction
        \/ IU!Predicted(take) = IU!JumpTarget
        \/ IU!Predicted(take) = IU!NextPc
    BY Zenon DEF IU!Predicted
  <2> QED
    BY <1>2, <1>3, <2>1
<1> QED
  BY <1>2, <1>3, <1>4

(* Where the program continues after a misprediction.                      *)
LEMMA ForcedType == ASSUME RobTypes PROVE Forced \subseteq Word
<1>1. ROB!First.fallback \in Word /\ ROB!First.addr \in Word
  BY DEF RobTypes, ROB!First, ROB!RobPayload, ROB!Word, Word
<1>2. ROB!ForcedPc \in Word
  BY <1>1, ClearBit0Type, Shared DEF ROB!ForcedPc
<1> QED
  BY <1>2 DEF Forced

(* The fetch pc and the forced pc are words.                               *)
LEMMA IuTyping ==
  ASSUME TypeOK, NEW take \in {0, 1}, Tick(take)
  PROVE  IuTypes'
<1>1. IuTypes /\ RfTypes /\ RobTypes
  BY DEF TypeOK
<1>2. IU!Tick(take, Forced) /\ UNCHANGED prog
  BY DEF Tick
<1>3. pc' \in Word
  BY <1>1, <1>2, PcTypes DEF IU!Tick, IuTypes
<1>4. forcePc' \in [busy : BOOLEAN, addr : Word]
  BY <1>1, <1>2, ForcedType DEF IU!Tick, IuTypes
<1> QED
  BY <1>1, <1>2, <1>3, <1>4 DEF IuTypes

(* What is on the bus and in the buffers of the helpers are messages.      *)
LEMMA CdbTyping ==
  ASSUME TypeOK, NEW take \in {0, 1}, Tick(take)
  PROVE  CdbTypes'
<1>1. \A h \in CDB!Helpers : Sent[h] \subseteq BusMessage
  BY BusTypes DEF Tick, CDB!Helpers
<1>2. CDB!Tick(Sent, ROB!Flushes)
  BY DEF Tick
<1>3. CdbTypes
  BY DEF TypeOK
<1>4. busClear' \in 0 .. 2
  BY <1>2, <1>3 DEF CdbTypes, CDB!Tick, CDB!Countdown
<1>5. req' \subseteq CDB!Helpers /\ fire' \in BOOLEAN
  BY <1>2, <1>3 DEF CdbTypes, CDB!Tick
<1>6. busData' \in BusMessage
  <2>1. CASE \E h \in CDB!Helpers : CDB!Wins(h) /\ bhBusy[h][current[h]]
    <3> DEFINE w == CHOOSE h \in CDB!Helpers : CDB!Wins(h)
    <3>1. w \in CDB!Helpers
      BY <2>1
    <3>2. busData' = buffer[w][current[w]]
      BY <1>2, <2>1 DEF CDB!Tick
    <3> QED
      BY <1>3, <3>1, <3>2 DEF CdbTypes
  <2>2. CASE ~\E h \in CDB!Helpers : CDB!Wins(h) /\ bhBusy[h][current[h]]
    BY <1>2, <1>3, <2>2 DEF CdbTypes, CDB!Tick
  <2> QED
    BY <2>1, <2>2
<1>7. buffer' \in [CDB!Helpers -> [CDB!Buffers -> BusMessage]]
  BY <1>1, <1>2, <1>3 DEF CdbTypes, CDB!Tick
<1>8. bhBusy' \in [CDB!Helpers -> [CDB!Buffers -> BOOLEAN]]
  BY <1>2, <1>3 DEF CdbTypes, CDB!Tick, CDB!Keep
<1>9. current' \in [CDB!Helpers -> CDB!Buffers]
  BY <1>2, <1>3 DEF CdbTypes, CDB!Tick, CDB!Buffers
<1> QED
  BY <1>4, <1>5, <1>6, <1>7, <1>8, <1>9 DEF CdbTypes

(* Tasks and results are well formed.                                      *)
LEMMA AluTyping ==
  ASSUME TypeOK, NEW take \in {0, 1}, Tick(take)
  PROVE  AluTypes'
<1>1. ALU!Tick(RS!Offered, AluStall, CDB!ShouldClear)
  BY DEF Tick
<1>2. AluTypes /\ RsTypes
  BY DEF TypeOK
<1>3. ASSUME NEW a \in ALU!Alus
      PROVE  RS!Offered[a] \subseteq ALU!AluTask
  <2>1. ASSUME NEW s \in RS!Offers(a)
        PROVE  RS!TaskOf(s) \in ALU!AluTask
    <3>1. s \in RS!Stations
      BY <2>1 DEF RS!Offers, RS!Able, RS!Stations
    <3>2. rsPayload[s] \in RS!RsPayload
      BY <1>2, <3>1 DEF RsTypes
    <3> QED
      BY <3>2 DEF RS!TaskOf, RS!RsPayload, ALU!AluTask, RS!AluCodes, ALU!AluCodes,
         RS!AluOps, ALU!AluOps, RS!Word, ALU!Word
  <2> QED
    BY <2>1 DEF RS!Offered, ALU!Alus
<1>4. task' \in [ALU!Alus -> ALU!AluTask]
  BY <1>1, <1>2, <1>3 DEF AluTypes, ALU!Tick
<1>5. aluBusy' \in [ALU!Alus -> BOOLEAN]
  BY <1>1, <1>2 DEF AluTypes, ALU!Tick
<1>6. ASSUME NEW a \in ALU!Alus, aluBusy[a], ~result[a].busy, ~CDB!ShouldClear
      PROVE  ALU!Output(a) \in BusMessage
  BY <1>2, <1>6, OutputType DEF Tick
<1>7. result' \in [ALU!Alus -> [busy : BOOLEAN, msg : BusMessage]]
  BY <1>1, <1>2, <1>6 DEF AluTypes, ALU!Tick
<1> QED
  BY <1>4, <1>5, <1>7 DEF AluTypes

(* The entry that dispatch hands out is the one at the tail.               *)
LEMMA TailId ==
  ASSUME RobTypes
  PROVE  /\ IU!Rob \in RF!RobIds
         /\ IU!Rob = robTail + 1 /\ IU!Rob = ROB!Id(robTail)
<1>1. robTail \in 0 .. RobCapacity - 1
  BY DEF RobTypes, ROB!Slots
<1> QED
  BY <1>1, CpuAssumption DEF IU!Rob, IU!ROB!Id, ROB!Id, RF!RobIds

(* The register store.                                                     *)
LEMMA RfTyping ==
  ASSUME TypeOK, NEW take \in {0, 1}, Tick(take)
  PROVE  RfTypes'
<1>1. RfTypes /\ RobTypes /\ IuTypes
  BY DEF TypeOK
<1>2. RF!Tick(ROB!RegWrites, IU!Renames, ROB!Retired(LsFull), ROB!Flushes)
  BY DEF Tick
<1>3. registers' \in [Reg -> Word]
  <2>1. ROB!First.value \in Word
    BY <1>1 DEF RobTypes, ROB!First, ROB!RobPayload, ROB!Word, Word
  <2>2. \A w \in {<<v.rd, v.value>> : v \in {x \in ROB!RegWrites : x.rd # 0}} : w[2] \in Word
    BY <2>1 DEF ROB!RegWrites
  <2>3. registers' = Written(registers, {<<v.rd, v.value>> : v \in {x \in ROB!RegWrites : x.rd # 0}})
    BY <1>2, Shared DEF RF!Tick
  <2> QED
    BY <1>1, <2>2, <2>3, WrittenType DEF RfTypes
<1>4. robIds' \in [Reg -> 0 .. RobCapacity]
  <2>1. IU!Rob \in 0 .. RobCapacity
    BY <1>1, TailId DEF RF!RobIds
  <2>2. ASSUME NEW r \in Reg
        PROVE  RF!Named(r, IU!Renames) \in 0 .. RobCapacity
    BY <1>1, <2>1 DEF RF!Named, IU!Renames, RfTypes
  <2>3. 0 \in 0 .. RobCapacity
    BY CpuAssumption
  <2> QED
    BY <1>2, <2>2, <2>3 DEF RF!Tick, RF!NoRob, RF!Reg, Reg
<1>5. rfClear' \in BOOLEAN
  BY <1>1, <1>2 DEF RF!Tick, ROB!Flushes, ROB!Commits, RobTypes
<1> QED
  BY <1>3, <1>4, <1>5 DEF RfTypes

(* An operand is a word or the id of its producer.                         *)
LEMMA OperandType ==
  ASSUME RfTypes, RobTypes, CDB!GetData \subseteq BusMessage, NEW r \in Reg
  PROVE  IU!Operand(r) \in [src : 0 .. RobCapacity, value : Word]
<1> DEFINE id == IU!RF!RobId(r)
           entry == IU!ROB!Slot(id)
           bypass == {m \in IU!CDB!GetData : m.rob = id}
<1>1. id \in 0 .. RobCapacity /\ IU!RF!Get(r) \in Word /\ 0 \in Word
  BY CpuAssumption, WordSizeFact DEF RfTypes, IU!RF!RobId, IU!RF!NoRob, IU!RF!Get, Word
<1>2. id # 0 => robPayload[entry].value \in Word
  <2>1. SUFFICES ASSUME id # 0 PROVE robPayload[entry].value \in Word
    OBVIOUS
  <2>2. entry \in ROB!Slots
    BY <1>1, <2>1, CpuAssumption DEF IU!ROB!Slot, ROB!Slots
  <2> QED
    BY <2>2 DEF RobTypes, ROB!RobPayload, ROB!Word, Word
<1>3. bypass # {} => (CHOOSE m \in bypass : TRUE).result \in Word
  BY DEF IU!CDB!GetData, CDB!GetData, BusMessage, Message
<1>4. IU!Operand(r) =
        IF id = 0 THEN IU!Known(IU!RF!Get(r))
        ELSE IF ready[entry] THEN IU!Known(robPayload[entry].value)
        ELSE IF bypass # {} THEN IU!Known((CHOOSE m \in bypass : TRUE).result)
        ELSE [src |-> id, value |-> 0]
  BY DEF IU!Operand
<1>5. 0 \in 0 .. RobCapacity
  BY CpuAssumption
<1> QED
  BY <1>1, <1>2, <1>3, <1>4, <1>5 DEF IU!Known

(* The reorder buffer entry of a dispatched instruction.                   *)
LEMMA NewEntryType ==
  ASSUME IuTypes, RfTypes, RobTypes, NEW take \in {0, 1}
  PROVE  /\ IU!NewEntry(take) \in ROB!RobPayload
         /\ IU!NewEntry(take).dest =
              IF IU!inst.op \in {"STORE", "BRANCH"} THEN ROB!NoDest ELSE IU!inst.rd
         /\ IU!NewEntry(take).op = "STORE" <=> IU!inst.op = "STORE"
<1> DEFINE base == [robPayload[robTail] EXCEPT
              !.op = IU!RobOp(IU!inst), !.addrReady = FALSE, !.valueReady = FALSE,
              !.size = IU!inst.size, !.pc = pc,
              !.dest = IF IU!inst.op \in {"STORE", "BRANCH"} THEN ROB!NoDest ELSE IU!inst.rd]
<1>1. IU!inst \in Instruction
  BY InstType
<1>2. robPayload[robTail] \in ROB!RobPayload
  BY DEF RobTypes
<1>3. IU!RobOp(IU!inst) \in {"REGISTER", "STORE", "BRANCH", "JALR", "HCF"}
  BY DEF IU!RobOp
<1>4. /\ base \in ROB!RobPayload /\ base.op = IU!RobOp(IU!inst)
      /\ base.dest = IF IU!inst.op \in {"STORE", "BRANCH"} THEN ROB!NoDest ELSE IU!inst.rd
  <2> DEFINE p == robPayload[robTail]
             op == IU!RobOp(IU!inst)
             size == IU!inst.size
             dest == IF IU!inst.op \in {"STORE", "BRANCH"} THEN ROB!NoDest ELSE IU!inst.rd
  <2>1. size \in ROB!Sizes /\ pc \in ROB!Word /\ dest \in ROB!Reg \cup {ROB!NoDest}
    BY <1>1 DEF Instruction, IuTypes, ROB!Word, Word, ROB!Reg, Reg, ROB!Sizes, Sizes
  <2>2. base = [p EXCEPT !.op = op, !.addrReady = FALSE, !.valueReady = FALSE,
                         !.size = size, !.pc = pc, !.dest = dest]
    BY Zenon
  <2> HIDE DEF p, op, size, dest, base
  <2>3. base \in ROB!RobPayload /\ base.op = op /\ base.dest = dest
    BY <1>2, <1>3, <2>1, <2>2 DEF ROB!RobPayload, p, op
  <2> QED
    BY <2>3 DEF op, dest
<1>5. IU!NextPc \in Word /\ IU!JumpTarget \in Word /\ IU!JalrPrediction \in Word
  BY PcTypes
<1>6. \/ IU!NewEntry(take) = [base EXCEPT !.predictedAddr = IU!JalrPrediction, !.value = IU!NextPc]
      \/ IU!NewEntry(take) = [base EXCEPT !.take = take,
                                !.fallback = IF take = 1 THEN IU!NextPc ELSE IU!JumpTarget]
      \/ IU!NewEntry(take) = base
  BY Zenon DEF IU!NewEntry, ROB!NoDest, IU!ROB!NoDest
<1>7. IU!RobOp(IU!inst) = "STORE" <=> IU!inst.op = "STORE"
  BY DEF IU!RobOp
<1> DEFINE e == IU!NewEntry(take)
           fallback == IF take = 1 THEN IU!NextPc ELSE IU!JumpTarget
           taken == take
<1>8. fallback \in Word /\ taken \in {0, 1}
  BY <1>5
<1>9. \/ e = [base EXCEPT !.predictedAddr = IU!JalrPrediction, !.value = IU!NextPc]
      \/ e = [base EXCEPT !.take = taken, !.fallback = fallback]
      \/ e = base
  BY <1>6, Zenon
<1> HIDE DEF base, e, fallback, taken
<1>10. e \in ROB!RobPayload /\ e.dest = base.dest /\ e.op = base.op
  <2>1. CASE e = [base EXCEPT !.predictedAddr = IU!JalrPrediction, !.value = IU!NextPc]
    BY <1>4, <1>5, <2>1 DEF ROB!RobPayload, ROB!Word, Word
  <2>2. CASE e = [base EXCEPT !.take = taken, !.fallback = fallback]
    BY <1>4, <1>8, <2>2 DEF ROB!RobPayload, ROB!Word, Word
  <2>3. CASE e = base
    BY <1>4, <2>3
  <2> QED
    BY <1>9, <2>1, <2>2, <2>3
<1> QED
  BY <1>4, <1>7, <1>10 DEF e

(* The task of a dispatched instruction.                                   *)
LEMMA NewTaskType ==
  ASSUME IuTypes, RfTypes, RobTypes, RsTypes, CDB!GetData \subseteq BusMessage,
         NEW s \in RS!Stations, IU!inst.op # "UNIMP"
  PROVE  /\ IU!NewTask(s) \in RS!RsPayload
         /\ IU!NewTask(s).dest = IU!Rob
<1> DEFINE i == IU!inst
           old == [rsPayload[s] EXCEPT !.dest = IU!Rob, !.alu = i.alu, !.size = i.size]
           with1 == [old EXCEPT !.src1 = IU!Operand(i.rs1).src, !.value1 = IU!Operand(i.rs1).value]
           with2 == [with1 EXCEPT !.src2 = IU!Operand(i.rs2).src, !.value2 = IU!Operand(i.rs2).value]
           Sum(p, value2) == [p EXCEPT !.alu = "ADD", !.src2 = 0, !.value2 = value2]
           Constant(value) == Sum([old EXCEPT !.src1 = 0, !.value1 = value], 0)
           Good(p) == p \in RS!RsPayload /\ p.dest = IU!Rob
<1>1. i \in Instruction
  BY InstType
<1>2. IU!Rob \in 0 .. RobCapacity /\ 0 \in 0 .. RobCapacity /\ 0 \in Word
  BY TailId, CpuAssumption, WordSizeFact DEF RF!RobIds, Word
<1>3. Good(old)
  <2> DEFINE p == rsPayload[s]
             id == IU!Rob
             alu == i.alu
             size == i.size
  <2>1. p \in RS!RsPayload
    BY DEF RsTypes
  <2>2. alu \in RS!AluCodes /\ size \in RS!Sizes
    BY <1>1 DEF Instruction, RS!AluCodes, RS!AluOps, AluCodes, AluOps, RS!Sizes, Sizes
  <2>3. old = [p EXCEPT !.dest = id, !.alu = alu, !.size = size] /\ id \in 0 .. RobCapacity
    BY <1>2
  <2> HIDE DEF p, id, alu, size, old
  <2>4. old \in RS!RsPayload /\ old.dest = id
    BY <2>1, <2>2, <2>3 DEF RS!RsPayload
  <2> QED
    BY <2>4 DEF id
<1>4. /\ IU!Operand(i.rs1) \in [src : 0 .. RobCapacity, value : Word]
      /\ IU!Operand(i.rs2) \in [src : 0 .. RobCapacity, value : Word]
  BY <1>1, OperandType DEF Instruction
<1>5. /\ i.imm \in Word /\ IU!NextPc \in Word /\ IU!JumpTarget \in Word
  BY <1>1, PcTypes DEF Instruction
<1> HIDE DEF old, i
<1>6. Good(with1)
  BY <1>3, <1>4 DEF RS!RsPayload, RS!Word, Word
<1> HIDE DEF with1
<1>7. Good(with2)
  BY <1>4, <1>6 DEF RS!RsPayload, RS!Word, Word
<1>8. ASSUME NEW p, Good(p), NEW value2 \in Word
      PROVE  Good(Sum(p, value2))
  BY <1>2, <1>8 DEF RS!RsPayload, RS!Word, Word, RS!AluCodes, RS!AluOps
<1>9. ASSUME NEW value \in Word
      PROVE  Good(Constant(value))
  <2>1. Good([old EXCEPT !.src1 = 0, !.value1 = value])
    BY <1>2, <1>3, <1>9 DEF RS!RsPayload, RS!Word, Word
  <2> QED
    BY <1>2, <1>8, <2>1
<1>10. ASSUME NEW addr \in Word
       PROVE  /\ Good([with1 EXCEPT !.addr = addr])
              /\ Good([with2 EXCEPT !.addr = addr])
              /\ Good([with1 EXCEPT !.src2 = 0, !.value2 = addr])
  BY <1>2, <1>6, <1>7, <1>10 DEF RS!RsPayload, RS!Word, Word
<1>11. i.op \in Ops \ {"UNIMP"}
  BY <1>1 DEF Instruction, i
<1>12. IU!NewTask(s) =
         CASE i.op = "LOAD" -> [with1 EXCEPT !.addr = i.imm]
           [] i.op = "STORE" -> [with2 EXCEPT !.addr = i.imm]
           [] i.op \in {"OP", "BRANCH"} -> with2
           [] i.op = "IMM" -> [with1 EXCEPT !.src2 = 0, !.value2 = i.imm]
           [] i.op \in {"JALR", "HCF"} -> Sum(with1, i.imm)
           [] i.op = "LUI" -> Constant(i.imm)
           [] i.op = "AUIPC" -> Constant(IU!JumpTarget)
           [] i.op = "JAL" -> Constant(IU!NextPc)
  BY Zenon DEF IU!NewTask, old, with1, i
<1> HIDE DEF with2, Sum, Constant, Good
<1>13. Good(IU!NewTask(s))
  <2>1. CASE i.op = "LOAD"
    BY <1>5, <1>10, <1>12, <2>1
  <2>2. CASE i.op = "STORE"
    BY <1>5, <1>10, <1>12, <2>2
  <2>3. CASE i.op \in {"OP", "BRANCH"}
    BY <1>7, <1>12, <2>3
  <2>4. CASE i.op = "IMM"
    BY <1>5, <1>10, <1>12, <2>4
  <2>5. CASE i.op \in {"JALR", "HCF"}
    BY <1>5, <1>6, <1>8, <1>12, <2>5
  <2>6. CASE i.op = "LUI"
    BY <1>5, <1>9, <1>12, <2>6
  <2>7. CASE i.op = "AUIPC"
    BY <1>5, <1>9, <1>12, <2>7
  <2>8. CASE i.op = "JAL"
    BY <1>5, <1>9, <1>12, <2>8
  <2> QED
    BY <1>11, <2>1, <2>2, <2>3, <2>4, <2>5, <2>6, <2>7, <2>8 DEF Ops
<1> QED
  BY <1>13 DEF Good

(* Slots between head and tail are slots.                                  *)
LEMMA LiveSlots == ASSUME RobTypes PROVE ROB!Live \subseteq ROB!Slots
<1>1. ASSUME NEW ix \in 0 .. ROB!robs!Length - 1
      PROVE  ROB!robs!Nth(ix) \in ROB!Slots
  <2>1. RobCapacity \in Nat \ {0} /\ robHead \in Nat /\ robTail \in Nat
    BY CpuAssumption DEF RobTypes, ROB!Slots
  <2>2. ix + robHead \in Nat
    BY <2>1, CpuAssumption
  <2> QED
    BY <2>1, <2>2 DEF ROB!robs!Nth, ROB!robs!Trunc, ROB!Slots
<1> QED
  BY <1>1 DEF ROB!Live, ROB!robs!Live

(* Messages arrive at live entries only.                                   *)
LEMMA HitLive ==
  ASSUME NEW heard
  PROVE  ROB!Hit(heard) \subseteq ROB!Live
BY DEF ROB!Hit

(* The payloads of the entries a tick writes: those that hear a result or  *)
(* learn an address or a value keep what dispatch put into the rest.       *)
LEMMA PayloadWrites ==
  ASSUME TypeOK, NEW take \in {0, 1}, ~UnknownOperation
  PROVE  /\ \A s \in ROB!Slots, m \in CDB!Heard :
              /\ ROB!WithResult(robPayload[s], m.result) \in ROB!RobPayload
              /\ ROB!WithResult(robPayload[s], m.result).dest = robPayload[s].dest
              /\ ROB!WithResult(robPayload[s], m.result).op = robPayload[s].op
         /\ \A u \in RS!StoreUpdates(LsFull) :
              /\ ROB!Slot(u.id) \in ROB!Slots
              /\ u.payload \in ROB!RobPayload
              /\ u.payload.dest = robPayload[ROB!Slot(u.id)].dest
              /\ u.payload.op = robPayload[ROB!Slot(u.id)].op
<1>1. RobTypes /\ RsTypes
  BY DEF TypeOK
<1>2. ASSUME NEW s \in ROB!Slots, NEW m \in CDB!Heard
      PROVE  /\ ROB!WithResult(robPayload[s], m.result) \in ROB!RobPayload
             /\ ROB!WithResult(robPayload[s], m.result).dest = robPayload[s].dest
             /\ ROB!WithResult(robPayload[s], m.result).op = robPayload[s].op
  <2>1. m.result \in Word
    BY BusTypes DEF BusMessage, Message
  <2>2. robPayload[s] \in ROB!RobPayload
    BY <1>1 DEF RobTypes
  <2> QED
    BY <2>1, <2>2 DEF ROB!WithResult, ROB!RobPayload, ROB!Word, Word
<1>3. ASSUME NEW s \in RS!StoreUpdate(LsFull)
      PROVE  /\ ROB!Slot(rsPayload[s].dest) \in ROB!Slots
             /\ RS!Update(s) \in ROB!RobPayload
             /\ RS!Update(s).dest = robPayload[ROB!Slot(rsPayload[s].dest)].dest
             /\ RS!Update(s).op = robPayload[ROB!Slot(rsPayload[s].dest)].op
  <2> DEFINE e == RS!Entry(s)
             p == rsPayload[s]
  <2>1. s \in RS!Stations /\ rsBusy[s]
    BY DEF RS!StoreUpdate, RS!FirstOf, RS!Stations
  <2>2. p \in RS!RsPayload /\ p.dest \in RF!RobIds
    BY <1>1, <2>1 DEF RsTypes
  <2>3. ROB!Slot(p.dest) \in ROB!Slots /\ e = robPayload[ROB!Slot(p.dest)]
    BY <2>2, RobSlots DEF RS!Entry, RS!ROB!Slot, ROB!Slot
  <2>4. e \in ROB!RobPayload
    BY <1>1, <2>3 DEF RobTypes
  <2>5. RS!CalcAddr(p) \in Word /\ p.value2 \in Word
    <3>1. p.addr \in Word /\ p.value1 \in Word /\ p.value2 \in Word
      BY <2>2 DEF RS!RsPayload, RS!Word, Word
    <3>2. p.addr \in Int /\ p.value1 \in Int
      BY <3>1, WordSizeFact DEF Word
    <3> QED
      BY <3>1, <3>2, AddType, Shared DEF RS!CalcAddr
  <2>6. RS!LearnsAddr(s) \in BOOLEAN /\ RS!LearnsValue(s) \in BOOLEAN
    BY DEF RS!LearnsAddr, RS!LearnsValue
  <2>7. RS!Update(s) = [e EXCEPT !.addr = IF RS!LearnsAddr(s) THEN RS!CalcAddr(p) ELSE @,
                                 !.addrReady = @ \/ RS!LearnsAddr(s),
                                 !.value = IF RS!LearnsValue(s) THEN p.value2 ELSE @,
                                 !.valueReady = @ \/ RS!LearnsValue(s)]
    BY DEF RS!Update
  <2> HIDE DEF e, p
  <2>8. RS!Update(s) \in ROB!RobPayload /\ RS!Update(s).dest = e.dest /\ RS!Update(s).op = e.op
    BY <2>4, <2>5, <2>6, <2>7 DEF ROB!RobPayload, ROB!Word, Word
  <2> QED
    BY <2>3, <2>8 DEF e, p
<1> QED
  BY <1>2, <1>3 DEF RS!StoreUpdates

(* The reorder buffer.                                                     *)
LEMMA RobTyping ==
  ASSUME TypeOK, NEW take \in {0, 1}, Tick(take)
  PROVE  RobTypes'
<1>1. RfTypes /\ RobTypes /\ IuTypes
  BY DEF TypeOK
<1>2. ROB!Tick(CDB!Heard, IU!Entries(take), RS!StoreUpdates(LsFull), LsFull) /\ ~UnknownOperation
  BY DEF Tick
<1>3. /\ robHead' \in ROB!Slots /\ robTail' \in ROB!Slots
      /\ robClear' \in BOOLEAN
  <2>1. /\ ROB!robs!Trunc(robHead + 1) \in ROB!Slots
        /\ ROB!robs!Trunc(robTail + 1) \in ROB!Slots
    BY <1>1, NextSlot, CpuAssumption DEF RobTypes, ROB!Slots
  <2>2. ROB!Flushes \in BOOLEAN
    BY <1>1 DEF ROB!Flushes, ROB!Commits, RobTypes
  <2> QED
    BY <1>1, <1>2, <2>1, <2>2, RobSlots DEF ROB!Tick, ROB!robs!Move, RobTypes
<1>4. ready' \in [ROB!Slots -> BOOLEAN]
  <2> DEFINE writes ==
         {<<s, TRUE>> : s \in ROB!Hit(CDB!Heard)}
         \cup {<<robTail, FALSE>> : p \in IU!Entries(take)}
         \cup {<<ROB!Slot(u.id), TRUE>> : u \in {v \in RS!StoreUpdates(LsFull) : v.ready}}
         \cup {<<s, FALSE>> : s \in {t \in {robHead} : ROB!Pops(LsFull)}}
  <2>1. ready' = Written(ready, writes)
    BY <1>2, Shared DEF ROB!Tick
  <2>2. \A w \in writes : w[2] \in BOOLEAN
    <3> SUFFICES ASSUME NEW w \in writes PROVE w[2] \in BOOLEAN
      OBVIOUS
    <3>1. \/ \E s \in ROB!Hit(CDB!Heard) : w = <<s, TRUE>>
          \/ \E p \in IU!Entries(take) : w = <<robTail, FALSE>>
          \/ \E u \in {v \in RS!StoreUpdates(LsFull) : v.ready} : w = <<ROB!Slot(u.id), TRUE>>
          \/ \E s \in {t \in {robHead} : ROB!Pops(LsFull)} : w = <<s, FALSE>>
      BY Zenon
    <3>2. w[2] = TRUE \/ w[2] = FALSE
      BY <3>1
    <3> QED
      BY <3>2
  <2> HIDE DEF writes
  <2> QED
    BY <1>1, <2>1, <2>2, WrittenType DEF RobTypes
<1>5. robPayload' \in [ROB!Slots -> ROB!RobPayload]
  <2> DEFINE results == {<<s, m.result>> : s \in ROB!Hit(CDB!Heard), m \in CDB!Heard}
             writes ==
               {<<w[1], ROB!WithResult(robPayload[w[1]], w[2])>> : w \in results}
               \cup {<<robTail, p>> : p \in IU!Entries(take)}
               \cup {<<ROB!Slot(u.id), u.payload>> : u \in RS!StoreUpdates(LsFull)}
  <2>1. robPayload' = Written(robPayload, writes)
    BY <1>2, Shared DEF ROB!Tick
  <2>2. \A s \in ROB!Hit(CDB!Heard) : s \in ROB!Slots
    BY <1>1, HitLive, LiveSlots
  <2>3. \A w \in writes : w[2] \in ROB!RobPayload
    <3>1. ASSUME NEW s \in ROB!Hit(CDB!Heard), NEW m \in CDB!Heard
          PROVE  ROB!WithResult(robPayload[s], m.result) \in ROB!RobPayload
      BY <1>2, <2>2, PayloadWrites
    <3>2. \A p \in IU!Entries(take) : p \in ROB!RobPayload
      BY <1>1, NewEntryType DEF IU!Entries
    <3>3. \A u \in RS!StoreUpdates(LsFull) : u.payload \in ROB!RobPayload
      BY <1>2, PayloadWrites
    <3> QED
      BY <3>1, <3>2, <3>3
  <2> HIDE DEF writes
  <2> QED
    BY <1>1, <2>1, <2>3, WrittenType DEF RobTypes
<1> QED
  BY <1>3, <1>4, <1>5 DEF RobTypes

(* A station is busy because it was or because dispatch filled it.         *)
LEMMA BusyBefore ==
  ASSUME RsTypes, RS!Tick(CDB!Heard, IU!Tasks, AluAccepts, LsFull, ROB!Flushes),
         NEW s \in RS!Stations, rsBusy'[s], ~\E d \in IU!Tasks : d.station = s
  PROVE  rsBusy[s] /\ s \notin RS!Released(AluAccepts, LsFull)
<1> DEFINE writes == {<<t, FALSE>> : t \in RS!Released(AluAccepts, LsFull)}
                     \cup {<<d.station, TRUE>> : d \in IU!Tasks}
<1>1. rsBusy' = Written(rsBusy, writes)
  BY Shared DEF RS!Tick
<1>2. rsBusy'[s] = IF \E w \in writes : w[1] = s THEN (CHOOSE w \in writes : w[1] = s)[2]
                   ELSE rsBusy[s]
  BY <1>1 DEF Written, RsTypes
<1>3. ~\E w \in writes : w[1] = s
  <2>1. SUFFICES ASSUME NEW w \in writes, w[1] = s PROVE FALSE
    OBVIOUS
  <2>2. PICK v \in writes : v[1] = s /\ rsBusy'[s] = v[2]
    BY <1>2, <2>1
  <2>3. \/ \E t \in RS!Released(AluAccepts, LsFull) : v = <<t, FALSE>>
        \/ \E d \in IU!Tasks : v = <<d.station, TRUE>>
    BY Zenon
  <2>4. CASE \E t \in RS!Released(AluAccepts, LsFull) : v = <<t, FALSE>>
    <3>1. v[2] = FALSE
      BY <2>4
    <3> QED
      BY <2>2, <3>1
  <2>5. CASE \E d \in IU!Tasks : v = <<d.station, TRUE>>
    <3>1. PICK d \in IU!Tasks : v = <<d.station, TRUE>>
      BY <2>5
    <3>2. v[1] = d.station
      BY <3>1
    <3> QED
      BY <2>2, <3>2
  <2> QED
    BY <2>3, <2>4, <2>5
<1>4. s \notin RS!Released(AluAccepts, LsFull)
  <2>1. s \in RS!Released(AluAccepts, LsFull) => <<s, FALSE>> \in writes
    OBVIOUS
  <2> QED
    BY <1>3, <2>1
<1> QED
  BY <1>2, <1>3, <1>4

(* The stations.                                                           *)
LEMMA RsTyping ==
  ASSUME TypeOK, NEW take \in {0, 1}, Tick(take)
  PROVE  RsTypes'
<1>1. RfTypes /\ RobTypes /\ IuTypes /\ RsTypes
  BY DEF TypeOK
<1>2. /\ RS!Tick(CDB!Heard, IU!Tasks, AluAccepts, LsFull, ROB!Flushes)
      /\ CDB!Heard \subseteq BusMessage /\ CDB!GetData \subseteq BusMessage
  BY BusTypes DEF Tick
<1>3. \A d \in IU!Tasks :
        d.payload \in RS!RsPayload /\ d.payload.dest = IU!Rob /\ d.payload.dest \in RF!RobIds
  <2>1. ASSUME NEW s \in IU!Into
        PROVE  s \in RS!Stations /\ IU!inst.op # "UNIMP"
    BY DEF IU!Into, IU!Pool, IU!RS!Acquire, IU!RS!FirstOf, RS!Stations
  <2>2. ASSUME NEW s \in IU!Into
        PROVE  IU!NewTask(s) \in RS!RsPayload /\ IU!NewTask(s).dest = IU!Rob
    BY <1>1, <1>2, <2>1, NewTaskType
  <2> QED
    BY <1>1, <2>2, TailId DEF IU!Tasks
<1>4. \A s \in RS!Woken(CDB!Heard), m \in CDB!Heard :
        /\ RS!WithResult(rsPayload[s], m) \in RS!RsPayload
        /\ RS!WithResult(rsPayload[s], m).dest = rsPayload[s].dest
  <2> SUFFICES ASSUME NEW s \in RS!Woken(CDB!Heard), NEW m \in CDB!Heard
               PROVE  /\ RS!WithResult(rsPayload[s], m) \in RS!RsPayload
                      /\ RS!WithResult(rsPayload[s], m).dest = rsPayload[s].dest
    OBVIOUS
  <2>1. rsPayload[s] \in RS!RsPayload
    BY <1>1 DEF RsTypes, RS!Woken
  <2>2. m.result \in Word /\ RS!NoSrc \in 0 .. RobCapacity
    BY <1>2, CpuAssumption DEF BusMessage, Message, RS!NoSrc
  <2> QED
    BY <2>1, <2>2 DEF RS!WithResult, RS!RsPayload, RS!Word, Word
<1>5. rsBusy' \in [RS!Stations -> BOOLEAN]
  <2> DEFINE writes == {<<s, FALSE>> : s \in RS!Released(AluAccepts, LsFull)}
                       \cup {<<d.station, TRUE>> : d \in IU!Tasks}
  <2>1. rsBusy' = Written(rsBusy, writes)
    BY <1>2, Shared DEF RS!Tick
  <2>2. \A w \in writes : w[2] \in BOOLEAN
    <3> SUFFICES ASSUME NEW w \in writes PROVE w[2] \in BOOLEAN
      OBVIOUS
    <3>1. \/ \E s \in RS!Released(AluAccepts, LsFull) : w = <<s, FALSE>>
          \/ \E d \in IU!Tasks : w = <<d.station, TRUE>>
      BY Zenon
    <3>2. w[2] = TRUE \/ w[2] = FALSE
      BY <3>1
    <3> QED
      BY <3>2
  <2> HIDE DEF writes
  <2> QED
    BY <1>1, <2>1, <2>2, WrittenType DEF RsTypes
<1> DEFINE writes == {<<s, RS!WithResult(rsPayload[s], m)>> : s \in RS!Woken(CDB!Heard), m \in CDB!Heard}
                     \cup {<<d.station, d.payload>> : d \in IU!Tasks}
<1>6. rsPayload' = Written(rsPayload, writes)
  BY <1>2, Shared DEF RS!Tick
<1>7. \A w \in writes : w[2] \in RS!RsPayload
  BY <1>3, <1>4
<1>8. rsPayload' \in [RS!Stations -> RS!RsPayload]
  <2> HIDE DEF writes
  <2> QED
    BY <1>1, <1>6, <1>7, WrittenType DEF RsTypes
<1>9. rsClear' \in BOOLEAN
  BY <1>1, <1>2 DEF RS!Tick, ROB!Flushes, ROB!Commits, RobTypes
<1>10. ASSUME NEW s \in RS!Stations, rsBusy'[s]
       PROVE  rsPayload'[s].dest \in RF!RobIds
  <2>1. CASE \E w \in writes : w[1] = s
    <3>1. PICK w \in writes : w[1] = s /\ rsPayload'[s] = w[2]
      <4> HIDE DEF writes
      <4> QED
        BY <1>1, <1>6, <2>1 DEF Written, RsTypes
    <3>2. \/ \E t \in RS!Woken(CDB!Heard), m \in CDB!Heard : w = <<t, RS!WithResult(rsPayload[t], m)>>
          \/ \E d \in IU!Tasks : w = <<d.station, d.payload>>
      BY SMT
    <3>3. CASE \E d \in IU!Tasks : w = <<d.station, d.payload>>
      <4>1. PICK d \in IU!Tasks : w = <<d.station, d.payload>>
        BY <3>3
      <4>2. rsPayload'[s] = d.payload
        BY <3>1, <4>1
      <4> QED
        BY <1>3, <4>2
    <3>4. CASE \E t \in RS!Woken(CDB!Heard), m \in CDB!Heard : w = <<t, RS!WithResult(rsPayload[t], m)>>
      <4>1. PICK t \in RS!Woken(CDB!Heard), m \in CDB!Heard : w = <<t, RS!WithResult(rsPayload[t], m)>>
        BY <3>4
      <4>2. t = s /\ rsBusy[s] /\ rsPayload'[s] = RS!WithResult(rsPayload[s], m)
        BY <3>1, <4>1 DEF RS!Woken
      <4> QED
        BY <1>1, <1>4, <4>1, <4>2 DEF RsTypes
    <3> QED
      BY <3>2, <3>3, <3>4
  <2>2. CASE ~\E w \in writes : w[1] = s
    <3>1. rsPayload'[s] = rsPayload[s]
      <4> HIDE DEF writes
      <4> QED
        BY <1>1, <1>6, <2>2 DEF Written, RsTypes
    <3>2. ~\E d \in IU!Tasks : d.station = s
      <4>1. \A d \in IU!Tasks : <<d.station, d.payload>> \in writes
        OBVIOUS
      <4> HIDE DEF writes
      <4> QED
        BY <2>2, <4>1
    <3>3. rsBusy[s]
      BY <1>1, <1>2, <1>10, <3>2, BusyBefore
    <3> QED
      BY <1>1, <3>1, <3>3 DEF RsTypes
  <2> QED
    BY <2>1, <2>2
<1> QED
  BY <1>5, <1>8, <1>9, <1>10 DEF RsTypes

(* The load/store queue.                                                   *)
LEMMA LsqTyping ==
  ASSUME TypeOK, NEW take \in {0, 1}, Tick(take)
  PROVE  LsqTypes'
<1>1. RobTypes /\ RsTypes /\ LsqTypes
  BY DEF TypeOK
<1>2. LSQ!Tick(LsPushes, ROB!Flushes, MEM!Completing # {})
  BY DEF Tick
<1>3. lsHead' \in LSQ!queue!Slots /\ lsTail' \in LSQ!queue!Slots
  <2>1. /\ LSQ!queue!Trunc(lsHead + 1) \in LSQ!queue!Slots
        /\ LSQ!queue!Trunc(lsTail + 1) \in LSQ!queue!Slots
    BY <1>1, NextSlot, CpuAssumption DEF LsqTypes, LSQ!queue!Slots
  <2> QED
    BY <1>1, <1>2, <2>1 DEF LSQ!Tick, LSQ!queue!Move, LsqTypes
<1>4. LsPushes \subseteq LSQ!LsPayload
  <2>1. ROB!Stored(LsFull) \subseteq LSQ!LsPayload
    <3>1. ROB!First \in ROB!RobPayload
      BY <1>1 DEF RobTypes, ROB!First
    <3>2. ROB!First.size \in Sizes /\ ROB!First.addr \in Word /\ ROB!First.value \in Word
      BY <3>1 DEF ROB!RobPayload, ROB!Word, Word, ROB!Sizes, Sizes
    <3>3. [op |-> "STORE", size |-> ROB!First.size, addr |-> ROB!First.addr,
           value |-> ROB!First.value, rob |-> 0, cleared |-> FALSE] \in LSQ!LsPayload
      BY <3>2, CpuAssumption DEF LSQ!LsPayload, LSQ!Word, Word, LSQ!Sizes, Sizes
    <3> QED
      BY <3>3 DEF ROB!Stored
  <2>2. RS!LoadPushes(LsFull) \subseteq LSQ!LsPayload
    <3>1. ASSUME NEW s \in RS!LoadIssue(LsFull)
          PROVE  /\ RS!CalcAddr(rsPayload[s]) \in Word /\ rsPayload[s].size \in RS!Sizes
                 /\ rsPayload[s].dest \in 0 .. RobCapacity
      <4>1. s \in RS!Stations
        BY DEF RS!LoadIssue, RS!FirstOf, RS!Able, RS!Stations
      <4>2. rsPayload[s] \in RS!RsPayload
        BY <1>1, <4>1 DEF RsTypes
      <4>3. /\ rsPayload[s].addr \in Int /\ rsPayload[s].value1 \in Int
            /\ rsPayload[s].size \in RS!Sizes /\ rsPayload[s].dest \in 0 .. RobCapacity
        BY <4>2, WordSizeFact DEF RS!RsPayload, RS!Word
      <4> QED
        BY <4>3, AddType, Shared DEF RS!CalcAddr
    <3>2. 0 \in Word
      BY WordSizeFact DEF Word
    <3>3. ASSUME NEW s \in RS!LoadIssue(LsFull)
          PROVE  [op |-> "LOAD", size |-> rsPayload[s].size, addr |-> RS!CalcAddr(rsPayload[s]),
                  value |-> 0, rob |-> rsPayload[s].dest, cleared |-> FALSE] \in LSQ!LsPayload
      BY <3>1, <3>2 DEF LSQ!LsPayload, LSQ!Word, Word, RS!Sizes, LSQ!Sizes
    <3> QED
      BY <3>3 DEF RS!LoadPushes
  <2> QED
    BY <2>1, <2>2 DEF LsPushes
<1>5. lsData' \in [LSQ!queue!Slots -> LSQ!LsPayload]
  <2>1. \A s \in LSQ!queue!Slots : /\ lsData[s] \in LSQ!LsPayload
                                   /\ [lsData[s] EXCEPT !.cleared = TRUE] \in LSQ!LsPayload
    BY <1>1 DEF LsqTypes, LSQ!LsPayload
  <2> QED
    BY <1>2, <1>4, <2>1 DEF LSQ!Tick
<1>6. {lsClear, stall, signal}' \subseteq BOOLEAN
  BY <1>1, <1>2 DEF LSQ!Tick, LsqTypes, RobTypes, ROB!Flushes, ROB!Commits
<1> QED
  BY <1>3, <1>5, <1>6 DEF LsqTypes

(* The memory.                                                             *)
LEMMA MemTyping ==
  ASSUME TypeOK, NEW take \in {0, 1}, Tick(take)
  PROVE  MemTypes'
<1>1. RobTypes /\ LsqTypes /\ MemTypes
  BY DEF TypeOK
<1>2. MEM!Tick(LSQ!LoadRequests, LSQ!StoreRequests, MemStall, ROB!Flushes)
  BY DEF Tick
<1>3. LSQ!LoadRequests \subseteq LSQ!LsPayload /\ LSQ!StoreRequests \subseteq LSQ!LsPayload
  BY <1>1 DEF LsqTypes, LSQ!LoadRequests, LSQ!StoreRequests, LSQ!Popped
<1>4. ASSUME NEW p \in LSQ!LsPayload
      PROVE  /\ p.addr \in Word /\ p.size \in Sizes /\ p.rob \in 0 .. RobCapacity /\ p.value \in Word
             /\ MemTicks - 1 \in Int
  BY CpuAssumption DEF LSQ!LsPayload, LSQ!Word, Word, LSQ!Sizes, Sizes
<1> DEFINE LoadSlot == [busy : BOOLEAN, ticks : Int, addr : Word, size : Sizes,
                        rob : 0 .. RobCapacity]
           StoreSlot == [busy : BOOLEAN, ticks : Int, addr : Word, size : Sizes, value : Word]
<1>5. loads' \in [MEM!MemSlots -> LoadSlot]
  <2>1. ASSUME NEW i \in MEM!MemSlots, NEW b \in BOOLEAN
        PROVE  /\ loads[i] \in LoadSlot
               /\ [loads[i] EXCEPT !.busy = b] \in LoadSlot
               /\ [loads[i] EXCEPT !.ticks = @ - 1, !.busy = b] \in LoadSlot
    <3>1. loads[i] \in LoadSlot /\ loads[i].ticks \in Int
      BY <1>1 DEF MemTypes
    <3>2. loads[i].ticks - 1 \in Int
      BY <3>1
    <3> QED
      BY <3>1, <3>2
  <2>2. ASSUME LSQ!LoadRequests # {}
        PROVE  LET p == CHOOSE p \in LSQ!LoadRequests : TRUE
               IN  [busy |-> TRUE, ticks |-> MemTicks - 1, addr |-> p.addr,
                    size |-> p.size, rob |-> p.rob] \in LoadSlot
    <3> DEFINE p == CHOOSE p \in LSQ!LoadRequests : TRUE
    <3>1. p \in LSQ!LsPayload
      BY <1>3, <2>2
    <3> HIDE DEF p
    <3>2. [busy |-> TRUE, ticks |-> MemTicks - 1, addr |-> p.addr,
           size |-> p.size, rob |-> p.rob] \in LoadSlot
      BY <1>4, <3>1
    <3> QED
      BY <3>2 DEF p
  <2> HIDE DEF LoadSlot
  <2> QED
    BY <1>2, <2>1, <2>2 DEF MEM!Tick
<1>6. stores' \in [MEM!MemSlots -> StoreSlot]
  <2>1. ASSUME NEW i \in MEM!MemSlots
        PROVE  MEM!Counted(i) \in StoreSlot
    <3>1. stores[i] \in StoreSlot /\ stores[i].ticks \in Int
      BY <1>1 DEF MemTypes
    <3>2. stores[i].ticks - 1 \in Int
      BY <3>1
    <3>3. [stores[i] EXCEPT !.ticks = @ - 1, !.busy = i \notin MEM!Completing] \in StoreSlot
      BY <3>1, <3>2
    <3> QED
      BY <3>1, <3>3 DEF MEM!Counted
  <2>2. ASSUME LSQ!StoreRequests # {}
        PROVE  LET p == CHOOSE p \in LSQ!StoreRequests : TRUE
               IN  [busy |-> TRUE, ticks |-> MemTicks - 1, addr |-> p.addr,
                    size |-> p.size, value |-> p.value] \in StoreSlot
    <3> DEFINE p == CHOOSE p \in LSQ!StoreRequests : TRUE
    <3>1. p \in LSQ!LsPayload
      BY <1>3, <2>2
    <3> HIDE DEF p
    <3>2. [busy |-> TRUE, ticks |-> MemTicks - 1, addr |-> p.addr,
           size |-> p.size, value |-> p.value] \in StoreSlot
      BY <1>4, <3>1
    <3> QED
      BY <3>2 DEF p
  <2> HIDE DEF StoreSlot
  <2> QED
    BY <1>2, <2>1, <2>2 DEF MEM!Tick
<1>7. mem' \in MEM!MemBytes
  <2>1. CASE MEM!Completing = {}
    BY <1>1, <1>2, <2>1 DEF MEM!Tick, MemTypes
  <2>2. CASE MEM!Completing # {}
    <3> DEFINE i == CHOOSE i \in MEM!Completing : TRUE
    <3>1. i \in MEM!MemSlots
      BY <2>2 DEF MEM!Completing
    <3>2. stores[i].addr \in Word /\ stores[i].value \in Word /\ stores[i].size \in Sizes
      BY <1>1, <3>1 DEF MemTypes
    <3>3. mem \in [Word -> Byte]
      BY <1>1 DEF MemTypes, MEM!MemBytes, MEM!Word, MEM!Byte, Word, Byte
    <3>4. mem' = MemSetSz(mem, stores[i].addr, stores[i].value, stores[i].size)
      BY <1>2, <2>2, Shared DEF MEM!Tick
    <3> HIDE DEF i
    <3>5. mem' \in [Word -> Byte]
      BY <3>2, <3>3, <3>4, MemSetType
    <3> QED
      BY <3>5 DEF MEM!MemBytes, MEM!Word, MEM!Byte, Word, Byte
  <2> QED
    BY <2>1, <2>2
<1>8. memClear' \in BOOLEAN
  BY <1>1, <1>2 DEF MEM!Tick, RobTypes, ROB!Flushes, ROB!Commits
<1> QED
  BY <1>5, <1>6, <1>7, <1>8 DEF MemTypes

(* Every tick keeps all types.                                             *)
LEMMA Typing == TypeOK /\ [Next]_vars => TypeOK'
<1> SUFFICES ASSUME TypeOK, [Next]_vars PROVE TypeOK'
  OBVIOUS
<1>1. CASE UNCHANGED vars
  BY <1>1 DEF vars, TypeOK, IuTypes, RfTypes, RobTypes, RsTypes, LsqTypes, MemTypes, CdbTypes,
     AluTypes
<1>2. CASE Next
  <2>1. PICK take \in {0, 1} : Tick(take)
    BY <1>2 DEF Next
  <2>2. hcf' \in BOOLEAN
    BY <2>1 DEF Tick, ROB!Halts, ROB!Commits, TypeOK, RobTypes
  <2> QED
    BY <2>1, <2>2, IuTyping, RfTyping, RobTyping, RsTyping, LsqTyping, MemTyping, CdbTyping,
       AluTyping DEF TypeOK
<1> QED
  BY <1>1, <1>2

(* The machine starts with zeros everywhere.                               *)
LEMMA InitTypes == Init => TypeOK
<1> SUFFICES ASSUME Init PROVE TypeOK
  OBVIOUS
<1>1. 0 \in Word /\ 0 \in Byte /\ 0 \in Reg /\ 0 \in 0 .. RobCapacity /\ 0 \in ROB!Slots
  BY WordSizeFact, Rv32iAssumption, CpuAssumption DEF Word, Byte, Reg, ROB!Slots
<1>2. IuTypes
  BY <1>1, ProgramsAssumption DEF Init, IU!Init, IuTypes
<1>3. RfTypes
  BY <1>1 DEF Init, RF!Init, RfTypes, RF!Reg, Reg, RF!NoRob
<1>4. RobTypes
  <2>1. ROB!ZeroEntry \in ROB!RobPayload
    BY <1>1 DEF ROB!ZeroEntry, ROB!RobPayload, ROB!Word, Word, ROB!Reg, Reg, ROB!Sizes
  <2> QED
    BY <1>1, <2>1 DEF Init, ROB!Init, RobTypes
<1>5. RsTypes
  BY <1>1 DEF Init, RS!Init, RsTypes, RS!RsPayload, RS!Word, Word, RS!AluCodes, RS!AluOps, RS!Sizes,
     RS!NoSrc
<1>6. LsqTypes
  <2>1. LSQ!ZeroEntry \in LSQ!LsPayload
    BY <1>1 DEF LSQ!ZeroEntry, LSQ!LsPayload, LSQ!Word, Word, LSQ!Sizes
  <2>2. 0 \in LSQ!queue!Slots /\ LSQ!queue!Slots = 0 .. LsCapacity - 1
    BY CpuAssumption DEF LSQ!queue!Slots
  <2> QED
    BY <2>1, <2>2 DEF Init, LSQ!Init, LsqTypes
<1>7. MemTypes
  <2>1. MEM!Init
    BY DEF Init
  <2>2. mem \in [Word -> Byte]
    BY <1>1, <2>1 DEF MEM!Init, MEM!Word, Word
  <2>3. 0 \in Int /\ "BYTE" \in Sizes
    BY DEF Sizes
  <2> QED
    BY <1>1, <2>1, <2>2, <2>3
    DEF MEM!Init, MemTypes, MEM!MemBytes, MEM!Word, Word, MEM!Byte, Byte
<1>8. ZeroMessage \in BusMessage
  BY <1>1 DEF ZeroMessage, BusMessage, Message
<1>9. CdbTypes
  <2>1. CDB!Init
    BY DEF Init
  <2>2. 0 \in 0 .. 2 /\ 0 \in CDB!Buffers
    BY DEF CDB!Buffers
  <2> QED
    BY <1>8, <2>1, <2>2 DEF CDB!Init, CdbTypes
<1>10. AluTypes
  BY <1>1, <1>8 DEF Init, ALU!Init, AluTypes, ALU!AluTask, ALU!Word, Word, ALU!AluCodes, ALU!AluOps,
     ZeroMessage
<1> QED
  BY <1>2, <1>3, <1>4, <1>5, <1>6, <1>7, <1>9, <1>10 DEF TypeOK, Init

(* No register of the machine ever leaves its type: no index leaves its    *)
(* array and no value its word, whatever the program and the predictor     *)
(* (cpu.c, every component's tick).                                        *)
THEOREM TypeCorrect == Spec => []TypeOK
BY InitTypes, Typing, PTL DEF Spec

-----------------------------------------------------------------------------
(* The ring of entries.                                                    *)

(* Ages are distances from the head, and the live slots are those older    *)
(* than the tail, now and in the next state.                               *)
LEMMA AgeIs ==
  /\ \A s : ROB!Age(s) = Distance(RobCapacity, robHead, s)
  /\ \A s : ROB!Age(s)' = Distance(RobCapacity, robHead', s)
  /\ robHead \in ROB!Slots /\ robTail \in ROB!Slots =>
       \A s \in ROB!Slots : s \in ROB!Live <=>
         Distance(RobCapacity, robHead, s) < Distance(RobCapacity, robHead, robTail)
  /\ robHead' \in ROB!Slots /\ robTail' \in ROB!Slots =>
       \A s \in ROB!Slots : s \in ROB!Live' <=>
         Distance(RobCapacity, robHead', s) < Distance(RobCapacity, robHead', robTail')
  /\ robHead' \in ROB!Slots /\ robTail' \in ROB!Slots => ROB!Live' \subseteq ROB!Slots
<1>1. ASSUME NEW h \in ROB!Slots, NEW t \in ROB!Slots, NEW s \in ROB!Slots
      PROVE  s \in {ROB!robs!Trunc(ix + h) : ix \in 0 .. Distance(RobCapacity, h, t) - 1}
               <=> Distance(RobCapacity, h, s) < Distance(RobCapacity, h, t)
  <2>1. RobCapacity \in Nat \ {0} /\ h \in 0 .. RobCapacity - 1 /\ t \in 0 .. RobCapacity - 1
        /\ s \in 0 .. RobCapacity - 1
    BY CpuAssumption DEF ROB!Slots
  <2>2. Distance(RobCapacity, h, t) \in Nat
    BY <2>1, DistanceIs
  <2>3. \A ix \in 0 .. Distance(RobCapacity, h, t) - 1 :
          ROB!robs!Trunc(ix + h) = (ix + h) % RobCapacity
    BY <2>1, <2>2 DEF ROB!robs!Trunc
  <2>4. {ROB!robs!Trunc(ix + h) : ix \in 0 .. Distance(RobCapacity, h, t) - 1}
          = {(ix + h) % RobCapacity : ix \in 0 .. Distance(RobCapacity, h, t) - 1}
    BY <2>3
  <2> QED
    BY <2>1, <2>4, Between
<1>2. /\ \A s : ROB!Age(s) = Distance(RobCapacity, robHead, s)
      /\ \A s : ROB!Age(s)' = Distance(RobCapacity, robHead', s)
  BY DEF ROB!Age, Distance
<1>3. /\ ROB!robs!Length = Distance(RobCapacity, robHead, robTail)
      /\ ROB!robs!Length' = Distance(RobCapacity, robHead', robTail')
  BY DEF ROB!robs!Length, Distance
<1>4. /\ ROB!Live = {ROB!robs!Trunc(ix + robHead) :
                       ix \in 0 .. Distance(RobCapacity, robHead, robTail) - 1}
      /\ ROB!Live' = {ROB!robs!Trunc(ix + robHead') :
                        ix \in 0 .. Distance(RobCapacity, robHead', robTail') - 1}
  BY <1>3 DEF ROB!Live, ROB!robs!Live, ROB!robs!Nth, ROB!robs!Trunc
<1>5. ASSUME NEW h \in ROB!Slots, NEW t \in ROB!Slots,
             NEW ix \in 0 .. Distance(RobCapacity, h, t) - 1
      PROVE  ROB!robs!Trunc(ix + h) \in ROB!Slots
  <2>1. /\ RobCapacity \in Nat \ {0} /\ h \in 0 .. RobCapacity - 1 /\ t \in 0 .. RobCapacity - 1
        /\ ROB!Slots = 0 .. RobCapacity - 1
    BY CpuAssumption DEF ROB!Slots
  <2>2. ix + h \in Nat
    BY <2>1, DistanceIs
  <2> QED
    BY <2>1, <2>2 DEF ROB!robs!Trunc
<1> QED
  BY <1>1, <1>2, <1>4, <1>5

(* No two slots have the same age.                                         *)
LEMMA AgeInjective ==
  ASSUME robHead \in ROB!Slots, NEW s \in ROB!Slots, NEW t \in ROB!Slots,
         ROB!Age(s) = ROB!Age(t)
  PROVE  s = t
<1>1. RobCapacity \in Nat \ {0} /\ robHead \in 0 .. RobCapacity - 1 /\ t \in 0 .. RobCapacity - 1
      /\ s \in 0 .. RobCapacity - 1
  BY CpuAssumption DEF ROB!Slots
<1>2. Distance(RobCapacity, robHead, s) = Distance(RobCapacity, robHead, t)
  BY AgeIs
<1> QED
  BY <1>1, <1>2, DistanceInjective

(* An entry that commits is the oldest one.                                *)
LEMMA PopsHead ==
  ASSUME RobTypes, ROB!Commits
  PROVE  /\ robHead \in ROB!Live /\ ROB!Age(robHead) = 0 /\ robHead # robTail
         /\ ready[robHead] /\ ~robClear
<1>1. robHead # robTail /\ ready[robHead] /\ ~robClear
  BY DEF ROB!Commits, ROB!robs!Empty
<1>2. /\ robHead \in ROB!Slots /\ robTail \in ROB!Slots
      /\ RobCapacity \in Nat \ {0} /\ ROB!Slots = 0 .. RobCapacity - 1
  BY CpuAssumption DEF RobTypes, ROB!Slots
<1>3. /\ Distance(RobCapacity, robHead, robHead) = 0
      /\ Distance(RobCapacity, robHead, robTail) > 0
  <2>1. Distance(RobCapacity, robHead, robHead) = robHead - robHead
    BY <1>2, DistanceIs
  <2>2. Distance(RobCapacity, robHead, robTail) =
          IF robTail < robHead THEN robTail + RobCapacity - robHead ELSE robTail - robHead
    BY <1>2, DistanceIs
  <2> QED
    BY <1>1, <1>2, <2>1, <2>2
<1> QED
  BY <1>1, <1>2, <1>3, AgeIs

(* What a tick without a clear does to the live slots and their ages.      *)
LEMMA RingStep ==
  ASSUME TypeOK, NEW take \in {0, 1}, Tick(take), ~robClear
  PROVE  /\ \A s \in ROB!Slots :
              s \in ROB!Live' <=> \/ s \in ROB!Live /\ ~(ROB!Pops(LsFull) /\ s = robHead)
                                  \/ IU!Into # {} /\ s = robTail
         /\ \A s \in ROB!Live' :
              ROB!Age(s)' = IF ROB!Pops(LsFull) THEN ROB!Age(s) - 1 ELSE ROB!Age(s)
         /\ robTail \notin ROB!Live
         /\ \A s \in ROB!Live : ROB!Age(s) < ROB!Age(robTail)
<1> DEFINE pop == ROB!Pops(LsFull)
           push == IU!Into # {}
<1>1. /\ robHead \in ROB!Slots /\ robTail \in ROB!Slots
      /\ robHead' \in ROB!Slots /\ robTail' \in ROB!Slots
      /\ RobCapacity \in Nat \ {0} /\ ROB!Slots = 0 .. RobCapacity - 1
  BY RobTyping, CpuAssumption DEF RobTypes, TypeOK, ROB!Slots
<1>2. /\ ROB!robs!Trunc(robHead + 1) = After(RobCapacity, robHead)
      /\ ROB!robs!Trunc(robTail + 1) = After(RobCapacity, robTail)
  BY <1>1, NextSlot DEF After
<1>3. /\ pop => robHead # robTail
      /\ push => robHead # After(RobCapacity, robTail)
  <2>1. pop => robHead # robTail
    BY PopsHead DEF TypeOK, ROB!Pops
  <2>2. push => ~ROB!robs!Full
    BY DEF IU!Into, IU!ROB!Full, ROB!robs!Full, IU!ROB!robs!Full,
       IU!ROB!robs!Trunc, ROB!robs!Trunc
  <2> QED
    BY <1>2, <2>1, <2>2 DEF ROB!robs!Full
<1>4. /\ robHead' = IF pop THEN After(RobCapacity, robHead) ELSE robHead
      /\ robTail' = IF push THEN After(RobCapacity, robTail) ELSE robTail
  <2>1. ROB!robs!Move(IU!Entries(take) # {}, pop, ROB!Flushes)
    BY DEF Tick, ROB!Tick
  <2>2. IU!Entries(take) # {} <=> push
    BY DEF IU!Entries
  <2> QED
    BY <1>2, <1>3, <2>1, <2>2 DEF ROB!robs!Move, ROB!robs!Empty, ROB!robs!Full
<1>5. ASSUME NEW s \in ROB!Slots
      PROVE  /\ s \in ROB!Live' <=> \/ s \in ROB!Live /\ ~(pop /\ s = robHead)
                                    \/ push /\ s = robTail
             /\ s \in ROB!Live' =>
                  ROB!Age(s)' = IF pop THEN ROB!Age(s) - 1 ELSE ROB!Age(s)
  <2>1. pop \in BOOLEAN /\ push \in BOOLEAN
    BY <1>1 DEF ROB!Pops, ROB!Commits, ROB!Halts, LsFull, TypeOK, RobTypes
  <2>2. /\ Distance(RobCapacity, robHead', s) < Distance(RobCapacity, robHead', robTail')
             <=> \/ /\ Distance(RobCapacity, robHead, s) < Distance(RobCapacity, robHead, robTail)
                    /\ ~(pop /\ s = robHead)
                 \/ push /\ s = robTail
        /\ Distance(RobCapacity, robHead', s) < Distance(RobCapacity, robHead', robTail') =>
             Distance(RobCapacity, robHead', s) =
               IF pop THEN Distance(RobCapacity, robHead, s) - 1
               ELSE Distance(RobCapacity, robHead, s)
    <3> HIDE DEF pop, push
    <3> QED
      BY <1>1, <1>3, <1>4, <2>1, RingMoves
  <2> QED
    BY <1>1, <2>2, AgeIs
<1>6. ROB!Live \subseteq ROB!Slots /\ ROB!Live' \subseteq ROB!Slots
  BY <1>1, LiveSlots, AgeIs DEF TypeOK
<1>7. /\ robTail \notin ROB!Live
      /\ \A s \in ROB!Live : ROB!Age(s) < ROB!Age(robTail)
  <2>1. Distance(RobCapacity, robHead, robTail) \in Nat
    BY <1>1, DistanceIs
  <2> QED
    BY <1>1, <1>6, <2>1, AgeIs
<1> QED
  BY <1>5, <1>6, <1>7

-----------------------------------------------------------------------------
(* The renaming table.                                                     *)

(* Dispatch fills the tail; any other entry hears a result, learns an      *)
(* address or a value from its store buffer, or stays what it was.         *)
LEMMA PayloadStep ==
  ASSUME TypeOK, NEW take \in {0, 1}, Tick(take)
  PROVE  /\ IU!Into # {} => robPayload'[robTail] = IU!NewEntry(take)
         /\ \A s \in ROB!Slots : ~(IU!Into # {} /\ s = robTail) =>
              \/ \E m \in CDB!Heard : /\ s \in ROB!Hit(CDB!Heard)
                                      /\ robPayload'[s] = ROB!WithResult(robPayload[s], m.result)
              \/ \E t \in RS!StoreUpdate(LsFull) :
                   ROB!Slot(rsPayload[t].dest) = s /\ robPayload'[s] = RS!Update(t)
              \/ /\ ~\E t \in RS!StoreUpdate(LsFull) : ROB!Slot(rsPayload[t].dest) = s
                 /\ robPayload'[s] = robPayload[s]
<1> DEFINE results == {<<s, m.result>> : s \in ROB!Hit(CDB!Heard), m \in CDB!Heard}
           writes ==
             {<<w[1], ROB!WithResult(robPayload[w[1]], w[2])>> : w \in results}
             \cup {<<robTail, p>> : p \in IU!Entries(take)}
             \cup {<<ROB!Slot(u.id), u.payload>> : u \in RS!StoreUpdates(LsFull)}
<1>1. RobTypes /\ ~UnknownOperation
  BY DEF TypeOK, Tick
<1>2. robPayload' = Written(robPayload, writes) /\ DOMAIN robPayload = ROB!Slots
  BY <1>1, Shared DEF Tick, ROB!Tick, RobTypes
<1>3. /\ ROB!Hit(CDB!Heard) \subseteq ROB!Slots
      /\ \A p \in IU!Entries(take) : p = IU!NewEntry(take)
      /\ IU!Into # {} => IU!NewEntry(take) \in IU!Entries(take)
      /\ IU!Into = {} => IU!Entries(take) = {}
      /\ robTail \in ROB!Slots
  BY <1>1, HitLive, LiveSlots DEF IU!Entries, RobTypes
<1>4. IU!Into # {} => /\ robTail \notin ROB!Hit(CDB!Heard)
                      /\ \A u \in RS!StoreUpdates(LsFull) : ROB!Slot(u.id) # robTail
  <2>1. ~ROB!DoubleWrite(CDB!Heard, IU!Entries(take), RS!StoreUpdates(LsFull), LsFull)
    <3>1. ~ROB!DoubleWrite(CDB!Heard, IU!Tasks, RS!StoreUpdates(LsFull), LsFull)
      BY DEF Tick, DoubleWrite
    <3>2. IU!Tasks # {} <=> IU!Entries(take) # {}
      BY DEF IU!Tasks, IU!Entries
    <3>3. {robTail : p \in IU!Tasks} = {robTail : p \in IU!Entries(take)}
      BY <3>2
    <3> QED
      BY <3>1, <3>2, <3>3 DEF ROB!DoubleWrite
  <2> SUFFICES ASSUME IU!Into # {}
               PROVE  /\ robTail \notin ROB!Hit(CDB!Heard)
                      /\ \A u \in RS!StoreUpdates(LsFull) : ROB!Slot(u.id) # robTail
    OBVIOUS
  <2>2. robTail \in {robTail : p \in IU!Entries(take)}
    BY <1>3
  <2>3. /\ ROB!Hit(CDB!Heard) \cap ({robTail : p \in IU!Entries(take)}
                                    \cup {ROB!Slot(u.id) : u \in RS!StoreUpdates(LsFull)}
                                    \cup {s \in {robHead} : ROB!Pops(LsFull)}) = {}
        /\ {robTail : p \in IU!Entries(take)}
             \cap {ROB!Slot(u.id) : u \in RS!StoreUpdates(LsFull)} = {}
    BY <2>1 DEF ROB!DoubleWrite
  <2> QED
    BY <2>2, <2>3
<1>5. ASSUME NEW w \in writes
      PROVE  \/ \E s \in ROB!Hit(CDB!Heard), m \in CDB!Heard :
                  w = <<s, ROB!WithResult(robPayload[s], m.result)>>
             \/ IU!Into # {} /\ w = <<robTail, IU!NewEntry(take)>>
             \/ \E u \in RS!StoreUpdates(LsFull) : w = <<ROB!Slot(u.id), u.payload>>
  <2>1. \/ \E v \in results : w = <<v[1], ROB!WithResult(robPayload[v[1]], v[2])>>
        \/ \E p \in IU!Entries(take) : w = <<robTail, p>>
        \/ \E u \in RS!StoreUpdates(LsFull) : w = <<ROB!Slot(u.id), u.payload>>
    <3> HIDE DEF results
    <3> QED
      BY Zenon
  <2>2. CASE \E v \in results : w = <<v[1], ROB!WithResult(robPayload[v[1]], v[2])>>
    BY <2>2
  <2>3. CASE \E p \in IU!Entries(take) : w = <<robTail, p>>
    BY <2>3, <1>3
  <2> QED
    BY <2>1, <2>2, <2>3
<1>6. ASSUME NEW s \in ROB!Slots
      PROVE  \/ \E w \in writes : w[1] = s /\ robPayload'[s] = w[2]
             \/ (~\E w \in writes : w[1] = s) /\ robPayload'[s] = robPayload[s]
  <2> HIDE DEF writes
  <2> QED
    BY <1>2, WrittenAt
<1>7. ASSUME IU!Into # {}
      PROVE  robPayload'[robTail] = IU!NewEntry(take)
  <2>1. <<robTail, IU!NewEntry(take)>> \in writes
    BY <1>3, <1>7
  <2>2. PICK w \in writes : w[1] = robTail /\ robPayload'[robTail] = w[2]
    <3> HIDE DEF writes
    <3> QED
      BY <1>3, <1>6, <2>1
  <2> HIDE DEF writes
  <2> QED
    BY <1>4, <1>5, <1>7, <2>2
<1>8. ASSUME NEW s \in ROB!Slots, ~(IU!Into # {} /\ s = robTail)
      PROVE  \/ \E m \in CDB!Heard : /\ s \in ROB!Hit(CDB!Heard)
                                      /\ robPayload'[s] = ROB!WithResult(robPayload[s], m.result)
             \/ \E t \in RS!StoreUpdate(LsFull) :
                  ROB!Slot(rsPayload[t].dest) = s /\ robPayload'[s] = RS!Update(t)
             \/ /\ ~\E t \in RS!StoreUpdate(LsFull) : ROB!Slot(rsPayload[t].dest) = s
                /\ robPayload'[s] = robPayload[s]
  <2>1. CASE (~\E w \in writes : w[1] = s) /\ robPayload'[s] = robPayload[s]
    <3>1. ASSUME NEW t \in RS!StoreUpdate(LsFull), ROB!Slot(rsPayload[t].dest) = s
          PROVE  FALSE
      <4> DEFINE u == [id |-> rsPayload[t].dest, payload |-> RS!Update(t), ready |-> RS!Complete(t)]
      <4>1. u \in RS!StoreUpdates(LsFull)
        BY <3>1 DEF RS!StoreUpdates
      <4>2. <<ROB!Slot(u.id), u.payload>> \in writes
        BY <4>1
      <4>3. ROB!Slot(u.id) = s
        BY <3>1
      <4> HIDE DEF writes, u
      <4>4. <<ROB!Slot(u.id), u.payload>>[1] = s
        BY <4>3
      <4> QED
        BY <2>1, <4>2, <4>4
    <3> QED
      BY <2>1, <3>1
  <2>2. CASE \E w \in writes : w[1] = s /\ robPayload'[s] = w[2]
    <3>1. PICK w \in writes : w[1] = s /\ robPayload'[s] = w[2]
      BY <2>2
    <3> HIDE DEF writes
    <3>2. CASE \E t \in ROB!Hit(CDB!Heard), m \in CDB!Heard :
                 w = <<t, ROB!WithResult(robPayload[t], m.result)>>
      BY <3>1, <3>2
    <3>3. CASE \E u \in RS!StoreUpdates(LsFull) : w = <<ROB!Slot(u.id), u.payload>>
      <4>1. PICK u \in RS!StoreUpdates(LsFull) : w = <<ROB!Slot(u.id), u.payload>>
        BY <3>3
      <4>2. PICK t \in RS!StoreUpdate(LsFull) : u.id = rsPayload[t].dest /\ u.payload = RS!Update(t)
        BY DEF RS!StoreUpdates
      <4> QED
        BY <3>1, <4>1, <4>2
    <3> QED
      BY <1>5, <1>8, <3>1, <3>2, <3>3
  <2> HIDE DEF writes
  <2> QED
    BY <1>6, <1>8, <2>1, <2>2
<1> HIDE DEF writes, results
<1> QED
  BY <1>7, <1>8

(* An entry that dispatch does not fill keeps its operation and its        *)
(* destination.                                                            *)
LEMMA EntriesKept ==
  ASSUME TypeOK, NEW take \in {0, 1}, Tick(take)
  PROVE  /\ IU!Into # {} => robPayload'[robTail] = IU!NewEntry(take)
         /\ \A s \in ROB!Slots : ~(IU!Into # {} /\ s = robTail) =>
              robPayload'[s].dest = robPayload[s].dest /\ robPayload'[s].op = robPayload[s].op
<1>1. ~UnknownOperation
  BY DEF Tick
<1>2. ASSUME NEW t \in RS!StoreUpdate(LsFull)
      PROVE  /\ RS!Update(t).dest = robPayload[ROB!Slot(rsPayload[t].dest)].dest
             /\ RS!Update(t).op = robPayload[ROB!Slot(rsPayload[t].dest)].op
  <2> DEFINE u == [id |-> rsPayload[t].dest, payload |-> RS!Update(t), ready |-> RS!Complete(t)]
  <2>1. u \in RS!StoreUpdates(LsFull)
    BY DEF RS!StoreUpdates
  <2>2. u.id = rsPayload[t].dest /\ u.payload = RS!Update(t)
    OBVIOUS
  <2> HIDE DEF u
  <2> QED
    BY <1>1, <2>1, <2>2, PayloadWrites
<1>3. ASSUME NEW s \in ROB!Slots, ~(IU!Into # {} /\ s = robTail)
      PROVE  robPayload'[s].dest = robPayload[s].dest /\ robPayload'[s].op = robPayload[s].op
  BY <1>1, <1>2, <1>3, PayloadStep, PayloadWrites
<1> QED
  BY <1>3, PayloadStep


(* The table names the youngest writer of every register.                  *)
NamesYoungest(r) ==
  \/ robIds[r] = 0 /\ Writers(r) = {}
  \/ /\ robIds[r] \in RF!RobIds
     /\ ROB!Slot(robIds[r]) \in Writers(r)
     /\ \A t \in Writers(r) : ROB!Age(t) <= ROB!Age(ROB!Slot(robIds[r]))
Renamed == \A r \in Reg \ {0} : NamesYoungest(r)

RenameInv ==
  /\ TypeOK
  /\ robClear = rfClear
  /\ ~rfClear => Renamed

(* A tick without a flush: commit takes the oldest writer away, dispatch   *)
(* adds the youngest one, and the table follows.                           *)
LEMMA RenamedKept ==
  ASSUME RenameInv, NEW take \in {0, 1}, Tick(take), ~rfClear
  PROVE  Renamed'
<1> DEFINE pop == ROB!Pops(LsFull)
           push == IU!Into # {}
           writer == IU!inst.op \notin {"STORE", "BRANCH"}
<1>1. /\ TypeOK /\ Renamed /\ ~robClear /\ robClear = rfClear
      /\ RobTypes /\ RfTypes /\ IuTypes /\ RobTypes'
  BY RobTyping DEF RenameInv, TypeOK
<1>2. /\ robHead \in ROB!Slots /\ robTail \in ROB!Slots
      /\ ROB!Live \subseteq ROB!Slots /\ ROB!Live' \subseteq ROB!Slots
      /\ \A s \in ROB!Slots : ROB!Age(s) \in Nat
  <2>1. RobCapacity \in Nat \ {0} /\ ROB!Slots = 0 .. RobCapacity - 1 /\ robHead \in ROB!Slots
    BY <1>1, CpuAssumption DEF RobTypes, ROB!Slots
  <2>2. \A s \in ROB!Slots : ROB!Age(s) \in Nat
    BY <2>1, AgeIs, DistanceIs
  <2> QED
    BY <1>1, <2>2, LiveSlots, AgeIs DEF RobTypes
<1>3. /\ \A s \in ROB!Slots :
           s \in ROB!Live' <=> \/ s \in ROB!Live /\ ~(pop /\ s = robHead)
                               \/ push /\ s = robTail
      /\ \A s \in ROB!Live' : ROB!Age(s)' = IF pop THEN ROB!Age(s) - 1 ELSE ROB!Age(s)
      /\ robTail \notin ROB!Live
      /\ \A s \in ROB!Live : ROB!Age(s) < ROB!Age(robTail)
  BY <1>1, RingStep
<1>4. pop => robHead \in ROB!Live /\ ROB!Age(robHead) = 0
  BY <1>1, PopsHead DEF ROB!Pops
<1>5. /\ push => robPayload'[robTail].dest = IF writer THEN IU!inst.rd ELSE ROB!NoDest
      /\ \A s \in ROB!Slots : ~(push /\ s = robTail) =>
           robPayload'[s].dest = robPayload[s].dest
  BY <1>1, EntriesKept, NewEntryType
<1> SUFFICES ASSUME NEW r \in Reg \ {0}
             PROVE  NamesYoungest(r)'
  BY DEF Renamed
<1> DEFINE adds == push /\ writer /\ IU!inst.rd = r
           named == IF adds THEN IU!Rob ELSE robIds[r]
           forgets == /\ named # 0 /\ pop /\ robPayload[robHead].dest = r
                      /\ named = ROB!Id(robHead)
           id == robIds'[r]
<1>6. id = IF forgets THEN 0 ELSE named
  <2>1. id = IF RF!Forgets(r, RF!Named(r, IU!Renames), ROB!Retired(LsFull)) THEN RF!NoRob
             ELSE RF!Named(r, IU!Renames)
    BY DEF Tick, RF!Tick, RF!Reg, Reg
  <2>2. RF!Named(r, IU!Renames) = named
    <3>1. \A d \in IU!Renames : d.rd = IU!inst.rd /\ d.id = IU!Rob
      BY DEF IU!Renames
    <3>2. adds <=> \E d \in IU!Renames : d.rd = r
      <4>1. adds => [rd |-> IU!inst.rd, id |-> IU!Rob] \in IU!Renames
        BY DEF IU!Renames
      <4>2. \A d \in IU!Renames : push /\ writer
        BY DEF IU!Renames
      <4> HIDE DEF push, writer
      <4>3. CASE adds
        BY <4>1, <4>3
      <4> QED
        BY <3>1, <4>2, <4>3
    <3>3. CASE adds
      BY <3>1, <3>2, <3>3 DEF RF!Named
    <3>4. CASE ~adds
      BY <3>2, <3>4 DEF RF!Named
    <3> QED
      BY <3>3, <3>4
  <2>3. RF!Forgets(r, named, ROB!Retired(LsFull)) <=> forgets
    <3> HIDE DEF named
    <3>1. r >= 0
      BY Rv32iAssumption DEF Reg
    <3>2. pop /\ robPayload[robHead].dest = r =>
            ROB!Retired(LsFull) = {[rd |-> r, id |-> ROB!Id(robHead)]}
      BY <3>1 DEF ROB!Retired, ROB!First
    <3>3. \A c \in ROB!Retired(LsFull) :
            pop /\ c.rd = robPayload[robHead].dest /\ c.id = ROB!Id(robHead)
      BY DEF ROB!Retired, ROB!First
    <3>4. RF!Forgets(r, named, ROB!Retired(LsFull)) <=>
            named # 0 /\ \E c \in ROB!Retired(LsFull) : c.rd = r /\ c.id = named
      BY DEF RF!Forgets, RF!NoRob
    <3> HIDE DEF pop
    <3>5. CASE pop /\ robPayload[robHead].dest = r
      <4> DEFINE c0 == [rd |-> r, id |-> ROB!Id(robHead)]
      <4>1. ROB!Retired(LsFull) = {c0} /\ c0.rd = r /\ c0.id = ROB!Id(robHead)
        BY <3>2, <3>5
      <4> HIDE DEF c0
      <4>2. (\E c \in ROB!Retired(LsFull) : c.rd = r /\ c.id = named) <=> named = ROB!Id(robHead)
        BY <4>1
      <4> QED
        BY <3>4, <3>5, <4>2, Zenon
    <3>6. CASE ~(pop /\ robPayload[robHead].dest = r)
      BY <3>3, <3>4, <3>6
    <3> QED
      BY <3>5, <3>6
  <2> QED
    BY <2>1, <2>2, <2>3 DEF RF!NoRob
<1>7. /\ Writers(r) \subseteq ROB!Slots /\ Writers(r)' \subseteq ROB!Slots
      /\ \A s \in ROB!Slots : s \in Writers(r) <=> s \in ROB!Live /\ robPayload[s].dest = r
      /\ \A s \in ROB!Slots : s \in Writers(r)' <=>
           \/ s \in Writers(r) /\ ~(pop /\ s = robHead)
           \/ adds /\ s = robTail
  <2>1. /\ Writers(r) = {s \in ROB!Live : robPayload[s].dest = r}
        /\ Writers(r)' = {s \in ROB!Live' : robPayload'[s].dest = r}
    BY DEF Writers
  <2>2. r # ROB!NoDest
    BY Rv32iAssumption DEF Reg, ROB!NoDest
  <2> HIDE DEF pop, push
  <2>3. ASSUME NEW s \in ROB!Slots
        PROVE  s \in Writers(r)' <=> \/ s \in Writers(r) /\ ~(pop /\ s = robHead)
                                     \/ adds /\ s = robTail
    <3>1. CASE push /\ s = robTail
      BY <1>2, <1>3, <1>5, <2>1, <2>2, <3>1
    <3>2. CASE ~(push /\ s = robTail)
      BY <1>2, <1>3, <1>5, <2>1, <2>2, <3>2
    <3> QED
      BY <3>1, <3>2
  <2> QED
    BY <1>2, <2>1, <2>3
<1>8. NamesYoungest(r)' <=>
        \/ id = 0 /\ Writers(r)' = {}
        \/ /\ id \in RF!RobIds /\ ROB!Slot(id) \in Writers(r)'
           /\ \A t \in Writers(r)' : Distance(RobCapacity, robHead', t)
                                       <= Distance(RobCapacity, robHead', ROB!Slot(id))
  BY DEF NamesYoungest, ROB!Age, Distance, ROB!Slot, RF!RobIds
<1> HIDE DEF pop, push, id
<1>9. \A s \in ROB!Slots :
        /\ ROB!Age(s) = Distance(RobCapacity, robHead, s)
        /\ ROB!Age(s)' = Distance(RobCapacity, robHead', s)
  BY AgeIs
<1>10. CASE adds
  <2>1. ~forgets
    BY <1>1, <1>2, <1>3, <1>4, <1>10, TailId, RobSlots
  <2>2. id = ROB!Id(robTail) /\ id \in RF!RobIds /\ ROB!Slot(id) = robTail
    BY <1>1, <1>2, <1>6, <1>10, <2>1, TailId, RobSlots
  <2>3. robTail \in Writers(r)' /\ robTail \in ROB!Live'
    BY <1>2, <1>3, <1>7, <1>10
  <2>4. ASSUME NEW t \in Writers(r)'
        PROVE  Distance(RobCapacity, robHead', t) <= Distance(RobCapacity, robHead', robTail)
    <3>1. t \in ROB!Slots /\ t \in ROB!Live' /\ (t = robTail \/ t \in ROB!Live)
      BY <1>3, <1>7 DEF Writers
    <3>2. ROB!Age(t) <= ROB!Age(robTail)
      BY <1>2, <1>3, <3>1
    <3> QED
      BY <1>2, <1>3, <1>9, <2>3, <3>1, <3>2
  <2> QED
    BY <1>8, <2>2, <2>3, <2>4
<1>11. CASE ~adds /\ forgets
  <2>1. id = 0 /\ robIds[r] = ROB!Id(robHead) /\ robIds[r] # 0
    BY <1>6, <1>11
  <2>2. /\ ROB!Slot(robIds[r]) = robHead
        /\ \A t \in Writers(r) : ROB!Age(t) <= ROB!Age(robHead)
    BY <1>1, <1>2, <2>1, RobSlots DEF Renamed, NamesYoungest
  <2>3. ASSUME NEW t \in Writers(r)' PROVE FALSE
    <3>1. t \in Writers(r) /\ t # robHead /\ t \in ROB!Slots
      BY <1>7, <1>11
    <3>2. ROB!Age(t) <= 0 /\ ROB!Age(t) >= 0 /\ ROB!Age(robHead) = 0
      BY <1>1, <1>2, <1>4, <1>11, <2>2, <3>1
    <3> QED
      BY <1>2, <3>1, <3>2, AgeInjective
  <2> QED
    BY <1>8, <2>1, <2>3
<1>12. CASE ~adds /\ ~forgets
  <2>1. id = robIds[r]
    BY <1>6, <1>12
  <2>2. CASE robIds[r] = 0 /\ Writers(r) = {}
    BY <1>7, <1>8, <1>12, <2>1, <2>2
  <2>3. CASE /\ robIds[r] \in RF!RobIds
             /\ ROB!Slot(robIds[r]) \in Writers(r)
             /\ \A t \in Writers(r) : ROB!Age(t) <= ROB!Age(ROB!Slot(robIds[r]))
    <3> DEFINE y == ROB!Slot(id)
    <3>1. y \in ROB!Slots /\ y \in Writers(r) /\ id \in RF!RobIds /\ id # 0 /\ id = ROB!Id(y)
      BY <1>7, <2>1, <2>3, RobSlots, CpuAssumption DEF RF!RobIds
    <3>2. ~(pop /\ y = robHead)
      BY <1>7, <1>12, <2>1, <3>1
    <3>3. y \in Writers(r)' /\ y \in ROB!Live'
      BY <1>3, <1>7, <3>1, <3>2
    <3>4. ASSUME NEW t \in Writers(r)'
          PROVE  Distance(RobCapacity, robHead', t) <= Distance(RobCapacity, robHead', y)
      <4>1. t \in ROB!Slots /\ t \in ROB!Live' /\ t \in Writers(r)
        BY <1>7, <1>12 DEF Writers
      <4>2. ROB!Age(t) <= ROB!Age(y)
        BY <2>1, <2>3, <4>1
      <4> HIDE DEF y
      <4> QED
        BY <1>2, <1>3, <1>9, <3>1, <3>3, <4>1, <4>2
    <3> QED
      BY <1>8, <3>1, <3>3, <3>4
  <2> QED
    BY <1>1, <2>2, <2>3 DEF Renamed, NamesYoungest
<1> QED
  BY <1>10, <1>11, <1>12


(* A queue of length zero holds no writer.                                 *)
LEMMA EmptyRing ==
  /\ robHead = 0 /\ robTail = 0 => ROB!Live = {}
  /\ robHead' = 0 /\ robTail' = 0 => ROB!Live' = {}
<1>1. 0 \in ROB!Slots /\ RobCapacity \in Nat \ {0} /\ ROB!Slots = 0 .. RobCapacity - 1
  BY CpuAssumption DEF ROB!Slots
<1>2. ~(Distance(RobCapacity, 0, 0) < Distance(RobCapacity, 0, 0))
  BY <1>1, DistanceIs
<1>3. Distance(RobCapacity, 0, 0) = 0
  BY <1>1, DistanceIs
<1>4. ASSUME robHead = 0, robTail = 0
      PROVE  ROB!Live = {}
  <2>1. ROB!robs!Length = 0
    BY <1>3, <1>4 DEF ROB!robs!Length, Distance
  <2> QED
    BY <2>1 DEF ROB!Live, ROB!robs!Live
<1>5. ASSUME robHead' = 0, robTail' = 0
      PROVE  ROB!Live' = {}
  <2>1. ROB!robs!Length' = 0
    BY <1>3, <1>5 DEF ROB!robs!Length, Distance
  <2> QED
    BY <2>1 DEF ROB!Live, ROB!robs!Live
<1> QED
  BY <1>4, <1>5

LEMMA RenameInit == Init => RenameInv
<1> SUFFICES ASSUME Init PROVE RenameInv
  OBVIOUS
<1>1. TypeOK
  BY InitTypes
<1>2. robClear = rfClear /\ robHead = 0 /\ robTail = 0 /\ \A r \in Reg : robIds[r] = 0
  BY DEF Init, RF!Init, ROB!Init, RF!Reg, Reg, RF!NoRob
<1>3. Renamed
  <2>1. \A r : Writers(r) = {}
    BY <1>2, EmptyRing DEF Writers
  <2> QED
    BY <1>2, <2>1 DEF Renamed, NamesYoungest
<1> QED
  BY <1>1, <1>2, <1>3 DEF RenameInv

LEMMA RenameStep == RenameInv /\ [Next]_vars => RenameInv'
<1> SUFFICES ASSUME RenameInv, [Next]_vars PROVE RenameInv'
  OBVIOUS
<1>1. TypeOK'
  BY Typing DEF RenameInv
<1>2. CASE UNCHANGED vars
  <2>1. /\ robClear' = robClear /\ rfClear' = rfClear /\ robIds' = robIds
        /\ robHead' = robHead /\ robTail' = robTail /\ robPayload' = robPayload
    BY <1>2 DEF vars
  <2>2. ROB!Live' = ROB!Live
    BY <2>1 DEF ROB!Live, ROB!robs!Live, ROB!robs!Nth, ROB!robs!Length, ROB!robs!Trunc
  <2>3. \A r : Writers(r)' = Writers(r)
    BY <2>1, <2>2 DEF Writers
  <2>4. Renamed => Renamed'
    BY <2>1, <2>3 DEF Renamed, NamesYoungest, ROB!Age, ROB!Slot, RF!RobIds
  <2> QED
    BY <1>1, <2>1, <2>4 DEF RenameInv
<1>3. CASE Next
  <2>1. PICK take \in {0, 1} : Tick(take)
    BY <1>3 DEF Next
  <2>2. robClear' = rfClear'
    BY <2>1 DEF Tick, RF!Tick, ROB!Tick, ROB!robs!Move
  <2>3. CASE ~rfClear
    BY <1>1, <2>1, <2>2, <2>3, RenamedKept DEF RenameInv
  <2>4. CASE rfClear
    <3>1. \A r \in Reg : robIds'[r] = 0
      BY <2>1, <2>4 DEF Tick, RF!Tick, RF!Forgets, RF!Reg, Reg, RF!NoRob
    <3>2. robHead' = 0 /\ robTail' = 0
      BY <2>1, <2>4 DEF RenameInv, Tick, ROB!Tick, ROB!robs!Move
    <3>3. \A r : Writers(r)' = {}
      BY <3>2, EmptyRing DEF Writers
    <3>4. Renamed'
      BY <3>1, <3>3 DEF Renamed, NamesYoungest
    <3> QED
      BY <1>1, <2>2, <3>4 DEF RenameInv
  <2> QED
    BY <2>3, <2>4
<1> QED
  BY <1>2, <1>3

(* A register is named by its youngest writer, and by no other.            *)
LEMMA RenamedMeans == RenameInv => RenamesYoungest
<1> SUFFICES ASSUME RenameInv, ~rfClear, NEW r \in Reg \ {0}
             PROVE  robIds[r] = IF Writers(r) = {} THEN 0
                                ELSE ROB!Id(CHOOSE s \in Writers(r) :
                                              \A t \in Writers(r) : ROB!Age(t) <= ROB!Age(s))
  BY DEF RenamesYoungest
<1>1. NamesYoungest(r) /\ RobTypes
  BY DEF RenameInv, Renamed, TypeOK
<1>2. CASE Writers(r) = {}
  BY <1>1, <1>2 DEF NamesYoungest
<1>3. CASE Writers(r) # {}
  <2> DEFINE y == ROB!Slot(robIds[r])
             c == CHOOSE s \in Writers(r) : \A t \in Writers(r) : ROB!Age(t) <= ROB!Age(s)
  <2>1. /\ robIds[r] \in RF!RobIds /\ y \in Writers(r)
        /\ \A t \in Writers(r) : ROB!Age(t) <= ROB!Age(y)
    BY <1>1, <1>3 DEF NamesYoungest
  <2>2. c \in Writers(r) /\ \A t \in Writers(r) : ROB!Age(t) <= ROB!Age(c)
    <3> HIDE DEF y
    <3> QED
      BY <2>1
  <2>3. Writers(r) \subseteq ROB!Slots /\ robHead \in ROB!Slots
    BY <1>1, LiveSlots DEF Writers, RobTypes
  <2>4. ROB!Age(y) = ROB!Age(c)
    <3>1. RobCapacity \in Nat \ {0} /\ ROB!Slots = 0 .. RobCapacity - 1
      BY CpuAssumption DEF ROB!Slots
    <3>2. ROB!Age(y) \in Nat /\ ROB!Age(c) \in Nat
      BY <2>1, <2>2, <2>3, <3>1, AgeIs, DistanceIs
    <3> HIDE DEF y, c
    <3> QED
      BY <2>1, <2>2, <3>2
  <2>5. y = c
    <3> HIDE DEF y, c
    <3> QED
      BY <2>1, <2>2, <2>3, <2>4, AgeInjective
  <2> QED
    BY <1>3, <2>1, <2>5, RobSlots
<1> QED
  BY <1>2, <1>3

(* The renaming table always names the youngest instruction in flight that *)
(* writes a register: an operand is never taken from an older producer or  *)
(* from the register of a younger one, whatever is flushed or committed    *)
(* (reg-store.c:16-27, inst-unit.c, reorder-buffer.c).                     *)
THEOREM RenamingCorrect == Spec => []RenamesYoungest
<1>1. Spec => []RenameInv
  BY RenameInit, RenameStep, PTL DEF Spec
<1> QED
  BY <1>1, RenamedMeans, PTL

-----------------------------------------------------------------------------
(* Sets of numbers.                                                        *)

(* A set of numbers that is not empty has a least one.                     *)
LEMMA Least ==
  ASSUME NEW T, T \subseteq Nat, T # {}
  PROVE  \E x \in T : \A y \in T : x <= y
<1> DEFINE R == OpToRel(<, Nat)
<1>1. IsWellFoundedOn(R, Nat)
  BY NatLessThanWellFounded, Zenon
<1>2. \A x, y \in Nat : <<y, x>> \in R <=> y < x
  BY DEF OpToRel
<1> HIDE DEF R
<1>3. PICK x \in T : \A y \in T : ~(<<y, x>> \in R)
  BY <1>1, WFMin
<1>4. x \in Nat /\ \A y \in T : y \in Nat /\ ~(y < x)
  BY <1>2, <1>3
<1> QED
  BY <1>4

-----------------------------------------------------------------------------
(* The flags of a flush.                                                   *)

(* The tick after a misprediction finds every component clearing, and the  *)
(* bus goes on for one more.                                               *)
Phase ==
  /\ rfClear = robClear /\ rsClear = robClear /\ lsClear = robClear /\ memClear = robClear
  /\ forcePc.busy = robClear
  /\ (busClear = 2) = robClear

LEMMA PhaseStep ==
  ASSUME TypeOK, Phase, NEW take \in {0, 1}, Tick(take)
  PROVE  /\ Phase'
         /\ robClear' = ROB!Flushes
         /\ busClear' = IF ROB!Flushes THEN 2 ELSE IF busClear > 0 THEN busClear - 1 ELSE 0
         /\ ROB!Flushes => busClear = 0
<1>1. /\ robClear' = ROB!Flushes /\ rfClear' = ROB!Flushes /\ rsClear' = ROB!Flushes
      /\ lsClear' = ROB!Flushes /\ memClear' = ROB!Flushes
      /\ busClear' = IF ROB!Flushes THEN 2 ELSE CDB!Countdown
  BY DEF Tick, ROB!Tick, ROB!robs!Move, RF!Tick, RS!Tick, LSQ!Tick, MEM!Tick, CDB!Tick
<1>2. ROB!Flushes \in BOOLEAN /\ busClear \in 0 .. 2 /\ forcePc \in [busy : BOOLEAN, addr : Word]
  BY DEF TypeOK, RobTypes, CdbTypes, IuTypes, ROB!Flushes, ROB!Commits
<1>3. ROB!Flushes => busClear = 0
  BY <1>2 DEF Tick, DoubleWrite, CDB!DoubleWrite
<1>4. forcePc'.busy = ROB!Flushes
  <2>1. Forced # {} <=> ROB!Flushes
    BY DEF Forced
  <2>2. forcePc' = IF Forced # {} THEN [busy |-> TRUE, addr |-> CHOOSE a \in Forced : TRUE]
                   ELSE [forcePc EXCEPT !.busy = FALSE]
    BY DEF Tick, IU!Tick
  <2> QED
    BY <1>2, <2>1, <2>2
<1> QED
  BY <1>1, <1>2, <1>3, <1>4 DEF Phase, CDB!Countdown

-----------------------------------------------------------------------------
(* The helpers of the bus.                                                 *)

(* A helper asks for the bus iff its competing buffer is loaded, and the   *)
(* spare one is loaded only behind it.  The memory, which the arbiter      *)
(* prefers, never needs its spare.  A clear leaves every buffer empty.     *)
HelpersInv ==
  /\ busClear = 0 => \A h \in CDB!Helpers :
       /\ h \in req <=> bhBusy[h][current[h]]
       /\ bhBusy[h][1 - current[h]] => bhBusy[h][current[h]] /\ h # MemHelper
  /\ busClear = 1 => \A h \in CDB!Helpers, ix \in CDB!Buffers : ~bhBusy[h][ix]

(* While it clears, nothing is in the memory's load slots.                 *)
LoadsCleared == busClear = 1 => \A i \in MEM!MemSlots : ~loads[i].busy

(* Messages are given only to helpers that neither stall nor clear.        *)
LEMMA SentFacts ==
  ASSUME TypeOK, Phase, LoadsCleared, NEW h \in CDB!Helpers, Sent[h] # {}
  PROVE  /\ ~CDB!Stall(h) /\ busClear = 0
<1>1. busClear \in 0 .. 2 /\ memClear \in BOOLEAN
  BY DEF TypeOK, CdbTypes, MemTypes
<1>2. Sent[h] = IF h = MemHelper THEN MEM!Sends(MemStall)
                ELSE ALU!Sends(h - 1, AluStall, CDB!ShouldClear)
  BY DEF Sent, CDB!Helpers
<1>3. CASE h = MemHelper
  <2>1. MEM!Sends(MemStall) # {}
    BY <1>2, <1>3
  <2>2. ~MemStall /\ MEM!Sender # {}
    BY <2>1 DEF MEM!Sends
  <2>3. PICK i \in MEM!Sender : ~memClear /\ i \in MEM!MemSlots /\ loads[i].busy
    BY <2>2 DEF MEM!Sender, MEM!Due
  <2>4. busClear # 2
    BY <1>1, <2>3 DEF Phase
  <2> QED
    BY <1>1, <1>3, <2>2, <2>3, <2>4 DEF LoadsCleared, MemStall
<1>4. CASE h # MemHelper
  <2>1. ALU!Sends(h - 1, AluStall, CDB!ShouldClear) # {}
    BY <1>2, <1>4
  <2>2. ~CDB!ShouldClear /\ ~AluStall[h - 1]
    BY <2>1 DEF ALU!Sends
  <2>3. h - 1 \in 1 .. AluCount /\ AluHelper(h - 1) = h
    BY <1>4, CpuAssumption DEF CDB!Helpers, HelperCount, MemHelper, AluHelper
  <2> QED
    BY <1>1, <2>2, <2>3 DEF AluStall, CDB!ShouldClear
<1> QED
  BY <1>3, <1>4

(* The memory's helper has the lowest number, so that it wins whenever it  *)
(* asks and never makes the memory wait.                                   *)
LEMMA MemoryNeverStalls ==
  ASSUME TypeOK, HelpersInv, busClear # 2
  PROVE  ~MemStall
<1> DEFINE h == MemHelper
           cur == current[h]
           alt == 1 - current[h]
<1>1. h \in CDB!Helpers /\ \A k \in CDB!Helpers : h <= k
  BY CpuAssumption DEF CDB!Helpers, HelperCount, MemHelper
<1>2. cur \in {0, 1} /\ alt \in {0, 1} /\ 1 - alt = cur /\ busClear \in {0, 1} /\ CDB!Buffers = {0, 1}
      /\ req \subseteq CDB!Helpers
  BY <1>1 DEF TypeOK, CdbTypes, CDB!Buffers
<1>3. CASE busClear = 0
  <2>1. ~bhBusy[h][alt] /\ (h \in req <=> bhBusy[h][cur])
    BY <1>1, <1>3 DEF HelpersInv
  <2>2. bhBusy[h][cur] => CDB!Granted(h)
    BY <1>1, <1>2, <1>3, <2>1 DEF CDB!Granted, CDB!Wins
  <2>3. CDB!ReqIx(h) = CDB!NoBuffer
    BY <2>1, <2>2 DEF CDB!ReqIx, CDB!Keeps, CDB!Swaps
  <2> QED
    BY <2>3 DEF MemStall, CDB!Stall
<1>4. CASE busClear = 1
  <2>1. ~bhBusy[h][alt] /\ ~bhBusy[h][cur]
    BY <1>1, <1>2, <1>4 DEF HelpersInv
  <2>2. CDB!ReqIx(h) = CDB!NoBuffer
    BY <2>1 DEF CDB!ReqIx, CDB!Keeps, CDB!Swaps
  <2> QED
    BY <2>2 DEF MemStall, CDB!Stall
<1> QED
  BY <1>2, <1>3, <1>4


(* What a tick outside of a clear does to a helper: the message that wins  *)
(* leaves, the others stay, and a new one finds a free buffer.             *)
LEMMA HelperStep ==
  ASSUME TypeOK, Phase, HelpersInv, LoadsCleared, busClear = 0, NEW take \in {0, 1}, Tick(take),
         NEW h \in CDB!Helpers
  PROVE  /\ CDB!Wins(h) => bhBusy[h][current[h]]
         /\ CDB!Acquires(h) \in CDB!Buffers
         /\ Sent[h] # {} => ~bhBusy[h][CDB!Acquires(h)] \/
                              (CDB!Wins(h) /\ CDB!Acquires(h) = current[h])
         /\ \A ix \in CDB!Buffers :
              bhBusy'[h][ix] <=> \/ bhBusy[h][ix] /\ ~(CDB!Wins(h) /\ ix = current[h])
                                 \/ Sent[h] # {} /\ ix = CDB!Acquires(h)
         /\ h \in req' <=> bhBusy'[h][current'[h]]
         /\ bhBusy'[h][1 - current'[h]] => bhBusy'[h][current'[h]] /\ h # MemHelper
<1> DEFINE cur == current[h]
           alt == 1 - current[h]
           new == Sent[h] # {}
<1>1. /\ cur \in {0, 1} /\ alt \in {0, 1} /\ alt # cur /\ 1 - alt = cur
      /\ CDB!Buffers = {0, 1}
      /\ cur # CDB!NoBuffer /\ alt # CDB!NoBuffer
  BY DEF TypeOK, CdbTypes, CDB!Buffers, CDB!NoBuffer
<1>2. /\ bhBusy[h][cur] \in BOOLEAN /\ bhBusy[h][alt] \in BOOLEAN
      /\ h \in req <=> bhBusy[h][cur]
      /\ bhBusy[h][alt] => bhBusy[h][cur] /\ h # MemHelper
  BY <1>1 DEF HelpersInv, TypeOK, CdbTypes
<1>3. /\ CDB!Granted(h) <=> CDB!Wins(h)
      /\ CDB!Wins(h) => bhBusy[h][cur]
  BY <1>2 DEF CDB!Granted, CDB!Wins
<1>4. /\ CDB!Keeps(h) <=> bhBusy[h][cur] /\ ~CDB!Wins(h)
      /\ CDB!Swaps(h) <=> ~CDB!Keeps(h) /\ bhBusy[h][alt]
  BY <1>3 DEF CDB!Keeps, CDB!Swaps
<1>5. new => ~CDB!Stall(h)
  BY SentFacts
<1>6. /\ h \in req' <=> CDB!Keeps(h) \/ CDB!Swaps(h) \/ (new /\ CDB!ReqIx(h) = CDB!NoBuffer)
      /\ current'[h] = IF CDB!Swaps(h) THEN alt ELSE cur
      /\ \A ix \in CDB!Buffers :
           bhBusy'[h][ix] = (CDB!Keep(h, ix) \/ (new /\ ix = CDB!Acquires(h)))
  BY DEF Tick, CDB!Tick
<1>7. /\ CDB!Keep(h, cur) <=> bhBusy[h][cur] /\ CDB!Keeps(h)
      /\ CDB!Keep(h, alt) <=> bhBusy[h][alt]
  BY <1>1 DEF CDB!Keep
<1>8. h = MemHelper => ~CDB!Keeps(h)
  <2>1. \A k \in CDB!Helpers : MemHelper <= k
    BY CpuAssumption DEF CDB!Helpers, HelperCount, MemHelper
  <2>2. req \subseteq CDB!Helpers
    BY DEF TypeOK, CdbTypes
  <2> QED
    BY <1>2, <1>4, <2>1, <2>2 DEF CDB!Wins
<1> HIDE DEF new
<1>9. CASE CDB!Keeps(h)
  <2>1. CDB!ReqIx(h) = cur /\ CDB!Acquires(h) = alt
    BY <1>1, <1>9 DEF CDB!ReqIx, CDB!Acquires
  <2>2. new => ~bhBusy[h][alt]
    BY <1>1, <1>5, <2>1 DEF CDB!Stall
  <2> QED
    BY <1>1, <1>2, <1>4, <1>6, <1>7, <1>8, <1>9, <2>1, <2>2 DEF new
<1>10. CASE CDB!Swaps(h)
  <2>1. CDB!ReqIx(h) = alt /\ CDB!Acquires(h) = cur /\ ~CDB!Keeps(h)
    BY <1>1, <1>4, <1>10 DEF CDB!ReqIx, CDB!Acquires
  <2>2. bhBusy[h][cur] /\ CDB!Wins(h) /\ bhBusy[h][alt]
    BY <1>2, <1>4, <1>10
  <2>3. ~new
    BY <1>1, <1>5, <2>1, <2>2 DEF CDB!Stall
  <2> QED
    BY <1>1, <1>4, <1>6, <1>7, <1>10, <2>1, <2>2, <2>3 DEF new
<1>11. CASE ~CDB!Keeps(h) /\ ~CDB!Swaps(h)
  <2>1. CDB!ReqIx(h) = CDB!NoBuffer /\ CDB!Acquires(h) = cur
    BY <1>11 DEF CDB!ReqIx, CDB!Acquires
  <2>2. ~bhBusy[h][alt] /\ (bhBusy[h][cur] <=> CDB!Wins(h))
    BY <1>2, <1>3, <1>4, <1>11
  <2> QED
    BY <1>1, <1>4, <1>6, <1>7, <1>11, <2>1, <2>2 DEF new
<1> QED
  BY <1>9, <1>10, <1>11

(* The clear of the bus.                                                   *)
LEMMA BusClearStep ==
  ASSUME TypeOK, Phase, LoadsCleared, busClear # 0, NEW take \in {0, 1}, Tick(take)
  PROVE  /\ req' = {} /\ ~fire'
         /\ \A h \in CDB!Helpers, ix \in CDB!Buffers : ~bhBusy'[h][ix]
<1>1. \A h \in CDB!Helpers : Sent[h] = {}
  BY SentFacts
<1>2. CDB!Tick(Sent, ROB!Flushes)
  BY DEF Tick
<1>3. \A h \in CDB!Helpers, ix \in CDB!Buffers : ~bhBusy'[h][ix]
  BY <1>1, <1>2 DEF CDB!Tick, CDB!Keep
<1>4. ~fire' /\ req' = {}
  BY <1>2 DEF CDB!Tick, CDB!Wins
<1> QED
  BY <1>3, <1>4

LEMMA HelpersStep ==
  ASSUME TypeOK, Phase, HelpersInv, LoadsCleared, NEW take \in {0, 1}, Tick(take)
  PROVE  HelpersInv'
<1>1. CdbTypes' /\ busClear \in 0 .. 2
  BY CdbTyping DEF TypeOK, CdbTypes
<1>2. CASE busClear = 0
  <2>1. busClear' # 1
    BY <1>2, PhaseStep
  <2>2. \A h \in CDB!Helpers :
          /\ h \in req' <=> bhBusy'[h][current'[h]]
          /\ bhBusy'[h][1 - current'[h]] => bhBusy'[h][current'[h]] /\ h # MemHelper
    BY <1>2, HelperStep
  <2> QED
    BY <2>1, <2>2 DEF HelpersInv, CDB!Helpers, HelperCount, MemHelper
<1>3. CASE busClear # 0
  <2>1. req' = {} /\ \A h \in CDB!Helpers, ix \in CDB!Buffers : ~bhBusy'[h][ix]
    BY <1>3, BusClearStep
  <2>2. \A h \in CDB!Helpers : current'[h] \in CDB!Buffers /\ 1 - current'[h] \in CDB!Buffers
    BY <1>1 DEF CdbTypes, CDB!Buffers, CDB!Helpers
  <2>3. \A h \in CDB!Helpers : ~bhBusy'[h][current'[h]] /\ ~bhBusy'[h][1 - current'[h]] /\ h \notin req'
    BY <2>1, <2>2
  <2> QED
    BY <2>1, <2>3 DEF HelpersInv, CDB!Helpers, HelperCount, MemHelper, CDB!Buffers
<1> QED
  BY <1>2, <1>3

-----------------------------------------------------------------------------
(* The slots of the memory.                                                *)

(* The accesses of one kind entered one by one, and each leaves when its   *)
(* time is up: no two of them have the same time left.                     *)
Staggered(slots) ==
  /\ \A i \in MEM!MemSlots : slots[i].busy => slots[i].ticks \in 1 .. MemTicks - 1
  /\ \A i, j \in MEM!MemSlots :
       slots[i].busy /\ slots[j].busy /\ slots[i].ticks = slots[j].ticks => i = j

(* Accesses with different times left do not fill the slots.               *)
LEMMA StaggeredLeavesRoom ==
  ASSUME NEW slots, Staggered(slots)
  PROVE  MEM!FirstFree(slots) # {}
<1>1. MemTicks \in Nat \ {0, 1} /\ MEM!MemSlots = 0 .. MemTicks - 1
  BY CpuAssumption DEF MEM!MemSlots
<1> DEFINE free == {i \in MEM!MemSlots : ~slots[i].busy}
<1>2. ASSUME free = {} PROVE FALSE
  <2> DEFINE S == 0 .. MemTicks - 1
             T == 1 .. MemTicks - 1
             f == [i \in S |-> slots[i].ticks]
  <2>1. \A i \in S : slots[i].busy
    BY <1>1, <1>2
  <2>2. f \in [S -> T]
    BY <1>1, <2>1 DEF Staggered
  <2>3. IsFiniteSet(S) /\ Cardinality(S) = MemTicks
    BY <1>1, FS_Interval
  <2>4. IsFiniteSet(T) /\ Cardinality(T) = MemTicks - 1
    BY <1>1, FS_Interval
  <2>5. Cardinality(T) < Cardinality(S)
    BY <1>1, <2>3, <2>4
  <2>6. \E i, j \in S : i # j /\ f[i] = f[j]
    <3> HIDE DEF S, T, f
    <3> QED
      BY <2>2, <2>3, <2>4, <2>5, FS_PigeonHole
  <2>7. PICK i \in S, j \in S : i # j /\ slots[i].ticks = slots[j].ticks
    BY <2>6
  <2> QED
    BY <1>1, <2>1, <2>7 DEF Staggered
<1>3. free \subseteq Nat
  BY <1>1
<1>4. PICK i \in free : \A j \in free : i <= j
  <2> HIDE DEF free
  <2> QED
    BY <1>2, <1>3, Least
<1>5. \A j \in MEM!MemSlots : j < i => slots[j].busy
  BY <1>1, <1>4
<1> QED
  BY <1>4, <1>5 DEF MEM!FirstFree


SlotsInv ==
  /\ TypeOK /\ Phase /\ HelpersInv /\ LoadsCleared
  /\ Staggered(loads) /\ Staggered(stores)

(* The first free slot is one.                                             *)
LEMMA OneFree ==
  ASSUME NEW slots, NEW i \in MEM!FirstFree(slots), NEW j \in MEM!FirstFree(slots)
  PROVE  i = j
<1>1. i \in Int /\ j \in Int
  BY CpuAssumption DEF MEM!FirstFree, MEM!MemSlots
<1>2. ~(i < j) /\ ~(j < i)
  BY DEF MEM!FirstFree
<1> QED
  BY <1>1, <1>2

(* A load leaves when its time is up, as the bus never makes it wait.      *)
LEMMA LoadsStep ==
  ASSUME SlotsInv, NEW take \in {0, 1}, Tick(take)
  PROVE  Staggered(loads)' /\ LoadsCleared'
<1>1. /\ TypeOK /\ Phase /\ HelpersInv /\ LoadsCleared /\ Staggered(loads)
      /\ busClear \in 0 .. 2 /\ memClear \in BOOLEAN
      /\ MemTicks \in Nat \ {0, 1} /\ MEM!MemSlots = 0 .. MemTicks - 1
  BY CpuAssumption DEF SlotsInv, TypeOK, CdbTypes, MemTypes, MEM!MemSlots
<1>2. ASSUME NEW i \in MEM!MemSlots
      PROVE  loads'[i] =
               IF LSQ!LoadRequests # {} /\ i \in MEM!FirstFree(loads)
                 THEN LET p == CHOOSE p \in LSQ!LoadRequests : TRUE
                      IN  [busy |-> TRUE, ticks |-> MemTicks - 1, addr |-> p.addr,
                           size |-> p.size, rob |-> p.rob]
               ELSE IF memClear THEN [loads[i] EXCEPT !.busy = FALSE]
               ELSE IF loads[i].busy
                 THEN [loads[i] EXCEPT !.ticks = loads[i].ticks - 1,
                                       !.busy = i \notin MEM!Sender \/ MemStall]
               ELSE loads[i]
  BY DEF Tick, MEM!Tick
<1>3. \A i \in MEM!MemSlots :
        loads[i] \in [busy : BOOLEAN, ticks : Int, addr : Word, size : Sizes, rob : 0 .. RobCapacity]
  BY <1>1 DEF TypeOK, MemTypes
<1> DEFINE entering(i) == LSQ!LoadRequests # {} /\ i \in MEM!FirstFree(loads)
<1>4. ASSUME memClear
      PROVE  \A i \in MEM!MemSlots : ~loads'[i].busy
  <2>1. LSQ!LoadRequests = {}
    BY <1>1, <1>4 DEF Phase, LSQ!LoadRequests, LSQ!Popped
  <2> QED
    BY <1>2, <1>3, <1>4, <2>1
<1>5. ASSUME ~memClear, NEW i \in MEM!MemSlots, loads'[i].busy
      PROVE  \/ entering(i) /\ loads'[i].ticks = MemTicks - 1
             \/ /\ loads[i].busy /\ loads[i].ticks \in 2 .. MemTicks - 1
                /\ loads'[i].ticks = loads[i].ticks - 1
  <2>1. CASE entering(i)
    <3> DEFINE p == CHOOSE p \in LSQ!LoadRequests : TRUE
    <3>1. loads'[i] = [busy |-> TRUE, ticks |-> MemTicks - 1, addr |-> p.addr,
                       size |-> p.size, rob |-> p.rob]
      BY <1>2, <2>1
    <3> QED
      BY <2>1, <3>1
  <2>2. CASE ~entering(i)
    <3>1. loads[i].busy
      BY <1>2, <1>5, <2>2
    <3>2. /\ loads'[i].ticks = loads[i].ticks - 1
          /\ loads'[i].busy = (i \notin MEM!Sender \/ MemStall)
      <4>1. loads'[i] = [loads[i] EXCEPT !.ticks = loads[i].ticks - 1,
                                         !.busy = i \notin MEM!Sender \/ MemStall]
        BY <1>2, <1>5, <2>2, <3>1
      <4> QED
        BY <1>3, <4>1
    <3>3. ~MemStall
      BY <1>1, <1>5, MemoryNeverStalls DEF Phase
    <3>4. i \notin MEM!Sender
      BY <1>5, <3>2, <3>3
    <3>5. loads[i].ticks \in 1 .. MemTicks - 1
      BY <1>1, <3>1 DEF Staggered
    <3>6. loads[i].ticks # 1
      <4>1. SUFFICES ASSUME loads[i].ticks = 1 PROVE FALSE
        OBVIOUS
      <4>2. \A j \in MEM!MemSlots : MEM!Due(j) => j = i
        <5>1. ASSUME NEW j \in MEM!MemSlots, MEM!Due(j) PROVE j = i
          <6>1. loads[j].busy /\ loads[j].ticks <= 1
            BY <5>1 DEF MEM!Due
          <6>2. loads[j].ticks \in 1 .. MemTicks - 1
            BY <1>1, <6>1 DEF Staggered
          <6>3. loads[j].ticks = 1
            BY <1>1, <6>1, <6>2
          <6> QED
            BY <1>1, <3>1, <4>1, <6>1, <6>3 DEF Staggered
        <5> QED
          BY <5>1
      <4>3. i \in MEM!Sender
        BY <1>1, <1>5, <3>1, <4>1, <4>2 DEF MEM!Sender, MEM!Due
      <4> QED
        BY <3>4, <4>3
    <3> QED
      BY <1>1, <3>1, <3>2, <3>5, <3>6
  <2> QED
    BY <2>1, <2>2
<1>6. Staggered(loads)'
  <2>1. \A i \in MEM!MemSlots : loads'[i].busy => loads'[i].ticks \in 1 .. MemTicks - 1
    BY <1>1, <1>4, <1>5
  <2>2. ASSUME NEW i \in MEM!MemSlots, NEW j \in MEM!MemSlots,
               loads'[i].busy, loads'[j].busy, loads'[i].ticks = loads'[j].ticks
        PROVE  i = j
    <3>1. ~memClear
      BY <1>4, <2>2
    <3>2. CASE entering(i) /\ entering(j)
      BY <3>2, OneFree
    <3>3. CASE ~(entering(i) /\ entering(j))
      <4> HIDE DEF entering
      <4>1. /\ loads[i].busy /\ loads[j].busy
            /\ loads[i].ticks = loads[j].ticks
        BY <1>1, <1>5, <2>2, <3>1, <3>3
      <4> QED
        BY <1>1, <4>1 DEF Staggered
    <3> QED
      BY <3>2, <3>3
  <2> QED
    BY <2>1, <2>2 DEF Staggered, MEM!MemSlots
<1>7. LoadsCleared'
  <2>1. busClear' = 1 => memClear
    BY <1>1, PhaseStep DEF Phase
  <2> QED
    BY <1>4, <2>1 DEF LoadsCleared, MEM!MemSlots
<1> QED
  BY <1>6, <1>7

(* A store leaves when its time is up; the clear stops every clock.        *)
LEMMA StoresStep ==
  ASSUME SlotsInv, NEW take \in {0, 1}, Tick(take)
  PROVE  Staggered(stores)'
<1>1. /\ TypeOK /\ Phase /\ Staggered(stores) /\ memClear \in BOOLEAN
      /\ MemTicks \in Nat \ {0, 1} /\ MEM!MemSlots = 0 .. MemTicks - 1
  BY CpuAssumption DEF SlotsInv, TypeOK, MemTypes, MEM!MemSlots
<1> DEFINE entering(i) == LSQ!StoreRequests # {} /\ i \in MEM!FirstFree(stores)
<1>2. ASSUME NEW i \in MEM!MemSlots
      PROVE  stores'[i] =
               IF entering(i)
                 THEN LET p == CHOOSE p \in LSQ!StoreRequests : TRUE
                      IN  [busy |-> TRUE, ticks |-> MemTicks - 1, addr |-> p.addr,
                           size |-> p.size, value |-> p.value]
               ELSE IF stores[i].busy /\ ~memClear
                 THEN [stores[i] EXCEPT !.ticks = stores[i].ticks - 1,
                                        !.busy = i \notin MEM!Completing]
               ELSE stores[i]
  BY DEF Tick, MEM!Tick, MEM!Counted
<1>3. \A i \in MEM!MemSlots :
        stores[i] \in [busy : BOOLEAN, ticks : Int, addr : Word, size : Sizes, value : Word]
  BY <1>1 DEF TypeOK, MemTypes
<1>4. ASSUME memClear, NEW i \in MEM!MemSlots PROVE stores'[i] = stores[i]
  <2>1. LSQ!StoreRequests = {}
    BY <1>1, <1>4 DEF Phase, LSQ!StoreRequests, LSQ!Popped
  <2> QED
    BY <1>2, <1>4, <2>1
<1>5. ASSUME ~memClear, NEW i \in MEM!MemSlots, stores'[i].busy
      PROVE  \/ entering(i) /\ stores'[i].ticks = MemTicks - 1
             \/ /\ stores[i].busy /\ stores[i].ticks \in 2 .. MemTicks - 1
                /\ stores'[i].ticks = stores[i].ticks - 1
  <2>1. CASE entering(i)
    <3> DEFINE p == CHOOSE p \in LSQ!StoreRequests : TRUE
    <3>1. stores'[i] = [busy |-> TRUE, ticks |-> MemTicks - 1, addr |-> p.addr,
                       size |-> p.size, value |-> p.value]
      BY <1>2, <2>1
    <3> QED
      BY <2>1, <3>1
  <2>2. CASE ~entering(i)
    <3>1. stores[i].busy
      BY <1>2, <1>5, <2>2
    <3>2. /\ stores'[i].ticks = stores[i].ticks - 1
          /\ stores'[i].busy = (i \notin MEM!Completing)
      <4>1. stores'[i] = [stores[i] EXCEPT !.ticks = stores[i].ticks - 1,
                                           !.busy = i \notin MEM!Completing]
        BY <1>2, <1>5, <2>2, <3>1
      <4> QED
        BY <1>3, <4>1
    <3>3. stores[i].ticks \in 1 .. MemTicks - 1
      BY <1>1, <3>1 DEF Staggered
    <3>4. stores[i].ticks # 1
      BY <1>5, <3>1, <3>2 DEF MEM!Completing
    <3> QED
      BY <1>1, <3>1, <3>2, <3>3, <3>4
  <2> QED
    BY <2>1, <2>2
<1>6. CASE memClear
  BY <1>1, <1>4, <1>6 DEF Staggered, MEM!MemSlots
<1>7. CASE ~memClear
  <2>1. \A i \in MEM!MemSlots : stores'[i].busy => stores'[i].ticks \in 1 .. MemTicks - 1
    BY <1>1, <1>5, <1>7
  <2>2. ASSUME NEW i \in MEM!MemSlots, NEW j \in MEM!MemSlots,
               stores'[i].busy, stores'[j].busy, stores'[i].ticks = stores'[j].ticks
        PROVE  i = j
    <3>1. CASE entering(i) /\ entering(j)
      BY <3>1, OneFree
    <3>2. CASE ~(entering(i) /\ entering(j))
      <4> HIDE DEF entering
      <4>1. /\ stores[i].busy /\ stores[j].busy
            /\ stores[i].ticks = stores[j].ticks
        BY <1>1, <1>5, <1>7, <2>2, <3>2
      <4> QED
        BY <1>1, <4>1 DEF Staggered
    <3> QED
      BY <3>1, <3>2
  <2> QED
    BY <2>1, <2>2 DEF Staggered, MEM!MemSlots
<1> QED
  BY <1>6, <1>7

LEMMA SlotsInit == Init => SlotsInv
<1> SUFFICES ASSUME Init PROVE SlotsInv
  OBVIOUS
<1>1. TypeOK
  BY InitTypes
<1>2. Phase
  <2>1. ~rfClear /\ ~robClear /\ ~rsClear /\ ~lsClear /\ ~memClear /\ busClear = 0 /\ ~forcePc.busy
    BY DEF Init, IU!Init, RF!Init, ROB!Init, RS!Init, LSQ!Init, MEM!Init, CDB!Init
  <2>2. {rfClear, robClear, rsClear, lsClear, memClear, forcePc.busy} \subseteq BOOLEAN
    BY <1>1 DEF TypeOK, IuTypes, RfTypes, RobTypes, RsTypes, LsqTypes, MemTypes
  <2> QED
    BY <2>1, <2>2 DEF Phase
<1>3. /\ busClear = 0 /\ req = {}
      /\ \A h \in CDB!Helpers, ix \in CDB!Buffers : ~bhBusy[h][ix]
      /\ \A h \in CDB!Helpers : current[h] = 0
      /\ 0 \in CDB!Buffers /\ 1 - 0 \in CDB!Buffers
  BY DEF Init, CDB!Init, CDB!Buffers
<1>4. HelpersInv /\ LoadsCleared
  BY <1>3 DEF HelpersInv, LoadsCleared
<1>5. Staggered(loads) /\ Staggered(stores)
  BY DEF Init, MEM!Init, Staggered
<1> QED
  BY <1>1, <1>2, <1>4, <1>5 DEF SlotsInv

LEMMA SlotsStep == SlotsInv /\ [Next]_vars => SlotsInv'
<1> SUFFICES ASSUME SlotsInv, [Next]_vars PROVE SlotsInv'
  OBVIOUS
<1>1. TypeOK'
  BY Typing DEF SlotsInv
<1>2. CASE UNCHANGED vars
  BY <1>1, <1>2 DEF vars, SlotsInv, Phase, HelpersInv, LoadsCleared, Staggered, MEM!MemSlots,
     CDB!Helpers, CDB!Buffers, HelperCount, MemHelper
<1>3. CASE Next
  <2>1. PICK take \in {0, 1} : Tick(take)
    BY <1>3 DEF Next
  <2>2. Phase' /\ HelpersInv'
    BY <2>1, PhaseStep, HelpersStep DEF SlotsInv
  <2>3. Staggered(loads)' /\ LoadsCleared' /\ Staggered(stores)'
    BY <2>1, LoadsStep, StoresStep
  <2> QED
    BY <1>1, <2>2, <2>3 DEF SlotsInv
<1> QED
  BY <1>2, <1>3

(* A load or a store that leaves the queue always finds a free slot, in a  *)
(* memory of any latency: the scans of _mem_acquire_load_req and           *)
(* _mem_acquire_store_req end within their arrays (memory.c).              *)
THEOREM SlotsCorrect == Spec => []SlotsSuffice
<1>1. Spec => []SlotsInv
  BY SlotsInit, SlotsStep, PTL DEF Spec
<1>2. SlotsInv => SlotsSuffice
  BY StaggeredLeavesRoom DEF SlotsInv, SlotsSuffice, OutOfSlots, MEM!OutOfSlots
<1> QED
  BY <1>1, <1>2, PTL

-----------------------------------------------------------------------------
(* One tick of the reservation stations, station by station.               *)

(* What dispatch fills is one station, which was free.                     *)
LEMMA IntoOne ==
  ASSUME TypeOK
  PROVE  /\ \A s \in IU!Into : s \in RS!Stations /\ ~rsBusy[s] /\ s \in IU!Pool
         /\ \A s, t \in IU!Into : s = t
         /\ IU!Into # {} => IU!inst.op # "UNIMP" /\ ~forcePc.busy
<1>1. \A s \in IU!Into : /\ s \in IU!Pool /\ ~rsBusy[s] /\ s \in Nat
                         /\ s \in RS!Stations
                         /\ \A t \in IU!Into : s <= t
  <2>1. IU!Pool \subseteq RS!Stations /\ RS!Stations \subseteq Nat
    BY CpuAssumption DEF IU!Pool, RS!Stations
  <2>2. ASSUME NEW s \in IU!Into
        PROVE  /\ s \in IU!Pool /\ ~rsBusy[s]
               /\ \A t \in IU!Into : s <= t
    <3>1. \A t \in IU!Into : t \in IU!RS!Acquire(IU!Pool)
      BY DEF IU!Into
    <3> QED
      BY <3>1 DEF IU!RS!Acquire, IU!RS!FirstOf
  <2> QED
    BY <2>1, <2>2
<1>2. \A s, t \in IU!Into : s = t
  BY <1>1
<1>3. IU!Into # {} => IU!inst.op # "UNIMP" /\ ~forcePc.busy
  BY DEF IU!Into
<1> QED
  BY <1>1, <1>2, <1>3

(* A station in a tick.                                                    *)
LEMMA StationStep ==
  ASSUME TypeOK, NEW take \in {0, 1}, Tick(take), NEW s \in RS!Stations
  PROVE  /\ s \in IU!Into => rsBusy'[s] /\ rsPayload'[s] = IU!NewTask(s)
         /\ s \notin IU!Into =>
              /\ rsBusy'[s] <=> rsBusy[s] /\ s \notin RS!Released(AluAccepts, LsFull)
              /\ IF s \in RS!Woken(CDB!Heard)
                   THEN \E m \in CDB!Heard : rsPayload'[s] = RS!WithResult(rsPayload[s], m)
                   ELSE rsPayload'[s] = rsPayload[s]
<1>1. /\ RS!Tick(CDB!Heard, IU!Tasks, AluAccepts, LsFull, ROB!Flushes)
      /\ ~RS!DoubleWrite(CDB!Heard, IU!Tasks, AluAccepts, LsFull, ROB!Flushes)
      /\ RsTypes
  BY DEF Tick, DoubleWrite, TypeOK
<1> DEFINE busies == {<<t, FALSE>> : t \in RS!Released(AluAccepts, LsFull)}
                     \cup {<<d.station, TRUE>> : d \in IU!Tasks}
           writes == {<<t, RS!WithResult(rsPayload[t], m)>> : t \in RS!Woken(CDB!Heard), m \in CDB!Heard}
                     \cup {<<d.station, d.payload>> : d \in IU!Tasks}
<1>2. /\ rsBusy' = Written(rsBusy, busies) /\ rsPayload' = Written(rsPayload, writes)
      /\ DOMAIN rsBusy = RS!Stations /\ DOMAIN rsPayload = RS!Stations
  BY <1>1, Shared DEF RS!Tick, RsTypes
<1>3. /\ \A d \in IU!Tasks : d.station \in IU!Into /\ d.payload = IU!NewTask(d.station)
      /\ s \in IU!Into => \E d \in IU!Tasks : d.station = s
  <2>1. s \in IU!Into => [station |-> s, payload |-> IU!NewTask(s)] \in IU!Tasks
    BY DEF IU!Tasks
  <2>2. [station |-> s, payload |-> IU!NewTask(s)].station = s
    OBVIOUS
  <2>3. \A d \in IU!Tasks : d.station \in IU!Into /\ d.payload = IU!NewTask(d.station)
    BY DEF IU!Tasks
  <2> QED
    BY <2>1, <2>2, <2>3
<1>4. \A d \in IU!Tasks : d.station \notin RS!Released(AluAccepts, LsFull)
                          /\ d.station \notin RS!Woken(CDB!Heard)
  <2>1. ~\E d \in IU!Tasks : d.station \in RS!Released(AluAccepts, LsFull) \cup RS!Woken(CDB!Heard)
    BY <1>1, Zenon DEF RS!DoubleWrite
  <2> QED
    BY <2>1
<1>5. ASSUME NEW w \in busies
      PROVE  \/ w[1] \in RS!Released(AluAccepts, LsFull) /\ w[2] = FALSE
             \/ w[1] \in IU!Into /\ w[2] = TRUE /\ w[1] \notin RS!Released(AluAccepts, LsFull)
  <2>1. \/ \E t \in RS!Released(AluAccepts, LsFull) : w = <<t, FALSE>>
        \/ \E d \in IU!Tasks : w = <<d.station, TRUE>>
    BY Zenon
  <2>2. CASE \E t \in RS!Released(AluAccepts, LsFull) : w = <<t, FALSE>>
    BY <2>2
  <2>3. CASE \E d \in IU!Tasks : w = <<d.station, TRUE>>
    BY <1>3, <1>4, <2>3
  <2> QED
    BY <2>1, <2>2, <2>3
<1>6. ASSUME NEW w \in writes
      PROVE  \/ w[1] \in RS!Woken(CDB!Heard) /\ \E m \in CDB!Heard : w[2] = RS!WithResult(rsPayload[w[1]], m)
             \/ w[1] \in IU!Into /\ w[2] = IU!NewTask(w[1]) /\ w[1] \notin RS!Woken(CDB!Heard)
  <2>1. \/ \E t \in RS!Woken(CDB!Heard), m \in CDB!Heard : w = <<t, RS!WithResult(rsPayload[t], m)>>
        \/ \E d \in IU!Tasks : w = <<d.station, d.payload>>
    BY SMT
  <2>2. CASE \E t \in RS!Woken(CDB!Heard), m \in CDB!Heard : w = <<t, RS!WithResult(rsPayload[t], m)>>
    BY <2>2
  <2>3. CASE \E d \in IU!Tasks : w = <<d.station, d.payload>>
    BY <1>3, <1>4, <2>3
  <2> QED
    BY <2>1, <2>2, <2>3
<1>7. /\ s \in RS!Released(AluAccepts, LsFull) => <<s, FALSE>> \in busies
      /\ s \in IU!Into => \E w \in busies : w[1] = s
      /\ s \in IU!Into => \E w \in writes : w[1] = s
      /\ s \in RS!Woken(CDB!Heard) => \E w \in writes : w[1] = s
  <2>1. \A d \in IU!Tasks : <<d.station, TRUE>> \in busies /\ <<d.station, d.payload>> \in writes
    OBVIOUS
  <2>2. s \in RS!Woken(CDB!Heard) => \E m \in CDB!Heard : <<s, RS!WithResult(rsPayload[s], m)>> \in writes
    BY DEF RS!Woken
  <2>3. s \in RS!Released(AluAccepts, LsFull) => <<s, FALSE>> \in busies
    OBVIOUS
  <2> HIDE DEF busies, writes
  <2> QED
    BY <1>3, <2>1, <2>2, <2>3
<1> HIDE DEF busies, writes
<1>8. /\ \/ \E w \in busies : w[1] = s /\ rsBusy'[s] = w[2]
         \/ (~\E w \in busies : w[1] = s) /\ rsBusy'[s] = rsBusy[s]
      /\ \/ \E w \in writes : w[1] = s /\ rsPayload'[s] = w[2]
         \/ (~\E w \in writes : w[1] = s) /\ rsPayload'[s] = rsPayload[s]
  BY <1>2, WrittenAt
<1>9. CASE s \in IU!Into
  <2>1. PICK w \in busies : w[1] = s /\ rsBusy'[s] = w[2]
    BY <1>7, <1>8, <1>9
  <2>2. PICK v \in writes : v[1] = s /\ rsPayload'[s] = v[2]
    BY <1>7, <1>8, <1>9
  <2>3. s \notin RS!Released(AluAccepts, LsFull) /\ s \notin RS!Woken(CDB!Heard)
    BY <1>3, <1>4, <1>9
  <2> QED
    BY <1>5, <1>6, <1>9, <2>1, <2>2, <2>3
<1>10. CASE s \notin IU!Into
  <2>1. rsBusy'[s] <=> rsBusy[s] /\ s \notin RS!Released(AluAccepts, LsFull)
    <3>1. CASE s \in RS!Released(AluAccepts, LsFull)
      <4>1. PICK w \in busies : w[1] = s /\ rsBusy'[s] = w[2]
        BY <1>7, <1>8, <3>1
      <4> QED
        BY <1>5, <1>10, <3>1, <4>1
    <3>2. CASE s \notin RS!Released(AluAccepts, LsFull)
      BY <1>5, <1>8, <1>10, <3>2
    <3> QED
      BY <3>1, <3>2
  <2>2. CASE s \in RS!Woken(CDB!Heard)
    <3>1. PICK v \in writes : v[1] = s /\ rsPayload'[s] = v[2]
      BY <1>7, <1>8, <2>2
    <3> QED
      BY <1>6, <1>10, <2>1, <2>2, <3>1
  <2>3. CASE s \notin RS!Woken(CDB!Heard)
    BY <1>6, <1>8, <1>10, <2>1, <2>3
  <2> QED
    BY <2>2, <2>3
<1> QED
  BY <1>9, <1>10

(* Results that arrive and tasks that wait leave the destination alone.    *)
LEMMA DestKept ==
  ASSUME TypeOK, NEW take \in {0, 1}, Tick(take), NEW s \in RS!Stations
  PROVE  /\ s \in IU!Into => rsPayload'[s].dest = IU!Rob
         /\ s \notin IU!Into => rsPayload'[s].dest = rsPayload[s].dest
<1>1. CASE s \in IU!Into
  <2>1. CDB!GetData \subseteq BusMessage
    BY BusTypes DEF Tick
  <2>2. IU!NewTask(s).dest = IU!Rob
    BY <1>1, <2>1, IntoOne, NewTaskType DEF TypeOK
  <2> QED
    BY <1>1, <2>2, StationStep
<1>2. CASE s \notin IU!Into
  <2>1. rsPayload[s] \in RS!RsPayload
    BY DEF TypeOK, RsTypes
  <2>2. \A m : RS!WithResult(rsPayload[s], m).dest = rsPayload[s].dest
    BY <2>1 DEF RS!WithResult, RS!RsPayload
  <2> QED
    BY <1>2, <2>2, StationStep
<1> QED
  BY <1>1, <1>2


-----------------------------------------------------------------------------
(* What the stations give away.                                            *)

(* The modules count alike.                                                *)
LEMMA OneCardinality ==
  ASSUME NEW T
  PROVE  /\ RS!Cardinality(T) = Cardinality(T)
         /\ LSQ!Cardinality(T) = Cardinality(T)
         /\ MEM!Cardinality(T) = Cardinality(T)
BY Zenon DEF Cardinality, RS!Cardinality, LSQ!Cardinality, MEM!Cardinality,
   IsFiniteSet, RS!IsFiniteSet, LSQ!IsFiniteSet, MEM!IsFiniteSet

(* An ALU is offered at most one station, and no station is offered twice. *)
LEMMA OneOffer ==
  ASSUME NEW a \in 1 .. AluCount, NEW b \in 1 .. AluCount,
         NEW s \in RS!Offers(a), NEW t \in RS!Offers(b)
  PROVE  s = t <=> a = b
<1> DEFINE S == RS!Able(AluStations)
           Below(u) == {v \in S : v < u}
<1>1. S \subseteq Nat
  BY CpuAssumption DEF RS!Able
<1>2. /\ s \in S /\ t \in S
      /\ Cardinality(Below(s)) = a - 1 /\ Cardinality(Below(t)) = b - 1
  <2>1. /\ s \in {x \in S : RS!Cardinality(Below(x)) = a - 1}
        /\ t \in {x \in S : RS!Cardinality(Below(x)) = b - 1}
    BY DEF RS!Offers
  <2>2. RS!Cardinality(Below(s)) = Cardinality(Below(s)) /\ RS!Cardinality(Below(t)) = Cardinality(Below(t))
    BY OneCardinality
  <2> HIDE DEF S, Below
  <2> QED
    BY <2>1, <2>2
<1>3. ASSUME NEW u \in S, NEW v \in S, u < v
      PROVE  Cardinality(Below(u)) # Cardinality(Below(v))
  <2>1. u \in Nat /\ v \in Nat
    BY <1>1
  <2>2. IsFiniteSet(Below(v))
    <3>1. Below(v) \in SUBSET Nat /\ \A w \in Below(v) : w <= v
      BY <1>1, <2>1
    <3> HIDE DEF Below
    <3> QED
      BY <2>1, <3>1, FS_BoundedSetOfNaturals
  <2>3. /\ Below(u) \in SUBSET Below(v)
        /\ u \in Below(v) /\ u \notin Below(u)
    BY <1>1, <1>3, <2>1
  <2> HIDE DEF Below
  <2>4. Cardinality(Below(u)) = Cardinality(Below(v)) => Below(v) = Below(u)
    BY <2>2, <2>3, FS_Subset
  <2> QED
    BY <2>3, <2>4
<1>4. ASSUME a = b PROVE s = t
  <2>1. Cardinality(Below(s)) = Cardinality(Below(t))
    BY <1>2, <1>4
  <2>2. ~(s < t) /\ ~(t < s)
    <3> HIDE DEF S, Below
    <3> QED
      BY <1>2, <1>3, <2>1
  <2>3. s \in Nat /\ t \in Nat
    BY <1>1, <1>2
  <2> QED
    BY <2>2, <2>3
<1> QED
  BY <1>2, <1>4

(* The load and the store that are looked at in a tick are one each.       *)
LEMMA OneIssue ==
  /\ \A s \in RS!LoadIssue(LsFull) :
       s \in LoadBuffers /\ rsBusy[s] /\ ~rsClear /\ ~LsFull /\ RS!HasOperands(s)
  /\ \A s, t \in RS!LoadIssue(LsFull) : s = t
  /\ \A s \in RS!StoreUpdate(LsFull) : s \in StoreBuffers /\ rsBusy[s] /\ ~rsClear /\ ~LsFull
  /\ \A s, t \in RS!StoreUpdate(LsFull) : s = t
<1>1. \A S : S \subseteq Nat => \A s, t \in RS!FirstOf(S) : s = t
  <2>1. ASSUME NEW S, S \subseteq Nat, NEW s \in RS!FirstOf(S), NEW t \in RS!FirstOf(S)
        PROVE  s = t
    <3>1. s \in Nat /\ t \in Nat /\ s <= t /\ t <= s
      BY <2>1 DEF RS!FirstOf
    <3> QED
      BY <3>1
  <2> QED
    BY <2>1
<1>2. \A S : RS!FirstOf(S) \subseteq S
  BY DEF RS!FirstOf
<1> DEFINE L == {s \in RS!Able(LoadBuffers) : ~RS!Blocked(s)}
           U == {s \in StoreBuffers : rsBusy[s] /\ (RS!LearnsAddr(s) \/ RS!LearnsValue(s))}
<1>3. /\ L \subseteq Nat /\ U \subseteq Nat
      /\ \A s \in L : s \in LoadBuffers /\ rsBusy[s] /\ ~rsClear /\ RS!HasOperands(s)
      /\ \A s \in U : s \in StoreBuffers /\ rsBusy[s]
  BY CpuAssumption DEF RS!Able
<1>4. /\ RS!LoadIssue(LsFull) = IF LsFull THEN {} ELSE RS!FirstOf(L)
      /\ RS!StoreUpdate(LsFull) = IF LsFull \/ rsClear THEN {} ELSE RS!FirstOf(U)
  BY DEF RS!LoadIssue, RS!StoreUpdate
<1> HIDE DEF L, U
<1>5. \A s, t \in RS!FirstOf(L) : s = t
  BY <1>1, <1>3
<1>6. \A s, t \in RS!FirstOf(U) : s = t
  BY <1>1, <1>3
<1>7. CASE LsFull
  BY <1>4, <1>7
<1>8. CASE ~LsFull
  <2>1. RS!LoadIssue(LsFull) = RS!FirstOf(L)
    BY <1>4, <1>8
  <2>2. (RS!StoreUpdate(LsFull) = RS!FirstOf(U) /\ ~rsClear) \/ RS!StoreUpdate(LsFull) = {}
    BY <1>4, <1>8
  <2>3. \A s \in RS!FirstOf(L) : s \in L
    BY <1>2
  <2>4. \A s \in RS!FirstOf(U) : s \in U
    BY <1>2
  <2> QED
    BY <1>3, <1>5, <1>6, <1>8, <2>1, <2>2, <2>3, <2>4
<1> QED
  BY <1>7, <1>8

(* A busy station leaves in one of three ways, by the kind of the station. *)
LEMMA ReleasedCases ==
  ASSUME ~rsClear, NEW s \in RS!Stations
  PROVE  s \in RS!Released(AluAccepts, LsFull) <=>
           \/ \E a \in 1 .. AluCount : AluAccepts[a] /\ s \in RS!Offers(a)
           \/ s \in RS!LoadIssue(LsFull)
           \/ s \in RS!StoreUpdate(LsFull) /\ RS!Complete(s)
BY DEF RS!Released, RS!Issued

(* The ready bit of an entry in a tick.                                    *)
LEMMA ReadyStep ==
  ASSUME TypeOK, NEW take \in {0, 1}, Tick(take), NEW s \in ROB!Slots
  PROVE  /\ IU!Into # {} /\ s = robTail => ~ready'[s]
         /\ ~(IU!Into # {} /\ s = robTail) /\ ~(ROB!Pops(LsFull) /\ s = robHead) =>
              (ready'[s] <=> \/ ready[s]
                             \/ s \in ROB!Hit(CDB!Heard)
                             \/ \E t \in RS!StoreUpdate(LsFull) :
                                  RS!Complete(t) /\ ROB!Slot(rsPayload[t].dest) = s)
<1> DEFINE updates == RS!StoreUpdates(LsFull)
           writes ==
             {<<t, TRUE>> : t \in ROB!Hit(CDB!Heard)}
             \cup {<<robTail, FALSE>> : p \in IU!Entries(take)}
             \cup {<<ROB!Slot(u.id), TRUE>> : u \in {v \in updates : v.ready}}
             \cup {<<t, FALSE>> : t \in {x \in {robHead} : ROB!Pops(LsFull)}}
           hit == s \in ROB!Hit(CDB!Heard)
           done == \E t \in RS!StoreUpdate(LsFull) :
                     RS!Complete(t) /\ ROB!Slot(rsPayload[t].dest) = s
           filled == IU!Into # {} /\ s = robTail
           gone == ROB!Pops(LsFull) /\ s = robHead
<1>1. RobTypes /\ ready' = Written(ready, writes) /\ DOMAIN ready = ROB!Slots
  BY Shared DEF Tick, ROB!Tick, TypeOK, RobTypes
<1>2. done <=> \E u \in updates : u.ready /\ ROB!Slot(u.id) = s
  <2>1. \A u \in updates : \E t \in RS!StoreUpdate(LsFull) :
          u.id = rsPayload[t].dest /\ u.ready = RS!Complete(t)
    BY DEF RS!StoreUpdates
  <2>2. \A t \in RS!StoreUpdate(LsFull) : \E u \in updates :
          u.id = rsPayload[t].dest /\ u.ready = RS!Complete(t)
    <3> SUFFICES ASSUME NEW t \in RS!StoreUpdate(LsFull)
                 PROVE  \E u \in updates : u.id = rsPayload[t].dest /\ u.ready = RS!Complete(t)
      OBVIOUS
    <3> DEFINE u == [id |-> rsPayload[t].dest, payload |-> RS!Update(t), ready |-> RS!Complete(t)]
    <3>1. u \in updates
      BY DEF RS!StoreUpdates
    <3>2. u.id = rsPayload[t].dest /\ u.ready = RS!Complete(t)
      OBVIOUS
    <3> HIDE DEF u
    <3> QED
      BY <3>1, <3>2
  <2> HIDE DEF updates
  <2> QED
    BY <2>1, <2>2
<1>3. ~ROB!DoubleWrite(CDB!Heard, IU!Tasks, updates, LsFull)
  BY DEF Tick, DoubleWrite
<1>4. /\ filled => /\ robTail \in {robTail : p \in IU!Tasks}
                   /\ IU!Entries(take) # {}
      /\ IU!Into = {} => IU!Entries(take) = {}
      /\ gone => robHead \in {x \in {robHead} : ROB!Pops(LsFull)}
  <2>1. IU!Into # {} => IU!Tasks # {} /\ IU!Entries(take) # {}
    BY DEF IU!Tasks, IU!Entries
  <2>2. IU!Into = {} => IU!Entries(take) = {}
    BY DEF IU!Entries
  <2> QED
    BY <2>1, <2>2
<1>5. /\ ~(hit /\ filled) /\ ~(hit /\ gone) /\ ~(gone /\ filled)
      /\ ~(done /\ filled) /\ ~(done /\ gone)
  <2> DEFINE slots == {ROB!Slot(u.id) : u \in updates}
             readies == {ROB!Slot(u.id) : u \in {v \in updates : v.ready}}
             tailSlot == {robTail : p \in IU!Tasks}
             committed == {x \in {robHead} : ROB!Pops(LsFull)}
  <2>1. /\ ROB!Hit(CDB!Heard) \cap (tailSlot \cup slots \cup committed) = {}
        /\ committed \cap (tailSlot \cup readies) = {}
        /\ tailSlot \cap slots = {}
    BY <1>3 DEF ROB!DoubleWrite
  <2>2. done => s \in readies /\ s \in slots
    BY <1>2
  <2>3. filled => s \in tailSlot
    BY <1>4
  <2>4. gone => s \in committed
    BY <1>4
  <2> HIDE DEF slots, readies, tailSlot, committed, hit, done, filled, gone
  <2> QED
    BY <2>1, <2>2, <2>3, <2>4 DEF hit
<1>6. ASSUME NEW w \in writes, w[1] = s
      PROVE  \/ w[2] = TRUE /\ (hit \/ done)
             \/ w[2] = FALSE /\ (filled \/ gone)
  <2>1. \/ \E t \in ROB!Hit(CDB!Heard) : w = <<t, TRUE>>
        \/ \E p \in IU!Entries(take) : w = <<robTail, FALSE>>
        \/ \E u \in {v \in updates : v.ready} : w = <<ROB!Slot(u.id), TRUE>>
        \/ \E t \in {x \in {robHead} : ROB!Pops(LsFull)} : w = <<t, FALSE>>
    <3> HIDE DEF updates
    <3> QED
      BY Zenon
  <2>2. CASE \E t \in ROB!Hit(CDB!Heard) : w = <<t, TRUE>>
    BY <1>6, <2>2
  <2>3. CASE \E p \in IU!Entries(take) : w = <<robTail, FALSE>>
    BY <1>4, <1>6, <2>3
  <2>4. CASE \E u \in {v \in updates : v.ready} : w = <<ROB!Slot(u.id), TRUE>>
    <3> HIDE DEF updates, done
    <3> QED
      BY <1>2, <1>6, <2>4
  <2>5. CASE \E t \in {x \in {robHead} : ROB!Pops(LsFull)} : w = <<t, FALSE>>
    BY <1>6, <2>5
  <2> QED
    BY <2>1, <2>2, <2>3, <2>4, <2>5
<1>7. hit \/ done \/ filled \/ gone => \E w \in writes : w[1] = s
  <2>1. CASE hit
    <3>1. <<s, TRUE>> \in writes
      BY <2>1
    <3> HIDE DEF writes
    <3> QED
      BY <3>1
  <2>2. CASE filled
    <3>1. <<robTail, FALSE>> \in writes
      BY <1>4, <2>2
    <3> HIDE DEF writes
    <3> QED
      BY <2>2, <3>1
  <2>3. CASE done
    <3>1. PICK u \in updates : u.ready /\ ROB!Slot(u.id) = s
      BY <1>2, <2>3
    <3>2. <<ROB!Slot(u.id), TRUE>> \in writes
      BY <3>1
    <3> HIDE DEF writes, updates
    <3> QED
      BY <3>1, <3>2
  <2>4. CASE gone
    <3>1. <<robHead, FALSE>> \in writes
      BY <2>4
    <3> HIDE DEF writes
    <3> QED
      BY <2>4, <3>1
  <2> QED
    BY <2>1, <2>2, <2>3, <2>4
<1> HIDE DEF writes
<1>8. \/ \E w \in writes : w[1] = s /\ ready'[s] = w[2]
      \/ (~\E w \in writes : w[1] = s) /\ ready'[s] = ready[s]
  BY <1>1, WrittenAt
<1>9. filled => ~ready'[s]
  <2> HIDE DEF hit, done, filled, gone
  <2> QED
    BY <1>5, <1>6, <1>7, <1>8
<1>10. ~filled /\ ~gone => (ready'[s] <=> ready[s] \/ hit \/ done)
  <2> HIDE DEF hit, done, filled, gone
  <2>1. ready[s] \in BOOLEAN
    BY <1>1 DEF RobTypes
  <2>2. CASE \E w \in writes : w[1] = s /\ ready'[s] = w[2]
    BY <1>6, <2>2
  <2>3. CASE (~\E w \in writes : w[1] = s) /\ ready'[s] = ready[s]
    BY <1>7, <2>1, <2>3
  <2> QED
    BY <1>8, <2>2, <2>3
<1> QED
  BY <1>9, <1>10

-----------------------------------------------------------------------------
(* The load/store queue.                                                   *)

(* The entries in the queue, now and in the next state.                    *)
LEMMA WaitingIs ==
  /\ lsHead \in LSQ!queue!Slots /\ lsTail \in LSQ!queue!Slots =>
       /\ LSQ!queue!Live \subseteq LSQ!queue!Slots
       /\ \A s \in LSQ!queue!Slots : s \in LSQ!queue!Live <=>
            Distance(LsCapacity, lsHead, s) < Distance(LsCapacity, lsHead, lsTail)
  /\ lsHead' \in LSQ!queue!Slots /\ lsTail' \in LSQ!queue!Slots =>
       /\ LSQ!queue!Live' \subseteq LSQ!queue!Slots
       /\ \A s \in LSQ!queue!Slots : s \in LSQ!queue!Live' <=>
            Distance(LsCapacity, lsHead', s) < Distance(LsCapacity, lsHead', lsTail')
<1> DEFINE Spanned(h, t) == {LSQ!queue!Trunc(ix + h) : ix \in 0 .. Distance(LsCapacity, h, t) - 1}
<1>1. ASSUME NEW h \in LSQ!queue!Slots, NEW t \in LSQ!queue!Slots
      PROVE  /\ Spanned(h, t) \subseteq LSQ!queue!Slots
             /\ \A s \in LSQ!queue!Slots : s \in Spanned(h, t) <=>
                  Distance(LsCapacity, h, s) < Distance(LsCapacity, h, t)
  <2>1. /\ LsCapacity \in Nat \ {0} /\ h \in 0 .. LsCapacity - 1 /\ t \in 0 .. LsCapacity - 1
        /\ LSQ!queue!Slots = 0 .. LsCapacity - 1
    BY CpuAssumption DEF LSQ!queue!Slots
  <2>2. Distance(LsCapacity, h, t) \in Nat
    BY <2>1, DistanceIs
  <2>3. \A ix \in 0 .. Distance(LsCapacity, h, t) - 1 :
          /\ LSQ!queue!Trunc(ix + h) = (ix + h) % LsCapacity
          /\ LSQ!queue!Trunc(ix + h) \in 0 .. LsCapacity - 1
    BY <2>1, <2>2 DEF LSQ!queue!Trunc
  <2>4. Spanned(h, t) = {(ix + h) % LsCapacity : ix \in 0 .. Distance(LsCapacity, h, t) - 1}
    BY <2>3
  <2>5. \A s \in 0 .. LsCapacity - 1 : s \in Spanned(h, t) <=>
          Distance(LsCapacity, h, s) < Distance(LsCapacity, h, t)
    BY <2>1, <2>4, Between
  <2> QED
    BY <2>1, <2>3, <2>5
<1>2. /\ LSQ!queue!Length = Distance(LsCapacity, lsHead, lsTail)
      /\ LSQ!queue!Length' = Distance(LsCapacity, lsHead', lsTail')
  BY DEF LSQ!queue!Length, Distance
<1>3. LSQ!queue!Live = Spanned(lsHead, lsTail) /\ LSQ!queue!Live' = Spanned(lsHead', lsTail')
  BY <1>2 DEF LSQ!queue!Live, LSQ!queue!Nth, LSQ!queue!Trunc
<1> HIDE DEF Spanned
<1> QED
  BY <1>1, <1>3

(* What a tick does to them: the head leaves, what is pushed joins.        *)
LEMMA WaitingStep ==
  ASSUME TypeOK, NEW take \in {0, 1}, Tick(take)
  PROVE  /\ \A s \in LSQ!queue!Slots :
              s \in LSQ!queue!Live' <=> \/ s \in LSQ!queue!Live /\ ~(LSQ!Popped # {} /\ s = lsHead)
                                        \/ LsPushes # {} /\ ~LsFull /\ s = lsTail
         /\ LSQ!queue!Live \subseteq LSQ!queue!Slots /\ LSQ!queue!Live' \subseteq LSQ!queue!Slots
         /\ lsTail \notin LSQ!queue!Live
         /\ LSQ!Popped # {} => lsHead \in LSQ!queue!Live
<1> DEFINE pop == LSQ!Popped # {}
           push == LsPushes # {} /\ ~LsFull
<1>1. /\ lsHead \in LSQ!queue!Slots /\ lsTail \in LSQ!queue!Slots
      /\ lsHead' \in LSQ!queue!Slots /\ lsTail' \in LSQ!queue!Slots
      /\ LsCapacity \in Nat \ {0} /\ LSQ!queue!Slots = 0 .. LsCapacity - 1
  BY LsqTyping, CpuAssumption DEF LsqTypes, TypeOK, LSQ!queue!Slots
<1>2. /\ LSQ!queue!Trunc(lsHead + 1) = After(LsCapacity, lsHead)
      /\ LSQ!queue!Trunc(lsTail + 1) = After(LsCapacity, lsTail)
  BY <1>1, NextSlot DEF After
<1>3. /\ pop => lsHead # lsTail
      /\ push => lsHead # After(LsCapacity, lsTail)
  BY <1>2 DEF LSQ!Popped, LSQ!queue!Empty, LsFull, LSQ!Full, LSQ!queue!Full
<1>4. /\ lsHead' = IF pop THEN After(LsCapacity, lsHead) ELSE lsHead
      /\ lsTail' = IF push THEN After(LsCapacity, lsTail) ELSE lsTail
  <2>1. LSQ!queue!Move(LsPushes # {}, LSQ!Popped # {}, FALSE)
    BY DEF Tick, LSQ!Tick
  <2> QED
    BY <1>2, <1>3, <2>1 DEF LSQ!queue!Move, LSQ!queue!Empty, LsFull, LSQ!Full
<1>5. ASSUME NEW s \in LSQ!queue!Slots
      PROVE  s \in LSQ!queue!Live' <=> \/ s \in LSQ!queue!Live /\ ~(pop /\ s = lsHead)
                                       \/ push /\ s = lsTail
  <2>1. pop \in BOOLEAN /\ push \in BOOLEAN
    BY DEF LsFull, LSQ!Full, LSQ!queue!Full
  <2>2. Distance(LsCapacity, lsHead', s) < Distance(LsCapacity, lsHead', lsTail')
             <=> \/ /\ Distance(LsCapacity, lsHead, s) < Distance(LsCapacity, lsHead, lsTail)
                    /\ ~(pop /\ s = lsHead)
                 \/ push /\ s = lsTail
    <3> HIDE DEF pop, push
    <3> QED
      BY <1>1, <1>3, <1>4, <2>1, RingMoves
  <2> QED
    BY <1>1, <2>2, WaitingIs
<1>6. /\ Distance(LsCapacity, lsHead, lsTail) \in Nat
      /\ Distance(LsCapacity, lsHead, lsHead) = 0
      /\ lsHead # lsTail => Distance(LsCapacity, lsHead, lsTail) > 0
  <2>1. Distance(LsCapacity, lsHead, lsHead) = lsHead - lsHead
    BY <1>1, DistanceIs
  <2>2. Distance(LsCapacity, lsHead, lsTail) =
          IF lsTail < lsHead THEN lsTail + LsCapacity - lsHead ELSE lsTail - lsHead
    BY <1>1, DistanceIs
  <2> QED
    BY <1>1, <2>1, <2>2
<1> QED
  BY <1>1, <1>3, <1>5, <1>6, WaitingIs

(* At most one entry is pushed; none while the queue is full.              *)
LEMMA OnePush ==
  ASSUME NEW take \in {0, 1}, Tick(take), NEW p \in LsPushes
  PROVE  ~LsFull /\ LsPushes = {p}
<1>1. LsFull => LsPushes = {}
  BY DEF LsPushes, RS!LoadPushes, RS!LoadIssue, ROB!Stored
<1>2. ~LsFull
  BY <1>1
<1>3. ~(Cardinality(LsPushes) > 1)
  BY <1>2, OneCardinality DEF Tick, DoubleWrite, LSQ!DoubleWrite, LsFull
<1>4. IsFiniteSet(LsPushes)
  <2>1. \E q : RS!LoadPushes(LsFull) \subseteq {q}
    <3> DEFINE Push(s) ==
          [op |-> "LOAD", size |-> rsPayload[s].size, addr |-> RS!CalcAddr(rsPayload[s]),
           value |-> 0, rob |-> rsPayload[s].dest, cleared |-> FALSE]
    <3>1. RS!LoadPushes(LsFull) = {Push(s) : s \in RS!LoadIssue(LsFull)}
      BY DEF RS!LoadPushes
    <3> HIDE DEF Push
    <3>2. CASE RS!LoadIssue(LsFull) = {}
      BY <3>1, <3>2
    <3>3. CASE RS!LoadIssue(LsFull) # {}
      <4>1. PICK s \in RS!LoadIssue(LsFull) : TRUE
        BY <3>3
      <4>2. RS!LoadPushes(LsFull) \subseteq {Push(s)}
        BY <3>1, <4>1, OneIssue
      <4> QED
        BY <4>2
    <3> QED
      BY <3>2, <3>3
  <2>2. \E q : ROB!Stored(LsFull) \subseteq {q}
    BY DEF ROB!Stored
  <2>3. PICK q, r : LsPushes \subseteq {q, r}
    BY <2>1, <2>2 DEF LsPushes
  <2>4. IsFiniteSet({q, r})
    <3>1. IsFiniteSet({q}) /\ IsFiniteSet({r}) /\ {q, r} = {q} \cup {r}
      BY FS_Singleton
    <3> QED
      BY <3>1, FS_Union
  <2> QED
    BY <2>3, <2>4, FS_Subset
<1>5. ASSUME NEW q \in LsPushes PROVE q = p
  <2>1. SUFFICES ASSUME q # p PROVE FALSE
    OBVIOUS
  <2>2. Cardinality({p, q}) = 2 /\ {p, q} \subseteq LsPushes
    <3>1. Cardinality({p}) = 1 /\ IsFiniteSet({p})
      BY FS_Singleton
    <3>2. Cardinality({p} \cup {q}) = Cardinality({p}) + 1
      BY <2>1, <3>1, FS_AddElement
    <3>3. {p} \cup {q} = {p, q}
      OBVIOUS
    <3> QED
      BY <3>1, <3>2, <3>3
  <2>3. Cardinality({p, q}) <= Cardinality(LsPushes)
    BY <1>4, <2>2, FS_Subset
  <2>4. Cardinality(LsPushes) \in Nat
    BY <1>4, FS_CardinalityType
  <2> QED
    BY <1>3, <2>2, <2>3, <2>4
<1> QED
  BY <1>2, <1>5

-----------------------------------------------------------------------------
(* The producers of a result.                                              *)

(* What it is to be one, kind by kind.                                     *)
Makes(l, id) ==
  \/ \E s \in RS!Stations : l = <<"station", s>> /\ rsBusy[s] /\ rsPayload[s].dest = id
  \/ \E a \in ALU!Alus : l = <<"alu", a>> /\ aluBusy[a] /\ task[a].rob = id
  \/ \E a \in ALU!Alus : l = <<"result", a>> /\ result[a].busy /\ result[a].msg.rob = id
  \/ \E s \in LSQ!queue!Live : /\ l = <<"queue", s>> /\ lsData[s].op = "LOAD"
                               /\ ~lsData[s].cleared /\ lsData[s].rob = id
  \/ \E i \in MEM!MemSlots : l = <<"memory", i>> /\ loads[i].busy /\ loads[i].rob = id
  \/ \E h \in CDB!Helpers, ix \in {0, 1} :
       l = <<"helper", <<h, ix>>>> /\ bhBusy[h][ix] /\ buffer[h][ix].rob = id
  \/ \E m \in CDB!GetData : l = <<"bus", m>> /\ m.rob = id

LEMMA MakesAre == \A id, l : l \in Producers(id) <=> Makes(l, id)
<1> SUFFICES ASSUME NEW id, NEW l PROVE l \in Producers(id) <=> Makes(l, id)
  OBVIOUS
<1>1. l \in Producers(id) <=>
        \/ \E s \in {t \in RS!Stations : rsBusy[t] /\ rsPayload[t].dest = id} : l = <<"station", s>>
        \/ \E a \in {b \in ALU!Alus : aluBusy[b] /\ task[b].rob = id} : l = <<"alu", a>>
        \/ \E a \in {b \in ALU!Alus : result[b].busy /\ result[b].msg.rob = id} : l = <<"result", a>>
        \/ \E s \in {t \in LSQ!queue!Live :
             lsData[t].op = "LOAD" /\ ~lsData[t].cleared /\ lsData[t].rob = id} : l = <<"queue", s>>
        \/ \E i \in {j \in MEM!MemSlots : loads[j].busy /\ loads[j].rob = id} : l = <<"memory", i>>
        \/ \E hx \in {ky \in CDB!Helpers \X {0, 1} :
             bhBusy[ky[1]][ky[2]] /\ buffer[ky[1]][ky[2]].rob = id} : l = <<"helper", hx>>
        \/ \E m \in {n \in CDB!GetData : n.rob = id} : l = <<"bus", m>>
  BY Zenon DEF Producers
<1>2. (\E hx \in {ky \in CDB!Helpers \X {0, 1} :
         bhBusy[ky[1]][ky[2]] /\ buffer[ky[1]][ky[2]].rob = id} : l = <<"helper", hx>>)
      <=> \E h \in CDB!Helpers, ix \in {0, 1} :
            l = <<"helper", <<h, ix>>>> /\ bhBusy[h][ix] /\ buffer[h][ix].rob = id
  <2>1. ASSUME NEW hx \in CDB!Helpers \X {0, 1}, bhBusy[hx[1]][hx[2]],
               buffer[hx[1]][hx[2]].rob = id, l = <<"helper", hx>>
        PROVE  \E h \in CDB!Helpers, ix \in {0, 1} :
                 l = <<"helper", <<h, ix>>>> /\ bhBusy[h][ix] /\ buffer[h][ix].rob = id
    <3>1. hx[1] \in CDB!Helpers /\ hx[2] \in {0, 1} /\ hx = <<hx[1], hx[2]>>
      OBVIOUS
    <3> QED
      BY <2>1, <3>1
  <2>2. ASSUME NEW h \in CDB!Helpers, NEW ix \in {0, 1}, bhBusy[h][ix], buffer[h][ix].rob = id
        PROVE  <<h, ix>> \in {ky \in CDB!Helpers \X {0, 1} :
                                bhBusy[ky[1]][ky[2]] /\ buffer[ky[1]][ky[2]].rob = id}
    BY <2>2
  <2> QED
    BY <2>1, <2>2
<1> QED
  BY <1>1, <1>2, Zenon DEF Makes

(* The same in the next state.                                             *)
LEMMA MakesNext == \A id, l : l \in Producers(id)' <=> Makes(l, id)'
<1> DEFINE Same == \A id, l : l \in Producers(id) <=> Makes(l, id)
<1>1. Same
  BY MakesAre
<1>2. Same'
  <2> HIDE DEF Same
  <2> QED
    BY <1>1, PTL
<1> QED
  BY <1>2

-----------------------------------------------------------------------------
(* The way of a result: station, ALU, result buffer, helper, bus; or       *)
(* station, queue, memory, helper, bus.                                    *)

(* Where a producer is after a tick without a clear.                       *)
SentThrough(h) == <<"helper", <<h, CDB!Acquires(h)>>>>
Target(l) ==
  CASE l[1] = "station" ->
         IF \E a \in ALU!Alus : AluAccepts[a] /\ l[2] \in RS!Offers(a)
           THEN <<"alu", CHOOSE a \in ALU!Alus : AluAccepts[a] /\ l[2] \in RS!Offers(a)>>
         ELSE IF l[2] \in RS!LoadIssue(LsFull) THEN <<"queue", lsTail>>
         ELSE l
    [] l[1] \in {"alu", "result"} ->
         IF AluStall[l[2]] THEN <<"result", l[2]>> ELSE SentThrough(AluHelper(l[2]))
    [] l[1] = "queue" ->
         IF LSQ!Popped # {} /\ l[2] = lsHead
           THEN <<"memory", CHOOSE i \in MEM!FirstFree(loads) : TRUE>>
         ELSE l
    [] l[1] = "memory" -> IF l[2] \in MEM!Sender THEN SentThrough(MemHelper) ELSE l
    [] l[1] = "helper" ->
         IF CDB!Wins(l[2][1]) /\ l[2][2] = current[l[2][1]]
           THEN <<"bus", buffer[l[2][1]][l[2][2]]>>
         ELSE l
    [] OTHER -> l

(* The ones that end with the tick: the message that is heard and the      *)
(* store whose address and value are known.                                *)
Leaves(l) ==
  \/ l[1] = "bus"
  \/ l[1] = "station" /\ l[2] \in RS!StoreUpdate(LsFull) /\ RS!Complete(l[2])

LEMMA TargetIs ==
  /\ \A a \in ALU!Alus : \A s \in RS!Offers(a) :
       AluAccepts[a] => Target(<<"station", s>>) = <<"alu", a>>
  /\ \A s \in RS!LoadIssue(LsFull) : Target(<<"station", s>>) = <<"queue", lsTail>>
  /\ \A s : (~\E a \in ALU!Alus : AluAccepts[a] /\ s \in RS!Offers(a)) /\ s \notin RS!LoadIssue(LsFull)
              => Target(<<"station", s>>) = <<"station", s>>
  /\ \A a : /\ AluStall[a] => /\ Target(<<"alu", a>>) = <<"result", a>>
                              /\ Target(<<"result", a>>) = <<"result", a>>
            /\ ~AluStall[a] => /\ Target(<<"alu", a>>) = SentThrough(AluHelper(a))
                               /\ Target(<<"result", a>>) = SentThrough(AluHelper(a))
  /\ \A s : /\ LSQ!Popped # {} /\ s = lsHead =>
                 Target(<<"queue", s>>) = <<"memory", CHOOSE i \in MEM!FirstFree(loads) : TRUE>>
            /\ ~(LSQ!Popped # {} /\ s = lsHead) => Target(<<"queue", s>>) = <<"queue", s>>
  /\ \A i : /\ i \in MEM!Sender => Target(<<"memory", i>>) = SentThrough(MemHelper)
            /\ i \notin MEM!Sender => Target(<<"memory", i>>) = <<"memory", i>>
  /\ \A h, ix :
       /\ CDB!Wins(h) /\ ix = current[h] => Target(<<"helper", <<h, ix>>>>) = <<"bus", buffer[h][ix]>>
       /\ ~(CDB!Wins(h) /\ ix = current[h]) =>
            Target(<<"helper", <<h, ix>>>>) = <<"helper", <<h, ix>>>>
<1>1. ASSUME NEW a \in ALU!Alus, NEW s \in RS!Offers(a), AluAccepts[a]
      PROVE  Target(<<"station", s>>) = <<"alu", a>>
  <2> DEFINE c == CHOOSE b \in ALU!Alus : AluAccepts[b] /\ s \in RS!Offers(b)
  <2>1. Target(<<"station", s>>) = <<"alu", c>>
    BY <1>1 DEF Target
  <2>2. c \in ALU!Alus /\ s \in RS!Offers(c)
    BY <1>1
  <2>3. c = a
    <3> HIDE DEF c
    <3> QED
      BY <2>2, OneOffer DEF ALU!Alus
  <2> QED
    BY <2>1, <2>3
<1>2. ASSUME NEW s \in RS!LoadIssue(LsFull)
      PROVE  Target(<<"station", s>>) = <<"queue", lsTail>>
  <2>1. \A a : s \notin RS!Offers(a)
    BY OneIssue, CpuAssumption DEF RS!Offers, RS!Able
  <2> QED
    BY <2>1 DEF Target
<1>3. ASSUME NEW s, ~\E a \in ALU!Alus : AluAccepts[a] /\ s \in RS!Offers(a),
             s \notin RS!LoadIssue(LsFull)
      PROVE  Target(<<"station", s>>) = <<"station", s>>
  BY <1>3 DEF Target
<1>4. ASSUME NEW a
      PROVE  /\ AluStall[a] => /\ Target(<<"alu", a>>) = <<"result", a>>
                               /\ Target(<<"result", a>>) = <<"result", a>>
             /\ ~AluStall[a] => /\ Target(<<"alu", a>>) = SentThrough(AluHelper(a))
                                /\ Target(<<"result", a>>) = SentThrough(AluHelper(a))
  BY DEF Target
<1>5. ASSUME NEW s
      PROVE  /\ LSQ!Popped # {} /\ s = lsHead =>
                  Target(<<"queue", s>>) = <<"memory", CHOOSE i \in MEM!FirstFree(loads) : TRUE>>
             /\ ~(LSQ!Popped # {} /\ s = lsHead) => Target(<<"queue", s>>) = <<"queue", s>>
  BY DEF Target
<1>6. ASSUME NEW i
      PROVE  /\ i \in MEM!Sender => Target(<<"memory", i>>) = SentThrough(MemHelper)
             /\ i \notin MEM!Sender => Target(<<"memory", i>>) = <<"memory", i>>
  BY DEF Target
<1>7. ASSUME NEW h, NEW ix
      PROVE  /\ CDB!Wins(h) /\ ix = current[h] =>
                  Target(<<"helper", <<h, ix>>>>) = <<"bus", buffer[h][ix]>>
             /\ ~(CDB!Wins(h) /\ ix = current[h]) =>
                  Target(<<"helper", <<h, ix>>>>) = <<"helper", <<h, ix>>>>
  BY DEF Target
<1> QED
  BY <1>1, <1>2, <1>3, <1>4, <1>5, <1>6, <1>7

ProducerInv ==
  /\ SlotsInv
  /\ \A a \in ALU!Alus : ~(aluBusy[a] /\ result[a].busy)
  /\ busClear = 1 => ROB!Live = {}
  /\ ~robClear => \A id \in 0 .. RobCapacity :
       /\ Producers(id) # {} =>
            id \in RF!RobIds /\ ROB!Slot(id) \in ROB!Live /\ ~ready[ROB!Slot(id)]
       /\ \A l, k \in Producers(id) : l = k
       /\ id \in RF!RobIds /\ ROB!Slot(id) \in ROB!Live /\ ~ready[ROB!Slot(id)] =>
            Producers(id) # {}


(* What is given to the helpers outside of a clear.                        *)
LEMMA SentIs ==
  ASSUME TypeOK, Phase, HelpersInv, busClear = 0
  PROVE  /\ ~MemStall
         /\ \A i \in MEM!Sender : \E m : Sent[MemHelper] = {m} /\ m.rob = loads[i].rob
         /\ MEM!Sender = {} => Sent[MemHelper] = {}
         /\ \A a \in ALU!Alus :
              /\ AluHelper(a) \in CDB!Helpers /\ AluStall[a] = CDB!Stall(AluHelper(a))
              /\ AluAccepts[a] <=> ~AluStall[a]
              /\ Sent[AluHelper(a)] =
                   IF AluStall[a] THEN {}
                   ELSE IF result[a].busy THEN {result[a].msg}
                   ELSE IF aluBusy[a] THEN {ALU!Output(a)} ELSE {}
<1>1. ~MemStall
  BY MemoryNeverStalls
<1>2. MemHelper \in 1 .. HelperCount /\ Sent[MemHelper] = MEM!Sends(MemStall)
  BY CpuAssumption DEF Sent, MemHelper, HelperCount
<1>3. \A i, j \in MEM!Sender : i = j
  <2>1. ASSUME NEW i \in MEM!Sender, NEW j \in MEM!Sender PROVE i = j
    <3>1. i \in Int /\ j \in Int /\ ~(i < j) /\ ~(j < i)
      BY CpuAssumption DEF MEM!Sender, MEM!MemSlots
    <3> QED
      BY <3>1
  <2> QED
    BY <2>1
<1>4. ASSUME NEW i \in MEM!Sender
      PROVE  \E m : Sent[MemHelper] = {m} /\ m.rob = loads[i].rob
  <2> DEFINE Msg(j) == [rob |-> loads[j].rob,
                        result |-> MEM!MemGetSz(mem, loads[j].addr, loads[j].size)]
  <2>1. Sent[MemHelper] = {Msg(j) : j \in MEM!Sender}
    BY <1>1, <1>2 DEF MEM!Sends
  <2>2. Msg(i).rob = loads[i].rob
    OBVIOUS
  <2> HIDE DEF Msg
  <2>3. Sent[MemHelper] = {Msg(i)}
    BY <1>3, <2>1
  <2> QED
    BY <2>2, <2>3
<1>5. MEM!Sender = {} => Sent[MemHelper] = {}
  BY <1>2 DEF MEM!Sends
<1>6. ASSUME NEW a \in ALU!Alus
      PROVE  /\ AluHelper(a) \in CDB!Helpers /\ AluStall[a] = CDB!Stall(AluHelper(a))
             /\ AluAccepts[a] <=> ~AluStall[a]
             /\ Sent[AluHelper(a)] = ALU!Sends(a, AluStall, CDB!ShouldClear)
  <2>1. a \in 1 .. AluCount /\ AluHelper(a) \in 1 .. HelperCount /\ AluHelper(a) # MemHelper
        /\ AluHelper(a) - 1 = a
    BY CpuAssumption DEF ALU!Alus, AluHelper, HelperCount, MemHelper
  <2>2. ~CDB!ShouldClear
    BY DEF CDB!ShouldClear
  <2>3. AluAccepts[a] <=> ~AluStall[a]
    BY <2>1, <2>2 DEF AluAccepts, ALU!Accepts
  <2>4. Sent[AluHelper(a)] = ALU!Sends(AluHelper(a) - 1, AluStall, CDB!ShouldClear)
    BY <2>1 DEF Sent
  <2>5. AluStall[a] = CDB!Stall(AluHelper(a))
    BY <2>1 DEF AluStall
  <2> QED
    BY <2>1, <2>3, <2>4, <2>5 DEF CDB!Helpers
<1>7. ~CDB!ShouldClear
  BY DEF CDB!ShouldClear
<1> QED
  BY <1>1, <1>4, <1>5, <1>6, <1>7 DEF ALU!Sends

(* What the buffers of a helper hold after a tick.                         *)
LEMMA BufferStep ==
  ASSUME NEW take \in {0, 1}, Tick(take), NEW h \in CDB!Helpers, NEW ix \in CDB!Buffers
  PROVE  /\ ~(Sent[h] # {} /\ ix = CDB!Acquires(h)) => buffer'[h][ix] = buffer[h][ix]
         /\ \A m : Sent[h] = {m} /\ ix = CDB!Acquires(h) => buffer'[h][ix] = m
<1>1. buffer'[h][ix] = IF Sent[h] # {} /\ ix = CDB!Acquires(h)
                         THEN CHOOSE m \in Sent[h] : TRUE ELSE buffer[h][ix]
  BY DEF Tick, CDB!Tick
<1> QED
  BY <1>1

(* What the ALUs hold after a tick.                                        *)
LEMMA AluStep ==
  ASSUME NEW take \in {0, 1}, Tick(take), NEW a \in ALU!Alus, ~(aluBusy[a] /\ result[a].busy),
         TypeOK
  PROVE  /\ aluBusy'[a] <=> RS!Offers(a) # {} /\ ~CDB!ShouldClear /\ ~AluStall[a]
         /\ aluBusy'[a] => \E s \in RS!Offers(a) : task'[a].rob = rsPayload[s].dest
         /\ ~(aluBusy'[a] /\ result'[a].busy)
         /\ CDB!ShouldClear => ~result'[a].busy
         /\ ~CDB!ShouldClear =>
              /\ result'[a].busy <=> AluStall[a] /\ (aluBusy[a] \/ result[a].busy)
              /\ result'[a].busy /\ result[a].busy => result'[a].msg.rob = result[a].msg.rob
              /\ result'[a].busy /\ aluBusy[a] => result'[a].msg.rob = task[a].rob
<1> DEFINE off == RS!Offered[a]
<1>1. ALU!Tick(RS!Offered, AluStall, CDB!ShouldClear)
  BY DEF Tick
<1>2. /\ off = {RS!TaskOf(s) : s \in RS!Offers(a)}
      /\ off # {} <=> RS!Offers(a) # {}
  <2>1. off = {RS!TaskOf(s) : s \in RS!Offers(a)}
    BY DEF RS!Offered, ALU!Alus
  <2> HIDE DEF off
  <2> QED
    BY <2>1
<1>3. /\ aluBusy'[a] <=> \/ off # {} /\ ~CDB!ShouldClear /\ ~AluStall[a]
                         \/ aluBusy[a] /\ result[a].busy /\ ~CDB!ShouldClear /\ ~AluStall[a]
      /\ off # {} /\ ~CDB!ShouldClear /\ ~AluStall[a] => task'[a] \in off
      /\ result'[a] = IF CDB!ShouldClear \/ (result[a].busy /\ ~AluStall[a])
                        THEN [result[a] EXCEPT !.busy = FALSE]
                      ELSE IF aluBusy[a] /\ ~result[a].busy /\ AluStall[a]
                        THEN [busy |-> TRUE, msg |-> ALU!Output(a)]
                      ELSE result[a]
  <2>1. aluBusy'[a] <=> \/ off # {} /\ ~CDB!ShouldClear /\ ~AluStall[a]
                        \/ aluBusy[a] /\ result[a].busy /\ ~CDB!ShouldClear /\ ~AluStall[a]
    BY <1>1 DEF ALU!Tick
  <2>2. task'[a] = IF off # {} /\ ~CDB!ShouldClear /\ ~AluStall[a]
                     THEN CHOOSE t \in off : TRUE ELSE task[a]
    BY <1>1 DEF ALU!Tick
  <2>3. result'[a] = IF CDB!ShouldClear \/ (result[a].busy /\ ~AluStall[a])
                       THEN [result[a] EXCEPT !.busy = FALSE]
                     ELSE IF aluBusy[a] /\ ~result[a].busy /\ AluStall[a]
                       THEN [busy |-> TRUE, msg |-> ALU!Output(a)]
                     ELSE result[a]
    BY <1>1 DEF ALU!Tick
  <2> HIDE DEF off
  <2> QED
    BY <2>1, <2>2, <2>3
<1> HIDE DEF off
<1>4. result[a] \in [busy : BOOLEAN, msg : BusMessage] /\ aluBusy[a] \in BOOLEAN
  BY DEF TypeOK, AluTypes
<1>5. aluBusy'[a] => \E s \in RS!Offers(a) : task'[a].rob = rsPayload[s].dest
  <2> SUFFICES ASSUME aluBusy'[a] PROVE \E s \in RS!Offers(a) : task'[a].rob = rsPayload[s].dest
    OBVIOUS
  <2>1. task'[a] \in off
    BY <1>3
  <2>2. PICK s \in RS!Offers(a) : task'[a] = RS!TaskOf(s)
    BY <1>2, <2>1
  <2>3. RS!TaskOf(s).rob = rsPayload[s].dest
    BY DEF RS!TaskOf
  <2> QED
    BY <2>2, <2>3
<1>6. ALU!Output(a).rob = task[a].rob
  BY DEF ALU!Output
<1>7. CASE CDB!ShouldClear \/ (result[a].busy /\ ~AluStall[a])
  <2>1. ~result'[a].busy
    BY <1>3, <1>4, <1>7
  <2> QED
    BY <1>2, <1>3, <1>5, <1>7, <2>1
<1>8. CASE ~CDB!ShouldClear /\ ~result[a].busy /\ aluBusy[a] /\ AluStall[a]
  <2>1. result'[a] = [busy |-> TRUE, msg |-> ALU!Output(a)]
    BY <1>3, <1>8
  <2>2. result'[a].busy /\ result'[a].msg = ALU!Output(a)
    BY <2>1
  <2>3. ~aluBusy'[a]
    BY <1>3, <1>8
  <2> QED
    BY <1>5, <1>6, <1>2, <1>8, <2>2, <2>3
<1>9. CASE /\ ~(CDB!ShouldClear \/ (result[a].busy /\ ~AluStall[a]))
           /\ ~(aluBusy[a] /\ ~result[a].busy /\ AluStall[a])
  <2>1. result'[a] = result[a]
    BY <1>3, <1>9
  <2> QED
    BY <1>2, <1>3, <1>5, <1>9, <2>1
<1> QED
  BY <1>7, <1>8, <1>9


(* What the load slots hold after a tick without a clear.                  *)
LEMMA LoadSlotStep ==
  ASSUME TypeOK, ~memClear, ~MemStall, NEW take \in {0, 1}, Tick(take), NEW i \in MEM!MemSlots
  PROVE  /\ LSQ!LoadRequests # {} /\ i \in MEM!FirstFree(loads) =>
              loads'[i].busy /\ loads'[i].rob = lsData[lsHead].rob
         /\ ~(LSQ!LoadRequests # {} /\ i \in MEM!FirstFree(loads)) =>
              /\ loads'[i].busy <=> loads[i].busy /\ i \notin MEM!Sender
              /\ loads'[i].rob = loads[i].rob
<1> DEFINE reqs == LSQ!LoadRequests
           p == CHOOSE q \in reqs : TRUE
<1>1. loads'[i] = IF reqs # {} /\ i \in MEM!FirstFree(loads)
                    THEN [busy |-> TRUE, ticks |-> MemTicks - 1, addr |-> p.addr,
                          size |-> p.size, rob |-> p.rob]
                  ELSE IF loads[i].busy
                    THEN [loads[i] EXCEPT !.ticks = loads[i].ticks - 1,
                                          !.busy = i \notin MEM!Sender \/ MemStall]
                  ELSE loads[i]
  BY DEF Tick, MEM!Tick
<1>2. loads[i] \in [busy : BOOLEAN, ticks : Int, addr : Word, size : Sizes, rob : 0 .. RobCapacity]
  BY DEF TypeOK, MemTypes
<1>3. CASE reqs # {} /\ i \in MEM!FirstFree(loads)
  <2>1. reqs \subseteq {lsData[lsHead]}
    BY DEF LSQ!LoadRequests, LSQ!Popped
  <2>2. p = lsData[lsHead]
    <3> HIDE DEF reqs
    <3> QED
      BY <1>3, <2>1
  <2>3. loads'[i] = [busy |-> TRUE, ticks |-> MemTicks - 1, addr |-> p.addr,
                     size |-> p.size, rob |-> p.rob]
    BY <1>1, <1>3
  <2>4. loads'[i].busy /\ loads'[i].rob = p.rob
    BY <2>3
  <2> QED
    BY <1>3, <2>2, <2>4
<1>4. CASE ~(reqs # {} /\ i \in MEM!FirstFree(loads)) /\ loads[i].busy
  <2>1. loads'[i] = [loads[i] EXCEPT !.ticks = loads[i].ticks - 1,
                                     !.busy = i \notin MEM!Sender \/ MemStall]
    BY <1>1, <1>4
  <2> QED
    BY <1>2, <1>4, <2>1
<1>5. CASE ~(reqs # {} /\ i \in MEM!FirstFree(loads)) /\ ~loads[i].busy
  <2>1. loads'[i] = loads[i]
    BY <1>1, <1>5
  <2> QED
    BY <1>5, <2>1
<1> QED
  BY <1>3, <1>4, <1>5

(* The winner of the bus is one, and its message is the one heard next.    *)
LEMMA BusStep ==
  ASSUME TypeOK, NEW take \in {0, 1}, Tick(take), NEW h \in CDB!Helpers,
         CDB!Wins(h), bhBusy[h][current[h]]
  PROVE  fire' /\ busData' = buffer[h][current[h]]
<1>1. \A k \in CDB!Helpers : CDB!Wins(k) => k = h
  BY DEF CDB!Wins, CDB!Helpers
<1>2. (CHOOSE k \in CDB!Helpers : CDB!Wins(k)) = h
  BY <1>1
<1> QED
  BY <1>2 DEF Tick, CDB!Tick

(* The flags of a tick without a clear, and of one with it.                *)
LEMMA Flags ==
  ASSUME TypeOK, Phase
  PROVE  /\ ~robClear => ~rsClear /\ ~lsClear /\ ~memClear /\ ~forcePc.busy /\ busClear \in {0, 1}
         /\ robClear => rsClear /\ lsClear /\ memClear /\ forcePc.busy /\ busClear = 2
<1>1. busClear \in 0 .. 2 /\ robClear \in BOOLEAN
  BY DEF TypeOK, CdbTypes, RobTypes
<1>2. CASE robClear = TRUE
  BY <1>2 DEF Phase
<1>3. CASE robClear = FALSE
  <2>1. busClear # 2
    BY <1>3 DEF Phase
  <2> QED
    BY <1>1, <1>3, <2>1 DEF Phase
<1> QED
  BY <1>1, <1>2, <1>3

(* A tick without a clear: every producer of a result is new or was one    *)
(* before.                                                                 *)
LEMMA Comes ==
  ASSUME ProducerInv, ~robClear, NEW take \in {0, 1}, Tick(take),
         NEW id, NEW k, Makes(k, id)'
  PROVE  \/ id = IU!Rob /\ \E s \in IU!Into : k = <<"station", s>>
         \/ \E l : Makes(l, id) /\ ~Leaves(l) /\ k = Target(l)
<1>1. /\ TypeOK /\ Phase /\ HelpersInv /\ LoadsCleared
      /\ \A a \in ALU!Alus : ~(aluBusy[a] /\ result[a].busy)
      /\ ~rsClear /\ ~lsClear /\ ~memClear /\ ~forcePc.busy
      /\ busClear \in {0, 1}
  <2>1. TypeOK /\ Phase /\ HelpersInv /\ LoadsCleared
    BY DEF ProducerInv, SlotsInv
  <2>2. \A a \in ALU!Alus : ~(aluBusy[a] /\ result[a].busy)
    BY DEF ProducerInv
  <2> QED
    BY <2>1, <2>2, Flags
<1>2. CASE \E s \in RS!Stations : k = <<"station", s>> /\ rsBusy'[s] /\ rsPayload'[s].dest = id
  <2>1. PICK s \in RS!Stations : k = <<"station", s>> /\ rsBusy'[s] /\ rsPayload'[s].dest = id
    BY <1>2
  <2>2. CASE s \in IU!Into
    BY <1>1, <2>1, <2>2, DestKept
  <2>3. CASE s \notin IU!Into
    <3>1. rsBusy[s] /\ s \notin RS!Released(AluAccepts, LsFull) /\ rsPayload[s].dest = id
      BY <1>1, <2>1, <2>3, StationStep, DestKept
    <3>2. /\ ~\E a \in ALU!Alus : AluAccepts[a] /\ s \in RS!Offers(a)
          /\ s \notin RS!LoadIssue(LsFull)
          /\ ~(s \in RS!StoreUpdate(LsFull) /\ RS!Complete(s))
      BY <1>1, <3>1, ReleasedCases DEF ALU!Alus
    <3>3. Makes(k, id)
      BY <2>1, <3>1 DEF Makes
    <3>4. ~Leaves(k)
      BY <2>1, <3>2 DEF Leaves
    <3>5. Target(k) = k
      BY <2>1, <3>2, TargetIs
    <3> QED
      BY <3>3, <3>4, <3>5
  <2> QED
    BY <2>2, <2>3
<1>3. CASE \E a \in ALU!Alus : k = <<"alu", a>> /\ aluBusy'[a] /\ task'[a].rob = id
  <2>1. PICK a \in ALU!Alus : k = <<"alu", a>> /\ aluBusy'[a] /\ task'[a].rob = id
    BY <1>3
  <2>2. ~CDB!ShouldClear /\ ~AluStall[a]
    BY <1>1, <2>1, AluStep
  <2>3. PICK s \in RS!Offers(a) : rsPayload[s].dest = id
    BY <1>1, <2>1, AluStep
  <2>4. s \in AluStations /\ rsBusy[s]
    BY DEF RS!Offers, RS!Able
  <2>5. AluAccepts[a]
    BY <2>2 DEF AluAccepts, ALU!Accepts, ALU!Alus
  <2> DEFINE l == <<"station", s>>
  <2>6. Makes(l, id)
    BY <2>3, <2>4 DEF Makes, RS!Stations
  <2>7. ~Leaves(l)
    BY <2>4, OneIssue, CpuAssumption DEF Leaves
  <2>8. Target(l) = k
    BY <2>1, <2>5, TargetIs
  <2> QED
    BY <2>6, <2>7, <2>8
<1>4. CASE \E a \in ALU!Alus : k = <<"result", a>> /\ result'[a].busy /\ result'[a].msg.rob = id
  <2>1. PICK a \in ALU!Alus : k = <<"result", a>> /\ result'[a].busy /\ result'[a].msg.rob = id
    BY <1>4
  <2>2. /\ AluStall[a] /\ (aluBusy[a] \/ result[a].busy)
        /\ result[a].busy => result[a].msg.rob = id
        /\ aluBusy[a] => task[a].rob = id
    BY <1>1, <2>1, AluStep
  <2>3. CASE aluBusy[a]
    <3> DEFINE l == <<"alu", a>>
    <3>1. Makes(l, id) /\ ~Leaves(l)
      BY <2>2, <2>3 DEF Makes, Leaves
    <3>2. Target(l) = k
      BY <2>1, <2>2, TargetIs
    <3> QED
      BY <3>1, <3>2
  <2>4. CASE result[a].busy
    <3>1. Makes(k, id) /\ ~Leaves(k)
      BY <2>1, <2>2, <2>4 DEF Makes, Leaves
    <3>2. Target(k) = k
      BY <2>1, <2>2, TargetIs
    <3> QED
      BY <3>1, <3>2
  <2> QED
    BY <2>2, <2>3, <2>4
<1>5. CASE \E s \in LSQ!queue!Live' : /\ k = <<"queue", s>> /\ lsData'[s].op = "LOAD"
                                      /\ ~lsData'[s].cleared /\ lsData'[s].rob = id
  <2>1. PICK s \in LSQ!queue!Live' : /\ k = <<"queue", s>> /\ lsData'[s].op = "LOAD"
                                     /\ ~lsData'[s].cleared /\ lsData'[s].rob = id
    BY <1>5
  <2>2. s \in LSQ!queue!Slots
    BY <1>1, WaitingStep
  <2>3. lsData'[s] = IF LsPushes # {} /\ ~LsFull /\ s = lsTail THEN CHOOSE p \in LsPushes : TRUE
                     ELSE lsData[s]
    BY <1>1, <2>2 DEF Tick, LSQ!Tick, LsFull
  <2>4. CASE s \in LSQ!queue!Live /\ ~(LSQ!Popped # {} /\ s = lsHead)
    <3>1. lsData'[s] = lsData[s]
      BY <1>1, <2>3, <2>4, WaitingStep
    <3>2. Makes(k, id) /\ ~Leaves(k)
      BY <2>1, <2>4, <3>1 DEF Makes, Leaves
    <3>3. Target(k) = k
      BY <2>1, <2>4, TargetIs
    <3> QED
      BY <3>2, <3>3
  <2>5. CASE LsPushes # {} /\ ~LsFull /\ s = lsTail
    <3>1. lsData'[s] \in LsPushes
      BY <2>3, <2>5
    <3>2. lsData'[s] \notin ROB!Stored(LsFull)
      BY <2>1 DEF ROB!Stored
    <3>3. PICK t \in RS!LoadIssue(LsFull) : lsData'[s].rob = rsPayload[t].dest
      BY <3>1, <3>2 DEF LsPushes, RS!LoadPushes
    <3> DEFINE l == <<"station", t>>
    <3>4. Makes(l, id) /\ ~Leaves(l)
      BY <2>1, <3>3, OneIssue, CpuAssumption DEF Makes, Leaves, RS!Stations
    <3>5. Target(l) = k
      BY <2>1, <2>5, TargetIs
    <3> QED
      BY <3>4, <3>5
  <2> QED
    BY <1>1, <2>2, <2>4, <2>5, WaitingStep
<1>6. CASE \E i \in MEM!MemSlots : k = <<"memory", i>> /\ loads'[i].busy /\ loads'[i].rob = id
  <2>1. PICK i \in MEM!MemSlots : k = <<"memory", i>> /\ loads'[i].busy /\ loads'[i].rob = id
    BY <1>6
  <2>2. ~MemStall
    BY <1>1, MemoryNeverStalls
  <2>3. CASE LSQ!LoadRequests # {} /\ i \in MEM!FirstFree(loads)
    <3>1. lsData[lsHead].rob = id
      BY <1>1, <2>1, <2>2, <2>3, LoadSlotStep
    <3>2. /\ LSQ!Popped # {} /\ lsData[lsHead].op = "LOAD" /\ ~lsData[lsHead].cleared
      BY <2>3 DEF LSQ!LoadRequests, LSQ!Popped
    <3>3. lsHead \in LSQ!queue!Live
      BY <1>1, <3>2, WaitingStep
    <3> DEFINE l == <<"queue", lsHead>>
    <3>4. Makes(l, id) /\ ~Leaves(l)
      BY <3>1, <3>2, <3>3 DEF Makes, Leaves
    <3>5. (CHOOSE j \in MEM!FirstFree(loads) : TRUE) = i
      BY <2>3, OneFree
    <3>6. Target(l) = k
      BY <2>1, <3>2, <3>5, TargetIs
    <3> QED
      BY <3>4, <3>6
  <2>4. CASE ~(LSQ!LoadRequests # {} /\ i \in MEM!FirstFree(loads))
    <3>1. loads[i].busy /\ i \notin MEM!Sender /\ loads[i].rob = id
      BY <1>1, <2>1, <2>2, <2>4, LoadSlotStep
    <3>2. Makes(k, id) /\ ~Leaves(k)
      BY <2>1, <3>1 DEF Makes, Leaves
    <3>3. Target(k) = k
      BY <2>1, <3>1, TargetIs
    <3> QED
      BY <3>2, <3>3
  <2> QED
    BY <2>3, <2>4
<1>7. CASE \E h \in CDB!Helpers, ix \in {0, 1} :
             k = <<"helper", <<h, ix>>>> /\ bhBusy'[h][ix] /\ buffer'[h][ix].rob = id
  <2>1. PICK h \in CDB!Helpers, ix \in {0, 1} :
          k = <<"helper", <<h, ix>>>> /\ bhBusy'[h][ix] /\ buffer'[h][ix].rob = id
    BY <1>7
  <2>2. busClear = 0 /\ ix \in CDB!Buffers
    BY <1>1, <2>1, BusClearStep DEF CDB!Buffers
  <2>3. CASE Sent[h] # {} /\ ix = CDB!Acquires(h)
    <3>1. k = SentThrough(h)
      BY <2>1, <2>3 DEF SentThrough
    <3>2. CASE h = MemHelper
      <4>1. PICK i \in MEM!Sender : TRUE
        BY <1>1, <2>2, <2>3, <3>2, SentIs
      <4>2. PICK m : Sent[h] = {m} /\ m.rob = loads[i].rob
        BY <1>1, <2>2, <3>2, SentIs
      <4>3. loads[i].rob = id
        BY <2>1, <2>2, <2>3, <4>2, BufferStep
      <4>4. i \in MEM!MemSlots /\ loads[i].busy
        BY DEF MEM!Sender, MEM!Due
      <4> DEFINE l == <<"memory", i>>
      <4>5. Makes(l, id) /\ ~Leaves(l)
        BY <4>3, <4>4 DEF Makes, Leaves
      <4>6. Target(l) = k
        BY <3>1, <3>2, TargetIs
      <4> QED
        BY <4>5, <4>6
    <3>3. CASE h # MemHelper
      <4>1. PICK a \in ALU!Alus : AluHelper(a) = h
        <5>1. h - 1 \in ALU!Alus /\ AluHelper(h - 1) = h
          BY <3>3, CpuAssumption DEF CDB!Helpers, HelperCount, MemHelper, ALU!Alus, AluHelper
        <5> QED
          BY <5>1
      <4>2. ~AluStall[a] /\ (result[a].busy \/ aluBusy[a])
        BY <1>1, <2>2, <2>3, <4>1, SentIs
      <4>3. CASE result[a].busy
        <5>1. Sent[h] = {result[a].msg}
          BY <1>1, <2>2, <4>1, <4>2, <4>3, SentIs
        <5>2. result[a].msg.rob = id
          BY <2>1, <2>2, <2>3, <5>1, BufferStep
        <5> DEFINE l == <<"result", a>>
        <5>3. Makes(l, id) /\ ~Leaves(l)
          BY <4>3, <5>2 DEF Makes, Leaves
        <5>4. Target(l) = k
          BY <3>1, <4>1, <4>2, TargetIs
        <5> QED
          BY <5>3, <5>4
      <4>4. CASE ~result[a].busy /\ aluBusy[a]
        <5>1. Sent[h] = {ALU!Output(a)}
          BY <1>1, <2>2, <4>1, <4>2, <4>4, SentIs
        <5>2. task[a].rob = id
          <6>1. ALU!Output(a).rob = task[a].rob
            BY DEF ALU!Output
          <6> QED
            BY <2>1, <2>2, <2>3, <5>1, <6>1, BufferStep
        <5> DEFINE l == <<"alu", a>>
        <5>3. Makes(l, id) /\ ~Leaves(l)
          BY <4>4, <5>2 DEF Makes, Leaves
        <5>4. Target(l) = k
          BY <3>1, <4>1, <4>2, TargetIs
        <5> QED
          BY <5>3, <5>4
      <4> QED
        BY <4>2, <4>3, <4>4
    <3> QED
      BY <3>2, <3>3
  <2>4. CASE ~(Sent[h] # {} /\ ix = CDB!Acquires(h))
    <3>1. bhBusy[h][ix] /\ ~(CDB!Wins(h) /\ ix = current[h])
      BY <1>1, <2>1, <2>2, <2>4, HelperStep
    <3>2. buffer[h][ix].rob = id
      BY <2>1, <2>2, <2>4, BufferStep
    <3>3. Makes(k, id)
      BY <2>1, <3>1, <3>2 DEF Makes
    <3>4. ~Leaves(k)
      BY <2>1 DEF Leaves
    <3>5. Target(k) = k
      BY <2>1, <3>1, TargetIs
    <3> QED
      BY <3>3, <3>4, <3>5
  <2> QED
    BY <2>3, <2>4
<1>8. CASE \E m \in CDB!GetData' : k = <<"bus", m>> /\ m.rob = id
  <2>1. fire' /\ k = <<"bus", busData'>> /\ busData'.rob = id
    BY <1>8 DEF CDB!GetData
  <2>2. busClear = 0
    BY <1>1, <2>1, BusClearStep
  <2>3. PICK h \in CDB!Helpers : CDB!Wins(h)
    BY <2>1 DEF Tick, CDB!Tick
  <2>4. bhBusy[h][current[h]] /\ current[h] \in {0, 1}
    BY <1>1, <2>2, <2>3, HelperStep DEF TypeOK, CdbTypes, CDB!Buffers
  <2>5. busData' = buffer[h][current[h]]
    BY <1>1, <2>3, <2>4, BusStep
  <2> DEFINE l == <<"helper", <<h, current[h]>>>>
  <2>6. Makes(l, id)
    BY <2>1, <2>4, <2>5 DEF Makes
  <2>7. ~Leaves(l)
    BY DEF Leaves
  <2>8. Target(l) = k
    BY <2>1, <2>3, <2>5, TargetIs
  <2> QED
    BY <2>6, <2>7, <2>8
<1>9. \/ \E s \in RS!Stations : k = <<"station", s>> /\ rsBusy'[s] /\ rsPayload'[s].dest = id
      \/ \E a \in ALU!Alus : k = <<"alu", a>> /\ aluBusy'[a] /\ task'[a].rob = id
      \/ \E a \in ALU!Alus : k = <<"result", a>> /\ result'[a].busy /\ result'[a].msg.rob = id
      \/ \E s \in LSQ!queue!Live' : /\ k = <<"queue", s>> /\ lsData'[s].op = "LOAD"
                                    /\ ~lsData'[s].cleared /\ lsData'[s].rob = id
      \/ \E i \in MEM!MemSlots : k = <<"memory", i>> /\ loads'[i].busy /\ loads'[i].rob = id
      \/ \E h \in CDB!Helpers, ix \in {0, 1} :
           k = <<"helper", <<h, ix>>>> /\ bhBusy'[h][ix] /\ buffer'[h][ix].rob = id
      \/ \E m \in CDB!GetData' : k = <<"bus", m>> /\ m.rob = id
  BY Zenon DEF Makes, RS!Stations, ALU!Alus, MEM!MemSlots, CDB!Helpers, HelperCount, MemHelper
<1> QED
  BY <1>2, <1>3, <1>4, <1>5, <1>6, <1>7, <1>8, <1>9


(* A tick without a clear: every producer of a result goes on, or its      *)
(* entry is told.                                                          *)
LEMMA Goes ==
  ASSUME ProducerInv, busClear = 0, NEW take \in {0, 1}, Tick(take),
         NEW id, NEW l, Makes(l, id), ~Leaves(l), NEW k, k = Target(l)
  PROVE  Makes(k, id)'
<1>1. /\ TypeOK /\ Phase /\ HelpersInv /\ LoadsCleared
      /\ \A a \in ALU!Alus : ~(aluBusy[a] /\ result[a].busy)
      /\ ~rsClear /\ ~lsClear /\ ~memClear /\ ~forcePc.busy
      /\ ~MemStall
  <2>1. TypeOK /\ Phase /\ HelpersInv /\ LoadsCleared
    BY DEF ProducerInv, SlotsInv
  <2>2. \A a \in ALU!Alus : ~(aluBusy[a] /\ result[a].busy)
    BY DEF ProducerInv
  <2>3. ~robClear
    BY <2>1, Flags
  <2> QED
    BY <2>1, <2>2, <2>3, Flags, SentIs
<1>2. ASSUME NEW h \in CDB!Helpers, NEW m, Sent[h] = {m}, m.rob = id, Target(l) = SentThrough(h)
      PROVE  Makes(k, id)'
  <2> DEFINE ix == CDB!Acquires(h)
  <2>1. ix \in CDB!Buffers /\ bhBusy'[h][ix]
    BY <1>1, <1>2, HelperStep
  <2>2. buffer'[h][ix] = m
    BY <1>2, <2>1, BufferStep
  <2>3. h \in CDB!Helpers' /\ ix \in {0, 1}
    BY <2>1 DEF CDB!Helpers, HelperCount, CDB!Buffers
  <2>4. Target(l) = <<"helper", <<h, ix>>>>
    BY <1>2 DEF SentThrough
  <2> HIDE DEF ix
  <2> QED
    BY <1>2, <2>1, <2>2, <2>3, <2>4 DEF Makes
<1>3. CASE \E s \in RS!Stations : l = <<"station", s>> /\ rsBusy[s] /\ rsPayload[s].dest = id
  <2>1. PICK s \in RS!Stations : l = <<"station", s>> /\ rsBusy[s] /\ rsPayload[s].dest = id
    BY <1>3
  <2>2. ~(s \in RS!StoreUpdate(LsFull) /\ RS!Complete(s))
    BY <2>1 DEF Leaves
  <2>3. CASE \E a \in ALU!Alus : AluAccepts[a] /\ s \in RS!Offers(a)
    <3>1. PICK a \in ALU!Alus : AluAccepts[a] /\ s \in RS!Offers(a)
      BY <2>3
    <3>2. AluAccepts[a] <=> ~AluStall[a]
      BY <1>1, SentIs
    <3>3. aluBusy'[a]
      <4>1. RS!Offers(a) # {} /\ ~AluStall[a] /\ ~CDB!ShouldClear
        BY <3>1, <3>2 DEF CDB!ShouldClear
      <4> QED
        BY <1>1, <4>1, AluStep
    <3>4. PICK t \in RS!Offers(a) : task'[a].rob = rsPayload[t].dest
      BY <1>1, <3>3, AluStep
    <3>5. t = s
      BY <3>1, OneOffer DEF ALU!Alus
    <3>6. Target(l) = <<"alu", a>>
      BY <2>1, <3>1, TargetIs
    <3> QED
      BY <2>1, <3>3, <3>4, <3>5, <3>6 DEF Makes, ALU!Alus
  <2>4. CASE s \in RS!LoadIssue(LsFull)
    <3>1. ~LsFull
      BY <2>4, OneIssue
    <3> DEFINE p == [op |-> "LOAD", size |-> rsPayload[s].size, addr |-> RS!CalcAddr(rsPayload[s]),
                     value |-> 0, rob |-> rsPayload[s].dest, cleared |-> FALSE]
    <3>2. p \in LsPushes
      BY <2>4 DEF LsPushes, RS!LoadPushes
    <3>3. p.op = "LOAD" /\ ~p.cleared /\ p.rob = id
      BY <2>1
    <3> HIDE DEF p
    <3>4. LsPushes = {p}
      BY <3>2, OnePush
    <3>5. lsTail \in LSQ!queue!Slots
      BY <1>1 DEF TypeOK, LsqTypes
    <3>6. lsData'[lsTail] = CHOOSE q \in LsPushes : TRUE
      BY <3>1, <3>4, <3>5 DEF Tick, LSQ!Tick, LsFull
    <3>7. lsData'[lsTail] = p /\ lsTail \in LSQ!queue!Live'
      BY <1>1, <3>1, <3>4, <3>5, <3>6, WaitingStep
    <3>8. Target(l) = <<"queue", lsTail>>
      BY <2>1, <2>4, TargetIs
    <3> QED
      BY <3>3, <3>7, <3>8 DEF Makes
  <2>5. CASE /\ ~\E a \in ALU!Alus : AluAccepts[a] /\ s \in RS!Offers(a)
             /\ s \notin RS!LoadIssue(LsFull)
    <3>1. s \notin RS!Released(AluAccepts, LsFull)
      BY <1>1, <2>2, <2>5, ReleasedCases DEF ALU!Alus
    <3>2. s \notin IU!Into
      BY <1>1, <2>1, IntoOne
    <3>3. rsBusy'[s] /\ rsPayload'[s].dest = id
      BY <1>1, <2>1, <3>1, <3>2, StationStep, DestKept
    <3>4. Target(l) = l
      BY <2>1, <2>5, TargetIs
    <3> QED
      BY <2>1, <3>3, <3>4 DEF Makes, RS!Stations
  <2> QED
    BY <2>3, <2>4, <2>5
<1>4. ASSUME NEW a \in ALU!Alus, \/ l = <<"alu", a>> /\ aluBusy[a] /\ task[a].rob = id
                                 \/ l = <<"result", a>> /\ result[a].busy /\ result[a].msg.rob = id
      PROVE  Makes(k, id)'
  <2>1. CASE AluStall[a]
    <3>1. ~CDB!ShouldClear
      BY DEF CDB!ShouldClear
    <3>2. result'[a].busy /\ result'[a].msg.rob = id
      BY <1>1, <1>4, <2>1, <3>1, AluStep
    <3>3. Target(l) = <<"result", a>>
      BY <1>4, <2>1, TargetIs
    <3> QED
      BY <3>2, <3>3 DEF Makes, ALU!Alus
  <2>2. CASE ~AluStall[a]
    <3>1. Target(l) = SentThrough(AluHelper(a)) /\ AluHelper(a) \in CDB!Helpers
      BY <1>1, <1>4, <2>2, TargetIs, SentIs
    <3>2. CASE result[a].busy
      <4>1. Sent[AluHelper(a)] = {result[a].msg} /\ result[a].msg.rob = id
        BY <1>1, <1>4, <2>2, <3>2, SentIs
      <4> QED
        BY <1>2, <3>1, <4>1
    <3>3. CASE ~result[a].busy
      <4>1. Sent[AluHelper(a)] = {ALU!Output(a)} /\ task[a].rob = id
        BY <1>1, <1>4, <2>2, <3>3, SentIs
      <4>2. ALU!Output(a).rob = id
        BY <4>1 DEF ALU!Output
      <4> QED
        BY <1>2, <3>1, <4>1, <4>2
    <3> QED
      BY <3>2, <3>3
  <2> QED
    BY <2>1, <2>2
<1>5. CASE \E s \in LSQ!queue!Live : /\ l = <<"queue", s>> /\ lsData[s].op = "LOAD"
                                     /\ ~lsData[s].cleared /\ lsData[s].rob = id
  <2>1. PICK s \in LSQ!queue!Live : /\ l = <<"queue", s>> /\ lsData[s].op = "LOAD"
                                    /\ ~lsData[s].cleared /\ lsData[s].rob = id
    BY <1>5
  <2>2. s \in LSQ!queue!Slots /\ s # lsTail
    BY <1>1, WaitingStep
  <2>3. CASE LSQ!Popped # {} /\ s = lsHead
    <3>1. lsData[s] \in LSQ!LoadRequests
      BY <2>1, <2>3 DEF LSQ!LoadRequests, LSQ!Popped
    <3>2. MEM!FirstFree(loads) # {}
      BY <3>1, StaggeredLeavesRoom DEF ProducerInv, SlotsInv
    <3>3. PICK i \in MEM!FirstFree(loads) : i = CHOOSE j \in MEM!FirstFree(loads) : TRUE
      BY <3>2
    <3>4. i \in MEM!MemSlots
      BY DEF MEM!FirstFree
    <3>5. loads'[i].busy /\ loads'[i].rob = id
      BY <1>1, <2>1, <2>3, <3>1, <3>4, LoadSlotStep
    <3>6. Target(l) = <<"memory", i>>
      BY <2>1, <2>3, <3>3, TargetIs
    <3> QED
      BY <3>4, <3>5, <3>6 DEF Makes, MEM!MemSlots
  <2>4. CASE ~(LSQ!Popped # {} /\ s = lsHead)
    <3>1. s \in LSQ!queue!Live'
      BY <1>1, <2>2, <2>4, WaitingStep
    <3>2. lsData'[s] = lsData[s]
      BY <1>1, <2>2 DEF Tick, LSQ!Tick
    <3>3. Target(l) = l
      BY <2>1, <2>4, TargetIs
    <3> QED
      BY <2>1, <3>1, <3>2, <3>3 DEF Makes
  <2> QED
    BY <2>3, <2>4
<1>6. CASE \E i \in MEM!MemSlots : l = <<"memory", i>> /\ loads[i].busy /\ loads[i].rob = id
  <2>1. PICK i \in MEM!MemSlots : l = <<"memory", i>> /\ loads[i].busy /\ loads[i].rob = id
    BY <1>6
  <2>2. CASE i \in MEM!Sender
    <3>1. PICK m : Sent[MemHelper] = {m} /\ m.rob = id
      BY <1>1, <2>1, <2>2, SentIs
    <3>2. Target(l) = SentThrough(MemHelper) /\ MemHelper \in CDB!Helpers
      BY <2>1, <2>2, TargetIs, CpuAssumption DEF CDB!Helpers, HelperCount, MemHelper
    <3> QED
      BY <1>2, <3>1, <3>2
  <2>3. CASE i \notin MEM!Sender
    <3>1. i \notin MEM!FirstFree(loads)
      BY <2>1 DEF MEM!FirstFree
    <3>2. loads'[i].busy /\ loads'[i].rob = id
      BY <1>1, <2>1, <2>3, <3>1, LoadSlotStep
    <3>3. Target(l) = l
      BY <2>1, <2>3, TargetIs
    <3> QED
      BY <2>1, <3>2, <3>3 DEF Makes, MEM!MemSlots
  <2> QED
    BY <2>2, <2>3
<1>7. CASE \E h \in CDB!Helpers, ix \in {0, 1} :
             l = <<"helper", <<h, ix>>>> /\ bhBusy[h][ix] /\ buffer[h][ix].rob = id
  <2>1. PICK h \in CDB!Helpers, ix \in {0, 1} :
          l = <<"helper", <<h, ix>>>> /\ bhBusy[h][ix] /\ buffer[h][ix].rob = id
    BY <1>7
  <2>2. CASE CDB!Wins(h) /\ ix = current[h]
    <3>1. fire' /\ busData' = buffer[h][ix]
      BY <1>1, <2>1, <2>2, BusStep
    <3>2. Target(l) = <<"bus", buffer[h][ix]>>
      BY <2>1, <2>2, TargetIs
    <3>3. busData' \in CDB!GetData'
      BY <3>1 DEF CDB!GetData
    <3> QED
      BY <2>1, <3>1, <3>2, <3>3 DEF Makes
  <2>3. CASE ~(CDB!Wins(h) /\ ix = current[h])
    <3>1. ix \in CDB!Buffers
      BY DEF CDB!Buffers
    <3>2. ~(Sent[h] # {} /\ ix = CDB!Acquires(h)) /\ bhBusy'[h][ix]
      BY <1>1, <2>1, <2>3, <3>1, HelperStep
    <3>3. buffer'[h][ix].rob = id
      BY <2>1, <3>1, <3>2, BufferStep
    <3>4. Target(l) = l
      BY <2>1, <2>3, TargetIs
    <3>5. h \in CDB!Helpers'
      BY DEF CDB!Helpers, HelperCount
    <3> QED
      BY <2>1, <3>2, <3>3, <3>4, <3>5 DEF Makes
  <2> QED
    BY <2>2, <2>3
<1>8. ~\E m \in CDB!GetData : l = <<"bus", m>>
  BY DEF Leaves
<1> QED
  BY <1>3, <1>4, <1>5, <1>6, <1>7, <1>8 DEF Makes


(* The tick that clears: nothing is left that makes a result.              *)
LEMMA NoneLeft ==
  ASSUME ProducerInv, robClear, NEW take \in {0, 1}, Tick(take)
  PROVE  /\ busClear' = 1 /\ ROB!Live' = {}
         /\ \A id : Producers(id)' = {}
<1>1. /\ TypeOK /\ Phase /\ HelpersInv /\ LoadsCleared /\ SlotsInv
      /\ \A a \in ALU!Alus : ~(aluBusy[a] /\ result[a].busy)
      /\ rsClear /\ lsClear /\ memClear /\ forcePc.busy /\ busClear = 2
  <2>1. TypeOK /\ Phase /\ HelpersInv /\ LoadsCleared /\ SlotsInv
    BY DEF ProducerInv, SlotsInv
  <2>2. \A a \in ALU!Alus : ~(aluBusy[a] /\ result[a].busy)
    BY DEF ProducerInv
  <2> QED
    BY <2>1, <2>2, Flags
<1>2. busClear' = 1
  <2>1. ~ROB!Flushes
    BY <1>1, PhaseStep
  <2> QED
    BY <1>1, <2>1, PhaseStep
<1>3. ROB!Live' = {}
  <2>1. robHead' = 0 /\ robTail' = 0
    BY DEF Tick, ROB!Tick, ROB!robs!Move
  <2> QED
    BY <2>1, EmptyRing
<1>4. SlotsInv'
  BY <1>1, SlotsStep DEF Next
<1>5. \A s \in RS!Stations : ~rsBusy'[s]
  <2>1. IU!Into = {}
    BY <1>1 DEF IU!Into
  <2>2. \A s \in RS!Stations : s \in RS!Released(AluAccepts, LsFull)
    BY <1>1 DEF RS!Released
  <2> QED
    BY <1>1, <2>1, <2>2, StationStep
<1>6. \A a \in ALU!Alus : ~aluBusy'[a] /\ ~result'[a].busy
  BY <1>1, AluStep DEF CDB!ShouldClear
<1>7. ASSUME NEW s \in LSQ!queue!Live', lsData'[s].op = "LOAD" PROVE lsData'[s].cleared
  <2>1. LsPushes = {}
    BY <1>1 DEF LsPushes, RS!LoadPushes, RS!LoadIssue, RS!Able, RS!FirstOf, ROB!Stored, ROB!Commits
  <2>2. s \in LSQ!queue!Live /\ s \in LSQ!queue!Slots
    BY <1>1, <2>1, WaitingStep
  <2>3. lsData'[s] = IF lsData[s].op = "LOAD" THEN [lsData[s] EXCEPT !.cleared = TRUE] ELSE lsData[s]
    BY <1>1, <2>1, <2>2 DEF Tick, LSQ!Tick
  <2>4. lsData[s] \in LSQ!LsPayload
    BY <1>1, <2>2 DEF TypeOK, LsqTypes
  <2>5. CASE lsData[s].op = "LOAD"
    BY <2>3, <2>4, <2>5 DEF LSQ!LsPayload
  <2>6. CASE lsData[s].op # "LOAD"
    BY <1>7, <2>3, <2>6
  <2> QED
    BY <2>5, <2>6
<1>8. \A i \in MEM!MemSlots : ~loads'[i].busy
  BY <1>2, <1>4 DEF SlotsInv, LoadsCleared, MEM!MemSlots
<1>9. \A h \in CDB!Helpers, ix \in {0, 1} : ~bhBusy'[h][ix]
  BY <1>1, BusClearStep DEF CDB!Buffers
<1>10. CDB!GetData' = {}
  <2>1. ~fire'
    BY <1>1, BusClearStep
  <2> QED
    BY <2>1 DEF CDB!GetData
<1>11. \A id, k : ~Makes(k, id)'
  <2> SUFFICES ASSUME NEW id, NEW k, Makes(k, id)' PROVE FALSE
    OBVIOUS
  <2>1. \/ \E s \in RS!Stations : rsBusy'[s]
        \/ \E a \in ALU!Alus : aluBusy'[a]
        \/ \E a \in ALU!Alus : result'[a].busy
        \/ \E s \in LSQ!queue!Live' : lsData'[s].op = "LOAD" /\ ~lsData'[s].cleared
        \/ \E i \in MEM!MemSlots : loads'[i].busy
        \/ \E h \in CDB!Helpers, ix \in {0, 1} : bhBusy'[h][ix]
        \/ CDB!GetData' # {}
    BY Zenon DEF Makes, RS!Stations, ALU!Alus, MEM!MemSlots, CDB!Helpers, HelperCount, MemHelper
  <2> QED
    BY <1>5, <1>6, <1>7, <1>8, <1>9, <1>10, <2>1
<1> QED
  BY <1>2, <1>3, <1>11, MakesNext

(* The entry that a producer works for stays in the buffer until it is     *)
(* ready, and becomes ready when its producer leaves.                      *)
LEMMA EntryStep ==
  ASSUME TypeOK, Phase, ~robClear, NEW take \in {0, 1}, Tick(take), NEW s \in ROB!Slots,
         ~(IU!Into # {} /\ s = robTail)
  PROVE  /\ s \in ROB!Live' => s \in ROB!Live
         /\ s \in ROB!Live' /\ ~ready'[s] => ~ready[s]
         /\ s \in ROB!Live /\ ~ready[s] =>
              /\ s \in ROB!Live'
              /\ ready'[s] <=> \/ s \in ROB!Hit(CDB!Heard)
                               \/ \E t \in RS!StoreUpdate(LsFull) :
                                    RS!Complete(t) /\ ROB!Slot(rsPayload[t].dest) = s
         /\ s \in ROB!Live' /\ ready[s] => ready'[s]
<1>1. s \in ROB!Live' => s \in ROB!Live /\ ~(ROB!Pops(LsFull) /\ s = robHead)
  BY RingStep
<1>2. ROB!Pops(LsFull) => ready[robHead]
  BY DEF ROB!Pops, ROB!Commits
<1>3. s \in ROB!Live /\ ~ready[s] => s \in ROB!Live' /\ ~(ROB!Pops(LsFull) /\ s = robHead)
  BY <1>2, RingStep
<1> QED
  BY <1>1, <1>3, ReadyStep


(* A tick without a clear, entry by entry.                                 *)
LEMMA MadeStep ==
  ASSUME ProducerInv, ~robClear, NEW take \in {0, 1}, Tick(take), NEW id \in 0 .. RobCapacity
  PROVE  /\ Producers(id)' # {} =>
              id \in RF!RobIds /\ ROB!Slot(id) \in ROB!Live' /\ ~ready'[ROB!Slot(id)]
         /\ \A l, k \in Producers(id)' : l = k
         /\ id \in RF!RobIds /\ ROB!Slot(id) \in ROB!Live' /\ ~ready'[ROB!Slot(id)] =>
              Producers(id)' # {}
<1> DEFINE s == ROB!Slot(id)
<1>1. /\ TypeOK /\ Phase /\ busClear \in {0, 1}
      /\ busClear = 1 => ROB!Live = {}
  BY Flags DEF ProducerInv, SlotsInv
<1>2. /\ Producers(id) # {} => id \in RF!RobIds /\ s \in ROB!Live /\ ~ready[s]
      /\ \A l, k \in Producers(id) : l = k
      /\ id \in RF!RobIds /\ s \in ROB!Live /\ ~ready[s] => Producers(id) # {}
  BY DEF ProducerInv
<1>3. \A k \in Producers(id)' :
        \/ id = IU!Rob /\ \E t \in IU!Into : k = <<"station", t>>
        \/ \E l \in Producers(id) : ~Leaves(l) /\ k = Target(l)
  <2>1. ASSUME NEW k \in Producers(id)'
        PROVE  \/ id = IU!Rob /\ \E t \in IU!Into : k = <<"station", t>>
               \/ \E l \in Producers(id) : ~Leaves(l) /\ k = Target(l)
    <3>1. Makes(k, id)'
      BY <2>1, MakesNext
    <3>2. \/ id = IU!Rob /\ \E t \in IU!Into : k = <<"station", t>>
          \/ \E l : Makes(l, id) /\ ~Leaves(l) /\ k = Target(l)
      BY <3>1, Comes
    <3> QED
      BY <3>2, MakesAre
  <2> QED
    BY <2>1
<1>4. /\ id \in RF!RobIds => s \in ROB!Slots /\ ROB!Id(s) = id
      /\ id = IU!Rob <=> s = robTail
      /\ \A d \in RF!RobIds : ROB!Slot(d) = s => d = id
      /\ id = IU!Rob => id \in RF!RobIds
  BY <1>1, CpuAssumption DEF RF!RobIds, ROB!Slots, ROB!Id, ROB!Slot, IU!Rob, IU!ROB!Id,
     TypeOK, RobTypes
<1> HIDE DEF s
<1>5. CASE IU!Into # {} /\ id = IU!Rob
  <2>1. PICK t \in IU!Into : TRUE
    BY <1>5
  <2>2. /\ t \in RS!Stations /\ \A u \in IU!Into : u = t
        /\ rsBusy'[t] /\ rsPayload'[t].dest = id
    BY <1>1, <1>5, IntoOne, StationStep, DestKept
  <2>3. Producers(id) = {}
    BY <1>1, <1>2, <1>4, <1>5, RingStep
  <2>4. \A k \in Producers(id)' : k = <<"station", t>>
    BY <1>3, <2>2, <2>3
  <2>5. <<"station", t>> \in Producers(id)'
    <3>1. Makes(<<"station", t>>, id)'
      BY <2>2 DEF Makes, RS!Stations
    <3> QED
      BY <3>1, MakesNext
  <2>6. s \in ROB!Live' /\ ~ready'[s]
    BY <1>1, <1>4, <1>5, RingStep, ReadyStep
  <2> QED
    BY <1>4, <1>5, <2>4, <2>5, <2>6 DEF s
<1>6. CASE ~(IU!Into # {} /\ id = IU!Rob)
  <2>1. \A k \in Producers(id)' : \E l \in Producers(id) : ~Leaves(l) /\ k = Target(l)
    BY <1>3, <1>6
  <2>2. ASSUME id \in RF!RobIds, s \in ROB!Live, ~ready[s]
        PROVE  ready'[s] <=> \E l \in Producers(id) : Leaves(l)
    <3>1. busClear = 0 /\ CDB!Heard = CDB!GetData
      BY <1>1, <2>2 DEF CDB!Heard
    <3>2. ready'[s] <=> \/ s \in ROB!Hit(CDB!Heard)
                        \/ \E t \in RS!StoreUpdate(LsFull) :
                             RS!Complete(t) /\ ROB!Slot(rsPayload[t].dest) = s
      BY <1>1, <1>4, <1>6, <2>2, EntryStep
    <3>3. s \in ROB!Hit(CDB!Heard) <=> \E m \in CDB!GetData : m.rob = id
      BY <1>4, <2>2, <3>1 DEF ROB!Hit
    <3>4. \A t \in RS!StoreUpdate(LsFull) :
            t \in RS!Stations /\ rsBusy[t] /\ (ROB!Slot(rsPayload[t].dest) = s <=> rsPayload[t].dest = id)
      <4>1. ASSUME NEW t \in RS!StoreUpdate(LsFull)
            PROVE  /\ t \in RS!Stations /\ rsBusy[t]
                   /\ ROB!Slot(rsPayload[t].dest) = s <=> rsPayload[t].dest = id
        <5>1. t \in RS!Stations /\ rsBusy[t]
          BY OneIssue DEF RS!Stations
        <5>2. rsPayload[t].dest \in RF!RobIds
          BY <1>1, <5>1 DEF TypeOK, RsTypes
        <5> QED
          BY <1>4, <5>1, <5>2 DEF s
      <4> QED
        BY <4>1
    <3>5. ASSUME NEW l \in Producers(id), Leaves(l) PROVE ready'[s]
      <4>1. Makes(l, id)
        BY MakesAre
      <4>2. CASE l[1] = "bus"
        <5>1. \E m \in CDB!GetData : m.rob = id
          BY <4>1, <4>2 DEF Makes
        <5> QED
          BY <3>2, <3>3, <5>1
      <4>3. CASE l[1] = "station" /\ l[2] \in RS!StoreUpdate(LsFull) /\ RS!Complete(l[2])
        <5>1. rsPayload[l[2]].dest = id
          BY <4>1, <4>3 DEF Makes
        <5> QED
          BY <3>2, <3>4, <4>3, <5>1
      <4> QED
        BY <3>5, <4>2, <4>3 DEF Leaves
    <3>6. ASSUME ready'[s] PROVE \E l \in Producers(id) : Leaves(l)
      <4>1. CASE \E m \in CDB!GetData : m.rob = id
        <5>1. PICK m \in CDB!GetData : m.rob = id
          BY <4>1
        <5>2. Makes(<<"bus", m>>, id) /\ Leaves(<<"bus", m>>)
          BY <5>1 DEF Makes, Leaves
        <5> QED
          BY <5>2, MakesAre
      <4>2. CASE \E t \in RS!StoreUpdate(LsFull) :
                   RS!Complete(t) /\ ROB!Slot(rsPayload[t].dest) = s
        <5>1. PICK t \in RS!StoreUpdate(LsFull) :
                RS!Complete(t) /\ ROB!Slot(rsPayload[t].dest) = s
          BY <4>2
        <5>2. Makes(<<"station", t>>, id) /\ Leaves(<<"station", t>>)
          BY <3>4, <5>1 DEF Makes, Leaves
        <5> QED
          BY <5>2, MakesAre
      <4> QED
        BY <3>2, <3>3, <3>6, <4>1, <4>2
    <3> QED
      BY <3>5, <3>6
  <2>3. ASSUME NEW k \in Producers(id)'
        PROVE  id \in RF!RobIds /\ s \in ROB!Live' /\ ~ready'[s]
    <3>1. PICK l \in Producers(id) : ~Leaves(l)
      BY <2>1
    <3>2. id \in RF!RobIds /\ s \in ROB!Live /\ ~ready[s]
      BY <1>2, <3>1
    <3>3. ~ready'[s]
      BY <1>2, <2>2, <3>1, <3>2
    <3>4. s \in ROB!Live'
      BY <1>1, <1>4, <1>6, <3>2, EntryStep
    <3> QED
      BY <3>2, <3>3, <3>4
  <2>4. \A l, k \in Producers(id)' : l = k
    BY <1>2, <2>1
  <2>5. ASSUME id \in RF!RobIds, s \in ROB!Live', ~ready'[s]
        PROVE  Producers(id)' # {}
    <3>1. s \in ROB!Live /\ ~ready[s]
      BY <1>1, <1>4, <1>6, <2>5, EntryStep
    <3>2. PICK l \in Producers(id) : ~Leaves(l)
      BY <1>2, <2>2, <2>5, <3>1
    <3>3. busClear = 0
      BY <1>1, <3>1
    <3>4. Makes(l, id)
      BY <3>2, MakesAre
    <3>5. \E k : Makes(k, id)'
      BY <3>2, <3>3, <3>4, Goes
    <3> QED
      BY <3>5, MakesNext
  <2> QED
    BY <2>3, <2>4, <2>5 DEF s
<1> QED
  BY <1>5, <1>6


(* The machine starts without a producer.                                  *)
LEMMA ProducerInit == Init => ProducerInv
<1> SUFFICES ASSUME Init PROVE ProducerInv
  OBVIOUS
<1>1. SlotsInv
  BY SlotsInit
<1>2. /\ ROB!Live = {} /\ busClear = 0 /\ ~fire
      /\ \A s \in RS!Stations : ~rsBusy[s]
      /\ \A a \in ALU!Alus : ~aluBusy[a] /\ ~result[a].busy
      /\ \A i \in MEM!MemSlots : ~loads[i].busy
      /\ \A h \in CDB!Helpers, ix \in {0, 1} : ~bhBusy[h][ix]
  <2>1. ROB!Live = {}
    BY EmptyRing DEF Init, ROB!Init
  <2> QED
    BY <2>1 DEF Init, CDB!Init, RS!Init, ALU!Init, MEM!Init, CDB!Buffers
<1>3. LSQ!queue!Live = {}
  <2>1. 0 \in LSQ!queue!Slots /\ lsHead = 0 /\ lsTail = 0
        /\ LsCapacity \in Nat \ {0} /\ LSQ!queue!Slots = 0 .. LsCapacity - 1
    BY CpuAssumption DEF Init, LSQ!Init, LSQ!queue!Slots
  <2>2. Distance(LsCapacity, 0, 0) = 0
    <3>1. Distance(LsCapacity, 0, 0) = 0 - 0
      BY <2>1, DistanceIs
    <3> QED
      BY <3>1
  <2>3. \A s \in LSQ!queue!Slots : Distance(LsCapacity, 0, s) \in Nat
    BY <2>1, DistanceIs
  <2>4. /\ LSQ!queue!Live \subseteq LSQ!queue!Slots
        /\ \A s \in LSQ!queue!Slots : s \in LSQ!queue!Live <=>
             Distance(LsCapacity, 0, s) < Distance(LsCapacity, 0, 0)
    BY <2>1, WaitingIs
  <2> QED
    BY <2>2, <2>3, <2>4
<1>4. \A id, k : ~Makes(k, id)
  <2>1. CDB!GetData = {}
    BY <1>2 DEF CDB!GetData
  <2> QED
    BY <1>2, <1>3, <2>1 DEF Makes
<1>5. \A id : Producers(id) = {}
  BY <1>4, MakesAre
<1> QED
  BY <1>1, <1>2, <1>5 DEF ProducerInv

LEMMA ProducerStep == ProducerInv /\ [Next]_vars => ProducerInv'
<1> SUFFICES ASSUME ProducerInv, [Next]_vars PROVE ProducerInv'
  OBVIOUS
<1>1. SlotsInv' /\ SlotsInv /\ TypeOK /\ Phase
  BY SlotsStep DEF ProducerInv, SlotsInv
<1>2. CASE UNCHANGED vars
  <2>1. ROB!Live' = ROB!Live /\ LSQ!queue!Live' = LSQ!queue!Live /\ CDB!GetData' = CDB!GetData
    BY <1>2 DEF vars, ROB!Live, ROB!robs!Live, ROB!robs!Nth, ROB!robs!Length, ROB!robs!Trunc,
       LSQ!queue!Live, LSQ!queue!Nth, LSQ!queue!Length, LSQ!queue!Trunc, CDB!GetData
  <2>2. \A k, id : Makes(k, id)' <=> Makes(k, id)
    BY <1>2, <2>1 DEF vars, Makes, RS!Stations, ALU!Alus, MEM!MemSlots, CDB!Helpers,
       HelperCount, MemHelper
  <2>3. \A id : Producers(id)' = Producers(id)
    <3>1. \A id, k : k \in Producers(id)' <=> k \in Producers(id)
      BY <2>2, MakesAre, MakesNext
    <3> QED
      BY <3>1
  <2> QED
    BY <1>1, <1>2, <2>1, <2>3 DEF vars, ProducerInv, ALU!Alus, RF!RobIds, ROB!Slot
<1>3. CASE Next
  <2>1. PICK take \in {0, 1} : Tick(take)
    BY <1>3 DEF Next
  <2>2. \A a \in ALU!Alus : ~(aluBusy'[a] /\ result'[a].busy)
    BY <1>1, <2>1, AluStep DEF ProducerInv
  <2>3. CASE robClear
    <3>1. /\ ROB!Live' = {}
          /\ \A id : Producers(id)' = {}
      BY <2>1, <2>3, NoneLeft
    <3> QED
      BY <1>1, <2>2, <3>1 DEF ProducerInv, ALU!Alus, RF!RobIds, ROB!Slot
  <2>4. CASE ~robClear
    <3>1. busClear' # 1
      <4>1. busClear \in {0, 1}
        BY <1>1, <2>4, Flags
      <4> QED
        BY <1>1, <2>1, <4>1, PhaseStep
    <3>2. \A id \in 0 .. RobCapacity :
            /\ Producers(id)' # {} =>
                 id \in RF!RobIds /\ ROB!Slot(id) \in ROB!Live' /\ ~ready'[ROB!Slot(id)]
            /\ \A l, k \in Producers(id)' : l = k
            /\ id \in RF!RobIds /\ ROB!Slot(id) \in ROB!Live' /\ ~ready'[ROB!Slot(id)] =>
                 Producers(id)' # {}
      BY <2>1, <2>4, MadeStep
    <3> QED
      BY <1>1, <2>2, <3>1, <3>2 DEF ProducerInv, ALU!Alus, RF!RobIds, ROB!Slot
  <2> QED
    BY <2>3, <2>4
<1> QED
  BY <1>2, <1>3

(* No result is lost, sent twice or delivered to the wrong entry: outside  *)
(* of a flush every entry that is not ready has exactly one producer among *)
(* the stations, the ALUs, the load/store queue, the memory and the bus,   *)
(* and ready entries and free slots have none, in a machine of any size    *)
(* (reservation-station.c, alu.c, ls-queue.c, memory.c, bus.c).            *)
THEOREM ProducersCorrect == Spec => []OneProducer
<1>1. Spec => []ProducerInv
  BY ProducerInit, ProducerStep, PTL DEF Spec
<1>2. ProducerInv => OneProducer
  <2> SUFFICES ASSUME ProducerInv, ~robClear, NEW id \in RF!RobIds
               PROVE  Cardinality(Producers(id)) =
                        IF ROB!Slot(id) \in ROB!Live /\ ~ready[ROB!Slot(id)] THEN 1 ELSE 0
    BY DEF OneProducer
  <2>1. id \in 0 .. RobCapacity
    BY RobSlots
  <2>2. /\ Producers(id) # {} <=> ROB!Slot(id) \in ROB!Live /\ ~ready[ROB!Slot(id)]
        /\ \A l, k \in Producers(id) : l = k
    BY <2>1 DEF ProducerInv
  <2>3. CASE Producers(id) = {}
    BY <2>2, <2>3, FS_EmptySet
  <2>4. CASE Producers(id) # {}
    <3>1. PICK l \in Producers(id) : Producers(id) = {l}
      BY <2>2, <2>4
    <3>2. Cardinality(Producers(id)) = 1
      BY <3>1, FS_Singleton
    <3> QED
      BY <2>2, <2>4, <3>2
  <2> QED
    BY <2>3, <2>4
<1> QED
  BY <1>1, <1>2, PTL


-----------------------------------------------------------------------------
(* What the stations wait for.                                             *)

(* Entry id, which a station that works for entry d waits for.             *)
Awaited(id, d) ==
  /\ id \in RF!RobIds /\ ROB!Slot(id) \in ROB!Live /\ ~ready[ROB!Slot(id)]
  /\ robPayload[ROB!Slot(id)].dest # ROB!NoDest
  /\ ROB!Age(ROB!Slot(id)) < ROB!Age(ROB!Slot(d))

(* A store makes nothing that could be waited for, and a load waits for    *)
(* nothing but its address.                                                *)
AwaitInv ==
  /\ ProducerInv /\ RenameInv
  /\ \A s \in LoadBuffers : rsPayload[s].src2 = 0
  /\ ~robClear => \A s \in RS!Stations : rsBusy[s] =>
       /\ \A id \in {rsPayload[s].src1, rsPayload[s].src2} \ {0} : Awaited(id, rsPayload[s].dest)
       /\ s \in StoreBuffers => robPayload[ROB!Slot(rsPayload[s].dest)].dest = ROB!NoDest

(* The entry of a busy station is in flight and not ready.                 *)
LEMMA WorksFor ==
  ASSUME ProducerInv, ~robClear, NEW s \in RS!Stations, rsBusy[s]
  PROVE  /\ rsPayload[s].dest \in RF!RobIds
         /\ ROB!Slot(rsPayload[s].dest) \in ROB!Live
         /\ ~ready[ROB!Slot(rsPayload[s].dest)]
<1> DEFINE id == rsPayload[s].dest
<1>1. id \in RF!RobIds /\ id \in 0 .. RobCapacity
  BY RobSlots DEF ProducerInv, SlotsInv, TypeOK, RsTypes
<1>2. Makes(<<"station", s>>, id)
  BY DEF Makes
<1>3. Producers(id) # {}
  BY <1>2, MakesAre
<1> QED
  BY <1>1, <1>3 DEF ProducerInv

(* An entry that is awaited and whose result does not arrive stays so.     *)
LEMMA StillAwaited ==
  ASSUME AwaitInv, ~robClear, NEW take \in {0, 1}, Tick(take),
         NEW id, NEW d \in RF!RobIds, Awaited(id, d), ROB!Slot(d) \in ROB!Live',
         ~\E m \in CDB!Heard : m.rob = id
  PROVE  Awaited(id, d)'
<1> DEFINE x == ROB!Slot(id)
           y == ROB!Slot(d)
<1>1. /\ ProducerInv /\ TypeOK /\ Phase /\ robHead \in ROB!Slots /\ robHead' \in ROB!Slots
      /\ RobCapacity \in Nat \ {0} /\ ROB!Slots = 0 .. RobCapacity - 1
  BY RobTyping, CpuAssumption DEF AwaitInv, ProducerInv, SlotsInv, TypeOK, RobTypes, ROB!Slots
<1>2. /\ id \in RF!RobIds /\ x \in ROB!Live /\ ~ready[x] /\ robPayload[x].dest # ROB!NoDest
      /\ ROB!Age(x) < ROB!Age(y)
  BY DEF Awaited
<1>3. x \in ROB!Slots /\ y \in ROB!Slots /\ ROB!Id(x) = id
  BY <1>2, RobSlots
<1> HIDE DEF x, y
<1>4. x # robTail
  BY <1>1, <1>2, RingStep
<1>5. x \notin ROB!Hit(CDB!Heard)
  BY <1>3 DEF ROB!Hit
<1>6. ASSUME NEW t \in RS!StoreUpdate(LsFull), ROB!Slot(rsPayload[t].dest) = x
      PROVE  FALSE
  <2>1. t \in StoreBuffers /\ rsBusy[t] /\ t \in RS!Stations
    BY OneIssue DEF RS!Stations
  <2>2. robPayload[ROB!Slot(rsPayload[t].dest)].dest = ROB!NoDest
    BY <2>1 DEF AwaitInv
  <2> QED
    BY <1>2, <1>6, <2>2
<1>7. x \in ROB!Live' /\ ~ready'[x]
  BY <1>1, <1>2, <1>3, <1>4, <1>5, <1>6, EntryStep
<1>8. robPayload'[x].dest # ROB!NoDest
  BY <1>1, <1>2, <1>3, <1>4, EntriesKept
<1>9. ROB!Age(x)' < ROB!Age(y)'
  <2>1. ROB!Age(x) \in Nat /\ ROB!Age(y) \in Nat
    BY <1>1, <1>3, AgeIs, DistanceIs
  <2>2. /\ ROB!Age(x)' = IF ROB!Pops(LsFull) THEN ROB!Age(x) - 1 ELSE ROB!Age(x)
        /\ ROB!Age(y)' = IF ROB!Pops(LsFull) THEN ROB!Age(y) - 1 ELSE ROB!Age(y)
    BY <1>1, <1>7, RingStep DEF y
  <2> QED
    BY <1>2, <2>1, <2>2
<1> QED
  BY <1>2, <1>7, <1>8, <1>9 DEF Awaited, x, y, ROB!Slot, RF!RobIds, ROB!NoDest

(* The producer that an operand names is in flight, older than the         *)
(* instruction that asks, and not on the bus.                              *)
LEMMA OperandAwaits ==
  ASSUME AwaitInv, ~robClear, NEW take \in {0, 1}, Tick(take), NEW r \in Reg,
         NEW id, id = IU!Operand(r).src, id # 0
  PROVE  Awaited(id, IU!Rob) /\ ~\E m \in CDB!Heard : m.rob = id
<1> DEFINE named == IU!RF!RobId(r)
           entry == IU!ROB!Slot(named)
           bypass == {m \in IU!CDB!GetData : m.rob = named}
<1>1. IU!Operand(r) =
        IF named = 0 THEN IU!Known(IU!RF!Get(r))
        ELSE IF ready[entry] THEN IU!Known(robPayload[entry].value)
        ELSE IF bypass # {} THEN IU!Known((CHOOSE m \in bypass : TRUE).result)
        ELSE [src |-> named, value |-> 0]
  BY DEF IU!Operand
<1>2. \A v : IU!Known(v).src = 0
  BY DEF IU!Known
<1> HIDE DEF named, entry, bypass
<1>3. /\ named # 0 /\ ~ready[entry] /\ bypass = {}
      /\ id = named
  <2>1. named # 0 /\ ~ready[entry] /\ bypass = {}
    BY <1>1, <1>2
  <2>2. IU!Operand(r) = [src |-> named, value |-> 0]
    BY <1>1, <2>1
  <2> QED
    BY <2>1, <2>2
<1>4. /\ TypeOK /\ RobTypes /\ Renamed
  BY DEF AwaitInv, RenameInv, TypeOK
<1>5. r # 0 /\ named = robIds[r]
  BY <1>3 DEF named, IU!RF!RobId, IU!RF!NoRob
<1>6. /\ id \in RF!RobIds /\ ROB!Slot(id) \in Writers(r)
  BY <1>3, <1>4, <1>5 DEF Renamed, NamesYoungest
<1>7. entry = ROB!Slot(id)
  BY <1>3 DEF entry, IU!ROB!Slot, ROB!Slot
<1>8. ROB!Slot(IU!Rob) = robTail
  BY <1>4, TailId, RobSlots DEF RobTypes
<1>9. ROB!Slot(id) \in ROB!Live /\ robPayload[ROB!Slot(id)].dest = r
  BY <1>6 DEF Writers
<1>10. r # ROB!NoDest
  BY DEF Reg, ROB!NoDest
<1>11. ROB!Age(ROB!Slot(id)) < ROB!Age(robTail)
  BY <1>4, <1>9, RingStep
<1>12. ~\E m \in CDB!Heard : m.rob = id
  BY <1>3 DEF bypass, CDB!Heard, IU!CDB!GetData, CDB!GetData
<1> QED
  BY <1>3, <1>6, <1>7, <1>8, <1>9, <1>10, <1>11, <1>12 DEF Awaited

(* What a dispatched instruction waits for.                                *)
LEMMA TaskSources ==
  ASSUME TypeOK, NEW s \in RS!Stations, IU!inst.op # "UNIMP"
  PROVE  /\ IU!NewTask(s).src1 \in {0, IU!Operand(IU!inst.rs1).src}
         /\ IU!inst.op # "LOAD" => IU!NewTask(s).src2 \in {0, IU!Operand(IU!inst.rs2).src}
         /\ IU!inst.op = "LOAD" => IU!NewTask(s).src2 = rsPayload[s].src2
<1> DEFINE i == IU!inst
           old == [rsPayload[s] EXCEPT !.dest = IU!Rob, !.alu = i.alu, !.size = i.size]
           with1 == [old EXCEPT !.src1 = IU!Operand(i.rs1).src, !.value1 = IU!Operand(i.rs1).value]
           with2 == [with1 EXCEPT !.src2 = IU!Operand(i.rs2).src, !.value2 = IU!Operand(i.rs2).value]
           Sum(p, value2) == [p EXCEPT !.alu = "ADD", !.src2 = 0, !.value2 = value2]
           Constant(value) == Sum([old EXCEPT !.src1 = 0, !.value1 = value], 0)
           Fields == DOMAIN rsPayload[s]
<1>1. i \in Instruction
  BY InstType DEF TypeOK
<1>2. {"src1", "src2"} \subseteq Fields
  BY DEF TypeOK, RsTypes, RS!RsPayload
<1>3. DOMAIN old = Fields /\ old.src2 = rsPayload[s].src2
  OBVIOUS
<1> HIDE DEF old, i, Fields
<1>4. DOMAIN with1 = Fields /\ with1.src1 = IU!Operand(i.rs1).src /\ with1.src2 = rsPayload[s].src2
  BY <1>2, <1>3
<1> HIDE DEF with1
<1>5. DOMAIN with2 = Fields /\ with2.src1 = IU!Operand(i.rs1).src /\ with2.src2 = IU!Operand(i.rs2).src
  BY <1>2, <1>4
<1> HIDE DEF with2
<1>6. \A v : Sum(with1, v).src1 = IU!Operand(i.rs1).src /\ Sum(with1, v).src2 = 0
  BY <1>2, <1>4
<1>7. \A v : Constant(v).src1 = 0 /\ Constant(v).src2 = 0
  BY <1>2, <1>3
<1>8. \A v : /\ [with1 EXCEPT !.addr = v].src1 = IU!Operand(i.rs1).src
             /\ [with1 EXCEPT !.addr = v].src2 = rsPayload[s].src2
             /\ [with2 EXCEPT !.addr = v].src1 = IU!Operand(i.rs1).src
             /\ [with2 EXCEPT !.addr = v].src2 = IU!Operand(i.rs2).src
             /\ [with1 EXCEPT !.src2 = 0, !.value2 = v].src1 = IU!Operand(i.rs1).src
             /\ [with1 EXCEPT !.src2 = 0, !.value2 = v].src2 = 0
  BY <1>2, <1>4, <1>5
<1>9. i.op \in Ops \ {"UNIMP"}
  BY <1>1 DEF Instruction, i
<1>10. IU!NewTask(s) =
         CASE i.op = "LOAD" -> [with1 EXCEPT !.addr = i.imm]
           [] i.op = "STORE" -> [with2 EXCEPT !.addr = i.imm]
           [] i.op \in {"OP", "BRANCH"} -> with2
           [] i.op = "IMM" -> [with1 EXCEPT !.src2 = 0, !.value2 = i.imm]
           [] i.op \in {"JALR", "HCF"} -> Sum(with1, i.imm)
           [] i.op = "LUI" -> Constant(i.imm)
           [] i.op = "AUIPC" -> Constant(IU!JumpTarget)
           [] i.op = "JAL" -> Constant(IU!NextPc)
  BY Zenon DEF IU!NewTask, old, with1, with2, i
<1> HIDE DEF Sum, Constant
<1> DEFINE t == IU!NewTask(s)
           src1 == IU!Operand(i.rs1).src
           src2 == IU!Operand(i.rs2).src
           Good == /\ t.src1 \in {0, src1}
                   /\ i.op # "LOAD" => t.src2 \in {0, src2}
                   /\ i.op = "LOAD" => t.src2 = rsPayload[s].src2
<1> HIDE DEF t
<1>11. Good
  <2>1. CASE i.op = "LOAD"
    <3>1. t = [with1 EXCEPT !.addr = i.imm]
      BY <1>10, <2>1 DEF t
    <3> QED
      BY <1>8, <2>1, <3>1
  <2>2. CASE i.op = "STORE"
    <3>1. t = [with2 EXCEPT !.addr = i.imm]
      BY <1>10, <2>2 DEF t
    <3> QED
      BY <1>8, <2>2, <3>1
  <2>3. CASE i.op \in {"OP", "BRANCH"}
    <3>1. t = with2
      BY <1>10, <2>3 DEF t
    <3> QED
      BY <1>5, <2>3, <3>1
  <2>4. CASE i.op = "IMM"
    <3>1. t = [with1 EXCEPT !.src2 = 0, !.value2 = i.imm]
      BY <1>10, <2>4 DEF t
    <3> QED
      BY <1>8, <2>4, <3>1
  <2>5. CASE i.op \in {"JALR", "HCF"}
    <3>1. t = Sum(with1, i.imm)
      BY <1>10, <2>5 DEF t
    <3> QED
      BY <1>6, <2>5, <3>1
  <2>6. CASE i.op \in {"LUI", "AUIPC", "JAL"}
    <3>1. \E v : t = Constant(v)
      BY <1>10, <2>6 DEF t
    <3> QED
      BY <1>7, <2>6, <3>1
  <2> QED
    BY <1>9, <2>1, <2>2, <2>3, <2>4, <2>5, <2>6 DEF Ops
<1> QED
  BY <1>11 DEF t, i

(* What a station waits for after a result has arrived.                    *)
LEMMA HeardSources ==
  ASSUME TypeOK, NEW s \in RS!Stations, NEW m
  PROVE  LET p == rsPayload[s]
             q == RS!WithResult(p, m)
         IN  /\ q.src1 = IF p.src1 = m.rob THEN 0 ELSE p.src1
             /\ q.src2 = IF p.src2 = m.rob THEN 0 ELSE p.src2
<1> DEFINE p == rsPayload[s]
           one == IF p.src1 = m.rob THEN [p EXCEPT !.value1 = m.result, !.src1 = 0] ELSE p
<1>1. {"src1", "src2"} \subseteq DOMAIN p
  BY DEF TypeOK, RsTypes, RS!RsPayload
<1>2. RS!WithResult(p, m) =
        IF p.src2 = m.rob THEN [one EXCEPT !.value2 = m.result, !.src2 = 0] ELSE one
  BY DEF RS!WithResult, RS!NoSrc
<1> HIDE DEF p
<1>3. /\ DOMAIN one = DOMAIN p /\ one.src2 = p.src2
      /\ one.src1 = IF p.src1 = m.rob THEN 0 ELSE p.src1
  BY <1>1
<1> HIDE DEF one
<1>4. /\ RS!WithResult(p, m).src1 = IF p.src1 = m.rob THEN 0 ELSE p.src1
      /\ RS!WithResult(p, m).src2 = IF p.src2 = m.rob THEN 0 ELSE p.src2
  BY <1>1, <1>2, <1>3
<1> QED
  BY <1>4 DEF p

(* A station that dispatch fills.                                          *)
LEMMA FilledAwaits ==
  ASSUME AwaitInv, ~robClear, NEW take \in {0, 1}, Tick(take), NEW s \in IU!Into,
         NEW id \in {rsPayload'[s].src1, rsPayload'[s].src2} \ {0},
         NEW d, d = rsPayload'[s].dest
  PROVE  Awaited(id, d)'
<1>1. TypeOK /\ RobTypes /\ IU!inst \in Instruction
  BY InstType DEF AwaitInv, ProducerInv, SlotsInv, TypeOK
<1>2. s \in RS!Stations /\ s \in IU!Pool /\ IU!inst.op # "UNIMP"
  BY <1>1, IntoOne
<1>3. /\ rsPayload'[s] = IU!NewTask(s) /\ d = IU!Rob
      /\ IU!Rob \in RF!RobIds /\ ROB!Slot(IU!Rob) = robTail /\ robTail \in ROB!Slots
  BY <1>1, <1>2, StationStep, DestKept, TailId, RobSlots DEF RobTypes
<1>4. robTail \in ROB!Live'
  BY <1>1, <1>3, RingStep
<1>5. IU!inst.rs1 \in Reg /\ IU!inst.rs2 \in Reg
  BY <1>1 DEF Instruction
<1>6. IU!inst.op = "LOAD" => rsPayload[s].src2 = 0
  BY <1>2 DEF AwaitInv, IU!Pool
<1>7. \E r \in Reg : id = IU!Operand(r).src
  <2>1. IU!NewTask(s).src1 \in {0, IU!Operand(IU!inst.rs1).src}
    BY <1>1, <1>2, TaskSources
  <2>2. IU!NewTask(s).src2 \in {0, IU!Operand(IU!inst.rs2).src}
    BY <1>1, <1>2, <1>6, TaskSources
  <2> QED
    BY <1>3, <1>5, <2>1, <2>2
<1>8. PICK r \in Reg : id = IU!Operand(r).src
  BY <1>7
<1>9. Awaited(id, IU!Rob) /\ ~\E m \in CDB!Heard : m.rob = id
  BY <1>8, OperandAwaits
<1> QED
  BY <1>3, <1>4, <1>9, StillAwaited

(* A store that is dispatched.                                             *)
LEMMA FilledStores ==
  ASSUME AwaitInv, ~robClear, NEW take \in {0, 1}, Tick(take), NEW s \in IU!Into,
         s \in StoreBuffers
  PROVE  robPayload'[ROB!Slot(rsPayload'[s].dest)].dest = ROB!NoDest
<1>1. TypeOK /\ RobTypes /\ RfTypes /\ IuTypes
  BY DEF AwaitInv, ProducerInv, SlotsInv, TypeOK
<1>2. s \in RS!Stations /\ s \in IU!Pool /\ IU!Into # {}
  BY <1>1, IntoOne
<1>3. IU!inst.op = "STORE"
  BY <1>2, CpuAssumption DEF IU!Pool
<1>4. ROB!Slot(rsPayload'[s].dest) = robTail
  BY <1>1, <1>2, DestKept, TailId, RobSlots DEF RobTypes
<1>5. robPayload'[robTail] = IU!NewEntry(take)
  BY <1>1, <1>2, EntriesKept
<1> QED
  BY <1>1, <1>3, <1>4, <1>5, NewEntryType

(* The entry of a station that stays in use stays in flight, under its id. *)
LEMMA StillWorks ==
  ASSUME AwaitInv, ~robClear, NEW take \in {0, 1}, Tick(take), NEW s \in RS!Stations,
         s \notin IU!Into, rsBusy'[s]
  PROVE  /\ rsBusy[s] /\ rsPayload'[s].dest = rsPayload[s].dest
         /\ rsPayload[s].dest \in RF!RobIds
         /\ ROB!Slot(rsPayload[s].dest) \in ROB!Live'
         /\ robPayload'[ROB!Slot(rsPayload[s].dest)].dest =
              robPayload[ROB!Slot(rsPayload[s].dest)].dest
<1>1. TypeOK /\ Phase /\ ProducerInv
  BY DEF AwaitInv, ProducerInv, SlotsInv
<1>2. rsBusy[s] /\ rsPayload'[s].dest = rsPayload[s].dest
  BY <1>1, StationStep, DestKept
<1> DEFINE x == ROB!Slot(rsPayload[s].dest)
<1>3. rsPayload[s].dest \in RF!RobIds /\ x \in ROB!Live /\ ~ready[x] /\ x \in ROB!Slots
  BY <1>1, <1>2, WorksFor, RobSlots
<1> HIDE DEF x
<1>4. x # robTail
  BY <1>1, <1>3, RingStep
<1>5. x \in ROB!Live'
  BY <1>1, <1>3, <1>4, EntryStep
<1>6. robPayload'[x].dest = robPayload[x].dest
  BY <1>1, <1>3, <1>4, EntriesKept
<1> QED
  BY <1>2, <1>3, <1>5, <1>6 DEF x

(* What a station names after a tick it named before, and it has not come. *)
LEMMA SourcesLeft ==
  ASSUME TypeOK, ~rsClear, NEW take \in {0, 1}, Tick(take), NEW s \in RS!Stations,
         s \notin IU!Into, rsBusy[s],
         NEW id \in {rsPayload'[s].src1, rsPayload'[s].src2} \ {0}
  PROVE  /\ id \in {rsPayload[s].src1, rsPayload[s].src2}
         /\ ~\E m \in CDB!Heard : m.rob = id
<1>1. \A m, n \in CDB!Heard : m = n
  BY DEF CDB!Heard, CDB!GetData
<1>2. CASE s \in RS!Woken(CDB!Heard)
  <2>1. PICK m \in CDB!Heard : rsPayload'[s] = RS!WithResult(rsPayload[s], m)
    BY <1>2, StationStep
  <2>2. /\ rsPayload'[s].src1 = IF rsPayload[s].src1 = m.rob THEN 0 ELSE rsPayload[s].src1
        /\ rsPayload'[s].src2 = IF rsPayload[s].src2 = m.rob THEN 0 ELSE rsPayload[s].src2
    BY <2>1, HeardSources
  <2>3. id \in {rsPayload[s].src1, rsPayload[s].src2} /\ id # m.rob
    BY <2>2
  <2> QED
    BY <1>1, <2>1, <2>3
<1>3. CASE s \notin RS!Woken(CDB!Heard)
  <2>1. rsPayload'[s] = rsPayload[s]
    BY <1>3, StationStep
  <2>2. ~\E m \in CDB!Heard : m.rob \in {rsPayload[s].src1, rsPayload[s].src2}
    BY <1>3 DEF RS!Woken
  <2> QED
    BY <2>1, <2>2
<1> QED
  BY <1>2, <1>3

LEMMA AwaitInit == Init => AwaitInv
<1> SUFFICES ASSUME Init PROVE AwaitInv
  OBVIOUS
<1>1. ProducerInv /\ RenameInv
  BY ProducerInit, RenameInit
<1>2. \A s \in RS!Stations : ~rsBusy[s] /\ rsPayload[s].src2 = 0
  BY DEF Init, RS!Init, RS!NoSrc
<1>3. LoadBuffers \subseteq RS!Stations
  BY DEF RS!Stations
<1> QED
  BY <1>1, <1>2, <1>3 DEF AwaitInv

(* The second operand of a load buffer is never set.                       *)
LEMMA LoadsAwaitOne ==
  ASSUME AwaitInv, NEW take \in {0, 1}, Tick(take), NEW s \in LoadBuffers
  PROVE  rsPayload'[s].src2 = 0
<1>1. TypeOK /\ IU!inst \in Instruction /\ s \in RS!Stations /\ rsPayload[s].src2 = 0
  BY InstType DEF AwaitInv, ProducerInv, SlotsInv, TypeOK, RS!Stations
<1>2. CASE s \in IU!Into
  <2>1. s \in IU!Pool /\ IU!inst.op # "UNIMP" /\ rsPayload'[s] = IU!NewTask(s)
    BY <1>1, <1>2, IntoOne, StationStep
  <2>2. IU!inst.op = "LOAD"
    BY <2>1, CpuAssumption DEF IU!Pool
  <2> QED
    BY <1>1, <2>1, <2>2, TaskSources
<1>3. CASE s \notin IU!Into
  <2>1. CASE s \in RS!Woken(CDB!Heard)
    <3>1. PICK m \in CDB!Heard : rsPayload'[s] = RS!WithResult(rsPayload[s], m)
      BY <1>1, <1>3, <2>1, StationStep
    <3> QED
      BY <1>1, <3>1, HeardSources
  <2>2. CASE s \notin RS!Woken(CDB!Heard)
    BY <1>1, <1>3, <2>2, StationStep
  <2> QED
    BY <2>1, <2>2
<1> QED
  BY <1>2, <1>3

LEMMA AwaitStep == AwaitInv /\ [Next]_vars => AwaitInv'
<1> DEFINE Late == /\ ProducerInv /\ RenameInv
                   /\ \A s \in LoadBuffers : rsPayload[s].src2 = 0
                   /\ ~robClear => \A s \in RS!Stations : rsBusy[s] =>
                        /\ \A id \in {rsPayload[s].src1, rsPayload[s].src2} \ {0} :
                             \E d : d = rsPayload[s].dest /\ Awaited(id, d)
                        /\ s \in StoreBuffers => robPayload[ROB!Slot(rsPayload[s].dest)].dest = ROB!NoDest
<1>1. Late => AwaitInv
  <2> SUFFICES ASSUME Late PROVE AwaitInv
    OBVIOUS
  <2>1. ASSUME ~robClear, NEW s \in RS!Stations, rsBusy[s]
        PROVE  /\ \A id \in {rsPayload[s].src1, rsPayload[s].src2} \ {0} : Awaited(id, rsPayload[s].dest)
               /\ s \in StoreBuffers => robPayload[ROB!Slot(rsPayload[s].dest)].dest = ROB!NoDest
    <3>1. ASSUME NEW id \in {rsPayload[s].src1, rsPayload[s].src2} \ {0}
          PROVE  Awaited(id, rsPayload[s].dest)
      <4>1. PICK d : d = rsPayload[s].dest /\ Awaited(id, d)
        BY <2>1, <3>1
      <4> QED
        BY <4>1
    <3>2. s \in StoreBuffers => robPayload[ROB!Slot(rsPayload[s].dest)].dest = ROB!NoDest
      BY <2>1
    <3> QED
      BY <3>1, <3>2
  <2>2. ProducerInv /\ RenameInv /\ \A s \in LoadBuffers : rsPayload[s].src2 = 0
    OBVIOUS
  <2> HIDE DEF Late
  <2> QED
    BY <2>1, <2>2 DEF AwaitInv
<1>2. AwaitInv /\ [Next]_vars => Late'
  <2> SUFFICES ASSUME AwaitInv, [Next]_vars PROVE Late'
    OBVIOUS
  <2>1. ProducerInv' /\ RenameInv' /\ TypeOK /\ Phase
    BY ProducerStep, RenameStep DEF AwaitInv, ProducerInv, SlotsInv
  <2>2. CASE UNCHANGED vars
    <3>1. ROB!Live' = ROB!Live
      BY <2>2 DEF vars, ROB!Live, ROB!robs!Live, ROB!robs!Nth, ROB!robs!Length, ROB!robs!Trunc
    <3>2. \A x : ROB!Age(x)' = ROB!Age(x)
      BY <2>2 DEF vars, ROB!Age
    <3>3. \A id, d : Awaited(id, d)' <=> Awaited(id, d)
      BY <2>2, <3>1, <3>2 DEF vars, Awaited, RF!RobIds, ROB!Slot, ROB!NoDest
    <3> QED
      BY <2>1, <2>2, <3>3, Zenon DEF vars, AwaitInv, RS!Stations, ROB!Slot, ROB!NoDest
  <2>3. CASE Next
    <3>1. PICK take \in {0, 1} : Tick(take)
      BY <2>3 DEF Next
    <3>2. \A s \in LoadBuffers : rsPayload'[s].src2 = 0
      BY <3>1, LoadsAwaitOne
    <3>3. ASSUME robClear, NEW s \in RS!Stations
          PROVE  ~rsBusy'[s]
      <4>1. rsClear /\ forcePc.busy
        BY <2>1, <3>3, Flags
      <4>2. IU!Into = {} /\ RS!Released(AluAccepts, LsFull) = RS!Stations
        BY <4>1 DEF IU!Into, RS!Released
      <4> QED
        BY <2>1, <3>1, <4>2, StationStep
    <3>4. ASSUME ~robClear, NEW s \in RS!Stations, rsBusy'[s]
          PROVE  /\ \A id \in {rsPayload'[s].src1, rsPayload'[s].src2} \ {0} :
                      \E d : d = rsPayload'[s].dest /\ Awaited(id, d)'
                 /\ s \in StoreBuffers => robPayload'[ROB!Slot(rsPayload'[s].dest)].dest = ROB!NoDest
      <4>1. CASE s \in IU!Into
        BY <3>1, <3>4, <4>1, FilledAwaits, FilledStores
      <4>2. CASE s \notin IU!Into
        <5>1. /\ rsBusy[s] /\ rsPayload'[s].dest = rsPayload[s].dest
              /\ rsPayload[s].dest \in RF!RobIds
              /\ ROB!Slot(rsPayload[s].dest) \in ROB!Live'
              /\ robPayload'[ROB!Slot(rsPayload[s].dest)].dest =
                   robPayload[ROB!Slot(rsPayload[s].dest)].dest
          BY <3>1, <3>4, <4>2, StillWorks
        <5>2. ASSUME NEW id \in {rsPayload'[s].src1, rsPayload'[s].src2} \ {0}
              PROVE  \E d : d = rsPayload'[s].dest /\ Awaited(id, d)'
          <6>1. ~rsClear
            BY <2>1, <3>4, Flags
          <6>2. /\ id \in {rsPayload[s].src1, rsPayload[s].src2} \ {0}
                /\ ~\E m \in CDB!Heard : m.rob = id
            BY <2>1, <3>1, <4>2, <5>1, <5>2, <6>1, SourcesLeft
          <6>3. Awaited(id, rsPayload[s].dest)
            BY <3>4, <5>1, <6>2 DEF AwaitInv
          <6>4. \E d : d = rsPayload[s].dest
            OBVIOUS
          <6>5. PICK d : d = rsPayload[s].dest
            BY <6>4
          <6>6. Awaited(id, d)'
            BY <3>1, <3>4, <5>1, <6>2, <6>3, <6>5, StillAwaited
          <6> QED
            BY <5>1, <6>5, <6>6
        <5>3. s \in StoreBuffers => robPayload[ROB!Slot(rsPayload[s].dest)].dest = ROB!NoDest
          BY <3>4, <5>1 DEF AwaitInv
        <5> QED
          BY <5>1, <5>2, <5>3
      <4> QED
        BY <4>1, <4>2
    <3>5. ~robClear' => \A s \in RS!Stations : rsBusy'[s] =>
            /\ \A id \in {rsPayload'[s].src1, rsPayload'[s].src2} \ {0} :
                 \E d : d = rsPayload'[s].dest /\ Awaited(id, d)'
            /\ s \in StoreBuffers => robPayload'[ROB!Slot(rsPayload'[s].dest)].dest = ROB!NoDest
      BY <3>3, <3>4
    <3>6. (~robClear => \A s \in RS!Stations : rsBusy[s] =>
            /\ \A id \in {rsPayload[s].src1, rsPayload[s].src2} \ {0} :
                 \E d : d = rsPayload[s].dest /\ Awaited(id, d)
            /\ s \in StoreBuffers => robPayload[ROB!Slot(rsPayload[s].dest)].dest = ROB!NoDest)'
      BY <3>5 DEF RS!Stations, ROB!Slot, ROB!NoDest
    <3>7. (\A s \in LoadBuffers : rsPayload[s].src2 = 0)'
      BY <3>2
    <3> QED
      BY <2>1, <3>6, <3>7
  <2> QED
    BY <2>2, <2>3
<1> HIDE DEF Late
<1> QED
  BY <1>1, <1>2, PTL

(* The wait-for relation of the stations has no cycle: outside of a flush  *)
(* a station waits only for entries that are in flight, not yet ready and  *)
(* older than the entry it works for, in a machine of any size             *)
(* (inst-unit.c _inst_reg_set, reservation-station.c _rs_onmsg).           *)
THEOREM WaitingCorrect == Spec => []WaitsForOlder
<1>1. Spec => []AwaitInv
  BY AwaitInit, AwaitStep, PTL DEF Spec
<1>2. AwaitInv => WaitsForOlder
  <2> SUFFICES ASSUME AwaitInv, ~rsClear, NEW s \in RS!Stations, rsBusy[s],
                      NEW id \in {rsPayload[s].src1, rsPayload[s].src2} \ {0}
               PROVE  /\ ROB!Slot(id) \in ROB!Live
                      /\ ~ready[ROB!Slot(id)]
                      /\ ROB!Age(ROB!Slot(id)) < ROB!Age(ROB!Slot(rsPayload[s].dest))
    BY Zenon DEF WaitsForOlder
  <2>1. TypeOK /\ Phase
    BY DEF AwaitInv, ProducerInv, SlotsInv
  <2>2. ~robClear
    BY <2>1, Flags
  <2>3. Awaited(id, rsPayload[s].dest)
    BY <2>2 DEF AwaitInv
  <2> QED
    BY <2>3 DEF Awaited
<1> QED
  BY <1>1, <1>2, PTL

-----------------------------------------------------------------------------
(* Where two writers meet.                                                 *)

(* A message on the bus is for an entry that is not ready and that no      *)
(* station works for.                                                      *)
LEMMA HitsAlone ==
  ASSUME ProducerInv, ~robClear, NEW x \in ROB!Hit(CDB!Heard)
  PROVE  /\ x \in ROB!Live /\ ~ready[x]
         /\ \A s \in RS!Stations : ~(rsBusy[s] /\ rsPayload[s].dest = ROB!Id(x))
<1>1. x \in ROB!Live /\ x \in ROB!Slots
  BY LiveSlots, HitLive DEF ProducerInv, SlotsInv, TypeOK
<1>2. PICK m \in CDB!Heard : m.rob = ROB!Id(x)
  BY DEF ROB!Hit
<1>3. ROB!Id(x) \in RF!RobIds /\ ROB!Id(x) \in 0 .. RobCapacity /\ ROB!Slot(ROB!Id(x)) = x
  BY <1>1, RobSlots
<1>4. Makes(<<"bus", m>>, ROB!Id(x))
  BY <1>2 DEF Makes, CDB!Heard
<1>5. <<"bus", m>> \in Producers(ROB!Id(x))
  BY <1>4, MakesAre
<1>6. ~ready[x]
  BY <1>3, <1>5 DEF ProducerInv
<1>7. ASSUME NEW s \in RS!Stations, rsBusy[s], rsPayload[s].dest = ROB!Id(x)
      PROVE  FALSE
  <2>1. Makes(<<"station", s>>, ROB!Id(x))
    BY <1>7 DEF Makes
  <2>2. <<"station", s>> = <<"bus", m>>
    BY <1>3, <1>5, <2>1, MakesAre DEF ProducerInv
  <2> QED
    BY <2>2
<1> QED
  BY <1>1, <1>6, <1>7

(* A store in flight waits for the one store buffer that works for it; it  *)
(* is ready once that has found out its address.                           *)
StoreKnown(x) ==
  IF ready[x] THEN robPayload[x].addrReady
  ELSE \E s \in StoreBuffers : rsBusy[s] /\ rsPayload[s].dest = ROB!Id(x)

StoreInv ==
  /\ ProducerInv
  /\ ~robClear => \A x \in ROB!Live : robPayload[x].op = "STORE" => StoreKnown(x)

(* A store that is dispatched.                                             *)
LEMMA StoreFilled ==
  ASSUME StoreInv, ~robClear, NEW take \in {0, 1}, Tick(take), IU!Into # {},
         robPayload'[robTail].op = "STORE"
  PROVE  /\ ~ready'[robTail]
         /\ \E s \in StoreBuffers : rsBusy'[s] /\ rsPayload'[s].dest = ROB!Id(robTail)
<1>1. TypeOK /\ RobTypes /\ RfTypes /\ IuTypes /\ robTail \in ROB!Slots
  BY DEF StoreInv, ProducerInv, SlotsInv, TypeOK, RobTypes
<1>2. PICK s \in IU!Into : s \in RS!Stations /\ s \in IU!Pool
  BY <1>1, IntoOne
<1>3. /\ rsBusy'[s] /\ rsPayload'[s].dest = IU!Rob /\ IU!Rob = ROB!Id(robTail)
      /\ ~ready'[robTail]
  BY <1>1, <1>2, StationStep, DestKept, ReadyStep DEF IU!Rob, IU!ROB!Id, ROB!Id
<1>4. robPayload'[robTail] = IU!NewEntry(take)
  BY <1>1, <1>2, EntriesKept
<1>5. IU!inst.op = "STORE"
  BY <1>1, <1>4, NewEntryType
<1>6. s \in StoreBuffers
  BY <1>2, <1>5 DEF IU!Pool
<1> QED
  BY <1>3, <1>6

(* A store that stays in flight.                                           *)
LEMMA StoreKept ==
  ASSUME StoreInv, ~robClear, NEW take \in {0, 1}, Tick(take), NEW x \in ROB!Live',
         x \in ROB!Slots, ~(IU!Into # {} /\ x = robTail), robPayload'[x].op = "STORE"
  PROVE  IF ready'[x] THEN robPayload'[x].addrReady
         ELSE \E s \in StoreBuffers : rsBusy'[s] /\ rsPayload'[s].dest = ROB!Id(x)
<1>1. TypeOK /\ Phase /\ ProducerInv /\ ~rsClear
  <2>1. TypeOK /\ Phase /\ ProducerInv
    BY DEF StoreInv, ProducerInv, SlotsInv
  <2> QED
    BY <2>1, Flags
<1>2. /\ x \in ROB!Live /\ robPayload[x].op = "STORE" /\ StoreKnown(x)
      /\ ready[x] => ready'[x]
      /\ ~ready[x] => (ready'[x] <=> \/ x \in ROB!Hit(CDB!Heard)
                                     \/ \E t \in RS!StoreUpdate(LsFull) :
                                          RS!Complete(t) /\ ROB!Slot(rsPayload[t].dest) = x)
  <2>1. x \in ROB!Live /\ robPayload[x].op = "STORE"
    BY <1>1, EntryStep, EntriesKept
  <2> QED
    BY <1>1, <2>1, EntryStep DEF StoreInv
<1>3. \A t \in RS!StoreUpdate(LsFull) :
        t \in StoreBuffers /\ t \in RS!Stations /\ rsBusy[t]
  BY OneIssue DEF RS!Stations
<1>4. ASSUME NEW t \in RS!StoreUpdate(LsFull), ROB!Slot(rsPayload[t].dest) = x
      PROVE  ~ready[x] /\ rsPayload[t].dest = ROB!Id(x)
  <2>1. rsPayload[t].dest \in RF!RobIds /\ ~ready[x]
    BY <1>1, <1>3, <1>4, WorksFor
  <2> QED
    BY <1>4, <2>1, RobSlots
<1>5. CASE ready[x]
  <2>1. x \notin ROB!Hit(CDB!Heard)
    BY <1>1, <1>5, HitsAlone
  <2>2. robPayload'[x] = robPayload[x]
    BY <1>1, <1>4, <1>5, <2>1, PayloadStep
  <2> QED
    BY <1>2, <1>5, <2>2 DEF StoreKnown
<1>6. CASE ~ready[x]
  <2>1. PICK s \in StoreBuffers : rsBusy[s] /\ rsPayload[s].dest = ROB!Id(x)
    BY <1>2, <1>6 DEF StoreKnown
  <2>2. s \in RS!Stations /\ s \notin IU!Into
    BY <1>1, <2>1, IntoOne DEF RS!Stations
  <2>3. x \notin ROB!Hit(CDB!Heard)
    BY <1>1, <2>1, <2>2, HitsAlone
  <2>4. CASE ready'[x]
    <3>1. PICK t \in RS!StoreUpdate(LsFull) :
            RS!Complete(t) /\ ROB!Slot(rsPayload[t].dest) = x
      BY <1>2, <1>6, <2>3, <2>4
    <3>2. robPayload'[x] = RS!Update(t)
      BY <1>1, <2>3, <3>1, PayloadStep, OneIssue
    <3> QED
      BY <2>4, <3>1, <3>2 DEF RS!Complete
  <2>5. CASE ~ready'[x]
    <3>1. ~(s \in RS!StoreUpdate(LsFull) /\ RS!Complete(s))
      BY <1>2, <1>6, <2>1, <2>5, RobSlots
    <3>2. s \notin RS!Released(AluAccepts, LsFull)
      <4>1. s \notin RS!LoadIssue(LsFull)
        BY <2>1, OneIssue, CpuAssumption
      <4>2. \A a \in 1 .. AluCount : s \notin RS!Offers(a)
        BY <2>1, CpuAssumption DEF RS!Offers, RS!Able
      <4> QED
        BY <1>1, <2>2, <3>1, <4>1, <4>2, ReleasedCases
    <3>3. rsBusy'[s] /\ rsPayload'[s].dest = ROB!Id(x)
      BY <1>1, <2>1, <2>2, <3>2, StationStep, DestKept
    <3> QED
      BY <2>5, <3>3
  <2> QED
    BY <2>4, <2>5
<1> QED
  BY <1>5, <1>6

LEMMA StoreInit == Init => StoreInv
<1> SUFFICES ASSUME Init PROVE StoreInv
  OBVIOUS
<1>1. ROB!Live = {}
  BY EmptyRing DEF Init, ROB!Init
<1> QED
  BY <1>1, ProducerInit DEF StoreInv

LEMMA StoreStep == StoreInv /\ [Next]_vars => StoreInv'
<1> SUFFICES ASSUME StoreInv, [Next]_vars PROVE StoreInv'
  OBVIOUS
<1>1. ProducerInv /\ ProducerInv' /\ TypeOK
  BY ProducerStep DEF StoreInv, ProducerInv, SlotsInv
<1>2. CASE UNCHANGED vars
  <2>1. ROB!Live' = ROB!Live
    BY <1>2 DEF vars, ROB!Live, ROB!robs!Live, ROB!robs!Nth, ROB!robs!Length, ROB!robs!Trunc
  <2> QED
    BY <1>1, <1>2, <2>1, Zenon DEF vars, StoreInv, StoreKnown, ROB!Id
<1>3. CASE Next
  <2>1. PICK take \in {0, 1} : Tick(take)
    BY <1>3 DEF Next
  <2>2. CASE robClear
    <3>1. ROB!Live' = {}
      BY <1>1, <2>1, <2>2, NoneLeft
    <3> QED
      BY <1>1, <3>1 DEF StoreInv
  <2>3. CASE ~robClear
    <3>1. ASSUME NEW x \in ROB!Live', robPayload'[x].op = "STORE"
          PROVE  IF ready'[x] THEN robPayload'[x].addrReady
                 ELSE \E s \in StoreBuffers : rsBusy'[s] /\ rsPayload'[s].dest = ROB!Id(x)
      <4>1. x \in ROB!Slots
        BY <1>1, <2>1, <3>1, AgeIs, RobTyping DEF RobTypes
      <4>2. CASE IU!Into # {} /\ x = robTail
        BY <2>1, <2>3, <3>1, <4>2, StoreFilled
      <4>3. CASE ~(IU!Into # {} /\ x = robTail)
        BY <2>1, <2>3, <3>1, <4>1, <4>3, StoreKept
      <4> QED
        BY <4>2, <4>3
    <3> QED
      BY <1>1, <3>1 DEF StoreInv, StoreKnown, ROB!Id
  <2> QED
    BY <2>2, <2>3
<1> QED
  BY <1>2, <1>3

(* Where the test of reservation-station.c finds no overlap, the accesses  *)
(* start at different bytes and share one.                                 *)
LEMMA MissedOverlap ==
  ASSUME NEW load, NEW store, load.addr \in Word, store.addr \in Word,
         load.size \in Sizes, store.size \in Sizes,
         ~RS!Overlap(load.addr, load.size, store.addr, store.size)
  PROVE  load.addr # store.addr /\ Bytes(load) \cap Bytes(store) # {}
<1> DEFINE a == load.addr
           b == store.addr
<1>1. /\ RS!LsSize(load.size) = LsSize(load.size) /\ RS!LsSize(store.size) = LsSize(store.size)
      /\ LsSize(load.size) \in {1, 2} /\ LsSize(store.size) \in {1, 2}
  BY DEF RS!LsSize, LsSize
<1>2. /\ a # b
      /\ a < b => ~(Add(a, LsSize(load.size)) <= b)
      /\ b < a => ~(Add(b, LsSize(store.size)) <= a)
  BY <1>1, Shared DEF RS!Overlap
<1>3. ASSUME NEW x \in Word, NEW y \in Word, x < y, NEW n \in {1, 2}, ~(Add(x, n) <= y)
      PROVE  n = 2 /\ Add(x, 1) = y
  <2>1. WordSize \in Nat \ {0} /\ WordSize >= 2 /\ x \in 0 .. WordSize - 1 /\ y \in 0 .. WordSize - 1
    BY WordSizeFact DEF Word
  <2>2. ASSUME NEW k \in {1, 2}, NEW u, u = x + k
        PROVE  Add(x, k) = IF u < WordSize THEN u ELSE u - WordSize
    <3>1. u \in 0 .. 2 * WordSize - 1
      BY <2>1, <2>2
    <3>2. u % WordSize = IF u < WordSize THEN u ELSE u - WordSize
      BY <2>1, <3>1, SmallMod
    <3>3. Add(x, k) = u % WordSize
      BY <2>2, Zenon DEF Add
    <3> QED
      BY <3>2, <3>3, Zenon
  <2>3. PICK u : u = x + n
    OBVIOUS
  <2>4. PICK v : v = x + 1
    OBVIOUS
  <2>5. /\ Add(x, n) = IF u < WordSize THEN u ELSE u - WordSize
        /\ Add(x, 1) = IF v < WordSize THEN v ELSE v - WordSize
    <3>1. n \in {1, 2} /\ 1 \in {1, 2}
      BY <1>3
    <3> QED
      BY <2>2, <2>3, <2>4, <3>1, Zenon
  <2> QED
    BY <1>3, <2>1, <2>3, <2>4, <2>5
<1>4. \A x \in Word : Add(x, 0) = x
  <2>1. ASSUME NEW x \in Word PROVE Add(x, 0) = x
    <3>1. WordSize \in Nat \ {0} /\ x \in 0 .. WordSize - 1 /\ x \in 0 .. 2 * WordSize - 1 /\ x + 0 = x
      BY WordSizeFact DEF Word
    <3>2. x % WordSize = x
      BY <3>1, SmallMod
    <3> QED
      BY <3>1, <3>2 DEF Add
  <2> QED
    BY <2>1
<1>5. CASE a < b
  <2>1. LsSize(load.size) = 2 /\ Add(a, 1) = b
    BY <1>1, <1>2, <1>3, <1>5
  <2>2. 1 \in 0 .. LsSize(load.size) - 1 /\ 0 \in 0 .. LsSize(store.size) - 1
    BY <1>1, <2>1
  <2>3. Add(a, 1) \in Bytes(load) /\ Add(b, 0) \in Bytes(store)
    BY <2>2 DEF Bytes
  <2> QED
    BY <1>2, <1>4, <2>1, <2>3
<1>6. CASE b < a
  <2>1. LsSize(store.size) = 2 /\ Add(b, 1) = a
    BY <1>1, <1>2, <1>3, <1>6
  <2>2. 1 \in 0 .. LsSize(store.size) - 1 /\ 0 \in 0 .. LsSize(load.size) - 1
    BY <1>1, <2>1
  <2>3. Add(b, 1) \in Bytes(store) /\ Add(a, 0) \in Bytes(load)
    BY <2>2 DEF Bytes
  <2> QED
    BY <1>2, <1>4, <2>1, <2>3
<1>7. a \in Nat /\ b \in Nat
  BY WordSizeFact DEF Word
<1> QED
  BY <1>2, <1>5, <1>6, <1>7

(* A load that leaves its buffer has looked at every older store.          *)
LEMMA LoadsLooked ==
  ASSUME StoreInv, ~robClear, NEW s \in RS!LoadIssue(LsFull), ROB!Stored(LsFull) # {}
  PROVE  ~RS!Overlap(RS!CalcAddr(rsPayload[s]), rsPayload[s].size,
                     robPayload[robHead].addr, robPayload[robHead].size)
<1> DEFINE x == ROB!Slot(rsPayload[s].dest)
           st == robPayload[robHead]
<1>1. TypeOK /\ ProducerInv /\ RobTypes
  BY DEF StoreInv, ProducerInv, SlotsInv, TypeOK
<1>2. s \in RS!Stations /\ rsBusy[s] /\ ~RS!Blocked(s)
  <2>1. s \in LoadBuffers /\ rsBusy[s]
    BY OneIssue
  <2> QED
    BY <2>1 DEF RS!Stations, RS!LoadIssue, RS!FirstOf
<1>3. x \in ROB!Live /\ ~ready[x]
  BY <1>1, <1>2, WorksFor
<1>4. /\ st.op = "STORE" /\ robHead \in ROB!Live /\ ready[robHead]
      /\ ROB!Age(robHead) = 0
  BY <1>1, PopsHead DEF ROB!Stored, ROB!First
<1>5. st.addrReady
  BY <1>4 DEF StoreInv, StoreKnown
<1>6. ROB!Age(robHead) < ROB!Age(x)
  <2>1. /\ robHead \in 0 .. RobCapacity - 1 /\ x \in 0 .. RobCapacity - 1 /\ x # robHead
        /\ RobCapacity \in Nat \ {0}
    BY <1>1, <1>3, <1>4, LiveSlots, CpuAssumption DEF ROB!Slots, RobTypes
  <2>2. Distance(RobCapacity, robHead, x) \in 0 .. RobCapacity - 1
        /\ Distance(RobCapacity, robHead, x) # Distance(RobCapacity, robHead, robHead)
    BY <2>1, DistanceIs, DistanceInjective
  <2> QED
    BY <1>4, <2>2, AgeIs
<1>7. st \in RS!ROB!OlderStores(rsPayload[s].dest)
  <2>1. /\ RS!ROB!Live = ROB!Live /\ \A y : RS!ROB!Age(y) = ROB!Age(y)
        /\ \A y : RS!ROB!Slot(y) = ROB!Slot(y)
    BY DEF RS!ROB!Live, RS!ROB!robs!Live, RS!ROB!robs!Nth, RS!ROB!robs!Length, RS!ROB!robs!Trunc,
       ROB!Live, ROB!robs!Live, ROB!robs!Nth, ROB!robs!Length, ROB!robs!Trunc,
       RS!ROB!Age, ROB!Age, RS!ROB!Slot, ROB!Slot
  <2> QED
    BY <1>4, <1>6, <2>1 DEF RS!ROB!OlderStores
<1> QED
  BY <1>2, <1>5, <1>7 DEF RS!Blocked

(* What two pushes into the load/store queue are.                          *)
LEMMA PushesMeet ==
  ASSUME StoreInv, ~robClear, LSQ!DoubleWrite(LsPushes)
  PROVE  \E load \in RS!LoadPushes(LsFull), store \in ROB!Stored(LsFull) :
           load.addr # store.addr /\ Bytes(load) \cap Bytes(store) # {}
<1> DEFINE Push(s) ==
      [op |-> "LOAD", size |-> rsPayload[s].size, addr |-> RS!CalcAddr(rsPayload[s]),
       value |-> 0, rob |-> rsPayload[s].dest, cleared |-> FALSE]
           st == [op |-> "STORE", size |-> ROB!First.size, addr |-> ROB!First.addr,
                  value |-> ROB!First.value, rob |-> 0, cleared |-> FALSE]
<1>1. /\ RS!LoadPushes(LsFull) = {Push(s) : s \in RS!LoadIssue(LsFull)}
      /\ ROB!Stored(LsFull) = {} \/ ROB!Stored(LsFull) = {st}
  BY DEF RS!LoadPushes, ROB!Stored
<1>2. TypeOK /\ RobTypes /\ RsTypes
  BY DEF StoreInv, ProducerInv, SlotsInv, TypeOK
<1>3. \A s : Push(s).addr = RS!CalcAddr(rsPayload[s]) /\ Push(s).size = rsPayload[s].size
  OBVIOUS
<1>4. st.addr = robPayload[robHead].addr /\ st.size = robPayload[robHead].size
  BY DEF ROB!First
<1> HIDE DEF Push, st
<1>5. Cardinality(LsPushes) > 1
  BY OneCardinality DEF LSQ!DoubleWrite
<1>6. \A p : Cardinality({p}) = 1 /\ Cardinality({}) = 0
  BY FS_Singleton, FS_EmptySet
<1>7. RS!LoadIssue(LsFull) # {}
  <2>1. SUFFICES ASSUME RS!LoadIssue(LsFull) = {} PROVE FALSE
    OBVIOUS
  <2>2. LsPushes = {} \/ LsPushes = {st}
    BY <1>1, <2>1 DEF LsPushes
  <2>3. Cardinality(LsPushes) = 0 \/ Cardinality(LsPushes) = 1
    BY <1>6, <2>2, Zenon
  <2> QED
    BY <1>5, <2>3
<1>8. PICK s \in RS!LoadIssue(LsFull) : TRUE
  BY <1>7
<1>9. RS!LoadPushes(LsFull) = {Push(s)}
  BY <1>1, <1>8, OneIssue
<1>10. ROB!Stored(LsFull) = {st}
  <2>1. SUFFICES ASSUME ROB!Stored(LsFull) = {} PROVE FALSE
    BY <1>1
  <2>2. LsPushes = {Push(s)}
    BY <1>9, <2>1 DEF LsPushes
  <2>3. Cardinality(LsPushes) = 1
    BY <1>6, <2>2, Zenon
  <2> QED
    BY <1>5, <2>3
<1>11. ~RS!Overlap(Push(s).addr, Push(s).size, st.addr, st.size)
  BY <1>3, <1>4, <1>8, <1>10, LoadsLooked
<1>12. Push(s).addr \in Word /\ Push(s).size \in Sizes /\ st.addr \in Word /\ st.size \in Sizes
  <2>1. s \in RS!Stations
    BY <1>8, OneIssue DEF RS!Stations
  <2>2. rsPayload[s] \in RS!RsPayload /\ robPayload[robHead] \in ROB!RobPayload
    BY <1>2, <2>1 DEF RsTypes, RobTypes
  <2>3. /\ rsPayload[s].addr \in Word /\ rsPayload[s].value1 \in Word /\ rsPayload[s].size \in Sizes
        /\ robPayload[robHead].addr \in Word /\ robPayload[robHead].size \in Sizes
    BY <2>2 DEF RS!RsPayload, RS!Word, RS!Sizes, ROB!RobPayload, ROB!Word, ROB!Sizes, Word, Sizes
  <2>4. rsPayload[s].addr \in Int /\ rsPayload[s].value1 \in Int
    BY <2>3, WordSizeFact DEF Word
  <2>5. RS!CalcAddr(rsPayload[s]) \in Word
    BY <2>4, AddType, Shared DEF RS!CalcAddr
  <2> QED
    BY <1>3, <1>4, <2>3, <2>5
<1>13. Push(s).addr # st.addr /\ Bytes(Push(s)) \cap Bytes(st) # {}
  BY <1>11, <1>12, MissedOverlap
<1> QED
  BY <1>9, <1>10, <1>13

(* The tick that clears writes nothing twice.                              *)
LEMMA ClearWritesOnce ==
  ASSUME StoreInv, robClear
  PROVE  ~DoubleWrite
<1>1. /\ TypeOK /\ Phase /\ rsClear /\ memClear /\ forcePc.busy
  <2>1. TypeOK /\ Phase
    BY DEF StoreInv, ProducerInv, SlotsInv
  <2> QED
    BY <2>1, Flags
<1>2. ~ROB!Commits /\ ~ROB!Flushes /\ ~ROB!Pops(LsFull) /\ ROB!Retired(LsFull) = {}
      /\ ROB!Stored(LsFull) = {} /\ ROB!Hit(CDB!Heard) = {}
  BY DEF ROB!Commits, ROB!Flushes, ROB!Pops, ROB!Retired, ROB!Stored, ROB!Hit
<1>3. IU!Tasks = {} /\ Forced = {}
  BY <1>1, <1>2 DEF IU!Tasks, IU!Into, Forced
<1>4. LsPushes = {} /\ MEM!Completing = {}
  <2>1. RS!LoadIssue(LsFull) = {}
    BY <1>1, OneIssue
  <2> QED
    BY <1>1, <1>2, <2>1 DEF LsPushes, RS!LoadPushes, MEM!Completing
<1>5. LSQ!Cardinality(LsPushes) = 0 /\ MEM!Cardinality(MEM!Completing) = 0
  <2>1. Cardinality({}) = 0
    BY FS_EmptySet
  <2> QED
    BY <1>4, <2>1, OneCardinality, Zenon
<1>6. ~LSQ!DoubleWrite(LsPushes) /\ ~MEM!DoubleWrite
  BY <1>5 DEF LSQ!DoubleWrite, MEM!DoubleWrite
<1>7. ~ROB!DoubleWrite(CDB!Heard, IU!Tasks, RS!StoreUpdates(LsFull), LsFull)
  BY <1>2, <1>3 DEF ROB!DoubleWrite, ROB!robs!DoubleWrite
<1> QED
  BY <1>2, <1>3, <1>6, <1>7, Zenon DEF DoubleWrite, RF!DoubleWrite, RS!DoubleWrite, CDB!DoubleWrite,
     IU!DoubleWrite

(* Any other tick writes nothing twice but the tail of the load/store      *)
(* queue.                                                                  *)
LEMMA OthersWriteOnce ==
  ASSUME StoreInv, ~robClear, DoubleWrite
  PROVE  LSQ!DoubleWrite(LsPushes)
<1>1. /\ TypeOK /\ RobTypes /\ ProducerInv /\ Phase /\ Staggered(stores)
      /\ ~rfClear /\ ~rsClear /\ ~forcePc.busy
  <2>1. TypeOK /\ RobTypes /\ ProducerInv /\ Phase /\ Staggered(stores)
    BY DEF StoreInv, ProducerInv, SlotsInv, TypeOK
  <2> QED
    BY <2>1, Flags DEF Phase
<1>2. ~RF!DoubleWrite(ROB!Retired(LsFull)) /\ ~IU!DoubleWrite(Forced)
  BY <1>1 DEF RF!DoubleWrite, IU!DoubleWrite
<1>3. \A s \in RS!StoreUpdate(LsFull) :
        /\ ROB!Slot(rsPayload[s].dest) \in ROB!Live /\ ~ready[ROB!Slot(rsPayload[s].dest)]
        /\ ROB!Slot(rsPayload[s].dest) \notin ROB!Hit(CDB!Heard)
  <2>1. ASSUME NEW s \in RS!StoreUpdate(LsFull)
        PROVE  /\ ROB!Slot(rsPayload[s].dest) \in ROB!Live /\ ~ready[ROB!Slot(rsPayload[s].dest)]
               /\ ROB!Slot(rsPayload[s].dest) \notin ROB!Hit(CDB!Heard)
    <3>1. s \in RS!Stations /\ rsBusy[s]
      BY OneIssue DEF RS!Stations
    <3>2. /\ ROB!Slot(rsPayload[s].dest) \in ROB!Live /\ ~ready[ROB!Slot(rsPayload[s].dest)]
          /\ ROB!Id(ROB!Slot(rsPayload[s].dest)) = rsPayload[s].dest
      BY <1>1, <3>1, WorksFor, RobSlots
    <3> QED
      BY <1>1, <3>1, <3>2, HitsAlone
  <2> QED
    BY <2>1
<1>4. robTail \notin ROB!Live
  <2>1. /\ robHead \in ROB!Slots /\ robTail \in ROB!Slots
        /\ RobCapacity \in Nat \ {0} /\ ROB!Slots = 0 .. RobCapacity - 1
    BY <1>1, CpuAssumption DEF RobTypes, ROB!Slots
  <2>2. Distance(RobCapacity, robHead, robTail) \in Int
    BY <2>1, DistanceIs
  <2> QED
    BY <2>1, <2>2, AgeIs
<1>5. ROB!Pops(LsFull) => ROB!Commits
  BY DEF ROB!Pops
<1>6. ROB!Commits => robHead \in ROB!Live /\ ready[robHead] /\ robHead # robTail
  BY <1>1, PopsHead
<1>7. \A x \in ROB!Hit(CDB!Heard) : x \in ROB!Live /\ ~ready[x]
  BY <1>1, HitsAlone
<1>8. ~ROB!DoubleWrite(CDB!Heard, IU!Tasks, RS!StoreUpdates(LsFull), LsFull)
  <2> DEFINE tailSlot == {robTail : p \in IU!Tasks}
             slots == {ROB!Slot(u.id) : u \in RS!StoreUpdates(LsFull)}
             completed == {ROB!Slot(u.id) : u \in {v \in RS!StoreUpdates(LsFull) : v.ready}}
             committed == {s \in {robHead} : ROB!Pops(LsFull)}
  <2>1. tailSlot \cap ROB!Live = {} /\ tailSlot \subseteq {robTail}
    BY <1>4
  <2>2. \A x \in slots : x \in ROB!Live /\ ~ready[x] /\ x \notin ROB!Hit(CDB!Heard)
    <3>1. \A u \in RS!StoreUpdates(LsFull) : \E s \in RS!StoreUpdate(LsFull) : u.id = rsPayload[s].dest
      BY DEF RS!StoreUpdates
    <3> QED
      BY <1>3, <3>1
  <2>3. completed \subseteq slots
    OBVIOUS
  <2>4. \A x \in committed : x \in ROB!Live /\ ready[x] /\ x # robTail
    BY <1>5, <1>6
  <2>5. ~ROB!robs!DoubleWrite(IU!Tasks # {}, ROB!Pops(LsFull), ROB!Flushes)
    BY DEF ROB!robs!DoubleWrite
  <2> HIDE DEF tailSlot, slots, completed, committed
  <2>6. /\ ROB!Hit(CDB!Heard) \cap (tailSlot \cup slots \cup committed) = {}
        /\ committed \cap (tailSlot \cup completed) = {}
        /\ tailSlot \cap slots = {}
    BY <1>7, <2>1, <2>2, <2>3, <2>4
  <2> QED
    BY <2>5, <2>6 DEF ROB!DoubleWrite, tailSlot, slots, completed, committed
<1>9. ~RS!DoubleWrite(CDB!Heard, IU!Tasks, AluAccepts, LsFull, ROB!Flushes)
  <2>1. \A s \in RS!Released(AluAccepts, LsFull) \cup RS!Woken(CDB!Heard) : rsBusy[s]
    BY <1>1, OneIssue DEF RS!Released, RS!Issued, RS!Offers, RS!Able, RS!Woken
  <2>2. \A d \in IU!Tasks : ~rsBusy[d.station]
    BY <1>1, IntoOne DEF IU!Tasks
  <2> QED
    BY <1>1, <2>1, <2>2 DEF RS!DoubleWrite
<1>10. ~MEM!DoubleWrite
  <2>1. \A i, j \in MEM!Completing : i = j
    BY <1>1 DEF MEM!Completing, Staggered
  <2>2. MEM!Completing = {} \/ \E i : MEM!Completing = {i}
    BY <2>1
  <2>3. Cardinality(MEM!Completing) = 0 \/ Cardinality(MEM!Completing) = 1
    <3>1. Cardinality({}) = 0 /\ \A i : Cardinality({i}) = 1
      BY FS_EmptySet, FS_Singleton
    <3> QED
      BY <2>2, <3>1, Zenon
  <2> QED
    BY <2>3, OneCardinality DEF MEM!DoubleWrite
<1>11. ~CDB!DoubleWrite(ROB!Flushes)
  <2>1. ROB!Flushes => ROB!Live # {}
    BY <1>6 DEF ROB!Flushes
  <2>2. busClear \in {0, 1}
    BY <1>1, Flags
  <2> QED
    BY <1>1, <2>1, <2>2 DEF ProducerInv, CDB!DoubleWrite
<1> QED
  BY <1>2, <1>8, <1>9, <1>10, <1>11, Zenon DEF DoubleWrite

(* No register of the processor is ever written twice in a tick, with one  *)
(* exception: a load joins the load/store queue when a store commits that  *)
(* it overlaps without starting at the same byte.  Whatever the program,   *)
(* the sizes and the predictions, the assertion of reg.c:76-79 fails for   *)
(* no other reason (reservation-station.c:177-226).                        *)
THEOREM WritesMeet == Spec => []OnlyOverlapsMeet
<1>1. Spec => []StoreInv
  BY StoreInit, StoreStep, PTL DEF Spec
<1>2. StoreInv => OnlyOverlapsMeet
  BY ClearWritesOnce, OthersWriteOnce, PushesMeet DEF OnlyOverlapsMeet
<1> QED
  BY <1>1, <1>2, PTL

-----------------------------------------------------------------------------
(* Programs without partial overlaps.                                      *)

(* Every instruction names a single byte, if it accesses the memory.       *)
BytesOnly == \A p \in Programs : \A a \in DOMAIN p : p[a].size = "BYTE"

(* So does everything in the stations and in the reorder buffer.           *)
SizesInv ==
  /\ prog \in Programs
  /\ \A s \in RS!Stations : rsPayload[s].size = "BYTE"
  /\ \A s \in ROB!Slots : robPayload[s].size = "BYTE"

(* An access of size "BYTE" is one of its first byte.                      *)
LEMMA ByteIs ==
  ASSUME NEW access, access.addr \in Word, access.size = "BYTE"
  PROVE  Bytes(access) = {access.addr}
<1>1. 0 .. LsSize(access.size) - 1 = {0}
  BY DEF LsSize
<1>2. Add(access.addr, 0) = access.addr
  <2>1. /\ WordSize \in Nat \ {0} /\ access.addr \in 0 .. 2 * WordSize - 1
        /\ access.addr < WordSize /\ access.addr + 0 = access.addr
    BY WordSizeFact DEF Word
  <2>2. access.addr % WordSize = access.addr
    BY <2>1, SmallMod
  <2> QED
    BY <2>1, <2>2 DEF Add
<1> QED
  BY <1>1, <1>2 DEF Bytes

(* A dispatched instruction brings its size along.                         *)
LEMMA SizesDispatched ==
  ASSUME BytesOnly, SizesInv, TypeOK, IU!Into # {}, NEW take \in {0, 1}
  PROVE  /\ IU!NewEntry(take).size = "BYTE"
         /\ \A s \in IU!Into : IU!NewTask(s).size = "BYTE"
<1>1. IU!inst.size = "BYTE"
  BY DEF BytesOnly, SizesInv, IU!inst, IU!Fetch, IU!Unimp, IU!Instr
<1>2. \A s \in IU!Into : s \in RS!Stations /\ rsPayload[s] \in RS!RsPayload
  BY IntoOne DEF TypeOK, RsTypes
<1>3. robPayload[robTail] \in ROB!RobPayload
  BY DEF TypeOK, RobTypes
<1>4. IU!NewEntry(take).size = "BYTE"
  BY <1>1, <1>3 DEF IU!NewEntry, ROB!RobPayload
<1>5. IU!inst \in Instruction /\ IU!inst.op # "UNIMP"
  BY InstType, IntoOne DEF TypeOK
<1>6. ASSUME NEW s \in IU!Into
      PROVE  IU!NewTask(s).size = "BYTE"
  BY <1>1, <1>2, <1>5, <1>6 DEF IU!NewTask, RS!RsPayload, Instruction, Ops
<1> QED
  BY <1>4, <1>6

LEMMA SizesStep ==
  ASSUME BytesOnly, SizesInv, TypeOK, NEW take \in {0, 1}, Tick(take)
  PROVE  SizesInv'
<1>1. prog' \in Programs
  BY DEF SizesInv, Tick
<1>2. ASSUME NEW s \in RS!Stations
      PROVE  rsPayload'[s].size = "BYTE"
  <2>1. rsPayload[s] \in RS!RsPayload /\ rsPayload[s].size = "BYTE"
    BY DEF TypeOK, RsTypes, SizesInv
  <2>2. \A m : RS!WithResult(rsPayload[s], m).size = "BYTE"
    BY <2>1 DEF RS!WithResult, RS!RsPayload
  <2> QED
    BY <2>1, <2>2, StationStep, SizesDispatched
<1>3. ASSUME NEW s \in ROB!Slots
      PROVE  robPayload'[s].size = "BYTE"
  <2>1. robPayload[s] \in ROB!RobPayload /\ robPayload[s].size = "BYTE"
    BY DEF TypeOK, RobTypes, SizesInv
  <2>2. \A v : ROB!WithResult(robPayload[s], v).size = "BYTE"
    BY <2>1 DEF ROB!WithResult, ROB!RobPayload
  <2>3. ASSUME NEW t, ROB!Slot(rsPayload[t].dest) = s
        PROVE  RS!Update(t).size = "BYTE"
    <3>1. RS!Entry(t) = robPayload[s]
      BY <2>3 DEF RS!Entry, RS!ROB!Slot, ROB!Slot
    <3> QED
      BY <2>1, <3>1 DEF RS!Update, ROB!RobPayload
  <2> QED
    BY <2>1, <2>2, <2>3, PayloadStep, SizesDispatched
<1> QED
  BY <1>1, <1>2, <1>3 DEF SizesInv, RS!Stations, ROB!Slots

LEMMA SizesHold == BytesOnly => (Spec => []SizesInv)
<1> SUFFICES ASSUME BytesOnly PROVE Spec => []SizesInv
  OBVIOUS
<1>1. Init => SizesInv
  BY DEF Init, RS!Init, ROB!Init, ROB!ZeroEntry, SizesInv
<1>2. SizesInv /\ TypeOK /\ [Next]_vars => SizesInv'
  <2> SUFFICES ASSUME SizesInv, TypeOK, [Next]_vars PROVE SizesInv'
    OBVIOUS
  <2>1. CASE UNCHANGED vars
    BY <2>1 DEF vars, SizesInv, RS!Stations, ROB!Slots
  <2>2. CASE Next
    BY <2>2, SizesStep DEF Next
  <2> QED
    BY <2>1, <2>2
<1> QED
  BY <1>1, <1>2, TypeCorrect, PTL DEF Spec

(* A program whose accesses are single bytes never makes the processor     *)
(* write a register twice in a tick, so reg.c:76-79 never aborts it: two   *)
(* accesses of one byte that overlap start at the same byte, and a load    *)
(* waits for such a store (reservation-station.c:177-226).                 *)
THEOREM BytesNeverMeet == BytesOnly => (Spec => []NoDoubleWrite)
<1> SUFFICES ASSUME BytesOnly PROVE Spec => []NoDoubleWrite
  OBVIOUS
<1>1. SizesInv /\ TypeOK /\ OnlyOverlapsMeet => NoDoubleWrite
  <2> SUFFICES ASSUME SizesInv, TypeOK, OnlyOverlapsMeet, DoubleWrite PROVE FALSE
    BY DEF NoDoubleWrite
  <2>1. PICK load \in RS!LoadPushes(LsFull), store \in ROB!Stored(LsFull) :
          load.addr # store.addr /\ Bytes(load) \cap Bytes(store) # {}
    BY DEF OnlyOverlapsMeet
  <2>2. PICK s \in RS!LoadIssue(LsFull) :
          load.size = rsPayload[s].size /\ load.addr = RS!CalcAddr(rsPayload[s])
    BY <2>1 DEF RS!LoadPushes
  <2>3. store.size = robPayload[robHead].size /\ store.addr = robPayload[robHead].addr
    BY <2>1 DEF ROB!Stored, ROB!First
  <2>4. s \in RS!Stations /\ robHead \in ROB!Slots
    BY OneIssue DEF TypeOK, RsTypes, RobTypes, RS!Stations
  <2>5. load.size = "BYTE" /\ store.size = "BYTE"
    BY <2>2, <2>3, <2>4 DEF SizesInv
  <2>6. load.addr \in Word /\ store.addr \in Word
    <3>1. rsPayload[s] \in RS!RsPayload /\ robPayload[robHead] \in ROB!RobPayload
      BY <2>4 DEF TypeOK, RsTypes, RobTypes
    <3>2. /\ rsPayload[s].addr \in Word /\ rsPayload[s].value1 \in Word
          /\ robPayload[robHead].addr \in Word
      BY <3>1 DEF RS!RsPayload, RS!Word, ROB!RobPayload, ROB!Word, Word
    <3>3. rsPayload[s].addr \in Int /\ rsPayload[s].value1 \in Int
      BY <3>2, WordSizeFact DEF Word
    <3> QED
      BY <2>2, <2>3, <3>2, <3>3, AddType, Shared DEF RS!CalcAddr
  <2>7. Bytes(load) = {load.addr} /\ Bytes(store) = {store.addr}
    BY <2>5, <2>6, ByteIs
  <2> QED
    BY <2>1, <2>7
<1> QED
  BY <1>1, SizesHold, TypeCorrect, WritesMeet, PTL


=============================================================================
