--------------------------- MODULE RegFileProofs ---------------------------
(***************************************************************************)
(* The clocked registers of reg-store.c implement the renaming table of    *)
(* RegStore, for any number of registers, names and values.                *)
(***************************************************************************)
EXTENDS RegFile, TLAPS

Names == RobIds \cup {NoRob}
Request == [rd : Reg, id : RobIds]

TypeOK ==
  /\ registers \in [Reg -> Word] /\ regNext \in [Reg -> Word]
  /\ setNext \in [Reg -> Names] /\ robIds \in [Reg -> Names]
  /\ clearIfNext \in [Reg -> Names \cup {Always}]
  /\ setCount \in [Reg -> Nat] /\ clearIfCount \in [Reg -> Nat]
  /\ clear \in BOOLEAN /\ clearNext \in BOOLEAN
  /\ pending \subseteq Callbacks

(* What dispatch has asked for in this tick: nothing yet, or one name.     *)
NothingNamed ==
  /\ dispatched = {} /\ setNext = robIds /\ setCount = [r \in Reg |-> 0]
NamedBy(d) ==
  /\ dispatched = {d}
  /\ setNext = [r \in Reg |-> IF r = d.rd /\ r # 0 THEN d.id ELSE robIds[r]]
  /\ setCount = [r \in Reg |-> IF r = d.rd /\ r # 0 THEN 1 ELSE 0]
DispatchInv ==
  NothingNamed \/ ("dispatch" \notin pending /\ \E d \in Request : NamedBy(d))

(* What commit and the flush of the last tick have asked for: nothing, to  *)
(* forget every name, or to forget one and to write its register.          *)
NothingRetired == retired = {} /\ written = {} /\ regNext = registers
NothingForgotten ==
  /\ NothingRetired
  /\ clearIfNext = [r \in Reg |-> NoRob] /\ clearIfCount = [r \in Reg |-> 0]
AllForgotten ==
  /\ NothingRetired
  /\ clearIfNext = [r \in Reg |-> Always] /\ clearIfCount = [r \in Reg |-> 1]
ForgottenBy(c, value) ==
  /\ retired = {c} /\ written = {[rd |-> c.rd, value |-> value]}
  /\ clearIfNext = [r \in Reg |-> IF r = c.rd /\ r # 0 THEN c.id ELSE NoRob]
  /\ clearIfCount = [r \in Reg |-> IF r = c.rd /\ r # 0 THEN 1 ELSE 0]
  /\ regNext = [r \in Reg |-> IF r = c.rd /\ r # 0 THEN value ELSE registers[r]]
RetireInv ==
  \/ NothingForgotten /\ (clear => "tick" \in pending)
  \/ AllForgotten /\ clear /\ "tick" \notin pending
  \/ /\ ~clear /\ "commit" \notin pending
     /\ \E c \in Request, value \in Word : ForgottenBy(c, value)

IInv == TypeOK /\ DispatchInv /\ RetireInv

-----------------------------------------------------------------------------
LEMMA InitIInv == Init => IInv
<1> SUFFICES ASSUME Init PROVE IInv
  OBVIOUS
<1>1. 0 \in Word
  BY Rv32iAssumption DEF Word
<1>2. TypeOK
  BY <1>1 DEF Init, TypeOK, Names
<1>3. NothingNamed /\ NothingForgotten /\ ~clear
  BY DEF Init, NothingNamed, NothingForgotten, NothingRetired
<1> QED
  BY <1>2, <1>3 DEF IInv, DispatchInv, RetireInv

(* Dispatch names at most one register, and nobody did so before it.       *)
LEMMA DispatchStep == IInv /\ Dispatch => IInv'
<1> SUFFICES ASSUME IInv, Dispatch PROVE IInv'
  OBVIOUS
<1>1. NothingNamed /\ "dispatch" \notin pending' /\ pending' \subseteq pending
  BY DEF IInv, DispatchInv, Dispatch, Run
<1>2. ("tick" \in pending <=> "tick" \in pending') /\ ("commit" \in pending <=> "commit" \in pending')
  BY DEF Dispatch, Run
<1>3. RetireInv'
  BY <1>2 DEF IInv, RetireInv, NothingForgotten, AllForgotten, NothingRetired, ForgottenBy,
              Dispatch, RobIdSet
<1>4. TypeOK' /\ DispatchInv'
  <2>1. CASE UNCHANGED <<setNext, setCount, dispatched>>
    BY <1>1, <2>1 DEF IInv, TypeOK, DispatchInv, NothingNamed, Dispatch
  <2>2. ASSUME NEW r \in Reg, NEW id \in RobIds, RobIdSet(r, id)
        PROVE  TypeOK' /\ DispatchInv'
    <3> DEFINE d == [rd |-> r, id |-> id]
    <3>1. d \in Request /\ d.rd = r /\ d.id = id /\ dispatched' = {d}
      BY <2>2 DEF Request, RobIdSet
    <3>2. /\ setNext' = [q \in Reg |-> IF q = r /\ q # 0 THEN id ELSE robIds'[q]]
          /\ setCount' = [q \in Reg |-> IF q = r /\ q # 0 THEN 1 ELSE 0]
      <4>1. robIds' = robIds /\ setNext = robIds /\ robIds \in [Reg -> Names]
        BY <1>1 DEF NothingNamed, Dispatch, IInv, TypeOK
      <4>2. CASE r = 0
        BY <1>1, <2>2, <4>1, <4>2 DEF NothingNamed, RobIdSet
      <4>3. CASE r # 0
        BY <1>1, <2>2, <4>1, <4>3 DEF NothingNamed, RobIdSet
      <4> QED
        BY <4>2, <4>3
    <3> HIDE DEF d
    <3>3. NamedBy(d)'
      BY <3>1, <3>2 DEF NamedBy
    <3>4. TypeOK'
      BY <1>1, <2>2 DEF IInv, TypeOK, Dispatch, RobIdSet, Names
    <3> QED
      BY <1>1, <3>1, <3>3, <3>4 DEF DispatchInv
  <2> QED
    BY <2>1, <2>2 DEF Dispatch
<1> QED
  BY <1>3, <1>4 DEF IInv

(* A commit retires at most one name, and none in the tick after a flush.  *)
LEMMA CommitStep == IInv /\ Commit => IInv'
<1> SUFFICES ASSUME IInv, Commit PROVE IInv'
  OBVIOUS
<1>1. "commit" \notin pending' /\ pending' \subseteq pending /\ "commit" \in pending
  BY DEF Commit, Run
<1>2. ("tick" \in pending <=> "tick" \in pending') /\ ("dispatch" \in pending <=> "dispatch" \in pending')
  BY DEF Commit, Run
<1>3. DispatchInv'
  BY <1>2 DEF IInv, DispatchInv, NothingNamed, NamedBy, Commit
<1>4. clearNext' \in BOOLEAN
  BY DEF Commit
<1>5. TypeOK' /\ RetireInv'
  <2>1. CASE UNCHANGED <<regNext, clearIfNext, clearIfCount, retired, written>>
    BY <1>1, <1>2, <1>4, <2>1
    DEF IInv, TypeOK, RetireInv, NothingForgotten, AllForgotten, NothingRetired, Commit
  <2>2. ASSUME ~clear, NEW r \in Reg, NEW id \in RobIds, NEW value \in Word,
               SetRegister(r, value), RobIdClear(r, id)
        PROVE  TypeOK' /\ RetireInv'
    <3>1. NothingForgotten
      BY <1>1, <2>2 DEF IInv, RetireInv
    <3> DEFINE c == [rd |-> r, id |-> id]
    <3>2. c \in Request /\ c.rd = r /\ c.id = id /\ retired' = {c}
      BY <2>2 DEF Request, RobIdClear
    <3>3. written' = {[rd |-> r, value |-> value]}
      BY <2>2 DEF SetRegister
    <3>4. /\ clearIfNext' = [q \in Reg |-> IF q = r /\ q # 0 THEN id ELSE NoRob]
          /\ clearIfCount' = [q \in Reg |-> IF q = r /\ q # 0 THEN 1 ELSE 0]
      BY <2>2, <3>1 DEF NothingForgotten, RobIdClear
    <3>5. regNext' = [q \in Reg |-> IF q = r /\ q # 0 THEN value ELSE registers'[q]]
      <4>1. regNext = registers /\ registers' = registers /\ registers \in [Reg -> Word]
        BY <3>1 DEF NothingForgotten, NothingRetired, Commit, IInv, TypeOK
      <4> QED
        BY <2>2, <4>1 DEF SetRegister
    <3> HIDE DEF c
    <3>6. ForgottenBy(c, value)'
      BY <3>2, <3>3, <3>4, <3>5 DEF ForgottenBy
    <3>7. TypeOK'
      BY <1>1, <1>4, <2>2 DEF IInv, TypeOK, Commit, SetRegister, RobIdClear, Names
    <3> QED
      BY <1>1, <2>2, <3>2, <3>6, <3>7 DEF RetireInv, Commit
  <2> QED
    BY <2>1, <2>2 DEF Commit
<1> QED
  BY <1>3, <1>5 DEF IInv

(* After a flush _reg_file_tick is the only one that asks to forget.       *)
LEMMA FileTickStep == IInv /\ FileTick => IInv'
<1> SUFFICES ASSUME IInv, FileTick PROVE IInv'
  OBVIOUS
<1>1. "tick" \notin pending' /\ pending' \subseteq pending /\ "tick" \in pending
  BY DEF FileTick, Run
<1>2. ("commit" \in pending <=> "commit" \in pending') /\ ("dispatch" \in pending <=> "dispatch" \in pending')
  BY DEF FileTick, Run
<1>3. DispatchInv'
  BY <1>2 DEF IInv, DispatchInv, NothingNamed, NamedBy, FileTick, calls
<1>4. CASE clear
  <2>1. NothingForgotten
    BY <1>1, <1>4 DEF IInv, RetireInv
  <2>2. AllForgotten' /\ clear'
    BY <1>4, <2>1 DEF NothingForgotten, AllForgotten, NothingRetired, FileTick, calls
  <2>3. TypeOK'
    BY <1>1, <1>4 DEF IInv, TypeOK, FileTick, Always
  <2> QED
    BY <1>1, <1>3, <2>2, <2>3 DEF IInv, RetireInv
<1>5. CASE ~clear
  BY <1>1, <1>2, <1>3, <1>5
  DEF IInv, TypeOK, RetireInv, NothingForgotten, NothingRetired, ForgottenBy, FileTick, calls
<1> QED
  BY <1>4, <1>5

(* The edge leaves the same names in the table and in rob_id_set.          *)
LEMMA EdgeStep == IInv /\ Edge => IInv'
<1> SUFFICES ASSUME IInv, Edge PROVE IInv'
  OBVIOUS
<1>1. NothingNamed' /\ pending' = Callbacks
  BY DEF Edge, NothingNamed, SetAfter
<1>2. NothingForgotten' /\ "tick" \in pending'
  BY DEF Edge, NothingForgotten, NothingRetired, ClearIfAfter, ClearIfCountAfter, Callbacks
<1>3. TypeOK'
  BY DEF IInv, TypeOK, Edge, SetAfter, ClearIfAfter, ClearIfCountAfter, Names
<1> QED
  BY <1>1, <1>2, <1>3 DEF IInv, DispatchInv, RetireInv

LEMMA StepIInv == IInv /\ [Next]_vars => IInv'
<1> SUFFICES ASSUME IInv, [Next]_vars PROVE IInv'
  OBVIOUS
<1>1. CASE UNCHANGED vars
  BY <1>1 DEF vars, calls, IInv, TypeOK, DispatchInv, NothingNamed, NamedBy, RetireInv,
              NothingForgotten, AllForgotten, NothingRetired, ForgottenBy
<1> QED
  BY <1>1, DispatchStep, CommitStep, FileTickStep, EdgeStep DEF Next

LEMMA Invariance == Spec => []IInv
  BY InitIInv, StepIInv, PTL DEF Spec

(* No tick writes a register of the file twice, neither by the write-backs *)
(* of _reg_file_next nor by a flush (reg-store.c:28-36).                   *)
THEOREM SingleWrites == Spec => []WritesOnce
<1>1. IInv => WritesOnce
  BY DEF IInv, DispatchInv, NothingNamed, NamedBy, RetireInv, NothingForgotten,
         AllForgotten, ForgottenBy, WritesOnce
<1> QED
  BY <1>1, Invariance, PTL

(* A retired name never comes back (reg-store.c:28,34).                    *)
THEOREM RetiredForGood == Spec => []NoResurrection
<1>1. IInv => NoResurrection
  BY DEF IInv, DispatchInv, NothingNamed, RetireInv, NothingForgotten, NoResurrection
<1> QED
  BY <1>1, Invariance, PTL

-----------------------------------------------------------------------------
(* One write, or none, to a bank of registers.                             *)
LEMMA WrittenNone == ASSUME NEW f \in [Reg -> Word] PROVE Written(f, {}) = f
  BY DEF Written
LEMMA WrittenOne ==
  ASSUME NEW f \in [Reg -> Word], NEW r \in Reg, NEW v \in Word
  PROVE  Written(f, {<<r, v>>}) = [i \in Reg |-> IF i = r THEN v ELSE f[i]]
<1> DEFINE pair == <<r, v>>
<1>1. pair[1] = r /\ pair[2] = v
  OBVIOUS
<1> HIDE DEF pair
<1>2. ASSUME NEW i \in Reg
      PROVE  (IF \E w \in {pair} : w[1] = i THEN (CHOOSE w \in {pair} : w[1] = i)[2] ELSE f[i])
             = (IF i = r THEN v ELSE f[i])
  <2>1. CASE i = r
    <3>1. (CHOOSE w \in {pair} : w[1] = i) = pair
      BY <1>1, <2>1
    <3> QED
      BY <1>1, <2>1, <3>1
  <2>2. CASE i # r
    BY <1>1, <2>2
  <2> QED
    BY <2>1, <2>2
<1> QED
  BY <1>2 DEF Written, pair

(* The names after the calls of dispatch.                                  *)
LEMMA NamesRequested == IInv => \A r \in Reg : Abstract!Named(r, dispatched) = setNext[r]
<1> SUFFICES ASSUME IInv, NEW r \in Reg PROVE Abstract!Named(r, dispatched) = setNext[r]
  OBVIOUS
<1>1. CASE NothingNamed
  BY <1>1 DEF NothingNamed, Abstract!Named
<1>2. ASSUME NEW d \in Request, NamedBy(d) PROVE Abstract!Named(r, dispatched) = setNext[r]
  BY <1>2 DEF NamedBy, Abstract!Named
<1> QED
  BY <1>1, <1>2 DEF IInv, DispatchInv

(* The registers after the calls of commit.                                *)
WrittenPairs == {<<w.rd, w.value>> : w \in {v \in written : v.rd # 0}}
LEMMA ValuesRequested == IInv => regNext = Written(registers, WrittenPairs)
<1> SUFFICES ASSUME IInv PROVE regNext = Written(registers, WrittenPairs)
  OBVIOUS
<1>1. registers \in [Reg -> Word]
  BY DEF IInv, TypeOK
<1>2. CASE NothingRetired
  <2>1. WrittenPairs = {}
    BY <1>2 DEF NothingRetired, WrittenPairs
  <2> QED
    BY <1>1, <1>2, <2>1, WrittenNone DEF NothingRetired
<1>3. ASSUME NEW c \in Request, NEW value \in Word, ForgottenBy(c, value)
      PROVE  regNext = Written(registers, WrittenPairs)
  <2> DEFINE w == [rd |-> c.rd, value |-> value]
  <2>1. written = {w} /\ w.rd = c.rd /\ w.value = value /\ c.rd \in Reg
    BY <1>3 DEF ForgottenBy, Request
  <2> HIDE DEF w
  <2>2. CASE c.rd = 0
    <3>1. {v \in written : v.rd # 0} = {}
      BY <2>1, <2>2
    <3>2. WrittenPairs = {}
      BY <3>1 DEF WrittenPairs
    <3>3. regNext = registers
      BY <1>1, <1>3, <2>2 DEF ForgottenBy
    <3> QED
      BY <1>1, <3>2, <3>3, WrittenNone
  <2>3. CASE c.rd # 0
    <3>1. {v \in written : v.rd # 0} = {w}
      BY <2>1, <2>3
    <3>2. WrittenPairs = {<<c.rd, value>>}
      BY <2>1, <3>1 DEF WrittenPairs
    <3>3. regNext = [r \in Reg |-> IF r = c.rd THEN value ELSE registers[r]]
      BY <1>3, <2>3 DEF ForgottenBy
    <3>4. Written(registers, {<<c.rd, value>>})
            = [r \in Reg |-> IF r = c.rd THEN value ELSE registers[r]]
      BY <1>1, <2>1, WrittenOne
    <3> QED
      BY <3>2, <3>3, <3>4
  <2> QED
    BY <2>2, <2>3
<1> QED
  BY <1>2, <1>3 DEF IInv, RetireInv, NothingForgotten, AllForgotten

(* _reg_file_next forgets what the calls of commit and the flush say.      *)
LEMMA ForgetsRequested ==
  IInv /\ pending = {} =>
    \A r \in Reg : Forgets(r) <=> Abstract!Forgets(r, setNext[r], retired)
<1> SUFFICES ASSUME IInv, pending = {}, NEW r \in Reg
             PROVE  Forgets(r) <=> Abstract!Forgets(r, setNext[r], retired)
  OBVIOUS
<1>1. setNext[r] \in Nat
  BY RobAssumption DEF IInv, TypeOK, Names, RobIds, NoRob
<1>2. CASE NothingForgotten /\ ~clear
  BY <1>2 DEF NothingForgotten, NothingRetired, Forgets, Abstract!Forgets, NoRob
<1>3. CASE AllForgotten /\ clear
  BY <1>3 DEF AllForgotten, Forgets, Abstract!Forgets, Always
<1>4. ASSUME NEW c \in Request, NEW value \in Word, ForgottenBy(c, value), ~clear
      PROVE  Forgets(r) <=> Abstract!Forgets(r, setNext[r], retired)
  <2>1. c.rd \in Reg /\ c.id \in Nat
    BY RobAssumption DEF Request, RobIds
  <2> QED
    BY <1>1, <1>4, <2>1 DEF ForgottenBy, Forgets, Abstract!Forgets, Abstract!NoRob, NoRob
<1> QED
  BY <1>2, <1>3, <1>4 DEF IInv, RetireInv

(* The edge makes of the table what the calls of the tick ask for.         *)
LEMMA EdgeRefines == IInv /\ Edge => AbstractTick
<1> SUFFICES ASSUME IInv, Edge PROVE AbstractTick
  OBVIOUS
<1>1. /\ registers' = regNext /\ clear' = clearNext /\ pending = {}
      /\ robIds' = [r \in Reg |-> IF Forgets(r) THEN NoRob ELSE setNext[r]]
  BY DEF Edge
<1>2. registers' = Written(registers, WrittenPairs)
  BY <1>1, ValuesRequested
<1>3. robIds' = [r \in Reg |->
        LET id == Abstract!Named(r, dispatched)
        IN  IF Abstract!Forgets(r, id, retired) THEN NoRob ELSE id]
  BY <1>1, NamesRequested, ForgetsRequested
<1> QED
  BY <1>1, <1>2, <1>3 DEF AbstractTick, Abstract!Tick, WrittenPairs, Abstract!NoRob, NoRob,
                          Abstract!Reg, Reg, Abstract!Written, Written

(* Two clocked registers per name, merged at the edge, are one table with  *)
(* two writers and a flush, to which every edge applies exactly the calls  *)
(* of its tick (reg-store.c:22-38): a name is taken back only by the       *)
(* commit that was called with it, and no name that dispatch gave is lost. *)
THEOREM Refinement == Spec => ImplementsRegStore
<1>1. Init => Abstract!Init
  BY DEF Init, Abstract!Init, Abstract!NoRob, NoRob, Abstract!Reg, Reg
<1> DEFINE Step == IF pending = {} THEN AbstractTick ELSE UNCHANGED Abstract!rfVars
<1>2. IInv /\ [Next]_vars => [Step]_vars
  <2> SUFFICES ASSUME IInv, Next PROVE Step
    OBVIOUS
  <2>1. ASSUME Dispatch \/ Commit \/ FileTick PROVE pending # {} /\ UNCHANGED Abstract!rfVars
    BY <2>1 DEF Dispatch, Commit, FileTick, Run, Abstract!rfVars
  <2>2. Edge => pending = {}
    BY DEF Edge
  <2> QED
    BY <2>1, <2>2, EdgeRefines DEF Next
<1> QED
  BY <1>1, <1>2, Invariance, PTL DEF Spec, ImplementsRegStore

=============================================================================
