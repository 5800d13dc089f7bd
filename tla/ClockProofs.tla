---------------------------- MODULE ClockProofs ----------------------------
(***************************************************************************)
(* The clock implements SyncTick, for any registers, any components and    *)
(* any order of their closures.                                            *)
(***************************************************************************)
EXTENDS Clock, TLAPS

(* The derived registers that this edge has updated already.               *)
Updated ==
  CASE phase = "regmuts" -> {}
    [] phase = "regs" -> Derived \ pending
    [] OTHER -> Derived

(* A cell as a callback finds it before anybody has written it.            *)
Cleared(r) == r \in Clearing \/ \E d \in Updated : r \in Resets(d, buf)
Fresh(r) == IF Cleared(r) THEN Zero ELSE buf[r]

(* The callbacks that this tick has called already.                        *)
Done == Callbacks \ pending

(* During the edge: the registers moved so far are ready for the callbacks.*)
EdgeInv ==
  /\ \A r \in Cells : (phase = "regmuts" => r \notin pending) =>
       writeCount[r] = 0 /\ next[r] = Fresh(r)
  /\ \A w \in Wires : (phase = "regmuts" => w \notin pending) => ~wireNext[w]
  /\ phase = "regs" =>
       \A d \in Derived \ pending : derivedBuf[d] = Compute(d, buf)

(* During the callbacks: a cell that no callback has written is fresh; any *)
(* other was written by exactly one, which saw the current view and found  *)
(* the cell fresh; a wire is up iff a callback has raised it.              *)
CallInv ==
  /\ \A r \in Cells : writeCount[r] = 0 =>
       next[r] = Fresh(r) /\ \A c \in Done : r \notin Writes(c, view)
  /\ \A r \in Cells : writeCount[r] # 0 => \E c \in Done : r \in Writes(c, view)
  /\ \A c \in Done : \A r \in Writes(c, view) :
       /\ next[r] = Modify(c, r, view, Fresh(r))
       /\ \A e \in Done : r \in Writes(e, view) => e = c
  /\ \A w \in Wires : wireNext[w] <=> \E c \in Done : w \in Raises(c, view)
  /\ \A d \in Derived : derivedBuf[d] = Compute(d, buf)

IInv ==
  /\ TypeOK
  /\ IF phase = "callbacks" THEN CallInv ELSE EdgeInv

-----------------------------------------------------------------------------
(* The view of a callback is one the assumptions speak of.                 *)
LEMMA ViewType == TypeOK => view \in View
  BY DEF TypeOK, view, View

(* The initial registers have their types and are fresh.                   *)
LEMMA InitIInv == Init => IInv
<1> SUFFICES ASSUME Init PROVE IInv
  OBVIOUS
<1>1. TypeOK
  BY ClockAssumption DEF Init, TypeOK, Closures
<1>2. EdgeInv
  BY ClockAssumption DEF Init, EdgeInv
<1> QED
  BY <1>1, <1>2 DEF IInv, Init

LEMMA StepTypeOK == TypeOK /\ [Next]_vars => TypeOK'
<1> SUFFICES ASSUME TypeOK, [Next]_vars PROVE TypeOK'
  OBVIOUS
<1> USE ClockAssumption
<1>1. ASSUME NEW r \in Cells, RegMutTick(r) PROVE TypeOK'
  BY <1>1 DEF TypeOK, RegMutTick, NextAfter, Closures
<1>2. ASSUME NEW w \in Wires, RegReduceTick(w) PROVE TypeOK'
  BY <1>2 DEF TypeOK, RegReduceTick, Closures
<1>3. ASSUME NEW d \in Derived, RegTick(d) PROVE TypeOK'
  <2>1. next' \in [Cells -> Value] /\ writeCount' \in [Cells -> {0, 1}]
    BY <1>3 DEF TypeOK, RegTick
  <2>2. derivedBuf' \in [Derived -> Value] /\ pending' \subseteq Closures[phase]'
    BY <1>3 DEF TypeOK, RegTick, Closures
  <2> QED
    BY <1>3, <2>1, <2>2 DEF TypeOK, RegTick
<1>4. ASSUME NEW c \in Callbacks, Call(c) PROVE TypeOK'
  <2>1. next' \in [Cells -> Value]
    BY <1>4, ViewType DEF TypeOK, Call, NextWith
  <2>2. writeCount' \in [Cells -> {0, 1}]
    BY <1>4, ViewType DEF TypeOK, Call, Overwrites
  <2>3. wireNext' \in [Wires -> BOOLEAN]
    BY <1>4 DEF TypeOK, Call, Raised
  <2> QED
    BY <1>4, <2>1, <2>2, <2>3 DEF TypeOK, Call, Closures
<1>5. ASSUME NEW c \in Callbacks, CallAborts(c) PROVE TypeOK'
  BY <1>5 DEF TypeOK, CallAborts, Closures
<1>6. CASE Advance
  BY <1>6 DEF TypeOK, Advance, Closures, Following
<1>7. CASE UNCHANGED vars
  BY <1>7 DEF TypeOK, vars, Closures
<1> QED
  BY <1>1, <1>2, <1>3, <1>4, <1>5, <1>6, <1>7 DEF Next

(* Every register keeps its type, and the assertion of reg_mut_write keeps *)
(* every write count at one, for any machine on the clock (reg.c:75-81).   *)
THEOREM TypeCorrect == Spec => []TypeOK
<1>1. Init => TypeOK
  BY InitIInv DEF IInv
<1> QED
  BY <1>1, StepTypeOK, PTL DEF Spec

-----------------------------------------------------------------------------
(* Each action preserves the invariant: first the two of the edge.         *)
LEMMA RegMutTickIInv ==
  ASSUME IInv, NEW r \in Cells, RegMutTick(r) PROVE EdgeInv'
<1>1. EdgeInv /\ TypeOK /\ phase = "regmuts" /\ phase' = "regmuts"
  BY DEF IInv, RegMutTick
<1>2. writeCount'[r] = 0 /\ next'[r] = Fresh(r)'
  BY <1>1 DEF RegMutTick, TypeOK, Fresh, Cleared, Updated, NextAfter
<1>3. ASSUME NEW s \in Cells, s # r
      PROVE  writeCount'[s] = writeCount[s] /\ next'[s] = next[s] /\ Fresh(s)' = Fresh(s)
  BY <1>1, <1>3 DEF RegMutTick, TypeOK, Fresh, Cleared, Updated
<1>4. \A w \in Wires : w \notin pending' => ~wireNext'[w]
  BY <1>1, ClockAssumption DEF RegMutTick, EdgeInv
<1> QED
  BY <1>1, <1>2, <1>3, <1>4 DEF EdgeInv, RegMutTick

LEMMA RegReduceTickIInv ==
  ASSUME IInv, NEW w \in Wires, RegReduceTick(w) PROVE EdgeInv'
<1>1. EdgeInv /\ TypeOK /\ phase = "regmuts" /\ phase' = "regmuts"
  BY DEF IInv, RegReduceTick
<1>2. \A x \in Wires : x \notin pending' => ~wireNext'[x]
  BY <1>1 DEF RegReduceTick, EdgeInv, TypeOK
<1>3. \A s \in Cells : s \notin pending' => writeCount'[s] = 0 /\ next'[s] = Fresh(s)'
  BY <1>1, ClockAssumption DEF RegReduceTick, EdgeInv, Fresh, Cleared, Updated
<1> QED
  BY <1>1, <1>2, <1>3 DEF EdgeInv

LEMMA RegTickIInv ==
  ASSUME IInv, NEW d \in Derived, RegTick(d) PROVE EdgeInv'
<1>1. EdgeInv /\ TypeOK /\ phase = "regs" /\ phase' = "regs"
  BY DEF IInv, RegTick
<1>2. \A e \in Derived \ pending' : derivedBuf'[e] = Compute(e, buf')
  BY <1>1 DEF RegTick, EdgeInv, TypeOK
<1>3. \A s \in Cells : writeCount'[s] = 0 /\ next'[s] = Fresh(s)'
  <2> SUFFICES ASSUME NEW s \in Cells PROVE writeCount'[s] = 0 /\ next'[s] = Fresh(s)'
    OBVIOUS
  <2>1. writeCount[s] = 0 /\ next[s] = Fresh(s)
    BY <1>1 DEF EdgeInv
  <2>2. Updated' = Updated \cup {d} /\ buf' = buf
    BY <1>1 DEF RegTick, Updated, TypeOK, Closures
  <2>3. Cleared(s)' <=> Cleared(s) \/ s \in Resets(d, buf)
    BY <2>2 DEF Cleared
  <2> QED
    BY <2>1, <2>2, <2>3 DEF RegTick, Fresh
<1>4. \A w \in Wires : ~wireNext'[w]
  BY <1>1 DEF RegTick, EdgeInv
<1> QED
  BY <1>1, <1>2, <1>3, <1>4 DEF EdgeInv

(* A callback changes neither what the others see nor what is fresh.       *)
LEMMA CallIInv ==
  ASSUME IInv, NEW c \in Callbacks, Call(c) PROVE CallInv'
<1>1. CallInv /\ TypeOK /\ phase = "callbacks" /\ phase' = "callbacks"
  BY DEF IInv, Call
<1>2. view' = view /\ Done' = Done \cup {c} /\ c \notin Done
  BY DEF Call, view, Done
<1>3. \A r \in Cells : Fresh(r)' = Fresh(r)
  BY DEF Call, Fresh, Cleared, Updated
<1>4. \A r \in Cells : /\ next'[r] = IF r \in Writes(c, view)
                                     THEN Modify(c, r, view, next[r]) ELSE next[r]
                       /\ writeCount'[r] = IF r \in Writes(c, view)
                                           THEN writeCount[r] + 1 ELSE writeCount[r]
  BY DEF Call, NextWith
<1>5. Writes(c, view) \subseteq Cells /\ \A r \in Writes(c, view) : writeCount[r] = 0
  BY <1>1, ViewType, ClockAssumption DEF Call, Overwrites, TypeOK
<1>6. \A e \in Done : Writes(e, view) \subseteq Cells
  BY <1>1, ViewType, ClockAssumption DEF Done
<1>7. \A r \in Writes(c, view) : \A e \in Done : r \notin Writes(e, view)
  BY <1>1, <1>5 DEF CallInv
<1>8. \A r \in Cells : writeCount'[r] = 0 =>
        next'[r] = Fresh(r)' /\ \A e \in Done' : r \notin Writes(e, view')
  BY <1>1, <1>2, <1>3, <1>4 DEF CallInv, TypeOK
<1>9. \A r \in Cells : writeCount'[r] # 0 => \E e \in Done' : r \in Writes(e, view')
  BY <1>1, <1>2, <1>4 DEF CallInv
<1>10. ASSUME NEW e \in Done', NEW r \in Writes(e, view')
       PROVE  /\ next'[r] = Modify(e, r, view', Fresh(r)')
              /\ \A f \in Done' : r \in Writes(f, view') => f = e
  <2>1. CASE e = c
    BY <1>1, <1>2, <1>3, <1>4, <1>5, <1>7, <1>10, <2>1 DEF CallInv
  <2>2. CASE e \in Done
    BY <1>1, <1>2, <1>3, <1>4, <1>6, <1>7, <1>10, <2>2 DEF CallInv
  <2> QED
    BY <1>2, <2>1, <2>2
<1>11. \A w \in Wires : wireNext'[w] <=> \E e \in Done' : w \in Raises(e, view')
  BY <1>1, <1>2 DEF Call, Raised, CallInv
<1>12. \A d \in Derived : derivedBuf'[d] = Compute(d, buf')
  BY <1>1 DEF Call, CallInv
<1> QED
  BY <1>8, <1>9, <1>10, <1>11, <1>12 DEF CallInv

(* The two changes of phase that meet CallInv.                             *)
LEMMA AdvanceIInv ==
  ASSUME IInv, Advance PROVE IF phase' = "callbacks" THEN CallInv' ELSE EdgeInv'
<1>1. TypeOK /\ pending = {} /\ buf' = buf /\ derivedBuf' = derivedBuf
  BY DEF IInv, Advance
<1>2. CASE phase = "regmuts"
  <2>1. EdgeInv /\ phase' = "regs" /\ pending' = Derived
    BY <1>2 DEF IInv, Advance, Following, Closures
  <2> QED
    BY <1>1, <1>2, <2>1 DEF EdgeInv, Advance, Fresh, Cleared, Updated
<1>3. CASE phase = "regs"
  <2>1. EdgeInv /\ phase' = "callbacks" /\ Done' = {}
    BY <1>3 DEF IInv, Advance, Following, Closures, Done
  <2> QED
    BY <1>1, <1>3, <2>1 DEF EdgeInv, CallInv, Advance, Fresh, Cleared, Updated
<1>4. CASE phase = "callbacks"
  <2>1. phase' = "regmuts" /\ pending' = Cells \cup Wires
    BY <1>4 DEF Advance, Following, Closures
  <2> QED
    BY <2>1 DEF EdgeInv
<1> QED
  BY <1>1, <1>2, <1>3, <1>4 DEF TypeOK

LEMMA StepIInv == IInv /\ [Next]_vars => IInv'
<1> SUFFICES ASSUME IInv, [Next]_vars PROVE IInv'
  OBVIOUS
<1>1. TypeOK'
  BY StepTypeOK DEF IInv
<1>2. ASSUME NEW r \in Cells, RegMutTick(r) PROVE IInv'
  BY <1>1, <1>2, RegMutTickIInv DEF IInv, RegMutTick
<1>3. ASSUME NEW w \in Wires, RegReduceTick(w) PROVE IInv'
  BY <1>1, <1>3, RegReduceTickIInv DEF IInv, RegReduceTick
<1>4. ASSUME NEW d \in Derived, RegTick(d) PROVE IInv'
  BY <1>1, <1>4, RegTickIInv DEF IInv, RegTick
<1>5. ASSUME NEW c \in Callbacks, Call(c) PROVE IInv'
  BY <1>1, <1>5, CallIInv DEF IInv, Call
<1>6. ASSUME NEW c \in Callbacks, CallAborts(c) PROVE IInv'
  BY <1>1, <1>6 DEF IInv, CallAborts, CallInv, view, Done, Fresh, Cleared, Updated
<1>7. CASE Advance
  BY <1>1, <1>7, AdvanceIInv DEF IInv
<1>8. CASE UNCHANGED vars
  BY <1>1, <1>8 DEF IInv, vars, CallInv, EdgeInv, view, Done, Fresh, Cleared, Updated
<1> QED
  BY <1>2, <1>3, <1>4, <1>5, <1>6, <1>7, <1>8 DEF Next

(* A callback finds in every register that nobody has written before it    *)
(* the current value, or zero where the clear flag is set or an update     *)
(* closure has written back, so a structure may be filled field by field   *)
(* through reg_mut_write (reg.c:45-52, reg-store.c:30-36).                 *)
THEOREM PartialWrites == Spec => []FindsCurrent
<1>1. IInv => FindsCurrent
  BY DEF IInv, CallInv, FindsCurrent, Fresh, Cleared, Updated
<1> QED
  BY <1>1, InitIInv, StepIInv, PTL DEF Spec

-----------------------------------------------------------------------------
(* The refinement.  While the callbacks run, the values at the edge are    *)
(* those of the buffers.                                                   *)
LEMMA SeenInCallbacks ==
  ASSUME IInv, phase = "callbacks"
  PROVE  /\ EdgeCells = buf /\ EdgeWires = wireBuf /\ EdgeDerived = derivedBuf
         /\ Abstract!Seen = view
         /\ \A r \in Cells : Abstract!Base(r) = Fresh(r)
         /\ \A r : Abstract!Writers(r) = {c \in Callbacks : r \in Writes(c, view)}
<1>1. EdgeCells = buf
  BY DEF IInv, TypeOK, EdgeCells
<1>2. EdgeWires = wireBuf
  BY DEF IInv, TypeOK, EdgeWires
<1>3. EdgeDerived = derivedBuf
  BY DEF IInv, TypeOK, EdgeDerived
<1>4. Abstract!Seen = view
  BY <1>1, <1>2, <1>3 DEF Abstract!Seen, view
<1>5. \A r \in Cells : Abstract!Base(r) = Fresh(r)
  BY <1>1 DEF Abstract!Base, Abstract!Reset, Fresh, Cleared, Updated
<1>6. \A r : Abstract!Writers(r) = {c \in Callbacks : r \in Writes(c, view)}
  BY <1>4 DEF Abstract!Writers
<1> QED
  BY <1>1, <1>2, <1>3, <1>4, <1>5, <1>6

LEMMA InitRefines == Init => Abstract!Init
<1> SUFFICES ASSUME Init PROVE Abstract!Init
  OBVIOUS
<1>1. EdgeCells = next
  BY DEF Init, EdgeCells
<1>2. EdgeWires = [w \in Wires |-> FALSE]
  BY DEF Init, EdgeWires
<1>3. EdgeDerived = [d \in Derived |-> Compute(d, next)]
  BY <1>1 DEF Init, EdgeDerived
<1>4. Abstract!Start(next)
  BY <1>1, <1>2, <1>3 DEF Init, Abstract!Start
<1> QED
  BY <1>4 DEF Init, Abstract!Init

(* The edge moves values without changing what will be seen.               *)
LEMMA EdgeStutters ==
  ASSUME IInv,
         \/ \E r \in Cells : RegMutTick(r)
         \/ \E w \in Wires : RegReduceTick(w)
         \/ \E d \in Derived : RegTick(d)
  PROVE  UNCHANGED Abstract!vars
<1> USE ClockAssumption
<1>1. EdgeCells' = EdgeCells
  <2>1. ASSUME NEW r \in Cells, RegMutTick(r) PROVE EdgeCells' = EdgeCells
    BY <2>1 DEF IInv, TypeOK, RegMutTick, EdgeCells
  <2>2. ASSUME NEW w \in Wires, RegReduceTick(w) PROVE EdgeCells' = EdgeCells
    BY <2>2 DEF RegReduceTick, EdgeCells
  <2>3. ASSUME NEW d \in Derived, RegTick(d) PROVE EdgeCells' = EdgeCells
    BY <2>3 DEF RegTick, EdgeCells
  <2> QED
    BY <2>1, <2>2, <2>3
<1>2. EdgeWires' = EdgeWires
  <2>1. ASSUME NEW r \in Cells, RegMutTick(r) PROVE EdgeWires' = EdgeWires
    BY <2>1 DEF RegMutTick, EdgeWires
  <2>2. ASSUME NEW w \in Wires, RegReduceTick(w) PROVE EdgeWires' = EdgeWires
    BY <2>2 DEF IInv, TypeOK, RegReduceTick, EdgeWires
  <2>3. ASSUME NEW d \in Derived, RegTick(d) PROVE EdgeWires' = EdgeWires
    BY <2>3 DEF RegTick, EdgeWires
  <2> QED
    BY <2>1, <2>2, <2>3
<1>3. phase # "callbacks" /\ phase' # "callbacks" /\ aborted' = aborted
  BY DEF RegMutTick, RegReduceTick, RegTick
<1>4. EdgeDerived' = EdgeDerived
  BY <1>1, <1>3 DEF EdgeDerived
<1> QED
  BY <1>1, <1>2, <1>3, <1>4 DEF Abstract!vars

LEMMA CallStutters ==
  ASSUME NEW c \in Callbacks, Call(c) PROVE UNCHANGED Abstract!vars
<1>1. /\ phase = "callbacks" /\ phase' = "callbacks" /\ aborted' = aborted
      /\ buf' = buf /\ wireBuf' = wireBuf /\ derivedBuf' = derivedBuf
  BY DEF Call
<1>2. EdgeCells' = EdgeCells /\ EdgeWires' = EdgeWires /\ EdgeDerived' = EdgeDerived
  BY <1>1 DEF EdgeCells, EdgeWires, EdgeDerived
<1> QED
  BY <1>1, <1>2 DEF Abstract!vars

(* The assertion fails only when two callbacks write one cell.             *)
LEMMA AbortRefines ==
  ASSUME IInv, NEW c \in Callbacks, CallAborts(c) PROVE Abstract!Fail
<1>1. CallInv /\ TypeOK /\ phase = "callbacks"
  BY DEF IInv, CallAborts
<1>2. PICK r \in Cells : r \in Writes(c, view) /\ writeCount[r] # 0
  BY <1>1, ViewType, ClockAssumption DEF CallAborts, Overwrites, TypeOK
<1>3. PICK e \in Done : r \in Writes(e, view)
  BY <1>1, <1>2 DEF CallInv
<1>4. e # c /\ e \in Callbacks
  BY DEF CallAborts, Done
<1>5. Abstract!Conflict
  BY <1>1, <1>2, <1>3, <1>4, SeenInCallbacks DEF Abstract!Conflict
<1>6. EdgeCells' = EdgeCells /\ EdgeWires' = EdgeWires /\ EdgeDerived' = EdgeDerived
  BY DEF CallAborts, EdgeCells, EdgeWires, EdgeDerived
<1> QED
  BY <1>5, <1>6 DEF CallAborts, Abstract!Fail

(* When all callbacks have run, the next values are those of the abstract  *)
(* tick, whichever order they ran in.                                      *)
LEMMA TickRefines ==
  ASSUME IInv, Advance, phase = "callbacks" PROVE Abstract!Tick
<1>1. CallInv /\ TypeOK /\ Done = Callbacks /\ ~aborted
  BY DEF IInv, Advance, Done
<1>2. /\ phase' = "regmuts" /\ pending' = Cells \cup Wires /\ aborted' = aborted
      /\ next' = next /\ wireNext' = wireNext
  BY DEF Advance, Following, Closures
<1>3. ~Abstract!Conflict
  BY <1>1, SeenInCallbacks DEF Abstract!Conflict, CallInv
<1>4. ASSUME NEW r \in Cells PROVE next[r] = Abstract!Result(r)
  <2>1. CASE Abstract!Writers(r) = {}
    <3>1. writeCount[r] = 0
      BY <1>1, <2>1, SeenInCallbacks DEF CallInv
    <3> QED
      BY <1>1, <2>1, <3>1, SeenInCallbacks DEF CallInv, Abstract!Result
  <2>2. CASE Abstract!Writers(r) # {}
    <3> DEFINE e == CHOOSE x \in Abstract!Writers(r) : TRUE
    <3>1. e \in Abstract!Writers(r)
      BY <2>2
    <3>2. e \in Done /\ r \in Writes(e, view)
      BY <1>1, <3>1, SeenInCallbacks
    <3>3. next[r] = Modify(e, r, view, Fresh(r))
      BY <1>1, <3>2 DEF CallInv
    <3> QED
      BY <2>2, <3>3, SeenInCallbacks DEF Abstract!Result
  <2> QED
    BY <2>1, <2>2
<1>5. EdgeCells' = [r \in Cells |-> Abstract!Result(r)]
  BY <1>2, <1>4 DEF EdgeCells
<1>6. EdgeWires' = [w \in Wires |-> \E c \in Callbacks : w \in Raises(c, Abstract!Seen)]
  <2>1. \A w \in Wires : wireNext[w] = (\E c \in Callbacks : w \in Raises(c, view))
    BY <1>1 DEF CallInv, TypeOK
  <2> QED
    BY <1>2, <2>1, SeenInCallbacks DEF EdgeWires
<1>7. EdgeDerived' = [d \in Derived |-> Compute(d, [r \in Cells |-> Abstract!Result(r)])]
  BY <1>2, <1>5 DEF EdgeDerived
<1> QED
  BY <1>1, <1>2, <1>3, <1>5, <1>6, <1>7 DEF Abstract!Tick

(* The other changes of phase are invisible: the derived registers are up  *)
(* to date when the callbacks begin.                                       *)
LEMMA AdvanceStutters ==
  ASSUME IInv, Advance, phase # "callbacks" PROVE UNCHANGED Abstract!vars
<1>1. /\ TypeOK /\ EdgeInv /\ pending = {} /\ aborted' = aborted
      /\ buf' = buf /\ wireBuf' = wireBuf /\ derivedBuf' = derivedBuf
  BY DEF IInv, Advance
<1>2. phase' # "regmuts"
  BY <1>1 DEF Advance, Following, TypeOK
<1>3. EdgeCells' = EdgeCells /\ EdgeCells = [r \in Cells |-> buf[r]]
  BY <1>1, <1>2 DEF EdgeCells
<1>4. EdgeWires' = EdgeWires
  BY <1>1, <1>2 DEF EdgeWires
<1>5. phase = "regs" => \A d \in Derived : derivedBuf[d] = Compute(d, EdgeCells)
  BY <1>1, <1>3 DEF EdgeInv, TypeOK
<1>6. phase' = "callbacks" => phase = "regs"
  BY <1>1 DEF Advance, Following, TypeOK
<1>7. EdgeDerived' = EdgeDerived
  BY <1>1, <1>3, <1>5, <1>6 DEF EdgeDerived
<1> QED
  BY <1>1, <1>3, <1>4, <1>7 DEF Abstract!vars

LEMMA StepRefines == IInv /\ [Next]_vars => [Abstract!Next]_(Abstract!vars)
<1> SUFFICES ASSUME IInv, [Next]_vars PROVE [Abstract!Next]_(Abstract!vars)
  OBVIOUS
<1>1. CASE \/ \E r \in Cells : RegMutTick(r)
           \/ \E w \in Wires : RegReduceTick(w)
           \/ \E d \in Derived : RegTick(d)
  BY <1>1, EdgeStutters
<1>2. ASSUME NEW c \in Callbacks, Call(c) PROVE [Abstract!Next]_(Abstract!vars)
  BY <1>2, CallStutters
<1>3. ASSUME NEW c \in Callbacks, CallAborts(c) PROVE [Abstract!Next]_(Abstract!vars)
  BY <1>3, AbortRefines DEF Abstract!Next
<1>4. CASE Advance
  BY <1>4, TickRefines, AdvanceStutters DEF Abstract!Next
<1>5. CASE UNCHANGED vars
  BY <1>5 DEF vars, Abstract!vars, EdgeCells, EdgeWires, EdgeDerived
<1> QED
  BY <1>1, <1>2, <1>3, <1>4, <1>5 DEF Next

(* A tick takes the registers to one and the same next state in every      *)
(* order of its closures, for any components (clk.c:48-63).                *)
THEOREM Refinement == Spec => ImplementsSyncTick
  BY InitIInv, StepIInv, InitRefines, StepRefines, PTL
     DEF Spec, ImplementsSyncTick, Abstract!Spec

=============================================================================
