------------------------ MODULE ReservationStation -------------------------
(***************************************************************************)
(* reservation-station.c: the stations where dispatched instructions wait  *)
(* for their operands.  Once both are there, an ALU station offers its     *)
(* task to an ALU, a load buffer joins the load/store queue unless an      *)
(* older store may write what it reads, and a store buffer moves its       *)
(* address and value into its reorder buffer entry.                        *)
(***************************************************************************)
EXTENDS Rv32i, FiniteSets

CONSTANTS
  AluStations,    \* rs ids 1 .. 7 in cpu.c:56
  LoadBuffers,    \* 8 .. 15
  StoreBuffers,   \* 16 .. 23
  AluCount,
  RobCapacity

VARIABLES
  rsBusy,      \* rs->busy
  rsPayload,   \* rs->payload
  rsClear,     \* unit->clear
  robHead, robTail, robClear, ready, robPayload   \* unit->rob_unit, read only

rsVars == <<rsBusy, rsPayload, rsClear>>

Stations == AluStations \cup LoadBuffers \cup StoreBuffers
NoSrc == 0
RsPayload == [alu : AluCodes, size : Sizes, value1 : Word, value2 : Word,
              src1 : 0 .. RobCapacity, src2 : 0 .. RobCapacity,
              dest : 0 .. RobCapacity, addr : Word]

ROB == INSTANCE ReorderBuffer

(* Vectors of stations are scanned by id.                                  *)
FirstOf(S) == {s \in S : \A t \in S : s <= t}

(* rs_unit_acquire                                                         *)
Acquire(stations) == FirstOf({s \in stations : ~rsBusy[s]})

-----------------------------------------------------------------------------
(* _rs_onmsg                                                               *)
Woken(heard) ==
  {s \in Stations : /\ rsBusy[s] /\ ~rsClear
                    /\ \E m \in heard : m.rob \in {rsPayload[s].src1, rsPayload[s].src2}}

WithResult(p, m) ==
  LET one == IF p.src1 = m.rob THEN [p EXCEPT !.value1 = m.result, !.src1 = NoSrc] ELSE p
  IN  IF p.src2 = m.rob THEN [one EXCEPT !.value2 = m.result, !.src2 = NoSrc] ELSE one

-----------------------------------------------------------------------------
(* _rs_unit_tick                                                           *)

HasOperands(s) == rsPayload[s].src1 = NoSrc /\ rsPayload[s].src2 = NoSrc
Able(stations) == IF rsClear THEN {} ELSE {s \in stations : rsBusy[s] /\ HasOperands(s)}

(* _rsu_check_alu: the a-th station that is able tries the a-th ALU, and   *)
(* stays if that ALU refuses.                                              *)
Offers(a) ==
  {s \in Able(AluStations) : Cardinality({t \in Able(AluStations) : t < s}) = a - 1}
TaskOf(s) == LET p == rsPayload[s]
             IN  [op |-> p.alu, value1 |-> p.value1, value2 |-> p.value2, rob |-> p.dest]
Offered == [a \in 1 .. AluCount |-> {TaskOf(s) : s \in Offers(a)}]
Issued(accepts) == UNION {Offers(a) : a \in {b \in 1 .. AluCount : accepts[b]}}

(* _rs_calc_addr                                                           *)
CalcAddr(p) == Add(p.addr, p.value1)

OverlapRepaired(addr1, size1, addr2, size2) ==   \* mutant: the intended test alone
  addr1 < Add(addr2, LsSize(size2)) /\ addr2 < Add(addr1, LsSize(size1))

(* _rsu_overlap, as the code has it: true for equal addresses and for      *)
(* accesses that do not touch.                                             *)
Overlap(addr1, size1, addr2, size2) ==
  \/ addr1 = addr2
  \/ addr1 < addr2 /\ Add(addr1, LsSize(size1)) <= addr2
  \/ addr2 < addr1 /\ Add(addr2, LsSize(size2)) <= addr1

(* _rsu_check_load: an older store blocks the load.                        *)
BlockedByKnown(s) ==   \* mutant: without "!rob_data->addr_ready"
  LET p == rsPayload[s] IN
  \E st \in ROB!OlderStores(p.dest) :
    st.addrReady /\ Overlap(CalcAddr(p), p.size, st.addr, st.size)
Blocked(s) ==
  LET p == rsPayload[s] IN
  \E st \in ROB!OlderStores(p.dest) :
    ~st.addrReady \/ Overlap(CalcAddr(p), p.size, st.addr, st.size)

LoadIssueAlways(lsFull) ==   \* mutant: without the test of a full queue
  FirstOf({s \in Able(LoadBuffers) : ~Blocked(s)})
LoadIssue(lsFull) ==
  IF lsFull THEN {} ELSE FirstOf({s \in Able(LoadBuffers) : ~Blocked(s)})

LoadPushes(lsFull) ==
  {[op |-> "LOAD", size |-> rsPayload[s].size, addr |-> CalcAddr(rsPayload[s]),
    value |-> 0, rob |-> rsPayload[s].dest, cleared |-> FALSE] : s \in LoadIssue(lsFull)}

(* _rsu_check_store: one entry per tick learns its address or its value.   *)
Entry(s) == robPayload[ROB!Slot(rsPayload[s].dest)]
LearnsAddr(s) == ~Entry(s).addrReady /\ rsPayload[s].src1 = NoSrc
LearnsValue(s) == ~Entry(s).valueReady /\ rsPayload[s].src2 = NoSrc

StoreUpdate(lsFull) ==
  IF lsFull \/ rsClear THEN {}
  ELSE FirstOf({s \in StoreBuffers : rsBusy[s] /\ (LearnsAddr(s) \/ LearnsValue(s))})

Update(s) ==
  LET p == rsPayload[s]
      e == Entry(s)
  IN  [e EXCEPT !.addr = IF LearnsAddr(s) THEN CalcAddr(p) ELSE @,
                !.addrReady = @ \/ LearnsAddr(s),
                !.value = IF LearnsValue(s) THEN p.value2 ELSE @,
                !.valueReady = @ \/ LearnsValue(s)]
Complete(s) == Update(s).addrReady /\ Update(s).valueReady

StoreUpdates(lsFull) ==
  {[id |-> rsPayload[s].dest, payload |-> Update(s), ready |-> Complete(s)] :
     s \in StoreUpdate(lsFull)}

(* The stations that rs->busy is written false for.                        *)
ReleasedUncleared(accepts, lsFull) ==   \* mutant: a clear keeps the stations
  Issued(accepts) \cup LoadIssue(lsFull)
  \cup {s \in StoreUpdate(lsFull) : Complete(s)}
ReleasedNoStore(accepts, lsFull) ==   \* mutant: store buffers stay busy
  IF rsClear THEN Stations ELSE Issued(accepts) \cup LoadIssue(lsFull)
Released(accepts, lsFull) ==
  IF rsClear THEN Stations
  ELSE Issued(accepts) \cup LoadIssue(lsFull)
       \cup {s \in StoreUpdate(lsFull) : Complete(s)}

(***************************************************************************)
(* A tick in which the messages "heard" arrive and dispatch fills stations *)
(* with payloads ([station, payload], at most one).                        *)
(***************************************************************************)
Tick(heard, dispatched, accepts, lsFull, flush) ==
  /\ rsBusy' = Written(rsBusy,
         {<<s, FALSE>> : s \in Released(accepts, lsFull)}
         \cup {<<d.station, TRUE>> : d \in dispatched})
  /\ rsPayload' = Written(rsPayload,
         {<<s, WithResult(rsPayload[s], m)>> : s \in Woken(heard), m \in heard}
         \cup {<<d.station, d.payload>> : d \in dispatched})
  /\ rsClear' = flush

(* rs->busy is written by the unit and by dispatch, unit->clear by the     *)
(* unit and by commit, rs->payload by _rs_onmsg and by dispatch.           *)
DoubleWrite(heard, dispatched, accepts, lsFull, flush) ==
  \/ rsClear /\ flush
  \/ \E d \in dispatched : d.station \in Released(accepts, lsFull) \cup Woken(heard)

Init ==
  /\ rsBusy = [s \in Stations |-> FALSE]
  /\ rsPayload = [s \in Stations |->
       [alu |-> "ADD", size |-> "BYTE", value1 |-> 0, value2 |-> 0,
        src1 |-> NoSrc, src2 |-> NoSrc, dest |-> 0, addr |-> 0]]
  /\ rsClear = FALSE

=============================================================================
