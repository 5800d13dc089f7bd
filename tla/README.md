# A verification project for fakerv32i

fakerv32i simulates an RV32I processor twice: `src/fakecpu.c` executes one
instruction at a time, and `src/cpu.c` wires together an out-of-order machine
(Tomasulo's algorithm with a reorder buffer, a common data bus, branch prediction
and a load/store queue). Both read a program, run it until its halt instruction (`HCF`), and
print the low byte of register a0.

These TLA+ modules model the out-of-order machine component by component, compose them into the processor, and
check that it computes what the sequential machine computes, that its bookkeeping never goes wrong and that it
never gets stuck. Six parts have abstract specifications of their own: the clock, the queue, the bus, the
register store, the reorder buffer, and the load/store queue with the memory. That all six are
implemented is also proved, for every value of their constants, and so is what is checked of the
branch predictor and, for every program and size of machine, the
bookkeeping of the composed processor: its types, the renaming, the way of every result, who waits for whom, the memory's
slots, and where alone two writers of a register can meet.

## 1. Inventory

### How the program runs

`main.c` creates the machine, loads the memory and calls `cpu_tick` until the global
`hcf` is set. `clk_tick` (`clk.c`) calls every registered component once, and then moves
every clocked register (`reg.c`) to its next value. During a tick a component
reads what the registers held at its beginning; what it writes is visible in the next
tick. A second `rm_write` of the same register in one tick ends the program
(`reg_mut_write called more than once!`, `reg.c:75`). Concurrency is therefore that of
synchronous hardware: a dozen components act in every tick on each other's
state of the tick before, and everything hard about the program follows from results,
flushes and commits that meet in the same tick or miss each other by one.

### Components

| Component | State | Operations | Talks to | What makes it correct |
|---|---|---|---|---|
| Instruction unit and dispatch (`inst-unit.c`, `inst-dispatch.c`) | `pc`, `force_pc` | fetch and predict, dispatch, capture operands, force the pc | register store, reorder buffer, stations, bus, predictor | an operand is the value of the youngest older writer, or the name of an unfinished one that will still announce it |
| Register store (`reg-store.c`) | registers, renaming table, clear flag | get, set, rename, forget, clear | dispatch and commit | names the youngest writer in flight of every register |
| Reorder buffer (`reorder-buffer.c`) | queue, ready bits, payloads | acquire, hear a result, commit, detect a misprediction, flush | everything | instructions take effect in program order, wrong-path ones not at all |
| Reservation stations (`reservation-station.c`) | busy bits, payloads, clear flag | acquire, wake up, issue to an ALU, issue a load, update a store, clear | ALUs, load/store queue, reorder buffer | waits end; a load does not overtake an older store to its bytes |
| ALU pool (`alu.c`) | task, busy bit, result buffer | accept or refuse a task, execute, send | stations, bus | each accepted task is announced once |
| Common data bus (`bus.c`, `common-data-bus.c`) | two buffers, busy bits and a request bit per helper, data, clear countdown | acquire a buffer, arbitrate, deliver, clear | ALUs, memory, listeners | nothing accepted is lost, sent twice or overtaken, except by a clear |
| Load/store queue (`ls-queue.c`) | queue, clear flag, lock | push, pop, invalidate loads, wait for a store | stations, commit, memory | memory sees accesses in a safe order; a flush drops loads and keeps stores |
| Memory (`memory.c`) | bytes, load and store slots, clear flag | request, count down, access, announce, clear | load/store queue, bus | a request always finds a slot |
| Circular queue (`queue.c`) | head, tail, clear flag, slots | push, pop, clear, scan | reorder buffer, load/store queue | first in, first out; full is not empty |
| Clock and registers (`clk.c`, `reg.c`) | callbacks, current and next values | tick, write, reduce, busy-wait | everything | the order of the callbacks does not matter |
| Branch predictor (`branch-predictor.c`) | histories, counters, statistics | predict, feedback | dispatch, commit | its answers affect speed only; its tables stay in range and learn |
| Decoder, ALU operations, word arithmetic (`inst.c`, `alu-ops.c`, `rvmath.c`) | none | pure functions | both machines | the RV32I manual |
| Sequential machine (`fakecpu.c`) | `pc`, registers, memory | one instruction per step | memory | it is the reference |
| Loader and printer (`io.c`), dump (`dump.c`), vectors and closures (`lib/`) | none that lasts | input, output, containers | | |

### Hard behaviours

* Interleaving within a tick: commit and the load buffers push into the same queue; the
  bus, dispatch and the store buffers write the same entries; a flush sets clear flags
  that the previous flush resets.
* Time of flight: a result may be in a station, an ALU, its result buffer, a bus buffer, on
  the bus, in the load/store queue or in the memory when a flush reuses the entry it is
  for. The flags last one tick each, the bus clears for two.
* Renaming in the tick in which the previous producer commits, dispatch in the tick in
  which the producer is on the bus.
* Partial writes: `rm_write` hands out a pointer to the next value, and callbacks fill some of its fields only.
* Speculation: wrong paths issue words that are no instructions and addresses that are no memory.
* Limits: full reorder buffer, stations, load/store queue (a store at the head must retry),
  bus helper buffers, memory slots.
* Progress: the arbiter has fixed priorities, stations wait for each other, the queue
  waits for a store.

There is no persistence, no network and no clock time, hence no crash recovery, message loss or
timeout. The complete list of hazards, each at its line and with the properties that
cover it, is in `PROJECT.json`.

## 2. Modules

| Module | Models | State and actions |
|---|---|---|
| `Rv32i` | words, registers, sizes, decoded instructions, the byte accessors of the memory | operators only |
| `Isa` | `fakecpu.c` | `pc`, `regs`, `mem`, `hcf`; one action per kind of instruction |
| `Queue`, `Fifo` | `queue.c`, and what it promises | a tick with any combination of `queue_push`, `queue_pop`, `queue_clear`; `Fifo` is a sequence |
| `Bus`, `Broadcast` | `bus.c`, and what it promises | a tick with any messages the helpers may accept and `bus_clear`; `Broadcast` is a queue of two messages per helper |
| `RegStore`, `ReorderBuffer`, `ReservationStation`, `Alu`, `LsQueue`, `Memory`, `InstUnit` | the source file of that name (`InstUnit`: also `inst-dispatch.c`) | the component's registers; `Tick(...)` gives their next values from the calls that the other components make in the tick |
| `Cpu` | `cpu.c`, the loop of `main.c` | instantiates the components over one set of variables; `Tick(take)` is one `clk_tick` |
| `CpuProperties` | | the invariants, the refinement and the liveness properties of `Cpu` |
| `MCCpu` | | families of programs for TLC |
| `Clock`, `SyncTick` | `clk.c`, `reg.c`, and what they promise | current and next values, write counts, the closures still to be called; one action per closure call, the update of a derived register (which may write back into others) included. `SyncTick` is the tick in one step |
| `RegFile` | `reg-store.c` in full | the clocked registers behind the renaming table; `Dispatch`, `Commit`, `FileTick` in any order, then the `Edge` with `_reg_file_next`; history variables keep what was called in the tick. Its abstract specification is `RegStore` |
| `RobUnit`, `Retirement` | the reorder buffer under every environment, and what it promises | `ReorderBuffer` with its clients; `Retirement` is a window that instructions enter and leave in order |
| `LsMemory`, `OrderedMemory` | load/store queue, memory and bus under every environment, and what they promise | `LsQueue`, `Memory` and `Bus` composed as in `cpu.c`; `OrderedMemory` has cells and waiting loads, whose answers are settled at the push. `PendingStores` says which stores are still on their way, whose turn it is, and what the memory is once they, or those before a given access, have arrived |
| `BranchPredictor` | `branch-predictor.c` | tables, history, statistics; `Predict`, `Feedback`, `FeedbackJalr` |
| `Decoder`, `AluOps`, `Accessors` | `inst.c`, `alu-ops.c`, the accessors of `memory.c` with `sign_extend` | pure functions, a word being the set of its one bits or a number; `Assembler` and `MCFunctions` hold the reference definitions |
| `MCClock`, `MCLsMemory`, `MCRobUnit`, `MCBranchPredictor`, `MCFunctions` | | parameters for TLC |
| `ClockProofs`, `BusProofs`, `QueueProofs`, `RegFileProofs`, `RobUnitProofs`, `LsMemoryProofs`, `BranchPredictorProofs` | | the theorems on `Clock`, `Bus`, `Queue`, `RegFile`, `RobUnit`, `LsMemory` and `BranchPredictor` |
| `CpuProofs` | | the theorems on the composed `Cpu`: types, renaming, slots; producers, waiting, double writes |

**One step is one clock tick.** Variables are the registers' current values, primed
variables what the tick leaves. A component's module splits its callback into *state functions*,
which say what the component does to others in this tick (`RS!Offered`, `ROB!Retired`,
`LSQ!LoadRequests`, ...), and a `Tick` that takes what the others do to it. `Cpu` connects
them, as the pointers handed out in `cpu_create` do. A call that may or may not happen in a tick is a set
of at most one record. A tick is a *conjunction* of component ticks because
registers double-buffer. `Clock` is the license for this: there a tick is taken apart into the closure calls of
`clk_tick`, in any order, and it implements `SyncTick`. The license does not cover the state that the program shares
without a register: `mem->data`, which the memory alone changes, the predictor's tables, and `clk->clk`, which is only
printed.

`reg_mut_write` is not modelled as a variable; every component has a predicate `DoubleWrite`
which is true when two writers of one of its registers meet in this tick. `Cpu!Tick` is not
enabled then, because the program has aborted, and `NoDoubleWrite` says it never
happens. In the same way `OutOfSlots` is the search of `memory.c:161` and `:171` that finds no slot,
`UnknownOperation` the assertion of `alu-ops.c:36`, and `OutOfMemory` an access at or beyond `MemSize`, after which the
program's behaviour is that of the C implementation, if it goes on.

**Abstractions.**

* In the processor words wrap at `WordSize`, bytes hold `ByteSize` values, and a full word is two bytes, so
  that accesses can overlap partially. Half words, sign extension and all ALU
  operations but addition and two comparisons change values only; `AluOps` and `Accessors` have them.
* The program is a function from addresses to decoded instructions and separate from the data: a program does
  not modify itself. An address without instruction decodes to `UNIMP`.
* The predictor's answer is a free choice `take` in every tick. This covers every state of
  its tables, the uninitialised history (`branch-predictor.c:30`) included.
* Addresses wrap at `WordSize`; those from `MemSize` on have no memory behind them.
* In `Cpu`, `rob->commit_count` and the predictor's tables are left out; logs and dumps everywhere.
* The pair `rob_id_set` / `rob_id_clear_if` of the register store is merged at the clock
  edge in the code and is a parameter of the tick in `RegStore`; `RegFile` shows that this is right: there the parameters of the abstract tick are the calls
  that dispatch and commit made, and nothing else.
* In `LsMemory` and `RobUnit` the rest of the machine does whatever its guards allow: accesses arrive, one in a tick, when the queue
  has room and no flush is under way, and results come for entries that wait for one, in any order. The accesses that are in `LsMemory` together may touch each other in every
  way; a store may also come behind a younger load that its station let pass (finding 1), which then must not see it. (A load and a store
  that are pushed in the same tick make the program abort; run `cpu_overlap` shows that.) The ALUs of `LsMemory` always have
  something to send, which is the worst case for the memory.
* `BranchPredictor` takes one call per step. Predictions on a wrong path disappear with the flush.

As a test of these readings, random straight-line programs were run on the compiled simulator and in the
model; the number of ticks until `hcf` agreed in all of them.

## 3. Runs

| Run | Instance | Checks |
|---|---|---|
| `cpu_programs` | all 4-instruction programs over 7 register instructions (dependences of every kind, x0, LUI, AUIPC), all 4-instruction programs over word and byte loads and stores, all 3-instruction programs over branches and jumps in both directions; every prediction | `TypeOK`, `RenamesYoungest`, `WaitsForOlder`, `NoDoubleWrite`, `OneProducer`, `ImplementsIsa` |
| `cpu_busy` | a wider machine: 7 instructions, namely a load, its dependents and up to two branches; and 3-instruction loops with a store | `SlotsSuffice`, `NoDoubleWrite`, `OneProducer`, `ImplementsIsa`, `Progresses` |
| `queue` | capacity 4, two payloads | `TypeOK`, `ImplementsFifo` |
| `bus` | three helpers, two messages | `TypeOK`, `AsksWhenLoaded`, `ClearedOut`, `ImplementsBroadcast` |
| `clock` | four registers (one with the clear flag), a wire, a derived register that sometimes writes back into two of them, six callbacks that write whole and partial values and sometimes meet | `TypeOK`, `FindsCurrent`, `ImplementsSyncTick` |
| `regfile` | x0 and two registers, two names | `WritesOnce`, `NoResurrection`, `ImplementsRegStore` |
| `rob` | capacity 3, one instruction of every kind, a good and a bad jump prediction | `ImplementsRetirement` |
| `lsmem` | 4 accesses that overlap in every way with a flush; 5 loads of a word and stores to its upper byte with two flushes; 6 one-byte accesses, as dense as the queue takes them, with a flush; one rival on the bus | `SlotsSuffice`, `ImplementsOrderedMemory`, `EveryLoadAnswered` |
| `predictor` | one bit of history, two entries, three predictions in flight, 6 commits of branches without and with a steady direction | `TypeOK`, `TwoOutcomesDecide`, `SteadyBranchesLearned` |
| `functions` | every mnemonic and every bit of its immediate alone, missing alone, none and all, foreign opcodes; every ALU operation on all pairs of four-bit words; all sequences of stores of every size over five bytes | `FieldsSurvive`, `MeansWhatItSays`, `OperationsAreRv32i`, `LoadsWhatWasStored` |
| `cpu_overlap`, `cpu_link` | programs with partial overlaps; with a JALR whose link is read | each refutes one property, see section 4 |

**The properties.**

* `ImplementsIsa`: the processor implements `Isa` under the refinement mapping "the state as of the
  last commit": the pc is the one that is being forced, else that of the oldest instruction in flight, else
  the fetch pc; the memory is the one with the committed stores applied that are still in the store
  slots and in the queue, in that order. A tick maps to the execution of one instruction (a commit) or to
  nothing. Wrong-path instructions, reordering and the predictor are invisible.
* `NoDoubleWrite`, `SlotsSuffice`: the assertion of `reg.c` never fails, the slot search never
  leaves its array.
* `RenamesYoungest`: the renaming table names the youngest writer in flight of each register.
* `OneProducer`: every entry that is not ready has exactly one producer, wherever it is on its
  way, and every other entry has none: nothing is lost, nothing announced twice, and
  nothing of a flushed instruction survives.
* `WaitsForOlder`: stations wait for older, live, unfinished entries only, so waiting is acyclic.
* `Progresses`: every program commits instructions for ever or halts. Together with `ImplementsIsa` this means that the main loop
  ends for every program that the sequential machine ends.
* `ImplementsSyncTick`: whatever the order of the closures, a tick has one outcome, or aborts in every order.
  `FindsCurrent`: what a callback finds in a register it writes partially is the current value, or zeros in those
  that clear themselves or that an update closure has written back (as `_reg_file_next` does to `rob_id_set` and `rob_id_clear_if`).
* `ImplementsRegStore`: two clocked registers per name and the write-back at the edge are one table, whose tick has exactly the calls
  that were made: a commit takes back the name it was called with and no newer one (without the comparison of `reg-store.c:32`, the mutant `ForgetsNewer`, it would), and
  no call is lost. `WritesOnce`,
  `NoResurrection`: the write-back past the write counters (`FIXME: hack`) neither meets the assertion nor brings a
  retired name back.
* `ImplementsRetirement`: instructions leave the reorder buffer in order, with the result announced for them, and what
  commit does to registers, stores, fetch and predictor is done once.
* `ImplementsOrderedMemory`: a load is answered at most once, with the bytes that the stores pushed before it left and nothing of
  those pushed behind it, however long it takes; a flush forgets loads and keeps stores. The lock of the queue (`busy_wait`), whose signal is never reset (`reg.c:137`), is not what this rests
  on: loads and stores take the same number of ticks, and the proof (section 5) does not mention the lock. `SlotsSuffice` rests on the memory being the helper that the
  arbiter prefers: with the preference turned round (the mutant `WinsLast`) loads pile up in the slots.
  `EveryLoadAnswered`: neither the lock nor the bus holds a load for ever.
* `TwoOutcomesDecide`, `SteadyBranchesLearned`: the predictor trains the entry that answered, however stale the answer.
* `FieldsSurvive`, `MeansWhatItSays`: decoding inverts an assembler written from the table of operations in `inst.h` and the
  formats of RV32I. `OperationsAreRv32i`, `LoadsWhatWasStored`: results as numbers and as bits.
* `ImplementsFifo`, `ImplementsBroadcast`: queue and bus implement their specifications. `AsksWhenLoaded` and `ClearedOut` are the facts about
  the bus helpers this rests on.

**Bounds.** The machine has 3 registers (x0 and two others), a reorder buffer of 4 slots (8 in `cpu_busy`; one
is always empty), a load/store queue of 3, two ALUs as in `alu.h:28`, the original three memory ticks, and one
or two buffers of each kind. Programs have, with their `HCF`, more instructions than the reorder buffer has
room for, so indices wrap and entries are reused. Sixteen word values suffice because no property depends on a
particular number. It was checked, by asking TLC for states that violate the opposite, that these runs reach:
a full reorder buffer, a full load/store queue, loads blocked by stores, two loads in the memory at once,
flushes with loads and stores in every stage, an ALU that must stall, both buffers of a helper full, an
occupied `result_buf`, and a flush during a stall. The memory's helper never stalls, since helper 1 always
wins the arbitration. The components' runs are bounded by constants that name the bound: `Workloads` (pushes
and flushes of a behaviour), `Depth`, `Commits` and `JalrCommits`. Six pushes are the fewest with which a load
could miss a slot: three slots, two buffers of the memory's helper and one more. The callbacks of `clock`
exchange two registers, update one in place and meet on a line and on registers in some states, so every order
of two writers and of a writer and a reader occurs. Four-bit words have all borders of signed and unsigned
numbers; immediates are moved bit by bit, so single bits and their complements show every move. The runs of
the processor turn off the deadlock check: the main loop really stops at `hcf`; so do `rob`, for the same
reason, `clock`, where an abort ends the program, and the bounded runs of `functions` and `predictor`. That it
does not stop otherwise is what `NoDoubleWrite`, `SlotsSuffice` (no aborted tick) and `Progresses` are about.

**Fairness.** `Cpu` assumes `WF_vars(Next)` alone: `while (!hcf) cpu_tick` (`main.c:11-15`) keeps
ticking. There is no fairness on the prediction, on the arbiter or on a component.
`LsMemory` assumes the same for its ticks, for
`EveryLoadAnswered`. All other specifications are safety specifications.

**Mutants.** Every property of every passing run has a mutant: a definition changed the way a
mistake in the code would change it, marked `\* mutant` next to the original. TLC finds the property
violated once the mutant replaces the original.

## 4. What the runs found

All of it was reproduced with the compiled simulator.

1. **The overlap test is inverted** (`reservation-station.c:177-186`). Except for equal addresses,
   `_rsu_overlap` is true when the accesses do *not* touch. A load that partially overlaps an
   older store is not held back. Either it reads the bytes before the store (`sh`/`lb`
   and `sw`/`lb` at another offset; the sequential machine prints another result), or, run
   `cpu_overlap`, it enters the load/store queue in the tick in which the store commits, two
   writes of the tail meet and the program aborts. The latter answers the TODO of
   `reservation-station.c:218`. For accesses that start at the same byte or do not touch, the passing run `cpu_programs` shows that the test, by blocking too much, also keeps these two apart; with a
   correct test (the mutant `OverlapRepaired`) a younger load could push in the
   tick of a commit, so repairing the test alone is not enough. That nothing but such an overlap makes the program abort at
   `reg.c:75` is proved for every program (`WritesMeet`, section 5): `OnlyOverlapsMeet` says so. No run has it, since the passing runs
   never get there; with `NeighbourPrograms` in a copy of `MCCpu_Overlap.cfg` they do, and TLC confirms it
   (35,368 states), and refutes it with `OverlapRepaired`.
2. **A JALR announces its target as its result** (`inst-dispatch.c:76-82`, `reservation-station.c:32`).
   The reorder buffer keeps the link in `value` and stores the announced word as the target, but stations and
   the bypass of dispatch take the announced word for the value of the link register. Run `cpu_link`.

Four more have no run of their own. For the first three the modules hold the property that the code breaks and
the programs that show it; TLC refutes each when it is put into a copy of the named configuration.

3. **Wrong paths are executed without a net.** A branch that is never taken may be predicted taken (the first prediction of every
   entry is), and what lies at its target is issued. A word with an ALU operation that does not exist
   reaches `assert(0)` of `alu-ops.c:36` (`NoUnknownOperation` with `WrongPathPrograms`, in `MCCpu_Overlap.cfg`). A load reads
   outside `mem->data` (`memory.c:25`; `mem_get` checks, `_mem_get_sz` does not; `StaysInMemory` with `WildPrograms` and `MemSize = 8`).
   The sequential machine finishes both programs.
4. **Shifts by an immediate** (`inst.c:70`): the condition that isolates the shift amount asks for two codes at once, and bit 30 is not
   looked at, so SRAI becomes SRLI with another amount (`ShiftImmediates`, in `MCFunctions.cfg`).
5. **The arithmetic right shift** (`alu-ops.c:12`) shifts left (`ArithmeticShift`, in `MCFunctions.cfg`).
6. **`commit_count` over-counts** (`reorder-buffer.c:38`): a store that finds no room counts in every attempt, HCF too. Seen by reading and on
   the compiled simulator; the counter, a statistic, is not modelled.

The passing runs of the processor stay clear of the first three: no partial overlap, no JALR with a
destination other than x0, and words behind a branch that an ALU knows. `FieldsSurvive` and `MeansWhatItSays`
leave SRAI out, `OperationsAreRv32i` SRA.

## 5. Proofs

`ClockProofs` proves of `Clock`, for any registers, wires, derived registers and callbacks, and whatever the
callbacks and the updates of derived registers compute from the values they see (`ClockAssumption` says only that they stay within the types):

* `TypeCorrect`: `Spec => []TypeOK`, where `TypeOK` includes that no register is written twice in a tick;
* `PartialWrites`: `Spec => []FindsCurrent`;
* `Refinement`: `Spec => ImplementsSyncTick`.

The difficulty is that a tick is many steps in an order nobody knows, and the abstract machine ticks in one.
The refinement mapping reads the registers as the edge is going to leave them, so the abstract step is the
closure call that completes the callbacks (or the `Advance` behind them) and every other step is a stutter.
The inductive invariant therefore says, at every point of the callbacks, what the next values are: for each
register the value that the callbacks which already ran have given it, of which at most one wrote, else the
current value, or zero if the register clears itself or an update closure that already ran (`Updated`) has written it back (`Fresh`). An abort must not depend on the order either: two callbacks that write one register
meet in every order, since one of them is the second.

`BusProofs` proves of `Bus`, for any number of helpers and any set of messages:

* `TypeCorrect`: `Spec => []TypeOK`;
* `RequestsCorrect`: `Spec => []AsksWhenLoaded`;
* `ClearEmpties`: `Spec => []ClearedOut`;
* `Refinement`: `Spec => ImplementsBroadcast`.

The assumptions are `HelperAssumption` (the number of helpers is a natural number) and
`MessageAssumption` (the zero message is a message).

The inductive invariant is `IInv == TypeOK /\ AsksWhenLoaded /\ ClearedOut`. None of the
parts can be dropped. The request bit is computed in one function (`_bh_tick`) from the
buffers of the last tick and in another (`bh_acquire`) from the buffer it hands out;
that it says the same as the busy bits needs the second half of `AsksWhenLoaded`: the spare buffer is only
used behind a loaded competing one, otherwise the swap would request the bus for a buffer that the arbiter
does not look at. And the two agree again after a clear only because the clear's last tick starts with
empty buffers, which is `ClearedOut`. `HelperStep` splits what happens to a helper in a tick into its four
cases; `ClearStep` is the same for a clear. For the refinement, `ArbiterPicksFirst` shows that the winner of the
arbitration is the first helper with a pending message and that its competing buffer is the head of
its queue; `PendingStep` follows each helper's queue through the four cases, `HeardStep` the message on the
bus, and `StepRefines` puts them together: a tick is `Carry`, `Clear` or `Drain`.

`QueueProofs` proves of `Queue`, for any capacity of at least one and any payloads (`CapacityAssumption`,
`PayloadAssumption`):

* `TypeCorrect`: `Spec => []TypeOK`, indices never leave the array;
* `Refinement`: `Spec => ImplementsFifo`.

Here the type invariant is inductive by itself. `SmallMod` reduces the remainders to two cases,
`Wrap`, `Distance` and `SlotsDistinct` are the facts about slots, `FullEmpty` says that the empty slot tells
full from empty. `ItemsSeq` and `PoppedSeq` read the slots as a sequence before and after the head
moves, and `OpenTick` shows that a push behind a simultaneous pop appends to the popped sequence.

`RegFileProofs` proves of `RegFile`, for any number of registers and names (`RobAssumption`, and `Rv32iAssumption` for x0):

* `SingleWrites`: `Spec => []WritesOnce`;
* `RetiredForGood`: `Spec => []NoResurrection`;
* `Refinement`: `Spec => ImplementsRegStore`.

The invariant says what the three callbacks, in any order, can have asked for by any point of a tick: dispatch nothing or
one name (`DispatchInv`); commit and the flush nothing, to forget every name, or to forget one (`RetireInv`). The last
two exclude each other because nothing commits in the tick after a flush; that is the guard of `Commit`, which the
composition checks as `NoDoubleWrite`. The
same two say what the history holds, so that the calls and the registers that carry them agree; `NamesRequested`, `ValuesRequested` and `ForgetsRequested` read
off what the calls ask of each register, and `EdgeRefines` computes that `_reg_file_next` does just that, in each combination.

`RobUnitProofs` proves of `RobUnit`, for any capacity, results and instructions that may be dispatched (`RobUnitAssumption`: dispatch gives a
branch no destination and a JALR a register, and the results are words):

* `Refinement`: `Spec => ImplementsRetirement`.

The invariant `RobInv` is little more than the types. The work is in the mapping: the window of `Retirement` is a sequence of cells, the
program's is a ring of slots whose head and tail move in the same tick in which other slots become ready. The
ring lemmas say where the n-th cell is before and after a pop and a push; payloads and ready bits are followed slot by slot. The
tick of a flush is a step of its own (`ClosedStep`): nothing of the old window is left, whatever was announced or dispatched in it. Every other
tick is one `OpenStep`.

`LsMemoryProofs` proves of `LsMemory`, for any capacity of the queue, any latency of the memory from two ticks on, any number of helpers on
the bus and any accesses that may be pushed (`LsMemoryAssumption`):

* `SlotsCorrect`: `Spec => []SlotsSuffice`;
* `LoadsSeeOlderStores`: `Spec => ImplementsOrderedMemory`.

The slots are the argument of the processor (below) with an environment in place of the stations: `SlotsInv` contains the phases of a
flush, the bus helpers, and that busy slots of a kind have different numbers of ticks left. The refinement needs `OrderInv` besides: no store is
ever marked as cleared (`StoresStay`), and the loads that wait are for different entries, so answering one does not answer another (`TagsDiffer`).

Nothing is assumed of the bytes that the accesses in flight touch. What a load will read is `MemBefore(turn)`, the bytes once the stores before its own
`Turn` have arrived, and the proof shows that this does not change while it waits. The turns say when an access reaches the bytes: no two stores have the same one, and a tick
keeps their order and that of loads and stores among each other (`SameMoment`, `NextTurn`, `StoreGoes`, `LastStays`); a flush, which stops the clock of the
stores and not that of the loads, leaves no load. The store that completes is the first of all (`DoneFirst`) and what it writes is what the map already said
(`ByteKept`); the one that arrives is the last (`StoreArrives`), hence behind every load that waits (`BeforePushed`). So the promise made to a
load is kept from tick to tick (`TimeGoesOn`, `PromiseKept`); at its push it is what the memory is going to be (`NewestPromise`), and in its last tick it is
`mem` itself, since no store has less time left than none (`ServedIs`). `MemBar`, the cells, changes at the push of a store alone (`BarStep`).
`WaitsBefore` and `WaitsOn` follow the set of loads, and `AbstractTick` puts the parts together: serve the load whose time is up, then take the
pushed access, or flush.

`BranchPredictorProofs` proves of `BranchPredictor`, for any programs, sizes of the tables and number of predictions in flight:

* `TypeCorrect`: `Spec => []TypeOK`;
* `OutcomesDecide`: `Spec => []TwoOutcomesDecide`;
* `SteadyLearned`: `Spec => []SteadyBranchesLearned`.

`CounterAssumption` says what the code's counters are like, that two steps lead from either end across the threshold. It makes
`LearnedInv` inductive: an entry remembers its last two outcomes, and one outcome suffices to
leave the end of the scale. `SteadyInv` counts: the mistakes are exactly the entries that have
become cold, all of them belong to branches that are never taken, and a prediction in flight is still the one its entry would make. That a taken branch
never trains such an entry is `SteadyAssumption`, about the program. The assumption that the number of histories is a positive number stands there because the provers
know nothing of powers.

### The processor

`CpuProofs` proves of `Cpu`, for any program, any answers of the predictor and any number of registers,
stations, buffers, ALUs, memory ticks, reorder buffer entries and queue slots (`CpuAssumption`: there is a slot, an ALU, two memory
ticks; the three kinds of stations are disjoint. `ProgramsAssumption`: a program consists of decoded instructions. `Rv32iAssumption` is about words and registers):

| Theorem | Statement | Inductive invariant |
|---|---|---|
| `TypeCorrect` | `Spec => []TypeOK` | `TypeOK` |
| `RenamingCorrect` | `Spec => []RenamesYoungest` | `RenameInv` |
| `SlotsCorrect` | `Spec => []SlotsSuffice` | `SlotsInv` |
| `ProducersCorrect` | `Spec => []OneProducer` | `ProducerInv`, which contains `SlotsInv` |
| `WaitingCorrect` | `Spec => []WaitsForOlder` | `AwaitInv`, which contains `ProducerInv` and `RenameInv` |
| `WritesMeet` | `Spec => []OnlyOverlapsMeet` | `StoreInv`, with `ProducerInv` |
| `BytesNeverMeet` | `BytesOnly => (Spec => []NoDoubleWrite)` | `SizesInv`, with `StoreInv` |

* *Types.* There is one lemma per component. Indices stay in their arrays because `TypeOK` bounds every name of an entry that travels with a message.
* *Renaming.* `RenameInv` says of every register that it is either unnamed and unwritten or named after its youngest
  writer, unless the reorder buffer and the table are both just being emptied. A commit takes away the oldest writer, a dispatch adds the youngest, and
  both may happen to one register in one tick.
* *Slots.* `SlotsInv` needs most of the machine's phases. All clear flags agree (`Phase`); the memory's bus helper never
  holds two messages, because the arbiter prefers it (`HelpersInv`); no load survives a clear (`LoadsCleared`). So the memory never waits, every
  access counts down in every tick, at most one load and one store enter per tick, and the busy slots have different numbers of ticks left
  (`Staggered`): with less than `MemTicks` of these to go round, one slot is free.
* *Producers.* `Producers(id)` is everything that carries the result of an entry: a station, an ALU, its result buffer, a place in the load/store queue,
  a slot of the memory, a buffer of the bus, the bus. `Target` says where each goes in a tick and
  `Leaves` which end; a tick maps producers to producers, injectively and onto all but the new one (the instruction that
  is dispatched), and the one that leaves makes its entry ready. While a flush is under way the invariant says
  nothing of them; the two ticks in which the bus clears suffice to empty every place, which is what `busClear = 1 => ROB!Live = {}` connects to the next owner.
* *Waiting.* What a station waits for is older, in flight, not ready and has a result. `AwaitInv` needs the renaming (dispatch copies a name that is the youngest
  older writer), and the producers (a name that is announced is announced to every station that waits for it).
* *Double writes.* Of the pairs of writers, all but one exclude each other by phase, by kind or because a result is announced once. What is left is
  a load and a store that push into the queue together. `StoreInv` says that a store whose entry is not ready still has its store buffer,
  and that one that is ready has its address; so a load in a load buffer was compared with the committing store (`LoadsLooked`), and the comparison missed an overlap (`MissedOverlap`).
  If every access of the program is a single byte (`BytesOnly`), so is every access in flight (`SizesInv`), two of them overlap only if they start at the same byte, and `NoDoubleWrite` holds.

So the facts that `Queue` and `Bus` assume of their clients hold of the processor: what is sent is `Sendable`, because the ALUs test the stall and the
clear and the memory drops its loads in the first clearing tick (`SentFacts`).

**Model-checked only:**

* `ImplementsIsa`, and `NoDoubleWrite` for programs with accesses of two sizes. Neither holds for every program (section 4), so they are checked on families of programs that
  stay clear of the two disagreements. A theorem on words and bytes would have to assume that two addresses never overlap partially, which is a fact about executions.
* `FieldsSurvive`, `MeansWhatItSays`, `OperationsAreRv32i`, `LoadsWhatWasStored`: functions over bits of any width, hence induction over data.
* `Progresses` and `EveryLoadAnswered`. Liveness and `ENABLED` are out of the proof system's reach.

## 6. Not modelled

* Programs that modify themselves: the fetch reads a constant program, so nothing is said of a fetch that comes before an older store
  (`memory.c:157`). Fetching from the cells would multiply the states by the programs that stores can produce.
* Programs that reach an unknown instruction on their own path: `fakecpu.c:56` ends the program, the processor stops dispatching
  for ever (`inst-unit.c:40`). The reference promises nothing there.
* The composition of the processor with the tables of its predictor, with its decoder, and with half words: in `Cpu` predictions are
  free, programs are decoded, and accesses have two sizes. Each is modelled on its own.
* What an access outside the memory does to the C program, beyond that it happens. Statistics (`commit_count`, predictor counts in `Cpu`).
* SLTIU's immediate is not sign-extended (`inst.c:73`); the decoder's reference definition follows the code there.
* `io.c`, `dump.c`, `lib/`: input and output, debugging, containers.

## 7. Plan

Done: the sequential machine, every component of the out-of-order machine, their composition and its
main properties; abstract specifications of clock, queue, bus, register store, reorder buffer and of queue with memory;
proofs for all six, for the predictor and for the composition's invariants; decoder, ALU operations, accessors.

Next, in this order:

1. What is missing between `OneProducer` and `ImplementsIsa`: that the announced value is the right one, first for programs without memory, then with
   `LoadsSeeOlderStores` carried over to the processor, whose stations decide which stores are pushed before a load
   (`LsMemory` itself asks nothing of them but one push in a tick).
2. Wider families for the processor: half words, more registers, two branches in flight with stores.
