-------------------------- MODULE BranchPredictor --------------------------
(***************************************************************************)
(* branch-predictor.c between its two callers: dispatch asks for a         *)
(* prediction, commit reports what became of it.  The tables are plain     *)
(* memory, not clocked registers, and a prediction is confirmed many ticks *)
(* after it was made, when the history has moved on; predictions on a      *)
(* wrong path are never confirmed.                                         *)
(*                                                                         *)
(* A step is one call.  That both callers may run in one tick, in either   *)
(* order, is covered by their interleaving.                                *)
(***************************************************************************)
EXTENDS Integers, Sequences, FiniteSets

CONSTANTS
  HistLength,    \* BP_HIST_LENGTH
  BpSize,        \* BP_SIZE: entries per history
  Max,           \* BP_MAX
  Threshold,     \* BP_THRESHOLD
  Programs,      \* the branches of a program: [branches, never, always], the
                 \* pcs of all, of those never taken and of those always taken
  Depth,         \* branches in flight, below ROB_CAPACITY
  Commits,       \* bound: branches committed in a run
  JalrCommits    \* bound: JALRs committed in a run

(* The number of histories, BP_BITS, is said to be positive because the    *)
(* provers know nothing of powers.                                         *)
ASSUME BranchPredictorAssumption ==
  /\ HistLength \in Nat /\ 2^HistLength \in Nat \ {0} /\ BpSize \in Nat \ {0}
  /\ Max \in Nat /\ Threshold \in 0 .. Max
  /\ Commits \in Nat /\ JalrCommits \in Nat
  /\ \A p \in Programs : p.branches \subseteq Nat /\ p.never \cap p.always = {}

(* From either end of the scale two outcomes cross the threshold (of the   *)
(* four values of a counter, those from 2 on stand for taken).             *)
ASSUME CounterAssumption == Threshold \in 1 .. 2 /\ Max <= Threshold + 1

VARIABLES
  prog,             \* the program that runs
  state, hist,      \* bp->state, bp->hist
  total, correct, jalrTotal, jalrCorrect,   \* the statistics
  inFlight,         \* dispatched branches with their predictions, oldest first
  trained           \* history variable: the last two outcomes fed to each entry

jalrVars == <<jalrTotal, jalrCorrect>>
vars == <<prog, state, hist, total, correct, jalrVars, inFlight, trained>>

Histories == 0 .. 2^HistLength - 1
Hash(pc) == (pc \div 4) % BpSize   \* _bp_hash
Entries == Histories \X (0 .. BpSize - 1)

(* Branches that go opposite ways for ever would disturb each other in a   *)
(* common entry; programs of such branches are taken to be without them.   *)
ASSUME SteadyAssumption ==
  \A p \in Programs : p.branches = p.never \cup p.always =>
    \A a \in p.never, b \in p.always : Hash(a) # Hash(b)

-----------------------------------------------------------------------------
Prediction(pc) == [take |-> state[<<hist, Hash(pc)>>] >= Threshold, hist |-> hist]

(* branch_predict, for a branch that is being dispatched.                  *)
Predict(pc) ==
  /\ Len(inFlight) < Depth
  /\ inFlight' = Append(inFlight, [pc |-> pc, predicted |-> Prediction(pc)])
  /\ UNCHANGED <<prog, state, hist, total, correct, jalrVars, trained>>

(* The entry that bp_feedback trains, and its new value.                   *)
EntryNow(branch) == <<hist, Hash(branch.pc)>>   \* mutant: the history of today
Entry(branch) == <<branch.predicted.hist, Hash(branch.pc)>>
TrainedPast(counter, taken) ==   \* mutant: "state <= BP_MAX"
  IF taken THEN IF counter <= Max THEN counter + 1 ELSE counter
  ELSE IF counter > 0 THEN counter - 1 ELSE counter
TrainedWrapping(counter, taken) ==   \* mutant: does not saturate
  (IF taken THEN counter + 1 ELSE counter - 1) % (Max + 1)
Trained(counter, taken) ==
  IF taken THEN IF counter < Max THEN counter + 1 ELSE counter
  ELSE IF counter > 0 THEN counter - 1 ELSE counter

(* bp_feedback, for the oldest branch, which then leaves the reorder       *)
(* buffer; a mispredicted one takes everything younger with it.            *)
Feedback(taken) ==
  /\ inFlight # <<>> /\ total < Commits
  /\ LET branch == Head(inFlight)
         right == branch.predicted.take = taken
         entry == Entry(branch)
     IN  /\ branch.pc \in prog.never => ~taken
         /\ branch.pc \in prog.always => taken
         /\ total' = total + 1
         /\ correct' = IF right THEN correct + 1 ELSE correct
         /\ state' = [state EXCEPT ![entry] = Trained(@, taken)]
         /\ trained' = [trained EXCEPT ![<<branch.predicted.hist, Hash(branch.pc)>>] =
                          IF @ = <<>> THEN <<taken>> ELSE <<taken, Head(@)>>]
         /\ inFlight' = IF right THEN Tail(inFlight) ELSE <<>>
  /\ hist' = (2 * hist + (IF taken THEN 1 ELSE 0)) % 2^HistLength
  /\ UNCHANGED <<prog, jalrVars>>

(* bp_feedback_jalr, which counts only; a JALR whose target was guessed    *)
(* wrong empties the machine.                                              *)
FeedbackJalr(right) ==
  /\ jalrTotal < JalrCommits
  /\ jalrTotal' = jalrTotal + 1
  /\ jalrCorrect' = IF right THEN jalrCorrect + 1 ELSE jalrCorrect
  /\ inFlight' = IF right THEN inFlight ELSE <<>>
  /\ UNCHANGED <<prog, state, hist, total, correct, trained>>

(* bp_create leaves hist uninitialised; it is taken to be some history.    *)
Init ==
  /\ prog \in Programs
  /\ state = [e \in Entries |-> Threshold]
  /\ hist \in Histories
  /\ total = 0 /\ correct = 0 /\ jalrTotal = 0 /\ jalrCorrect = 0
  /\ inFlight = <<>>
  /\ trained = [e \in Entries |-> <<>>]

Next ==
  \/ \E pc \in prog.branches : Predict(pc)
  \/ \E taken \in BOOLEAN : Feedback(taken)
  \/ \E right \in BOOLEAN : FeedbackJalr(right)

Spec == Init /\ [][Next]_vars

-----------------------------------------------------------------------------
(* The counters saturate, and the history and every prediction in flight   *)
(* index the table within its bounds.                                      *)
TypeOK ==
  /\ state \in [Entries -> 0 .. Max]
  /\ hist \in Histories
  /\ correct \in 0 .. total /\ total \in 0 .. Commits
  /\ jalrCorrect \in 0 .. jalrTotal /\ jalrTotal \in 0 .. JalrCommits
  /\ \A i \in DOMAIN inFlight : inFlight[i].predicted.hist \in Histories

(* Whatever it has learned before, a branch whose last two outcomes in a   *)
(* given history agree is predicted that way, and it takes two to turn a   *)
(* settled prediction, however many predictions were in flight.            *)
TwoOutcomesDecide ==
  \A e \in Entries :
    Len(trained[e]) = 2 /\ trained[e][1] = trained[e][2] =>
      (state[e] >= Threshold <=> trained[e][1])

(* Branches with one direction cost at most one flush per history and      *)
(* table entry, although predictions are made from stale histories, several*)
(* of one entry are in flight and some are lost in flushes.                *)
SteadyBranchesLearned ==
  prog.branches = prog.never \cup prog.always =>
    total - correct <= 2^HistLength * Cardinality({Hash(pc) : pc \in prog.never})

=============================================================================
