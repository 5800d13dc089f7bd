------------------------ MODULE BranchPredictorProofs ------------------------
(***************************************************************************)
(* The branch predictor stays within its tables and learns, with tables of *)
(* any size and any number of branches in flight.                          *)
(***************************************************************************)
EXTENDS BranchPredictor, FiniteSetTheorems, SequenceTheorems, TLAPS

(* A branch in flight, and the outcomes that are remembered of an entry.   *)
Branch == [pc : prog.branches, predicted : [take : BOOLEAN, hist : Histories]]
Remembered == {o \in Seq(BOOLEAN) : Len(o) <= 2}

Typed ==
  /\ TypeOK
  /\ prog \in Programs
  /\ inFlight \in Seq(Branch)
  /\ trained \in [Entries -> Remembered]

-----------------------------------------------------------------------------
(* The tables.                                                             *)

(* A pc is hashed to an entry of the table.                                *)
LEMMA HashInTable ==
  ASSUME NEW pc \in Nat
  PROVE  Hash(pc) \in 0 .. BpSize - 1
<1>1. pc \div 4 \in Int
  BY SMT
<1> DEFINE x == pc \div 4
<1>2. x % BpSize \in 0 .. BpSize - 1
  <2> HIDE DEF x
  <2> QED
    BY <1>1, BranchPredictorAssumption DEF x
<1> QED
  BY <1>2 DEF Hash

(* The next history is a history.                                          *)
LEMMA NextHistory ==
  ASSUME hist \in Histories, NEW bit \in {0, 1}
  PROVE  (2 * hist + bit) % 2^HistLength \in Histories
<1> DEFINE m == 2^HistLength
           x == 2 * hist + bit
<1>1. m \in Nat \ {0} /\ Histories = 0 .. m - 1
  BY BranchPredictorAssumption DEF Histories
<1> HIDE DEF m
<1>2. x \in Int
  BY <1>1
<1> HIDE DEF x
<1>3. x % m \in 0 .. m - 1
  BY <1>1, <1>2
<1> QED
  BY <1>1, <1>3 DEF m, x

(* A counter moves by at most one and stays on its scale.                  *)
LEMMA TrainedStep ==
  ASSUME NEW c \in 0 .. Max
  PROVE  /\ Trained(c, TRUE) = IF c < Max THEN c + 1 ELSE c
         /\ Trained(c, FALSE) = IF c > 0 THEN c - 1 ELSE c
         /\ \A taken \in BOOLEAN : Trained(c, taken) \in 0 .. Max
BY BranchPredictorAssumption DEF Trained

(* What a report does.                                                     *)
LEMMA FeedbackStep ==
  ASSUME Typed, NEW taken \in BOOLEAN, Feedback(taken)
  PROVE  /\ Head(inFlight) \in Branch /\ Entry(Head(inFlight)) \in Entries
         /\ state' = [state EXCEPT ![Entry(Head(inFlight))] =
                        Trained(state[Entry(Head(inFlight))], taken)]
         /\ trained' = [trained EXCEPT ![Entry(Head(inFlight))] =
                          IF @ = <<>> THEN <<taken>> ELSE <<taken, Head(@)>>]
         /\ hist' \in Histories
         /\ inFlight' \in {<<>>, Tail(inFlight)}
         /\ prog' = prog
<1>1. inFlight # <<>> /\ Head(inFlight) \in Branch
  BY DEF Feedback, Typed
<1>2. Entry(Head(inFlight)) \in Entries
  <2>1. Head(inFlight).pc \in Nat /\ Head(inFlight).predicted.hist \in Histories
    BY <1>1, BranchPredictorAssumption DEF Branch, Typed
  <2> QED
    BY <2>1, HashInTable DEF Entry, Entries
<1>3. Entry(Head(inFlight)) = <<Head(inFlight).predicted.hist, Hash(Head(inFlight).pc)>>
  BY DEF Entry
<1>4. hist' \in Histories
  <2>1. hist' = (2 * hist + (IF taken THEN 1 ELSE 0)) % 2^HistLength /\ hist \in Histories
    BY DEF Feedback, Typed, TypeOK
  <2>2. CASE taken
    <3>1. hist' = (2 * hist + 1) % 2^HistLength
      BY <2>1, <2>2, Zenon
    <3> QED
      BY <2>1, <3>1, NextHistory, Zenon
  <2>3. CASE ~taken
    <3>1. hist' = (2 * hist + 0) % 2^HistLength
      BY <2>1, <2>3, Zenon
    <3> QED
      BY <2>1, <3>1, NextHistory, Zenon
  <2> QED
    BY <2>2, <2>3
<1> QED
  BY <1>1, <1>2, <1>3, <1>4 DEF Feedback

(* The histories of the branches in flight.                                *)
LEMMA HistoriesInFlight ==
  ASSUME NEW B, NEW q \in Seq([pc : B, predicted : [take : BOOLEAN, hist : Histories]])
  PROVE  \A i \in DOMAIN q : q[i].predicted.hist \in Histories
<1>1. DOMAIN q = 1 .. Len(q)
  BY LenProperties
<1>2. \A i \in 1 .. Len(q) : q[i] \in [pc : B, predicted : [take : BOOLEAN, hist : Histories]]
  BY ElementOfSeq
<1> QED
  BY <1>1, <1>2

LEMMA TypedInit == Init => Typed
<1> SUFFICES ASSUME Init PROVE Typed
  OBVIOUS
<1>1. /\ state = [e \in Entries |-> Threshold] /\ trained = [e \in Entries |-> <<>>]
      /\ hist \in Histories /\ inFlight = <<>> /\ prog \in Programs
      /\ total = 0 /\ correct = 0 /\ jalrTotal = 0 /\ jalrCorrect = 0
  BY DEF Init
<1>2. <<>> \in Remembered
  BY DEF Remembered
<1> QED
  BY <1>1, <1>2, BranchPredictorAssumption DEF Typed, TypeOK

LEMMA TypedStep == Typed /\ [Next]_vars => Typed'
<1> SUFFICES ASSUME Typed, [Next]_vars PROVE Typed'
  OBVIOUS
<1> USE DEF Typed, TypeOK
<1>1. ASSUME NEW pc \in prog.branches, Predict(pc)
      PROVE  Typed'
  <2>1. [pc |-> pc, predicted |-> Prediction(pc)] \in Branch
    BY DEF Branch, Prediction
  <2>2. inFlight' \in Seq(Branch)
    BY <1>1, <2>1 DEF Predict
  <2>3. /\ prog' = prog /\ state' = state /\ hist' = hist /\ total' = total /\ correct' = correct
        /\ jalrTotal' = jalrTotal /\ jalrCorrect' = jalrCorrect /\ trained' = trained
    BY <1>1 DEF Predict, jalrVars
  <2>4. Branch' = Branch /\ Histories' = Histories /\ Entries' = Entries
    BY <2>3 DEF Branch, Histories, Entries
  <2>5. \A i \in DOMAIN inFlight' : inFlight'[i].predicted.hist \in Histories
    BY <2>2, HistoriesInFlight, Zenon DEF Branch
  <2> QED
    BY <2>2, <2>3, <2>4, <2>5 DEF Remembered
<1>2. ASSUME NEW taken \in BOOLEAN, Feedback(taken)
      PROVE  Typed'
  <2> DEFINE e == Entry(Head(inFlight))
  <2>1. /\ e \in Entries
        /\ state' = [state EXCEPT ![e] = Trained(state[e], taken)]
        /\ trained' = [trained EXCEPT ![e] = IF @ = <<>> THEN <<taken>> ELSE <<taken, Head(@)>>]
        /\ hist' \in Histories
        /\ inFlight' \in {<<>>, Tail(inFlight)}
        /\ prog' = prog
    BY <1>2, FeedbackStep
  <2>2. inFlight # <<>>
    BY <1>2 DEF Feedback
  <2> HIDE DEF e
  <2>3. state' \in [Entries -> 0 .. Max]
    BY <2>1, TrainedStep
  <2>4. trained' \in [Entries -> Remembered]
    <3>1. (IF trained[e] = <<>> THEN <<taken>> ELSE <<taken, Head(trained[e])>>) \in Remembered
      <4>1. trained[e] \in Seq(BOOLEAN)
        BY <2>1 DEF Remembered
      <4>2. <<taken>> \in Remembered
        BY DEF Remembered
      <4>3. trained[e] # <<>> => Head(trained[e]) \in BOOLEAN
        BY <4>1
      <4>4. \A b \in BOOLEAN : <<taken, b>> \in Remembered
        BY DEF Remembered
      <4> QED
        BY <4>2, <4>3, <4>4
    <3> QED
      BY <2>1, <3>1
  <2>5. inFlight' \in Seq(Branch)
    <3>1. \A S : \A q \in Seq(S) : q # <<>> => Tail(q) \in Seq(S)
      OBVIOUS
    <3>2. \A S : <<>> \in Seq(S)
      OBVIOUS
    <3> QED
      BY <2>1, <2>2, <3>1, <3>2, Zenon
  <2>6. total' = total + 1 /\ total < Commits /\ correct' \in {correct, correct + 1}
        /\ jalrTotal' = jalrTotal /\ jalrCorrect' = jalrCorrect
    BY <1>2 DEF Feedback, jalrVars
  <2>7. correct' \in 0 .. total' /\ total' \in 0 .. Commits
    BY <2>6, BranchPredictorAssumption
  <2>8. Branch' = Branch /\ Histories' = Histories /\ Entries' = Entries
    BY <2>1 DEF Branch, Histories, Entries
  <2>9. \A i \in DOMAIN inFlight' : inFlight'[i].predicted.hist \in Histories
    BY <2>5, HistoriesInFlight, Zenon DEF Branch
  <2> QED
    BY <2>1, <2>3, <2>4, <2>5, <2>6, <2>7, <2>8, <2>9 DEF Remembered
<1>3. ASSUME NEW right \in BOOLEAN, FeedbackJalr(right)
      PROVE  Typed'
  <2>1. /\ prog' = prog /\ state' = state /\ hist' = hist /\ total' = total /\ correct' = correct
        /\ trained' = trained
        /\ jalrTotal < JalrCommits /\ jalrTotal' = jalrTotal + 1
        /\ jalrCorrect' = (IF right THEN jalrCorrect + 1 ELSE jalrCorrect)
        /\ inFlight' = (IF right THEN inFlight ELSE <<>>)
    BY <1>3 DEF FeedbackJalr
  <2>2. jalrCorrect' \in 0 .. jalrTotal' /\ jalrTotal' \in 0 .. JalrCommits
    BY <2>1, BranchPredictorAssumption
  <2>3. inFlight' \in Seq(Branch)
    <3>1. \A S : <<>> \in Seq(S)
      OBVIOUS
    <3> QED
      BY <2>1, <3>1, Zenon
  <2>4. Branch' = Branch /\ Histories' = Histories /\ Entries' = Entries
    BY <2>1 DEF Branch, Histories, Entries
  <2>5. \A i \in DOMAIN inFlight' : inFlight'[i].predicted.hist \in Histories
    BY <2>3, HistoriesInFlight, Zenon DEF Branch
  <2> QED
    BY <2>1, <2>2, <2>3, <2>4, <2>5 DEF Remembered
<1>4. CASE UNCHANGED vars
  BY <1>4 DEF vars, jalrVars, Branch, Histories, Entries, Remembered
<1> QED
  BY <1>1, <1>2, <1>3, <1>4 DEF Next

(* Counters saturate, statistics stay plausible, and the history and every *)
(* prediction in flight index the table within its bounds                  *)
(* (branch-predictor.c:45-55).                                             *)
THEOREM TypeCorrect == Spec => []TypeOK
<1>1. Typed => TypeOK
  BY DEF Typed
<1> QED
  BY <1>1, TypedInit, TypedStep, PTL DEF Spec

-----------------------------------------------------------------------------
(* What a counter has learned.                                             *)

(* The last outcome has left the far end of the scale, the last two, if    *)
(* they agree, have crossed the threshold.                                 *)
Learned(c, o) ==
  /\ Len(o) >= 1 => IF o[1] THEN c >= 1 ELSE c < Max
  /\ Len(o) = 2 /\ o[1] = o[2] => (c >= Threshold <=> o[1])

LearnedInv == Typed /\ \A e \in Entries : Learned(state[e], trained[e])

(* One more outcome.                                                       *)
LEMMA OneMore ==
  ASSUME NEW c \in 0 .. Max, NEW o \in Remembered, Learned(c, o), NEW taken \in BOOLEAN
  PROVE  Learned(Trained(c, taken), IF o = <<>> THEN <<taken>> ELSE <<taken, Head(o)>>)
<1> DEFINE d == Trained(c, taken)
           more == IF o = <<>> THEN <<taken>> ELSE <<taken, Head(o)>>
<1>1. /\ taken => d = IF c < Max THEN c + 1 ELSE c
      /\ ~taken => d = IF c > 0 THEN c - 1 ELSE c
  BY TrainedStep
<1>2. Max >= 1 /\ Max \in Nat /\ Threshold \in 1 .. 2 /\ Max <= Threshold + 1 /\ Threshold <= Max
  BY BranchPredictorAssumption, CounterAssumption
<1>3. IF taken THEN d >= 1 ELSE d < Max
  BY <1>1, <1>2
<1>4. o # <<>> => Len(o) >= 1 /\ Head(o) = o[1]
  BY DEF Remembered
<1>5. o # <<>> /\ taken = o[1] => (d >= Threshold <=> taken)
  <2> SUFFICES ASSUME o # <<>>, taken = o[1] PROVE d >= Threshold <=> taken
    OBVIOUS
  <2>1. (taken => c >= 1) /\ (~taken => c < Max)
    BY <1>4 DEF Learned
  <2>2. CASE taken
    <3>1. c >= 1 /\ d = IF c < Max THEN c + 1 ELSE c
      BY <1>1, <2>1, <2>2
    <3>2. d >= Threshold
      BY <1>2, <3>1
    <3> QED
      BY <2>2, <3>2
  <2>3. CASE ~taken
    <3>1. c < Max /\ d = IF c > 0 THEN c - 1 ELSE c
      BY <1>1, <2>1, <2>3
    <3>2. d < Threshold /\ d \in Int
      BY <1>2, <3>1
    <3> QED
      BY <1>2, <2>3, <3>2
  <2> QED
    BY <2>2, <2>3
<1> HIDE DEF d
<1>6. CASE o = <<>>
  <2>1. more = <<taken>> /\ Len(more) = 1 /\ more[1] = taken
    BY <1>6
  <2> QED
    BY <1>3, <2>1 DEF Learned, d
<1>7. CASE o # <<>>
  <2>1. more = <<taken, Head(o)>> /\ Len(more) = 2 /\ more[1] = taken /\ more[2] = o[1]
    BY <1>4, <1>7
  <2> QED
    BY <1>3, <1>5, <1>7, <2>1 DEF Learned, d
<1> QED
  BY <1>6, <1>7

LEMMA LearnedInit == Init => LearnedInv
<1> SUFFICES ASSUME Init PROVE LearnedInv
  OBVIOUS
<1>1. \A e \in Entries : trained[e] = <<>>
  BY DEF Init
<1>2. \A c : Learned(c, <<>>)
  <2>1. Len(<<>>) = 0
    OBVIOUS
  <2> QED
    BY <2>1 DEF Learned
<1> QED
  BY <1>1, <1>2, TypedInit DEF LearnedInv

LEMMA LearnedStep == LearnedInv /\ [Next]_vars => LearnedInv'
<1> SUFFICES ASSUME LearnedInv, [Next]_vars PROVE LearnedInv'
  OBVIOUS
<1>1. Typed' /\ Typed
  BY TypedStep DEF LearnedInv
<1>2. CASE state' = state /\ trained' = trained
  BY <1>1, <1>2 DEF LearnedInv, Learned, Entries, Histories
<1>3. ASSUME NEW taken \in BOOLEAN, Feedback(taken)
      PROVE  LearnedInv'
  <2> DEFINE x == Entry(Head(inFlight))
  <2>1. /\ x \in Entries
        /\ state' = [state EXCEPT ![x] = Trained(state[x], taken)]
        /\ trained' = [trained EXCEPT ![x] = IF @ = <<>> THEN <<taken>> ELSE <<taken, Head(@)>>]
    BY <1>1, <1>3, FeedbackStep
  <2> HIDE DEF x
  <2>2. /\ DOMAIN state = Entries /\ DOMAIN trained = Entries
        /\ state[x] \in 0 .. Max /\ trained[x] \in Remembered
    BY <1>1, <2>1 DEF Typed, TypeOK
  <2>3. ASSUME NEW e \in Entries
        PROVE  Learned(state'[e], trained'[e])
    <3>1. CASE e = x
      <4>1. /\ state'[e] = Trained(state[x], taken)
            /\ trained'[e] = IF trained[x] = <<>> THEN <<taken>> ELSE <<taken, Head(trained[x])>>
        BY <2>1, <2>2, <3>1
      <4>2. Learned(state[x], trained[x])
        BY <2>1 DEF LearnedInv
      <4> QED
        BY <2>2, <4>1, <4>2, OneMore
    <3>2. CASE e # x
      <4>1. state'[e] = state[e] /\ trained'[e] = trained[e]
        BY <2>1, <2>2, <3>2
      <4> QED
        BY <4>1 DEF LearnedInv
    <3> QED
      BY <3>1, <3>2
  <2> QED
    BY <1>1, <2>3 DEF LearnedInv, Learned, Entries, Histories
<1> QED
  BY <1>2, <1>3 DEF Next, Predict, FeedbackJalr, vars

(* A branch whose last two outcomes in a history agree is predicted that   *)
(* way, whatever the counter held before and however stale the predictions *)
(* were that trained it (bp_feedback).                                     *)
THEOREM OutcomesDecide == Spec => []TwoOutcomesDecide
<1>1. LearnedInv => TwoOutcomesDecide
  BY DEF LearnedInv, Learned, TwoOutcomesDecide
<1> QED
  BY <1>1, LearnedInit, LearnedStep, PTL DEF Spec

-----------------------------------------------------------------------------
(* What wrong predictions cost.                                            *)

(* The entries that branches never taken may use, and those whose counter  *)
(* has crossed the threshold.                                              *)
Steady == prog.branches = prog.never \cup prog.always
Untaken == Histories \X {Hash(pc) : pc \in prog.never}
Cold == {e \in Entries : state[e] < Threshold}

(* Each wrong prediction has made one entry cold, for good; a prediction   *)
(* that is in flight is the one that its entry would still make.           *)
SteadyInv ==
  /\ Typed
  /\ Steady =>
       /\ total - correct = Cardinality(Cold)
       /\ Cold \subseteq Untaken
       /\ \A e \in Untaken : state[e] <= Threshold
       /\ \A i \in 1 .. Len(inFlight) :
            inFlight[i].predicted.take <=> state[Entry(inFlight[i])] >= Threshold

(* A set of entries is finite.                                             *)
LEMMA FiniteEntries ==
  IsFiniteSet(Entries) /\ IsFiniteSet(Histories) /\ Cardinality(Histories) = 2^HistLength
<1> DEFINE m == 2^HistLength
<1>1. m \in Nat \ {0} /\ Histories = 0 .. m - 1
  BY BranchPredictorAssumption DEF Histories
<1> HIDE DEF m
<1>2. IsFiniteSet(0 .. m - 1) /\ Cardinality(0 .. m - 1) = m
  <2>1. 0 \in Int /\ m - 1 \in Int /\ (m - 1) - 0 + 1 = m /\ ~(0 > m - 1)
    BY <1>1
  <2> QED
    BY <2>1, FS_Interval
<1>3. IsFiniteSet(0 .. BpSize - 1)
  BY BranchPredictorAssumption, FS_Interval
<1>4. IsFiniteSet(Histories) /\ Cardinality(Histories) = m
  BY <1>1, <1>2
<1>5. IsFiniteSet(Entries)
  BY <1>3, <1>4, FS_Product DEF Entries
<1> QED
  BY <1>4, <1>5, Zenon DEF m

(* The entry of a branch tells in which direction it goes.                 *)
LEMMA EntryKind ==
  ASSUME Typed, Steady, NEW b \in Branch
  PROVE  /\ Entry(b) \in Entries
         /\ b.pc \in prog.never \/ b.pc \in prog.always
         /\ b.pc \in prog.never => b.pc \notin prog.always /\ Entry(b) \in Untaken
         /\ b.pc \in prog.always => Entry(b) \notin Untaken
<1>1. b.pc \in prog.branches /\ b.predicted.hist \in Histories /\ prog \in Programs
  BY DEF Branch, Typed
<1>2. b.pc \in Nat /\ prog.never \cap prog.always = {}
  BY <1>1, BranchPredictorAssumption
<1>3. Entry(b) \in Entries
  BY <1>1, <1>2, HashInTable DEF Entry, Entries
<1>4. b.pc \in prog.never \cup prog.always
  BY <1>1 DEF Steady
<1>5. b.pc \in prog.never => Entry(b) \in Untaken
  BY <1>1 DEF Entry, Untaken
<1>6. b.pc \in prog.always => Entry(b) \notin Untaken
  <2>1. \A a \in prog.never, c \in prog.always : Hash(a) # Hash(c)
    BY <1>1, SteadyAssumption DEF Steady
  <2>2. b.pc \in prog.always => Hash(b.pc) \notin {Hash(pc) : pc \in prog.never}
    BY <2>1
  <2> QED
    BY <2>2 DEF Entry, Untaken
<1> QED
  BY <1>2, <1>3, <1>4, <1>5, <1>6

(* The entries of those branches are in the table.                         *)
LEMMA UntakenInTable ==
  ASSUME Typed, Steady
  PROVE  Untaken \subseteq Entries
<1>1. prog.never \subseteq Nat
  BY BranchPredictorAssumption DEF Typed, Steady
<1> QED
  BY <1>1, HashInTable DEF Untaken, Entries

LEMMA SteadyInit == Init => SteadyInv
<1> SUFFICES ASSUME Init PROVE SteadyInv
  OBVIOUS
<1>1. /\ Typed /\ inFlight = <<>> /\ total = 0 /\ correct = 0
      /\ \A e \in Entries : state[e] = Threshold
  BY TypedInit DEF Init
<1>2. Threshold \in Int
  BY BranchPredictorAssumption
<1>3. Cold = {}
  BY <1>1, <1>2 DEF Cold
<1>4. Steady => Untaken \subseteq Entries
  BY <1>1, UntakenInTable
<1>5. Len(inFlight) = 0
  BY <1>1
<1> QED
  BY <1>1, <1>2, <1>3, <1>4, <1>5, FS_EmptySet DEF SteadyInv


(* A report, in a program of branches with one direction each.             *)
LEMMA SteadyFeedback ==
  ASSUME SteadyInv, Steady, Typed', NEW taken \in BOOLEAN, Feedback(taken)
  PROVE  SteadyInv'
<1> DEFINE b == Head(inFlight)
           x == Entry(b)
<1>1. /\ Typed /\ b \in Branch /\ x \in Entries
      /\ state' = [state EXCEPT ![x] = Trained(state[x], taken)]
      /\ prog' = prog
  BY FeedbackStep DEF SteadyInv
<1>2. /\ inFlight # <<>> /\ inFlight \in Seq(Branch) /\ Len(inFlight) \in Nat /\ Len(inFlight) >= 1
      /\ b = inFlight[1]
  BY <1>1 DEF Feedback, Typed
<1>3. /\ b.pc \in prog.never => ~taken
      /\ b.pc \in prog.always => taken
      /\ total' = total + 1
      /\ correct' = IF b.predicted.take = taken THEN correct + 1 ELSE correct
      /\ inFlight' = IF b.predicted.take = taken THEN Tail(inFlight) ELSE <<>>
  BY DEF Feedback
<1>4. b.predicted.take <=> state[x] >= Threshold
  BY <1>2 DEF SteadyInv
<1>5. /\ x \in Entries
      /\ b.pc \in prog.never \/ b.pc \in prog.always
      /\ b.pc \in prog.never => b.pc \notin prog.always /\ x \in Untaken
      /\ b.pc \in prog.always => x \notin Untaken
  BY <1>1, EntryKind
<1>6. b.predicted.take \in BOOLEAN /\ state[x] \in 0 .. Max /\ DOMAIN state = Entries
      /\ total \in Int /\ correct \in Int
      /\ \A e \in Entries : state[e] \in 0 .. Max
  BY <1>1, BranchPredictorAssumption DEF Branch, Typed, TypeOK
<1>7. /\ total - correct = Cardinality(Cold)
      /\ Cold \subseteq Untaken
      /\ \A e \in Untaken : state[e] <= Threshold
      /\ \A i \in 1 .. Len(inFlight) :
           inFlight[i].predicted.take <=> state[Entry(inFlight[i])] >= Threshold
  BY DEF SteadyInv
<1>8. Threshold \in 1 .. 2 /\ Threshold <= Max /\ Max \in Nat
  BY BranchPredictorAssumption, CounterAssumption
<1>9. Entries' = Entries /\ Untaken' = Untaken /\ Steady' = Steady
  BY <1>1 DEF Entries, Untaken, Histories, Steady
<1>10. \A e \in Entries : state'[e] = IF e = x THEN Trained(state[x], taken) ELSE state[e]
  BY <1>1, <1>6
<1>11. /\ taken => Trained(state[x], taken) = IF state[x] < Max THEN state[x] + 1 ELSE state[x]
       /\ ~taken => Trained(state[x], taken) = IF state[x] > 0 THEN state[x] - 1 ELSE state[x]
  BY <1>6, TrainedStep
<1>12. IsFiniteSet(Cold) /\ Cold \subseteq Entries
  BY FiniteEntries, FS_Subset DEF Cold
<1>13. Untaken \subseteq Entries
  BY <1>1, UntakenInTable
<1> HIDE DEF b, x
<1>14. CASE b.predicted.take # taken
  <2>1. b.pc \in prog.never /\ ~taken /\ b.predicted.take
    <3>1. CASE b.pc \in prog.never
      BY <1>3, <1>6, <1>14, <3>1
    <3>2. CASE b.pc \in prog.always
      <4>1. taken /\ x \notin Cold
        BY <1>3, <1>5, <1>7, <3>2
      <4>2. state[x] >= Threshold
        BY <1>5, <1>6, <1>8, <4>1 DEF Cold
      <4> QED
        BY <1>4, <1>6, <1>14, <4>1, <4>2
    <3> QED
      BY <1>5, <3>1, <3>2
  <2>2. x \in Untaken /\ state[x] = Threshold
    BY <1>4, <1>5, <1>6, <1>7, <1>8, <2>1
  <2>3. state'[x] = Threshold - 1
    BY <1>5, <1>8, <1>10, <1>11, <2>1, <2>2
  <2>4. x \notin Cold /\ Cold' = Cold \cup {x}
    <3>1. x \notin Cold
      BY <1>8, <2>2 DEF Cold
    <3>2. \A e \in Entries : state'[e] < Threshold <=> e \in Cold \/ e = x
      BY <1>8, <1>10, <2>3 DEF Cold
    <3>3. Cold' = {e \in Entries : state'[e] < Threshold}
      BY <1>9 DEF Cold
    <3> QED
      BY <1>5, <1>12, <3>1, <3>2, <3>3
  <2>5. Cardinality(Cold') = Cardinality(Cold) + 1
    BY <1>12, <2>4, FS_AddElement
  <2>6. total' - correct' = Cardinality(Cold')
    BY <1>3, <1>6, <1>7, <1>14, <2>5
  <2>7. \A e \in Untaken : state'[e] <= Threshold
    BY <1>7, <1>8, <1>10, <1>13, <2>3
  <2>8. Len(inFlight') = 0
    BY <1>3, <1>14
  <2>9. \A i \in 1 .. Len(inFlight') :
          inFlight'[i].predicted.take <=> state'[Entry(inFlight'[i])] >= Threshold
    BY <2>8
  <2> QED
    BY <1>7, <1>9, <2>2, <2>4, <2>6, <2>7, <2>9 DEF SteadyInv, Entry
<1>15. CASE b.predicted.take = taken
  <2>1. \A e \in Entries : state'[e] < Threshold <=> state[e] < Threshold
    <3>1. (state'[x] < Threshold <=> state[x] < Threshold) /\ state'[x] \in 0 .. Max
      <4>1. CASE taken
        <5>1. state[x] >= Threshold
          BY <1>4, <1>15, <4>1
        <5>2. state'[x] = IF state[x] < Max THEN state[x] + 1 ELSE state[x]
          BY <1>5, <1>10, <1>11, <4>1
        <5> QED
          BY <1>5, <1>6, <1>8, <5>1, <5>2
      <4>2. CASE ~taken
        <5>1. ~(state[x] >= Threshold)
          BY <1>4, <1>15, <4>2
        <5>2. state'[x] = IF state[x] > 0 THEN state[x] - 1 ELSE state[x]
          BY <1>5, <1>10, <1>11, <4>2
        <5> QED
          BY <1>5, <1>6, <1>8, <5>1, <5>2
      <4> QED
        BY <4>1, <4>2
    <3> QED
      BY <1>10, <3>1
  <2>2. Cold' = Cold
    BY <1>9, <2>1 DEF Cold
  <2>3. total' - correct' = Cardinality(Cold')
    BY <1>3, <1>6, <1>7, <1>15, <2>2
  <2>4. \A e \in Untaken : state'[e] <= Threshold
    <3>1. x \in Untaken => ~taken
      BY <1>3, <1>5
    <3>2. x \in Untaken => state'[x] <= Threshold
      <4> SUFFICES ASSUME x \in Untaken PROVE state'[x] <= Threshold
        OBVIOUS
      <4>1. ~taken /\ state[x] <= Threshold
        BY <1>7, <3>1
      <4> QED
        BY <1>5, <1>6, <1>8, <1>10, <1>11, <4>1
    <3> QED
      BY <1>7, <1>10, <1>13, <3>2
  <2>5. ASSUME NEW i \in 1 .. Len(inFlight')
        PROVE  inFlight'[i].predicted.take <=> state'[Entry(inFlight'[i])] >= Threshold
    <3>1. inFlight' = Tail(inFlight)
      BY <1>3, <1>15
    <3>2. i + 1 \in 1 .. Len(inFlight) /\ inFlight'[i] = inFlight[i + 1]
      BY <1>2, <2>5, <3>1
    <3> DEFINE c == inFlight[i + 1]
    <3>3. c \in Branch
      BY <1>2, <3>2, ElementOfSeq
    <3>4. c.predicted.take <=> state[Entry(c)] >= Threshold
      BY <1>7, <3>2
    <3>5. Entry(c) \in Entries
      BY <1>1, <3>3, EntryKind
    <3> HIDE DEF c
    <3>6. state[Entry(c)] \in 0 .. Max /\ state'[Entry(c)] \in 0 .. Max
      BY <1>6, <1>10, <3>5, TrainedStep
    <3>7. state[Entry(c)] >= Threshold <=> state'[Entry(c)] >= Threshold
      BY <1>8, <2>1, <3>5, <3>6
    <3> QED
      BY <3>2, <3>4, <3>7 DEF c
  <2>6. (\A i \in 1 .. Len(inFlight) :
           inFlight[i].predicted.take <=> state[Entry(inFlight[i])] >= Threshold)'
    BY <2>5 DEF Entry
  <2>7. (Cold \subseteq Untaken)' /\ (\A e \in Untaken : state[e] <= Threshold)'
    BY <1>7, <1>9, <2>2, <2>4
  <2> QED
    BY <2>3, <2>6, <2>7 DEF SteadyInv
<1> QED
  BY <1>14, <1>15


LEMMA SteadyStep == SteadyInv /\ [Next]_vars => SteadyInv'
<1> SUFFICES ASSUME SteadyInv, [Next]_vars PROVE SteadyInv'
  OBVIOUS
<1>1. Typed' /\ Typed
  BY TypedStep DEF SteadyInv
<1>2. prog' = prog /\ (Steady' <=> Steady)
  BY DEF Next, Predict, Feedback, FeedbackJalr, vars, Steady
<1>3. CASE ~Steady
  BY <1>1, <1>2, <1>3 DEF SteadyInv
<1>4. ASSUME Steady, state' = state, total' = total, correct' = correct,
             \A i \in 1 .. Len(inFlight') :
               inFlight'[i].predicted.take <=> state[Entry(inFlight'[i])] >= Threshold
      PROVE  SteadyInv'
  <2>1. Cold' = Cold /\ Untaken' = Untaken
    BY <1>2, <1>4 DEF Cold, Untaken, Entries, Histories
  <2>2. (\A i \in 1 .. Len(inFlight) :
           inFlight[i].predicted.take <=> state[Entry(inFlight[i])] >= Threshold)'
    BY <1>4 DEF Entry
  <2> QED
    BY <1>1, <1>4, <2>1, <2>2 DEF SteadyInv
<1>5. ASSUME Steady, NEW pc \in prog.branches, Predict(pc)
      PROVE  SteadyInv'
  <2> DEFINE new == [pc |-> pc, predicted |-> Prediction(pc)]
  <2>1. /\ inFlight' = Append(inFlight, new) /\ state' = state
        /\ total' = total /\ correct' = correct
    BY <1>5 DEF Predict
  <2>2. new.predicted.take <=> state[Entry(new)] >= Threshold
    BY DEF Prediction, Entry
  <2> HIDE DEF new
  <2>3. ASSUME NEW i \in 1 .. Len(inFlight')
        PROVE  inFlight'[i].predicted.take <=> state[Entry(inFlight'[i])] >= Threshold
    <3>1. inFlight \in Seq(Branch) /\ Len(inFlight) \in Nat
      BY <1>1 DEF Typed
    <3>2. \/ i \in 1 .. Len(inFlight) /\ inFlight'[i] = inFlight[i]
          \/ inFlight'[i] = new
      BY <2>1, <3>1
    <3>3. \A j \in 1 .. Len(inFlight) :
            inFlight[j].predicted.take <=> state[Entry(inFlight[j])] >= Threshold
      BY <1>5 DEF SteadyInv
    <3> QED
      BY <2>2, <3>2, <3>3
  <2> QED
    BY <1>4, <1>5, <2>1, <2>3
<1>6. ASSUME Steady, NEW taken \in BOOLEAN, Feedback(taken)
      PROVE  SteadyInv'
  BY <1>1, <1>6, SteadyFeedback
<1>7. ASSUME Steady, NEW right \in BOOLEAN, FeedbackJalr(right)
      PROVE  SteadyInv'
  <2>1. /\ inFlight' = inFlight \/ Len(inFlight') = 0
        /\ state' = state /\ total' = total /\ correct' = correct
    BY <1>7 DEF FeedbackJalr
  <2>2. \A i \in 1 .. Len(inFlight') :
          inFlight'[i].predicted.take <=> state[Entry(inFlight'[i])] >= Threshold
    BY <1>7, <2>1 DEF SteadyInv
  <2> QED
    BY <1>4, <1>7, <2>1, <2>2
<1>8. CASE Steady /\ UNCHANGED vars
  <2>1. inFlight' = inFlight /\ state' = state /\ total' = total /\ correct' = correct
    BY <1>8 DEF vars
  <2> QED
    BY <1>4, <1>8, <2>1 DEF SteadyInv
<1> QED
  BY <1>3, <1>5, <1>6, <1>7, <1>8 DEF Next

(* Branches with one direction each cost at most one wrong prediction per  *)
(* history and table entry, however many predictions are in flight and     *)
(* whatever becomes of them (branch_predict, bp_feedback).                 *)
THEOREM SteadyLearned == Spec => []SteadyBranchesLearned
<1>1. SteadyInv => SteadyBranchesLearned
  <2> SUFFICES ASSUME SteadyInv, Steady
               PROVE  total - correct <=
                        2^HistLength * Cardinality({Hash(pc) : pc \in prog.never})
    BY DEF SteadyBranchesLearned, Steady
  <2> DEFINE H == {Hash(pc) : pc \in prog.never}
  <2>1. total - correct = Cardinality(Cold) /\ Cold \subseteq Untaken
    BY DEF SteadyInv
  <2>2. IsFiniteSet(Histories) /\ Cardinality(Histories) = 2^HistLength
    BY FiniteEntries
  <2>3. IsFiniteSet(H)
    <3>1. prog.never \subseteq Nat
      BY BranchPredictorAssumption DEF SteadyInv, Typed, Steady
    <3>2. H \subseteq 0 .. BpSize - 1
      BY <3>1, HashInTable
    <3>3. IsFiniteSet(0 .. BpSize - 1)
      BY BranchPredictorAssumption, FS_Interval
    <3> QED
      BY <3>2, <3>3, FS_Subset
  <2>4. Untaken = Histories \X H
    BY DEF Untaken
  <2> HIDE DEF H
  <2>5. IsFiniteSet(Untaken) /\ Cardinality(Untaken) = Cardinality(Histories) * Cardinality(H)
    BY <2>2, <2>3, <2>4, FS_Product
  <2>6. Cardinality(Cold) <= Cardinality(Untaken)
    BY <2>1, <2>5, FS_Subset
  <2>7. total - correct <= Cardinality(Histories) * Cardinality(H)
    BY <2>1, <2>5, <2>6
  <2> QED
    BY <2>2, <2>7, Zenon DEF H
<1> QED
  BY <1>1, SteadyInit, SteadyStep, PTL DEF Spec

=============================================================================
