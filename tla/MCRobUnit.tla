------------------------------ MODULE MCRobUnit ------------------------------
(* One instruction of every kind, and a good and a bad guess for a jump; a *)
(* branch is guessed taken, and its outcome decides.                       *)
EXTENDS RobUnit

New(op, dest) == [ROB!ZeroEntry EXCEPT !.op = op, !.dest = dest]
Kinds ==
  {New("REGISTER", 1), New("STORE", ROB!NoDest), New("HCF", 1)}
  \cup {[New("BRANCH", ROB!NoDest) EXCEPT !.take = 1, !.fallback = 2]}
  \cup {[New("JALR", 1) EXCEPT !.value = 3, !.predictedAddr = a] : a \in {0, 2}}

=============================================================================
