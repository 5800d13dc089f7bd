-------------------------- MODULE MCBranchPredictor --------------------------
(* Branches that share an entry and take what direction they like, and     *)
(* branches with one direction each.                                       *)
EXTENDS BranchPredictor

Free == [branches |-> {0, 4, 8}, never |-> {}, always |-> {0}]
Steady == [branches |-> {0, 4}, never |-> {4}, always |-> {0}]
MCPrograms == {Free, Steady}

=============================================================================
