---------------------------- MODULE MCForkChoice ----------------------------
(* Small instances of ForkChoice for TLC.                                   *)
EXTENDS ForkChoice, TLC

\* equal stakes, so that validators are interchangeable
EqualStake == [v \in Validators |-> 1]

\* one validator has a quorum of its own, the other one has not
CONSTANT Whale
UnequalStake == [v \in Validators |-> IF v = Whale THEN 3 ELSE 1]

SymmetryB == Permutations(Blocks)
SymmetryVB == Permutations(Validators) \cup Permutations(Blocks)
=============================================================================
