----------------------------- MODULE MCSlashing -----------------------------
EXTENDS Slashing, TLC

SurroundPair == {<<0, 3>>, <<1, 2>>}
NoVotes == {}
SymmetryV == Permutations(Validators)
SymmetryB == Permutations(Blocks)

=============================================================================
