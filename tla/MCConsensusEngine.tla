-------------------------- MODULE MCConsensusEngine -------------------------
EXTENDS ConsensusEngine

\* this node owns the odd slots, the others the even ones
Alternate(S, s) ==
  IF Me \in S /\ (s % 2 = 1 \/ S = {Me}) THEN Me ELSE CHOOSE v \in S \ {Me} : TRUE

=============================================================================
