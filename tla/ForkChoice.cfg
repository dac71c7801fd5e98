SPECIFICATION Spec
CONSTANTS
  Validators = {v1, v2}
  Blocks = {b1, b2, b3}
  None = None
  Whale = v1
  MaxEpoch = 3
  Stake <- UnequalStake
  MaxBlocksPerEpoch = 1
  MaxEpochsToKeep = 2
  MaxSafetyRetention = 3
  MaxAttestationsPerBlock = 1
  CheckpointInterval = 4
  CheckpointRelocks = FALSE
  MaxDeliveries = 5
  MaxEpochStake = 4
SYMMETRY SymmetryB
INVARIANTS
  TypeOK
  ScoreIsSupport
  OnlyEquivocatorsSlashed
  EpochWindowBounded
  JustifiedByQuorum
  
PROPERTIES
  FinalityAdvances
CHECK_DEADLOCK FALSE
