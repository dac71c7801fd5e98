SPECIFICATION Spec
CONSTANTS
  Validators = {v1, v2, v3}
  Blocks = {b1, b2, b3}
  None = None
  Whale = v1
  MaxEpoch = 2
  Stake <- EqualStake
  MaxBlocksPerEpoch = 2
  MaxEpochsToKeep = 1
  MaxSafetyRetention = 50
  MaxAttestationsPerBlock = 2
  CheckpointInterval = 10
  CheckpointRelocks = TRUE
  MaxDeliveries = 5
  MaxEpochStake = 5
SYMMETRY SymmetryVB
INVARIANTS
  EpochStakeBacked
CHECK_DEADLOCK FALSE
