SPECIFICATION Spec
CONSTANTS
  Validators = {v1, v2, v3, v4, v5}
  Blocks = {b1, b2, b3, b4, b5}
  None = None
  Whale = v1
  MaxEpoch = 0
  Stake <- EqualStake
  MaxBlocksPerEpoch = 2
  MaxEpochsToKeep = 1
  MaxSafetyRetention = 50
  MaxAttestationsPerBlock = 2
  CheckpointInterval = 10
  CheckpointRelocks = TRUE
  MaxDeliveries = 5
  MaxEpochStake = 3
SYMMETRY SymmetryVB
INVARIANTS
  BlocksPerEpochBounded
CHECK_DEADLOCK FALSE
