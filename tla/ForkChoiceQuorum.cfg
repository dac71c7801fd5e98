SPECIFICATION FairSpec
CONSTANTS
  Validators = {v1, v2}
  Blocks = {b1, b2}
  None = None
  Whale = v1
  MaxEpoch = 1
  Stake <- EqualStake
  MaxBlocksPerEpoch = 2
  MaxEpochsToKeep = 1
  MaxSafetyRetention = 50
  MaxAttestationsPerBlock = 2
  CheckpointInterval = 10
  CheckpointRelocks = TRUE
  MaxDeliveries = 3
  MaxEpochStake = 3
PROPERTIES
  QuorumJustifies
CHECK_DEADLOCK FALSE
