SPECIFICATION Spec
CONSTANTS
  Validators = {v1}
  Blocks = {b1, b2}
  Slots = {1}
  Votes <- SurroundPair
  NotJailed = NotJailed
  MaxTime = 3
  InitialBalance = 100
  MinimumStake = 30
  JailDuration = 2
  AttestationWindow = 1
  RecordWindow = 1
  HistoryLimit = 2
  DoubleVotingPenalty = 50
  SurroundVotingPenalty = 30
  InvalidProposalPenalty = 20
  MinorPenalty = 1
  MajorPenalty = 3
  JailPenalty = 5
  MinorSlashingStart = 1
  MajorSlashingStart = 2
  JailThreshold = 3
  EjectionThreshold = 4
  MaxMisses = 4
  MaxPenalties = 2
  DevMode = FALSE
  CrashesMidway = FALSE
SYMMETRY SymmetryB
INVARIANTS
  TypeOK
  JailServed
  
  
CHECK_DEADLOCK FALSE
