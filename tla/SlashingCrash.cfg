SPECIFICATION Spec
CONSTANTS
  Validators = {v1}
  Blocks = {b1, b2}
  Slots = {1}
  Votes <- NoVotes
  NotJailed = NotJailed
  MaxTime = 2
  InitialBalance = 100
  MinimumStake = 30
  JailDuration = 1
  AttestationWindow = 1
  RecordWindow = 1
  HistoryLimit = 2
  DoubleVotingPenalty = 50
  SurroundVotingPenalty = 30
  InvalidProposalPenalty = 20
  MinorPenalty = 1
  MajorPenalty = 3
  JailPenalty = 5
  MinorSlashingStart = 1
  MajorSlashingStart = 2
  JailThreshold = 3
  EjectionThreshold = 4
  MaxMisses = 0
  MaxPenalties = 2
  DevMode = TRUE
  CrashesMidway = TRUE
SYMMETRY SymmetryB

  
  
PROPERTIES
  EvidenceStaysSpent
CHECK_DEADLOCK FALSE
