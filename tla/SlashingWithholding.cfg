SPECIFICATION Spec
CONSTANTS
  Validators = {v1, v2}
  Blocks = {}
  Slots = {1}
  Votes <- NoVotes
  NotJailed = NotJailed
  MaxTime = 4
  InitialBalance = 100
  MinimumStake = 96
  JailDuration = 2
  AttestationWindow = 1
  RecordWindow = 1
  HistoryLimit = 2
  DoubleVotingPenalty = 50
  SurroundVotingPenalty = 30
  InvalidProposalPenalty = 20
  MinorPenalty = 1
  MajorPenalty = 3
  JailPenalty = 5
  MinorSlashingStart = 1
  MajorSlashingStart = 2
  JailThreshold = 3
  EjectionThreshold = 4
  MaxMisses = 4
  MaxPenalties = 2
  DevMode = FALSE
  CrashesMidway = FALSE
INVARIANTS
  WithholdingPenalised
CHECK_DEADLOCK FALSE
