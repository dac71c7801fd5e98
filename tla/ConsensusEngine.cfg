SPECIFICATION FairSpec
CONSTANTS
  Me = me
  Others = {o}
  Schedule <- Alternate
  SlotsPerEpoch = 2
  MinActiveValidators = 2
  ReinitHeight = 1
  GraceHeight = 1
  MissLimit = 1
  BroadcastCap = 1
  ReceiveCap = 1
  IsSyncingRelocks = FALSE
  PeerSlots = {2}
  MaxSlot = 3
  MaxHeight = 2
  MaxRestarts = 1
INVARIANTS
  TypeOK
  OneBroadcastPerEpoch
  ProposalsAreLocal
PROPERTIES
  
  SlotCompletes
CHECK_DEADLOCK FALSE
