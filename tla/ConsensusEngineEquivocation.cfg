SPECIFICATION Spec
CONSTANTS
  Me = me
  Others = {o}
  Schedule <- Alternate
  SlotsPerEpoch = 2
  MinActiveValidators = 2
  ReinitHeight = 1
  GraceHeight = 1
  MissLimit = 1
  BroadcastCap = 1
  ReceiveCap = 1
  IsSyncingRelocks = TRUE
  PeerSlots = {2}
  MaxSlot = 3
  MaxHeight = 2
  MaxRestarts = 1
INVARIANTS
  NoSelfEquivocation
CHECK_DEADLOCK FALSE
