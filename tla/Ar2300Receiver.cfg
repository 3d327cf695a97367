SPECIFICATION FairSpec
CONSTANTS
  t1 = t1
  t2 = t2
  NoTransfer = NoTransfer
  Transfers <- MCTransfers
  Capacity = 3
  PacketLen = 2
  MaxBytes = 6
INVARIANTS TypeOK FreedWhenQuiet
PROPERTIES GapEndsReading StopReturns
CHECK_DEADLOCK FALSE
