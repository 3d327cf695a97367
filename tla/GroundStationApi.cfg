SPECIFICATION FairSpec
CONSTANTS
  MAX_RETRY_ATTEMPTS = 1
  MaxFrames = 3
  MaxCommands = 2
  HasKey = TRUE
  HasCert = TRUE
INVARIANTS
  TypeOK FramesAccounted CleanStreamDeliversAll OneFramePerStream
  CommandsInOrder
PROPERTIES OutboxSpec StopReturns FramesArrive
CHECK_DEADLOCK FALSE
