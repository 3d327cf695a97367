SPECIFICATION FairSpec
CONSTANTS
  MAX_RETRY_ATTEMPTS = 1
  MaxFrames = 2
  MaxCommands = 0
  HasKey = TRUE
  HasCert = TRUE
PROPERTY StopClosesStream
CHECK_DEADLOCK FALSE
