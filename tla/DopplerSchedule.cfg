SPECIFICATION FairSpec
CONSTANTS
  Second = 10
  corrections_per_second = 2
  satellite_coordinates <- MCCoordinates
  downlink_frequency = 5
  uplink_frequency = 7
  SPEED_OF_LIGHT = 100
  MAX_RETRY_ATTEMPTS = 1
  MaxTime = 35
  MaxDelay = 2
INVARIANTS
  Punctual StopHeeded ScheduleKept ShiftsInterpolate
PROPERTIES StopReturns
CHECK_DEADLOCK FALSE
