SPECIFICATION FairSpec
CONSTANTS
  c1 = c1
  c2 = c2
  empty = empty
  bad = bad
  large = large
  EmptyString = empty
  Strings <- MCStrings
  Large <- MCLarge
  Unparsable <- MCUnparsable
  Capacity = 2
  MaxCommands = 4
  MaxStarts = 2
INVARIANTS SingleConsumer NothingLost
PROPERTIES StopReturns CommandsAreRead
CHECK_DEADLOCK FALSE
