SPECIFICATION FairSpec
CONSTANTS
  data = data
  empty = empty
  large = large
  EmptyString = empty
  Strings <- MCStrings
  Large <- MCLarge
  Capacity = 2
INVARIANTS
  TypeOK
  NoLostWakeup
PROPERTIES
  AbstractSpec
