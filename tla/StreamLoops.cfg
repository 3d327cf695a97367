SPECIFICATION FairSpec
CONSTANTS
  m1 = m1
  m2 = m2
  empty = empty
  toobig = toobig
  EmptyString = empty
  Strings <- MCOrdered
  Large <- MCLarge
  TooBig <- MCTooBig
  Capacity = 1
  MaxMessages = 2
  Streams = {s1}
  Blocks = {b1}
  NoStream = NoStream
  Perf = Perf
  Handler = Handler
  TcpStreams = {s1}
  PerfEnabled = TRUE
  Restarts = {}
  Signals = {}
INVARIANTS TypeOK WaitGroupExact FreedOnlyUnderLate DrainComplete
PROPERTIES SignalledHandlerEnds
CHECK_DEADLOCK FALSE
