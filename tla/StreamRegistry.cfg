SPECIFICATION FairSpec
CONSTANTS
  m1 = m1
  m2 = m2
  empty = empty
  toobig = toobig
  EmptyString = empty
  Strings <- MCStrings
  Large <- MCLarge
  TooBig <- MCTooBig
  Capacity = 1
  MaxMessages = 0
  Streams = {s1}
  Blocks = {}
  NoStream = NoStream
  Perf = Perf
  Handler = Handler
  TcpStreams = {}
  PerfEnabled = FALSE
  Restarts = {hup}
  Signals = {term}
INVARIANTS CloseOnce NilMeansFinished EndedClosedAll
PROPERTIES CloseEndsRegistry
CHECK_DEADLOCK FALSE
