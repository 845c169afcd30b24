SPECIFICATION MCSpec
CONSTANTS
  a = a
  b = b
  c = c
  plain = plain
  other = other
  nan = nan
  Streams <- MCStreams
  NoStream = NoStream
  Values <- MCValues
  Incomparable <- MCIncomparable
  Malformed = Malformed
  NoDocs = NoDocs
  NoValues = NoValues
  MaxPasses = 2
INVARIANTS
  TypeOK
  AcceptedIsFixedPoint
  MeaningKept
  Idempotent
  UnsettledKeptMeaning
PROPERTIES
  Returns
  ImplementsContract
CHECK_DEADLOCK FALSE
