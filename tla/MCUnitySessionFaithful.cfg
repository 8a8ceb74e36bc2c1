SPECIFICATION Spec
CONSTANTS
  BufferSize = 5
  PrefixSize = 1
  HeaderSize = 2
  Total = 7
  MaxSends = 3
  Streams <- MCStreams
INVARIANT
  Faithful
CHECK_DEADLOCK FALSE
