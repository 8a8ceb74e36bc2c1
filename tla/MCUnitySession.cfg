SPECIFICATION FairSpec
CONSTANTS
  BufferSize = 5
  PrefixSize = 1
  HeaderSize = 2
  Total = 7
  MaxSends = 3
  Streams <- MCStreams
INVARIANTS
  TypeOK
  RoomToReceive
  FirstIntact
  SendBacked
  SendWhole
PROPERTY
  SendsLeave
\* The server falls silent after Total bytes.
CHECK_DEADLOCK FALSE
