SPECIFICATION Spec
CONSTANTS
  BufferSize = 5
  BufferCount = 3
  HeaderSize = 2
  Total = 20
  Streams <- MCStreams
INVARIANTS
  TypeOK
  RoomToReceive
  NoOverlap
  Intact
  Prompt
\* The peer stops after Total bytes.
CHECK_DEADLOCK FALSE
