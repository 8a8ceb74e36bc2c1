----------------------------- MODULE RecvBuffer -----------------------------
(***************************************************************************)
(* The receive buffer of a session (RecvBuffer.cpp) driven by ProcessRecv  *)
(* and by the framing loop PacketSession::OnRecv.  Receives of a session   *)
(* follow one another (RecvExclusive in Session), so the module is         *)
(* sequential; its steps are the completion, each call of OnRecvPacket,    *)
(* the end of the loop and the clean-up.                                   *)
(*                                                                         *)
(* A byte is represented by its position in the stream the peer sends.     *)
(* lens[b] is the size in the header that starts at byte b: the packets of *)
(* the stream start at 0, lens[0], lens[0] + lens[lens[0]] and so on.      *)
(***************************************************************************)
EXTENDS Integers

CONSTANTS
  BufferSize,    \* Session::BUFFER_SIZE, 0x10000
  BufferCount,   \* RecvBuffer::BUFFER_COUNT, 10
  HeaderSize,    \* sizeof(PacketHeader), 4
  Total,         \* bound: bytes the peer sends
  Streams        \* the header sizes considered

Capacity == BufferSize * BufferCount

\* A packet holds its header; its size is a uint16, smaller than the buffer.
Sizes == HeaderSize .. BufferSize - 1

ASSUME SizeAssumption ==
  /\ BufferSize \in Nat /\ BufferCount \in Nat /\ HeaderSize \in Nat
  /\ 0 < HeaderSize /\ HeaderSize < BufferSize
  /\ 3 <= BufferCount
ASSUME StreamAssumption ==
  /\ Total \in Nat
  /\ Streams \subseteq [0..Total -> Sizes]

VARIABLES
  buffer,       \* _buffer: stream positions of its bytes, -1 for none
  readPos,      \* _readPos
  writePos,     \* _writePos
  processLen,   \* of the running OnRecv
  pc,           \* "Posted", "Parse", "Clean" or "Disconnected"
  lens,         \* the stream
  received,     \* bytes received so far
  consumed      \* stream position behind the last packet handed over

vars == <<buffer, readPos, writePos, processLen, pc, lens, received, consumed>>

DataSize == writePos - readPos
FreeSize == Capacity - writePos

Init ==
  /\ buffer = [i \in 0..Capacity - 1 |-> -1]
  /\ readPos = 0 /\ writePos = 0 /\ processLen = 0
  /\ pc = "Posted"
  /\ lens \in Streams
  /\ received = 0 /\ consumed = 0

-----------------------------------------------------------------------------
\* The receive of at most FreeSize bytes completes with n: OnWrite accepts them, or the session
\* disconnects.
Complete(n) ==
  /\ pc = "Posted"
  /\ n <= FreeSize /\ received + n <= Total
  /\ IF n > FreeSize
       THEN pc' = "Disconnected" /\ UNCHANGED <<buffer, writePos, received>>
       ELSE /\ pc' = "Parse"
            /\ buffer' = [i \in 0..Capacity - 1 |->
                            IF i \in writePos .. writePos + n - 1
                              THEN received + (i - writePos) ELSE buffer[i]]
            /\ writePos' = writePos + n
            /\ received' = received + n
  /\ processLen' = 0
  /\ UNCHANGED <<readPos, lens, consumed>>

\* The header OnRecv reads at processLen.
Head == lens[buffer[readPos + processLen]]

Unparsed == DataSize - processLen

\* Mutant: a packet is complete as soon as its header is.
HeaderComplete == Unparsed >= HeaderSize

\* Mutant: off by one.
PacketExceeded == Unparsed > HeaderSize /\ Unparsed > Head

PacketComplete == Unparsed >= HeaderSize /\ Unparsed >= Head

\* One iteration of the loop: OnRecvPacket gets the next packet.
OnRecvPacket ==
  /\ pc = "Parse" /\ PacketComplete
  /\ processLen' = processLen + Head
  /\ consumed' = consumed + Head
  /\ UNCHANGED <<buffer, readPos, writePos, pc, lens, received>>

\* Mutant: the consumed bytes are not read.
OnReadNothing ==
  /\ pc = "Parse" /\ ~PacketComplete
  /\ pc' = "Clean"
  /\ UNCHANGED <<buffer, readPos, writePos, processLen, lens, received, consumed>>

\* The loop ends and ProcessRecv checks and reads what it consumed.
OnRead ==
  /\ pc = "Parse" /\ ~PacketComplete
  /\ IF processLen > DataSize
       THEN pc' = "Disconnected" /\ UNCHANGED readPos
       ELSE pc' = "Clean" /\ readPos' = readPos + processLen
  /\ UNCHANGED <<buffer, writePos, processLen, lens, received, consumed>>

\* Mutant: the data is moved only when the buffer is full.
ShortWhenFull == FreeSize = 0

\* Mutant: the data is moved every time.
ShortAlways == TRUE

Short == FreeSize < BufferSize

\* The source and destination of the memcpy have a byte in common.
Overlap == readPos < DataSize

\* memcpy moves the unread bytes to the front.  With overlapping areas the
\* copy is undefined.
Moved ==
  [i \in 0..Capacity - 1 |->
     IF i < DataSize THEN (IF Overlap THEN -1 ELSE buffer[readPos + i]) ELSE buffer[i]]

\* Clean, after which RegisterRecv posts the next receive.
Clean ==
  /\ pc = "Clean"
  /\ pc' = "Posted"
  /\ \/ /\ DataSize = 0
        /\ readPos' = 0 /\ writePos' = 0
        /\ UNCHANGED buffer
     \/ /\ DataSize # 0 /\ Short
        /\ buffer' = Moved
        /\ readPos' = 0 /\ writePos' = DataSize
     \/ /\ DataSize # 0 /\ ~Short
        /\ UNCHANGED <<buffer, readPos, writePos>>
  /\ UNCHANGED <<processLen, lens, received, consumed>>

Next == (\E n \in 1..Total : Complete(n)) \/ OnRecvPacket \/ OnRead \/ Clean

Spec == Init /\ [][Next]_vars

-----------------------------------------------------------------------------
(* Properties.                                                             *)

\* The cursors stay in the buffer, in their order.
TypeOK ==
  /\ buffer \in [0..Capacity - 1 -> -1..Total]
  /\ readPos \in 0..Capacity /\ writePos \in readPos..Capacity
  /\ processLen \in 0..Capacity
  /\ pc \in {"Posted", "Parse", "Clean", "Disconnected"}
  /\ lens \in [0..Total -> Sizes]
  /\ received \in 0..Total /\ consumed \in 0..Total

\* Every posted receive offers room for the largest packet: never for zero
\* bytes, whose completion ProcessRecv would take for the end of the
\* connection, and never for a part of the packet only.
RoomToReceive == pc = "Posted" => FreeSize >= BufferSize

\* The memcpy of Clean never has overlapping areas.
NoOverlap == (pc = "Clean" /\ DataSize # 0 /\ Short) => ~Overlap

\* Neither overflow check of ProcessRecv ever disconnects a peer.
NoOverflow == pc # "Disconnected"

\* The unread bytes are the newest ones of the stream, in order and intact,
\* and the packets handed over end exactly where the next one starts.
Intact ==
  /\ \A i \in readPos..writePos - 1 : buffer[i] = received - writePos + i
  /\ consumed = received - writePos + readPos + (IF pc = "Parse" THEN processLen ELSE 0)

\* When the next receive is posted no complete packet is left behind.
Prompt ==
  pc = "Posted" => received - consumed < HeaderSize \/ received - consumed < lens[consumed]
=============================================================================
