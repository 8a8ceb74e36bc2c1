-------------------------- MODULE RecvBufferProofs --------------------------
(***************************************************************************)
(* The receive buffer is right for every buffer size, every number of      *)
(* buffers from three on and every stream of packets smaller than a buffer.*)
(*                                                                         *)
(* What makes it right is that the framing loop leaves less than one       *)
(* packet (Leftover), hence less than BufferSize - 1 bytes: then the data, *)
(* when Clean moves it, lies behind the place it is moved to, and at least *)
(* one whole buffer is free afterwards.                                    *)
(***************************************************************************)
EXTENDS RecvBuffer, TLAPS

Leftover ==
  pc \in {"Clean", "Posted"} => DataSize < HeaderSize \/ DataSize < lens[consumed]

ParseBound == pc = "Parse" => processLen <= DataSize

Inv == TypeOK /\ NoOverflow /\ Intact /\ ParseBound /\ Leftover /\ RoomToReceive

\* The buffer has room for three packets.
LEMMA CapacityBound == Capacity \in Nat /\ Capacity >= 3 * BufferSize
<1>1. ASSUME NEW b \in Nat, NEW c \in Nat, 3 <= c
      PROVE  b * c \in Nat /\ b * c >= 3 * b
  <2>1. c - 3 \in Nat /\ b * c = 3 * b + b * (c - 3)
    BY <1>1
  <2>2. b * (c - 3) \in Nat
    BY <2>1
  <2> QED BY <2>1, <2>2
<1> QED
  BY <1>1, SizeAssumption DEF Capacity

\* Less than a packet is less than a buffer.
LEMMA LeftoverBound ==
  ASSUME TypeOK, Leftover, pc \in {"Clean", "Posted"}
  PROVE  DataSize \in Nat /\ DataSize < BufferSize - 1
<1>1. lens[consumed] \in Sizes
  BY DEF TypeOK
<1> QED
  BY <1>1, SizeAssumption, CapacityBound DEF TypeOK, Leftover, Sizes, DataSize

\* The memcpy of Clean is well defined.
LEMMA CleanApart ==
  ASSUME Inv
  PROVE  NoOverlap
BY SizeAssumption, CapacityBound, LeftoverBound
   DEF Inv, TypeOK, NoOverlap, Short, Overlap, FreeSize, DataSize

LEMMA InitInv ==
  ASSUME Init
  PROVE  Inv
<1>1. TypeOK
  BY CapacityBound, StreamAssumption DEF Init, TypeOK
<1>2. NoOverflow /\ ParseBound /\ Intact
  BY DEF Init, NoOverflow, ParseBound, Intact
<1>3. Leftover /\ RoomToReceive
  BY CapacityBound, SizeAssumption DEF Init, Leftover, RoomToReceive, DataSize, FreeSize
<1> QED
  BY <1>1, <1>2, <1>3 DEF Inv

\* A completion appends to the unread bytes and never overflows.
LEMMA CompleteStep ==
  ASSUME Inv, NEW n \in 1..Total, Complete(n)
  PROVE  Inv'
<1> USE SizeAssumption, StreamAssumption, CapacityBound DEF Inv
<1>1. /\ pc' = "Parse" /\ processLen' = 0
      /\ buffer' = [i \in 0..Capacity - 1 |->
                      IF i \in writePos .. writePos + n - 1
                        THEN received + (i - writePos) ELSE buffer[i]]
      /\ writePos' = writePos + n /\ received' = received + n
      /\ readPos' = readPos /\ lens' = lens /\ consumed' = consumed
      /\ n <= FreeSize /\ received + n <= Total
  BY DEF TypeOK, Complete, FreeSize
<1>2. TypeOK'
  <2>1. buffer' \in [0..Capacity - 1 -> -1..Total]
    BY <1>1 DEF TypeOK
  <2>2. writePos' \in readPos'..Capacity /\ received' \in 0..Total
    BY <1>1 DEF TypeOK, FreeSize
  <2> QED BY <1>1, <2>1, <2>2 DEF TypeOK
<1>3. Intact'
  <2>1. ASSUME NEW i \in readPos'..writePos' - 1
        PROVE  buffer'[i] = received' - writePos' + i
    <3>1. i \in 0..Capacity - 1 /\ i \in readPos..writePos + n - 1
      BY <1>1 DEF TypeOK, FreeSize
    <3>2. CASE i < writePos
      <4>1. buffer'[i] = buffer[i] /\ i \in readPos..writePos - 1
        BY <1>1, <3>1, <3>2 DEF TypeOK
      <4>2. buffer[i] = received - writePos + i
        BY <4>1 DEF Intact
      <4> QED BY <1>1, <4>1, <4>2 DEF TypeOK
    <3>3. CASE i >= writePos
      BY <1>1, <3>1, <3>3 DEF TypeOK
    <3> QED BY <3>1, <3>2, <3>3 DEF TypeOK
  <2>2. consumed' = received' - writePos' + readPos' + processLen'
    <3>1. pc # "Parse" /\ consumed = received - writePos + readPos + 0
      BY DEF Complete, Intact
    <3> QED BY <1>1, <3>1 DEF TypeOK
  <2>3. \A i \in readPos'..writePos' - 1 : buffer'[i] = received' - writePos' + i
    BY <2>1
  <2> QED BY <1>1, <2>2, <2>3 DEF Intact
<1>4. ParseBound'
  BY <1>1 DEF ParseBound, TypeOK, DataSize
<1>5. NoOverflow' /\ Leftover' /\ RoomToReceive'
  BY <1>1 DEF NoOverflow, Leftover, RoomToReceive
<1> QED
  BY <1>2, <1>3, <1>4, <1>5

\* At a packet boundary the header that OnRecv reads is that of the stream.
LEMMA HeadOfStream ==
  ASSUME Inv, pc = "Parse", Unparsed >= HeaderSize
  PROVE  Head = lens[consumed] /\ Head \in Sizes
<1> USE SizeAssumption, CapacityBound DEF Inv
<1>1. readPos + processLen \in readPos..writePos - 1
  BY DEF TypeOK, Unparsed, DataSize
<1>2. buffer[readPos + processLen] = received - writePos + (readPos + processLen)
  BY <1>1 DEF Intact
<1>3. consumed = received - writePos + readPos + processLen
  BY DEF Intact
<1>4. buffer[readPos + processLen] = consumed
  BY <1>2, <1>3 DEF TypeOK
<1> QED
  BY <1>4 DEF Head, TypeOK

LEMMA PacketStep ==
  ASSUME Inv, OnRecvPacket
  PROVE  Inv'
<1> USE SizeAssumption, CapacityBound DEF Inv
<1>1. /\ Head \in Sizes /\ Unparsed >= Head /\ pc = "Parse"
      /\ processLen' = processLen + Head /\ consumed' = consumed + Head
      /\ UNCHANGED <<buffer, readPos, writePos, pc, lens, received>>
  BY HeadOfStream DEF OnRecvPacket, PacketComplete
<1>2. consumed = received - writePos + readPos + processLen
  BY <1>1 DEF Intact
<1> HIDE DEF Head
<1>3. processLen' <= DataSize
  BY <1>1 DEF TypeOK, Unparsed, DataSize, Sizes
<1>4. consumed' \in 0..Total /\ processLen' \in 0..Capacity
  <2>1. Head \in Nat /\ consumed \in Nat /\ processLen \in Nat
    BY <1>1 DEF TypeOK, Sizes
  <2>2. consumed' = received - writePos + readPos + processLen'
    BY <1>1, <1>2, <2>1 DEF TypeOK
  <2>3. consumed' <= received
    BY <1>3, <2>2, <1>1, <2>1 DEF TypeOK, DataSize
  <2>4. received <= Total /\ received \in Nat /\ Total \in Nat
    BY StreamAssumption DEF TypeOK
  <2>5. processLen' <= Capacity
    BY <1>3, <1>1, <2>1 DEF TypeOK, DataSize
  <2> QED BY <1>1, <2>1, <2>3, <2>4, <2>5
<1>5. TypeOK'
  BY <1>1, <1>4 DEF TypeOK
<1>6. Intact'
  <2>1. consumed' = received' - writePos' + readPos' + processLen'
    BY <1>1, <1>2 DEF TypeOK, Sizes
  <2>2. \A i \in readPos..writePos - 1 : buffer[i] = received - writePos + i
    BY DEF Intact
  <2> QED BY <1>1, <2>1, <2>2 DEF Intact
<1>7. NoOverflow' /\ ParseBound' /\ Leftover' /\ RoomToReceive'
  BY <1>1, <1>3 DEF NoOverflow, ParseBound, Leftover, RoomToReceive, DataSize
<1> QED
  BY <1>5, <1>6, <1>7

LEMMA ReadStep ==
  ASSUME Inv, OnRead
  PROVE  Inv'
<1> USE SizeAssumption, CapacityBound DEF Inv
<1>1. /\ pc = "Parse" /\ ~PacketComplete
      /\ pc' = "Clean" /\ readPos' = readPos + processLen
      /\ UNCHANGED <<buffer, writePos, processLen, lens, received, consumed>>
      /\ processLen <= DataSize
  BY DEF OnRead, ParseBound, TypeOK, DataSize
<1>2. TypeOK'
  BY <1>1 DEF TypeOK, DataSize
<1>3. Intact'
  <2>1. consumed = received - writePos + readPos + processLen
    BY <1>1 DEF Intact
  <2>2. \A i \in readPos..writePos - 1 : buffer[i] = received - writePos + i
    BY DEF Intact
  <2>3. readPos'..writePos - 1 \subseteq readPos..writePos - 1
    BY <1>1 DEF TypeOK
  <2>4. consumed' = received' - writePos' + readPos' + 0
    BY <1>1, <2>1 DEF TypeOK
  <2> QED BY <1>1, <2>2, <2>3, <2>4 DEF Intact
<1>4. DataSize' = Unparsed
  BY <1>1 DEF TypeOK, DataSize, Unparsed
<1>5. Leftover'
  <2>1. CASE Unparsed < HeaderSize
    BY <1>1, <1>4, <2>1 DEF Leftover
  <2>2. CASE ~(Unparsed < HeaderSize)
    <3>1. Unparsed >= HeaderSize /\ Unparsed \in Int
      BY <2>2 DEF TypeOK, Unparsed, DataSize
    <3>2. Head = lens[consumed] /\ Head \in Int
      BY <1>1, <3>1, HeadOfStream DEF Sizes
    <3>3. Unparsed < lens[consumed]
      BY <1>1, <3>1, <3>2 DEF PacketComplete
    <3> QED BY <1>1, <1>4, <3>3 DEF Leftover
  <2> QED BY <2>1, <2>2
<1>6. NoOverflow' /\ ParseBound' /\ RoomToReceive'
  BY <1>1 DEF NoOverflow, ParseBound, RoomToReceive
<1> QED
  BY <1>2, <1>3, <1>5, <1>6

LEMMA CleanStep ==
  ASSUME Inv, Clean
  PROVE  Inv'
<1> USE SizeAssumption, CapacityBound DEF Inv
<1>1. /\ pc = "Clean" /\ pc' = "Posted"
      /\ UNCHANGED <<processLen, lens, received, consumed>>
  BY DEF Clean
<1>2. DataSize \in Nat /\ DataSize < BufferSize - 1
  BY <1>1, LeftoverBound
<1>3. consumed = received - writePos + readPos + 0
  BY <1>1 DEF Intact
<1>4. \A i \in readPos..writePos - 1 : buffer[i] = received - writePos + i
  BY DEF Intact
<1>5. CASE DataSize = 0 /\ readPos' = 0 /\ writePos' = 0 /\ UNCHANGED buffer
  <2>1. TypeOK'
    BY <1>1, <1>5 DEF TypeOK
  <2>2. Intact'
    BY <1>1, <1>3, <1>5 DEF Intact, TypeOK, DataSize
  <2>3. NoOverflow' /\ ParseBound' /\ Leftover' /\ RoomToReceive'
    BY <1>1, <1>5 DEF NoOverflow, ParseBound, Leftover, RoomToReceive, DataSize, FreeSize
  <2> QED BY <2>1, <2>2, <2>3
<1>6. CASE DataSize # 0 /\ Short /\ buffer' = Moved /\ readPos' = 0 /\ writePos' = DataSize
  <2>1. ~Overlap
    BY <1>1, <1>6, CleanApart DEF NoOverlap
  <2>2. DataSize' = DataSize /\ DataSize <= Capacity
    BY <1>2, <1>6 DEF DataSize, TypeOK
  <2>3. TypeOK'
    <3>1. ASSUME NEW i \in 0..Capacity - 1 PROVE Moved[i] \in -1..Total
      <4>1. i < DataSize => readPos + i \in 0..Capacity - 1
        BY <1>2 DEF TypeOK, DataSize
      <4> QED BY <2>1, <4>1 DEF Moved, TypeOK
    <3>2. Moved \in [0..Capacity - 1 -> -1..Total]
      BY <3>1 DEF Moved
    <3> QED BY <1>1, <1>2, <1>6, <2>2, <3>2 DEF TypeOK
  <2>4. Intact'
    <3>1. ASSUME NEW i \in 0..DataSize - 1
          PROVE  buffer'[i] = received - DataSize + i
      <4>1. readPos + i \in readPos..writePos - 1 /\ i \in 0..Capacity - 1
        BY <1>2, <2>2 DEF TypeOK, DataSize
      <4>2. buffer'[i] = buffer[readPos + i]
        BY <1>2, <1>6, <2>1, <4>1 DEF Moved
      <4>3. buffer[readPos + i] = received - writePos + (readPos + i)
        BY <1>4, <4>1
      <4> QED BY <4>2, <4>3 DEF TypeOK, DataSize
    <3>2. consumed' = received' - writePos' + readPos' + 0
      BY <1>1, <1>3, <1>6 DEF TypeOK, DataSize
    <3> QED BY <1>1, <1>6, <3>1, <3>2 DEF Intact
  <2>5. Leftover'
    BY <1>1, <2>2 DEF Leftover
  <2>6. NoOverflow' /\ ParseBound' /\ RoomToReceive'
    BY <1>1, <1>2, <1>6 DEF NoOverflow, ParseBound, RoomToReceive, FreeSize
  <2> QED BY <2>3, <2>4, <2>5, <2>6
<1>7. CASE DataSize # 0 /\ ~Short /\ UNCHANGED <<buffer, readPos, writePos>>
  <2>1. TypeOK' /\ Leftover'
    BY <1>1, <1>7 DEF TypeOK, Leftover, DataSize
  <2>2. Intact'
    BY <1>1, <1>3, <1>4, <1>7 DEF Intact
  <2>3. NoOverflow' /\ ParseBound' /\ RoomToReceive'
    BY <1>1, <1>7 DEF NoOverflow, ParseBound, RoomToReceive, Short, FreeSize, TypeOK
  <2> QED BY <2>1, <2>2, <2>3
<1> QED
  BY <1>5, <1>6, <1>7 DEF Clean

THEOREM BufferInvariant == Spec => []Inv
<1>1. Init => Inv
  BY InitInv
<1>2. Inv /\ [Next]_vars => Inv'
  <2> SUFFICES ASSUME Inv, [Next]_vars PROVE Inv'
    OBVIOUS
  <2>1. ASSUME NEW n \in 1..Total, Complete(n) PROVE Inv'
    BY <2>1, CompleteStep
  <2>2. CASE OnRecvPacket
    BY <2>2, PacketStep
  <2>3. CASE OnRead
    BY <2>3, ReadStep
  <2>4. CASE Clean
    BY <2>4, CleanStep
  <2>5. CASE UNCHANGED vars
    BY <2>5 DEF vars, Inv, TypeOK, NoOverflow, Intact, ParseBound, Leftover, RoomToReceive,
                DataSize, FreeSize
  <2> QED BY <2>1, <2>2, <2>3, <2>4, <2>5 DEF Next
<1> QED
  BY <1>1, <1>2, PTL DEF Spec

\* TypeOK: the cursors stay in order and within the buffer, and the array keeps
\* bytes of the stream, whatever is received.
THEOREM BufferTypes == Spec => []TypeOK
<1>1. Inv => TypeOK
  BY DEF Inv
<1> QED
  BY <1>1, BufferInvariant, PTL

\* NoOverlap: Clean's memcpy is never called with overlapping areas.
THEOREM CopiesApart == Spec => []NoOverlap
BY BufferInvariant, CleanApart, PTL

\* RoomToReceive: every posted receive has room for a whole buffer.
THEOREM AlwaysRoom == Spec => []RoomToReceive
<1>1. Inv => RoomToReceive
  BY DEF Inv
<1> QED
  BY <1>1, BufferInvariant, PTL

\* Intact: the packets handed over are those of the stream, byte by byte.
THEOREM StreamIntact == Spec => []Intact
<1>1. Inv => Intact
  BY DEF Inv
<1> QED
  BY <1>1, BufferInvariant, PTL

\* NoOverflow: the overflow checks of ProcessRecv never disconnect.
THEOREM NeverOverflows == Spec => []NoOverflow
<1>1. Inv => NoOverflow
  BY DEF Inv
<1> QED
  BY <1>1, BufferInvariant, PTL

\* Prompt: a complete packet never waits for the next receive.
THEOREM PacketsPrompt == Spec => []Prompt
<1>1. Inv => Prompt
  <2> SUFFICES ASSUME Inv, pc = "Posted" PROVE Prompt
    BY DEF Prompt
  <2>1. received - consumed = DataSize
    BY DEF Inv, Intact, TypeOK, DataSize
  <2> QED BY <2>1 DEF Inv, Leftover, Prompt
<1> QED
  BY <1>1, BufferInvariant, PTL
=============================================================================
