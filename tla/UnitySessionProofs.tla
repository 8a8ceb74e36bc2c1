------------------------- MODULE UnitySessionProofs -------------------------
(***************************************************************************)
(* What holds of the client's session for any sizes, streams and numbers   *)
(* of sends.                                                               *)
(*                                                                         *)
(* Control: the lock is held by exactly the thread that is inside Send or  *)
(* OnSendCompleted, and the socket is closed only behind _disconnected, so *)
(* the exception of SendAsync cannot strand a live connection.             *)
(* Cursors: Clean leaves the rest of one packet at the front of the array, *)
(* and a packet is no larger than the array.                               *)
(* Numbers: the buffers being sent continue the wire, _pendingList is the  *)
(* list being sent and _sendQueue continues it while the connection lives. *)
(***************************************************************************)
EXTENDS UnitySession, TLAPS

\* The locks and the flags.
Control ==
  /\ disconnected \in BOOLEAN /\ closed \in BOOLEAN /\ sendPosted \in BOOLEAN
  /\ pc \in [Threads -> {"Idle"} \cup SendSteps \cup DisconnectSteps \cup RecvSteps]
  /\ pc["recv"] \notin SendSteps
  /\ \A t \in {"main", "send"} :
       pc[t] \notin RecvSteps /\ (lock = t <=> pc[t] # "Idle")
  /\ lock \in {"main", "send", Nobody}
  /\ closed \/ (\E t \in Threads : pc[t] \in {"Shutdown", "Clear"}) => disconnected

Cursors ==
  /\ lens \in [0..Total -> Sizes]
  /\ readPos \in Nat /\ writePos \in Nat /\ processLength \in Nat /\ origin \in Nat
  /\ readPos <= writePos /\ writePos <= BufferSize
  /\ processLength <= DataSize
  /\ received = origin + writePos /\ received <= Total

\* Nothing is being parsed, and what is left is not yet a packet.
Between ==
  /\ pc["recv"] \in {"RegisterRecv", "ReceiveAsync", "Receiving"} =>
       /\ processLength = 0
       /\ DataSize >= PrefixSize => DataSize < Size
  /\ pc["recv"] \in {"ReceiveAsync", "Receiving", "OnRecv", "Deaf"} => readPos = 0

Inbox ==
  /\ inbox \in Seq([right : BOOLEAN, first : BOOLEAN])
  /\ popped \in 0..Len(inbox)
  /\ FirstIntact

Lists ==
  /\ nSent \in Nat
  /\ sendQueue \in Seq(Nat) /\ pendingList \in Seq(Nat)
  /\ bufferList \in Seq(Nat) /\ wire \in Seq(Nat)

\* SendBacked, and what stands for it while the lock is held.
Backed ==
  ~disconnected =>
    /\ lock = Nobody => SendBacked
    /\ \A t \in {"main", "send"} :
         /\ pc[t] = "RegisterSend" => ~sendPosted /\ pendingList = <<>> /\ sendQueue # <<>>
         /\ pc[t] = "SendAsync" => ~sendPosted /\ pendingList # <<>> /\ sendQueue = <<>>
         /\ pc[t] = "OnSendCompleted" => ~sendPosted

Numbers ==
  /\ \A i \in 1..Len(wire) : wire[i] = i
  /\ \A i \in 1..Len(bufferList) : bufferList[i] = Len(wire) + i
  /\ ~disconnected =>
       /\ pendingList = bufferList
       /\ nSent = Len(wire) + Len(bufferList) + Len(sendQueue)
       /\ \A i \in 1..Len(sendQueue) : sendQueue[i] = Len(wire) + Len(bufferList) + i

\* The lock follows the control, and only a disconnected socket is closed.
LEMMA ControlStep ==
  ASSUME Control, [Next]_vars
  PROVE  Control'
<1> USE DEF Go, Leave, Nobody, Threads, SendSteps, DisconnectSteps, RecvSteps, socketVars,
           sendVars, recvVars
<1>1. ASSUME Send PROVE Control'
  BY <1>1 DEF Control, Send
<1>2. ASSUME SendCompletes PROVE Control'
  BY <1>2 DEF Control, SendCompletes
<1>3. ASSUME Update PROVE Control'
  BY <1>3 DEF Control, Update
<1>4. ASSUME RegisterRecv PROVE Control'
  BY <1>4 DEF Control, RegisterRecv, Clean
<1>5. ASSUME ReceiveAsync PROVE Control'
  BY <1>5 DEF Control, ReceiveAsync
<1>6. ASSUME OnRecvPacket PROVE Control'
  BY <1>6 DEF Control, OnRecvPacket, ParsesOwnBody, PacketComplete
<1>7. ASSUME OnRead PROVE Control'
  BY <1>7 DEF Control, OnRead
<1>8. ASSUME NEW n \in 0..Total, OnRecvCompleted(n) PROVE Control'
  BY <1>8 DEF Control, OnRecvCompleted
<1>9. ASSUME NEW t \in Threads, RegisterSend(t) PROVE Control'
  BY <1>9 DEF Control, RegisterSend
<1>10. ASSUME NEW t \in Threads, SendAsync(t) PROVE Control'
  BY <1>10 DEF Control, SendAsync
<1>11. ASSUME NEW t \in Threads, OnSendCompleted(t) PROVE Control'
  BY <1>11 DEF Control, OnSendCompleted, BatchCleared
<1>12. ASSUME NEW t \in Threads, Disconnect(t) PROVE Control'
  BY <1>12 DEF Control, Disconnect
<1>13. ASSUME NEW t \in Threads, Shutdown(t) PROVE Control'
  <2>1. disconnected /\ disconnected' = disconnected /\ closed' \in BOOLEAN /\ sendPosted' = sendPosted
    BY <1>13 DEF Shutdown, Control
  <2>2. CASE Go(t, "Clear") /\ UNCHANGED lock
    BY <1>13, <2>1, <2>2 DEF Shutdown, Control
  <2>3. CASE Leave(t)
    BY <1>13, <2>1, <2>3 DEF Shutdown, Control
  <2> QED BY <1>13, <2>2, <2>3 DEF Shutdown
<1>14. ASSUME NEW t \in Threads, Clear(t) PROVE Control'
  BY <1>14 DEF Control, Clear
<1>15. ASSUME UNCHANGED vars PROVE Control'
  BY <1>15 DEF Control, vars
<1> QED
  BY <1>1, <1>2, <1>3, <1>4, <1>5, <1>6, <1>7, <1>8, <1>9, <1>10, <1>11, <1>12, <1>13, <1>14,
     <1>15 DEF Next, Receive, Inside

\* The cursors stay in the array, and the array in the stream.
LEMMA CursorsStep ==
  ASSUME Cursors, [Next]_vars
  PROVE  Cursors'
<1> USE DEF DataSize, FreeSize, Offset, Unparsed, socketVars, sendVars, recvVars
<1>50. Size \in Sizes /\ Size \in Nat
  BY SizeAssumption, BoundAssumption DEF Size, Sizes, Cursors
<1> DEFINE Kept == UNCHANGED <<lens, readPos, writePos, processLength, origin, received>>
<1>0. ASSUME Kept PROVE Cursors'
  BY <1>0 DEF Cursors
<1> HIDE DEF Kept
<1>1. ASSUME Send PROVE Kept
  BY <1>1 DEF Kept, Send
<1>2. ASSUME SendCompletes PROVE Kept
  BY <1>2 DEF Kept, SendCompletes
<1>3. ASSUME Update PROVE Kept
  BY <1>3 DEF Kept, Update
<1>4. ASSUME RegisterRecv PROVE Cursors'
  <2>1. CASE disconnected
    BY <1>4, <2>1 DEF RegisterRecv, Cursors
  <2>2. CASE Clean
    <3>1. /\ readPos' = 0 /\ writePos' = writePos - readPos /\ origin' = origin + readPos
          /\ UNCHANGED <<lens, received, processLength>>
      BY <1>4, <2>2 DEF RegisterRecv, Clean
    <3>2. readPos \in Nat /\ writePos \in Nat /\ origin \in Nat /\ readPos <= writePos
      BY DEF Cursors
    <3>3. /\ readPos' \in Nat /\ writePos' \in Nat /\ origin' \in Nat /\ readPos' <= writePos'
          /\ writePos' - readPos' = writePos - readPos /\ writePos' <= writePos
          /\ origin' + writePos' = origin + writePos
      BY <3>1, <3>2
    <3> QED BY <3>1, <3>3, SizeAssumption DEF Cursors
  <2> QED BY <1>4, <2>1, <2>2 DEF RegisterRecv
<1>5. ASSUME ReceiveAsync PROVE Kept
  BY <1>5 DEF Kept, ReceiveAsync
<1>6. ASSUME OnRecvPacket PROVE Cursors'
  <2>1. Size \in Nat
    BY <1>50
  <2> QED BY <1>6, <2>1 DEF OnRecvPacket, PacketComplete, Cursors
<1>7. ASSUME OnRead PROVE Cursors'
  BY <1>7 DEF OnRead, Cursors
<1>8. ASSUME NEW n \in 0..Total, OnRecvCompleted(n) PROVE Cursors'
  BY <1>8, SizeAssumption, BoundAssumption DEF OnRecvCompleted, Cursors
<1>9. ASSUME NEW t \in Threads, RegisterSend(t) PROVE Kept
  BY <1>9 DEF Kept, RegisterSend
<1>10. ASSUME NEW t \in Threads, SendAsync(t) PROVE Kept
  BY <1>10 DEF Kept, SendAsync
<1>11. ASSUME NEW t \in Threads, OnSendCompleted(t) PROVE Kept
  BY <1>11 DEF Kept, OnSendCompleted, BatchCleared
<1>12. ASSUME NEW t \in Threads, Disconnect(t) PROVE Kept
  BY <1>12 DEF Kept, Disconnect
<1>13. ASSUME NEW t \in Threads, Shutdown(t) PROVE Kept
  BY <1>13 DEF Kept, Shutdown
<1>14. ASSUME NEW t \in Threads, Clear(t) PROVE Kept
  BY <1>14 DEF Kept, Clear
<1>15. ASSUME UNCHANGED vars PROVE Kept
  BY <1>15 DEF Kept, vars
<1> QED
  BY <1>0, <1>1, <1>2, <1>3, <1>4, <1>5, <1>6, <1>7, <1>8, <1>9, <1>10, <1>11, <1>12, <1>13,
     <1>14, <1>15 DEF Next, Receive, Inside

\* Behind the loop less than a packet is left, and Clean moves it to the
\* front.
LEMMA BetweenStep ==
  ASSUME Control, Cursors, Between, [Next]_vars
  PROVE  Between'
<1> USE DEF Go, Threads, DataSize, FreeSize, Offset, Unparsed, socketVars, sendVars, recvVars,
           SendSteps, DisconnectSteps, RecvSteps
<1>50. Size \in Nat
  BY SizeAssumption, BoundAssumption DEF Size, Sizes, Cursors
<1> DEFINE Kept == /\ UNCHANGED <<lens, readPos, writePos, processLength, origin>>
                   /\ pc'["recv"] = pc["recv"]
<1>0. ASSUME Kept PROVE Between'
  BY <1>0 DEF Between, Size
<1> HIDE DEF Kept
<1>1. ASSUME Send PROVE Kept
  BY <1>1 DEF Kept, Control, Send
<1>2. ASSUME SendCompletes PROVE Kept
  BY <1>2 DEF Kept, Control, SendCompletes
<1>3. ASSUME Update PROVE Kept
  BY <1>3 DEF Kept, Update
<1>4. ASSUME RegisterRecv PROVE Between'
  <2>1. CASE disconnected
    BY <1>4, <2>1 DEF RegisterRecv, Between, Control
  <2>2. CASE Clean /\ pc'["recv"] = "ReceiveAsync"
    <3>1. /\ readPos' = 0 /\ writePos' = writePos - readPos /\ origin' = origin + readPos
          /\ UNCHANGED <<lens, processLength>> /\ processLength = 0
          /\ DataSize >= PrefixSize => DataSize < Size
      BY <1>4, <2>2 DEF RegisterRecv, Clean, Between
    <3>2. DataSize' = DataSize /\ origin' + (readPos' + processLength') = origin + (readPos + processLength)
      BY <3>1 DEF Cursors
    <3>3. Size' = Size
      BY <3>1, <3>2 DEF Size
    <3> QED BY <2>2, <3>1, <3>2, <3>3 DEF Between
  <2> QED BY <1>4, <2>1, <2>2 DEF RegisterRecv, Control
<1>5. ASSUME ReceiveAsync PROVE Between'
  BY <1>5 DEF ReceiveAsync, Between, Size
<1>6. ASSUME OnRecvPacket PROVE Between'
  BY <1>6 DEF OnRecvPacket, Between, Control
<1>7. ASSUME OnRead PROVE Between'
  <2>1. pc'["recv"] \in {"RegisterRecv", "Disconnect"} /\ processLength' = 0
    BY <1>7 DEF OnRead, Control
  <2>2. pc["recv"] = "OnRecv" /\ readPos' = readPos + processLength /\ writePos' = writePos /\ Size' = Size
    BY <1>7 DEF OnRead, Cursors, Size
  <2>3. DataSize' = Unparsed /\ ~PacketComplete
    BY <1>7, <2>2 DEF OnRead, Cursors
  <2>4. Size \in Int /\ Unparsed \in Int /\ PrefixSize \in Int
    BY <1>50, SizeAssumption DEF Cursors
  <2> QED BY <2>1, <2>2, <2>3, <2>4 DEF PacketComplete, Between
<1>8. ASSUME NEW n \in 0..Total, OnRecvCompleted(n) PROVE Between'
  BY <1>8 DEF OnRecvCompleted, Between, Control
<1>9. ASSUME NEW t \in Threads, RegisterSend(t) PROVE Kept
  BY <1>9 DEF Kept, Leave, Control, RegisterSend
<1>10. ASSUME NEW t \in Threads, SendAsync(t) PROVE Kept
  BY <1>10 DEF Kept, Leave, Control, SendAsync
<1>11. ASSUME NEW t \in Threads, OnSendCompleted(t) PROVE Kept
  BY <1>11 DEF Kept, Leave, Control, OnSendCompleted, BatchCleared
<1>12. ASSUME NEW t \in Threads, Disconnect(t) PROVE Between'
  BY <1>12 DEF Disconnect, Leave, Between, Size, Control
<1>13. ASSUME NEW t \in Threads, Shutdown(t) PROVE Between'
  BY <1>13 DEF Shutdown, Leave, Between, Size, Control
<1>14. ASSUME NEW t \in Threads, Clear(t) PROVE Between'
  BY <1>14 DEF Clear, Leave, Between, Size, Control
<1>15. ASSUME UNCHANGED vars PROVE Kept
  BY <1>15 DEF Kept, vars
<1> QED
  BY <1>0, <1>1, <1>2, <1>3, <1>4, <1>5, <1>6, <1>7, <1>8, <1>9, <1>10, <1>11, <1>12, <1>13,
     <1>14, <1>15 DEF Next, Receive, Inside

\* A packet behind no other is decoded from its own bytes.
LEMMA InboxStep ==
  ASSUME Control, Cursors, Between, Inbox, [Next]_vars
  PROVE  Inbox'
<1> USE DEF Go, Leave, Threads, socketVars, sendVars, recvVars, SendSteps, DisconnectSteps,
           RecvSteps
<1> DEFINE Kept == /\ UNCHANGED <<inbox, popped>>
                   /\ pc'["recv"] = "Deaf" => pc["recv"] = "Deaf" /\ processLength' = processLength
<1>0. ASSUME Kept PROVE Inbox'
  BY <1>0 DEF Inbox, FirstIntact
<1> HIDE DEF Kept
<1>1. ASSUME Send PROVE Kept
  BY <1>1 DEF Kept, Control, Send
<1>2. ASSUME SendCompletes PROVE Kept
  BY <1>2 DEF Kept, Control, SendCompletes
<1>3. ASSUME Update PROVE Inbox'
  BY <1>3 DEF Update, Inbox, FirstIntact
<1>4. ASSUME RegisterRecv PROVE Kept
  BY <1>4 DEF Kept, Control, RegisterRecv, Clean
<1>5. ASSUME ReceiveAsync PROVE Kept
  BY <1>5 DEF Kept, Control, ReceiveAsync
<1>6. ASSUME OnRecvPacket PROVE Inbox'
  <2>1. readPos = 0 /\ pc["recv"] = "OnRecv" /\ (processLength = 0 => ParsesOwnBody)
    BY <1>6 DEF OnRecvPacket, Between, Offset, ParsesOwnBody, Cursors
  <2>2. CASE UNCHANGED inbox
    BY <1>6, <2>1, <2>2 DEF OnRecvPacket, Inbox, FirstIntact, Control
  <2>3. ASSUME NEW right \in BOOLEAN, ParsesOwnBody => right, UNCHANGED pc,
               inbox' = Append(inbox, [right |-> right, first |-> processLength = 0])
        PROVE  Inbox'
    <3>1. inbox \in Seq([right : BOOLEAN, first : BOOLEAN]) /\ popped' = popped /\ popped \in 0..Len(inbox)
      BY <1>6 DEF OnRecvPacket, Inbox
    <3> DEFINE p == [right |-> right, first |-> processLength = 0]
    <3>2. p \in [right : BOOLEAN, first : BOOLEAN] /\ (p.first => p.right)
      BY <2>1, <2>3
    <3> HIDE DEF p
    <3>3. inbox' = Append(inbox, p)
      BY <2>3 DEF p
    <3>4. /\ inbox' \in Seq([right : BOOLEAN, first : BOOLEAN])
          /\ Len(inbox') = Len(inbox) + 1 /\ Len(inbox) \in Nat
          /\ inbox'[Len(inbox) + 1] = p
          /\ \A i \in 1..Len(inbox) : inbox'[i] = inbox[i]
      BY <3>1, <3>2, <3>3
    <3>5. \A i \in 1..Len(inbox') : inbox'[i].first => inbox'[i].right
      BY <3>2, <3>4 DEF Inbox, FirstIntact
    <3>6. pc'["recv"] # "Deaf"
      BY <2>1, <2>3
    <3> QED BY <3>1, <3>4, <3>5, <3>6 DEF Inbox, FirstIntact
  <2> QED BY <1>6, <2>2, <2>3 DEF OnRecvPacket
<1>7. ASSUME OnRead PROVE Kept
  BY <1>7 DEF Kept, Control, OnRead
<1>8. ASSUME NEW n \in 0..Total, OnRecvCompleted(n) PROVE Kept
  BY <1>8 DEF Kept, Control, OnRecvCompleted
<1>9. ASSUME NEW t \in Threads, RegisterSend(t) PROVE Kept
  BY <1>9 DEF Kept, Control, RegisterSend
<1>10. ASSUME NEW t \in Threads, SendAsync(t) PROVE Kept
  BY <1>10 DEF Kept, Control, SendAsync
<1>11. ASSUME NEW t \in Threads, OnSendCompleted(t) PROVE Kept
  BY <1>11 DEF Kept, Control, OnSendCompleted, BatchCleared
<1>12. ASSUME NEW t \in Threads, Disconnect(t) PROVE Kept
  BY <1>12 DEF Kept, Control, Disconnect
<1>13. ASSUME NEW t \in Threads, Shutdown(t) PROVE Kept
  BY <1>13 DEF Kept, Control, Shutdown
<1>14. ASSUME NEW t \in Threads, Clear(t) PROVE Kept
  BY <1>14 DEF Kept, Control, Clear
<1>15. ASSUME UNCHANGED vars PROVE Kept
  BY <1>15 DEF Kept, vars
<1> QED
  BY <1>0, <1>1, <1>2, <1>3, <1>4, <1>5, <1>6, <1>7, <1>8, <1>9, <1>10, <1>11, <1>12, <1>13,
     <1>14, <1>15 DEF Next, Receive, Inside

-----------------------------------------------------------------------------
\* The lists hold buffers.
LEMMA ListsStep ==
  ASSUME Lists, [Next]_vars
  PROVE  Lists'
<1> USE DEF socketVars, sendVars, recvVars
<1> DEFINE Kept == UNCHANGED <<nSent, sendQueue, pendingList, bufferList, wire>>
<1>0. ASSUME Kept PROVE Lists'
  BY <1>0 DEF Lists
<1> HIDE DEF Kept
<1>1. ASSUME Send PROVE Lists'
  BY <1>1 DEF Send, Lists
<1>2. ASSUME SendCompletes PROVE Kept
  BY <1>2 DEF Kept, SendCompletes
<1>3. ASSUME Update PROVE Kept
  BY <1>3 DEF Kept, Update
<1>4. ASSUME RegisterRecv PROVE Kept
  BY <1>4 DEF Kept, RegisterRecv, Clean
<1>5. ASSUME ReceiveAsync PROVE Kept
  BY <1>5 DEF Kept, ReceiveAsync
<1>6. ASSUME OnRecvPacket PROVE Kept
  BY <1>6 DEF Kept, OnRecvPacket, ParsesOwnBody, PacketComplete
<1>7. ASSUME OnRead PROVE Kept
  BY <1>7 DEF Kept, OnRead
<1>8. ASSUME NEW n \in 0..Total, OnRecvCompleted(n) PROVE Kept
  BY <1>8 DEF Kept, OnRecvCompleted
<1>9. ASSUME NEW t \in Threads, RegisterSend(t) PROVE Lists'
  <2>1. pendingList \o sendQueue \in Seq(Nat) /\ <<>> \in Seq(Nat)
    BY DEF Lists
  <2> QED BY <1>9, <2>1 DEF RegisterSend, Lists
<1>10. ASSUME NEW t \in Threads, SendAsync(t) PROVE Kept
  BY <1>10 DEF Kept, SendAsync
<1>11. ASSUME NEW t \in Threads, OnSendCompleted(t) PROVE Lists'
  <2>1. wire \o bufferList \in Seq(Nat) /\ <<>> \in Seq(Nat)
    BY DEF Lists
  <2> QED BY <1>11, <2>1 DEF OnSendCompleted, BatchCleared, Lists
<1>12. ASSUME NEW t \in Threads, Disconnect(t) PROVE Kept
  BY <1>12 DEF Kept, Disconnect
<1>13. ASSUME NEW t \in Threads, Shutdown(t) PROVE Kept
  BY <1>13 DEF Kept, Shutdown
<1>14. ASSUME NEW t \in Threads, Clear(t) PROVE Lists'
  BY <1>14 DEF Clear, Lists
<1>15. ASSUME UNCHANGED vars PROVE Kept
  BY <1>15 DEF Kept, vars
<1> QED
  BY <1>0, <1>1, <1>2, <1>3, <1>4, <1>5, <1>6, <1>7, <1>8, <1>9, <1>10, <1>11, <1>12, <1>13,
     <1>14, <1>15 DEF Next, Receive, Inside

\* The lock is released with a posted send or with nothing to send.
LEMMA BackedStep ==
  ASSUME Control, Lists, Backed, [Next]_vars
  PROVE  Backed'
<1> USE DEF Go, Leave, Nobody, Threads, SendSteps, DisconnectSteps, RecvSteps, socketVars,
           sendVars, recvVars
<1> DEFINE Kept == /\ disconnected' = disconnected
                   /\ UNCHANGED <<sendPosted, pendingList, sendQueue, lock>>
                   /\ \A u \in {"main", "send"} : pc'[u] = pc[u]
<1>0. ASSUME Kept PROVE Backed'
  BY <1>0 DEF Backed, SendBacked
<1> HIDE DEF Kept
<1>1. ASSUME Send PROVE Backed'
  <2>1. sendQueue' # <<>>
    <3>1. sendQueue' = Append(sendQueue, nSent + 1) /\ sendQueue \in Seq(Nat) /\ nSent + 1 \in Nat
      BY <1>1 DEF Send, Lists
    <3>2. Len(sendQueue') = Len(sendQueue) + 1 /\ Len(sendQueue) \in Nat
      BY <3>1
    <3> QED BY <3>2
  <2> QED BY <1>1, <2>1 DEF Send, Backed, SendBacked, Control
<1>2. ASSUME SendCompletes PROVE Backed'
  BY <1>2 DEF SendCompletes, Backed, SendBacked, Control
<1>3. ASSUME Update PROVE Kept
  BY <1>3 DEF Kept, Update
<1>4. ASSUME RegisterRecv PROVE Kept
  BY <1>4 DEF Kept, Control, RegisterRecv, Clean
<1>5. ASSUME ReceiveAsync PROVE Kept
  BY <1>5 DEF Kept, Control, ReceiveAsync
<1>6. ASSUME OnRecvPacket PROVE Kept
  BY <1>6 DEF Kept, Control, OnRecvPacket, ParsesOwnBody, PacketComplete
<1>7. ASSUME OnRead PROVE Kept
  BY <1>7 DEF Kept, Control, OnRead
<1>8. ASSUME NEW n \in 0..Total, OnRecvCompleted(n) PROVE Kept
  BY <1>8 DEF Kept, Control, OnRecvCompleted
<1>9. ASSUME NEW t \in Threads, RegisterSend(t) PROVE Backed'
  <2>1. CASE disconnected
    BY <1>9, <2>1 DEF RegisterSend, Backed
  <2>2. CASE ~disconnected
    <3>1. /\ pc' = [pc EXCEPT ![t] = "SendAsync"] /\ UNCHANGED <<lock, sendPosted>>
          /\ sendQueue' = <<>> /\ pendingList' = pendingList \o sendQueue
      BY <1>9, <2>2 DEF RegisterSend
    <3>2. t \in {"main", "send"} /\ pc[t] = "RegisterSend" /\ lock = t
      BY <1>9 DEF RegisterSend, Control
    <3>3. ~sendPosted /\ pendingList = <<>> /\ sendQueue # <<>>
      BY <2>2, <3>2 DEF Backed
    <3>4. pendingList' # <<>>
      BY <3>1, <3>3 DEF Lists
    <3>5. \A u \in {"main", "send"} : u # t => pc'[u] = "Idle"
      BY <3>1, <3>2 DEF Control
    <3>6. lock' # Nobody
      BY <3>1, <3>2
    <3>7. pc'[t] = "SendAsync"
      BY <3>1 DEF Control
    <3> QED BY <3>1, <3>3, <3>4, <3>5, <3>6, <3>7 DEF Backed
  <2> QED BY <2>1, <2>2
<1>10. ASSUME NEW t \in Threads, SendAsync(t) PROVE Backed'
  <2>1. t \in {"main", "send"} /\ pc[t] = "SendAsync" /\ lock = t
    BY <1>10 DEF SendAsync, Control
  <2>2. CASE disconnected
    BY <1>10, <2>2 DEF SendAsync, Backed
  <2>3. CASE ~disconnected
    <3>1. ~sendPosted /\ pendingList # <<>> /\ sendQueue = <<>> /\ ~closed
      BY <2>1, <2>3 DEF Backed, Control
    <3> QED BY <1>10, <2>1, <3>1 DEF SendAsync, Backed, SendBacked, Control
  <2> QED BY <2>2, <2>3
<1>11. ASSUME NEW t \in Threads, OnSendCompleted(t) PROVE Backed'
  <2>1. t \in {"main", "send"} /\ pc[t] = "OnSendCompleted" /\ lock = t
    BY <1>11 DEF OnSendCompleted, Control
  <2>2. CASE disconnected
    BY <1>11, <2>2 DEF OnSendCompleted, Backed
  <2>3. CASE ~disconnected
    <3>1. ~sendPosted
      BY <2>1, <2>3 DEF Backed
    <3>2. CASE Go(t, "Disconnect") /\ UNCHANGED lock
      BY <1>11, <2>1, <3>1, <3>2 DEF OnSendCompleted, Backed, Control
    <3>3. CASE BatchCleared /\ MoreQueued /\ Go(t, "RegisterSend") /\ UNCHANGED lock
      BY <1>11, <2>1, <3>1, <3>3 DEF OnSendCompleted, BatchCleared, MoreQueued, Backed, Control
    <3>4. CASE BatchCleared /\ ~MoreQueued /\ Leave(t)
      BY <1>11, <2>1, <3>1, <3>4 DEF OnSendCompleted, BatchCleared, MoreQueued, Backed, SendBacked, Control
    <3> QED BY <1>11, <3>2, <3>3, <3>4 DEF OnSendCompleted
  <2> QED BY <2>2, <2>3
<1>12. ASSUME NEW t \in Threads, Disconnect(t) PROVE Backed'
  BY <1>12 DEF Disconnect, Backed
<1>13. ASSUME NEW t \in Threads, Shutdown(t) PROVE Backed'
  BY <1>13 DEF Shutdown, Backed, Control
<1>14. ASSUME NEW t \in Threads, Clear(t) PROVE Backed'
  BY <1>14 DEF Clear, Backed, Control
<1>15. ASSUME UNCHANGED vars PROVE Kept
  BY <1>15 DEF Kept, vars
<1> QED
  BY <1>0, <1>1, <1>2, <1>3, <1>4, <1>5, <1>6, <1>7, <1>8, <1>9, <1>10, <1>11, <1>12, <1>13,
     <1>14, <1>15 DEF Next, Receive, Inside

\* What is appended to a sequence of numbers that follow base follows it.
LEMMA Following ==
  ASSUME NEW s \in Seq(Nat), NEW u \in Seq(Nat), NEW base \in Nat,
         \A i \in 1..Len(s) : s[i] = base + i,
         \A i \in 1..Len(u) : u[i] = base + Len(s) + i
  PROVE  /\ s \o u \in Seq(Nat) /\ Len(s \o u) = Len(s) + Len(u)
         /\ \A i \in 1..Len(s \o u) : (s \o u)[i] = base + i
<1> DEFINE r == s \o u
<1>1. /\ r \in Seq(Nat) /\ Len(r) = Len(s) + Len(u) /\ Len(s) \in Nat /\ Len(u) \in Nat
      /\ \A i \in 1..Len(s) : r[i] = s[i]
      /\ \A i \in 1..Len(u) : r[Len(s) + i] = u[i]
  OBVIOUS
<1> HIDE DEF r
<1>2. ASSUME NEW i \in 1..Len(r) PROVE r[i] = base + i
  <2>1. CASE i <= Len(s)
    BY <1>1, <2>1
  <2>2. CASE i > Len(s)
    <3>1. i - Len(s) \in 1..Len(u) /\ i = Len(s) + (i - Len(s))
      BY <1>1, <2>2
    <3>2. r[i] = u[i - Len(s)] /\ u[i - Len(s)] = base + Len(s) + (i - Len(s))
      BY <1>1, <3>1
    <3> QED BY <1>1, <3>2
  <2> QED BY <1>1, <2>1, <2>2
<1> QED BY <1>1, <1>2 DEF r

\* The list being sent continues the wire, and the queue continues both.
LEMMA NumbersStep ==
  ASSUME Control, Lists, Backed, Numbers, [Next]_vars
  PROVE  Numbers'
<1> USE DEF Go, Leave, Threads, socketVars, sendVars, recvVars
<1> DEFINE Kept == /\ disconnected => disconnected'
                   /\ UNCHANGED <<wire, bufferList, pendingList, sendQueue, nSent>>
<1>0. ASSUME Kept PROVE Numbers'
  BY <1>0 DEF Numbers
<1> HIDE DEF Kept
<1>1. ASSUME Send PROVE Numbers'
  <2>1. /\ UNCHANGED <<disconnected, wire, bufferList, pendingList>> /\ nSent' = nSent + 1
        /\ sendQueue' = Append(sendQueue, nSent + 1)
    BY <1>1 DEF Send
  <2>2. /\ Len(sendQueue') = Len(sendQueue) + 1 /\ Len(sendQueue) \in Nat
        /\ sendQueue'[Len(sendQueue) + 1] = nSent + 1
        /\ \A i \in 1..Len(sendQueue) : sendQueue'[i] = sendQueue[i]
        /\ Len(wire) \in Nat /\ Len(bufferList) \in Nat
    BY <2>1 DEF Lists
  <2>3. CASE disconnected
    BY <2>1, <2>3 DEF Numbers
  <2>4. CASE ~disconnected
    <3>1. nSent = Len(wire) + Len(bufferList) + Len(sendQueue)
      BY <2>4 DEF Numbers
    <3>2. ASSUME NEW i \in 1..Len(sendQueue')
          PROVE  sendQueue'[i] = Len(wire) + Len(bufferList) + i
      <4>1. CASE i \in 1..Len(sendQueue)
        BY <2>2, <2>4, <4>1 DEF Numbers
      <4>2. CASE i = Len(sendQueue) + 1
        BY <2>2, <3>1, <4>2
      <4> QED BY <2>2, <4>1, <4>2
    <3> QED BY <2>1, <2>2, <2>4, <3>1, <3>2 DEF Numbers
  <2> QED BY <2>3, <2>4
<1>2. ASSUME SendCompletes PROVE Kept
  BY <1>2 DEF Kept, SendCompletes
<1>3. ASSUME Update PROVE Kept
  BY <1>3 DEF Kept, Update
<1>4. ASSUME RegisterRecv PROVE Kept
  BY <1>4 DEF Kept, RegisterRecv, Clean
<1>5. ASSUME ReceiveAsync PROVE Kept
  BY <1>5 DEF Kept, ReceiveAsync
<1>6. ASSUME OnRecvPacket PROVE Kept
  BY <1>6 DEF Kept, OnRecvPacket, ParsesOwnBody, PacketComplete
<1>7. ASSUME OnRead PROVE Kept
  BY <1>7 DEF Kept, OnRead
<1>8. ASSUME NEW n \in 0..Total, OnRecvCompleted(n) PROVE Kept
  BY <1>8 DEF Kept, OnRecvCompleted
<1>9. ASSUME NEW t \in Threads, RegisterSend(t) PROVE Numbers'
  <2>1. CASE disconnected
    BY <1>9, <2>1 DEF RegisterSend, Numbers
  <2>2. CASE ~disconnected
    <3>1. /\ UNCHANGED <<disconnected, wire, nSent>> /\ sendQueue' = <<>>
          /\ pendingList' = bufferList \o sendQueue /\ bufferList' = pendingList'
      BY <1>9, <2>2 DEF RegisterSend, Numbers
    <3>2. /\ Len(wire) \in Nat /\ Len(bufferList) \in Nat /\ Len(sendQueue) \in Nat
          /\ bufferList \in Seq(Nat) /\ sendQueue \in Seq(Nat)
      BY DEF Lists
    <3>3. /\ Len(bufferList') = Len(bufferList) + Len(sendQueue)
          /\ \A i \in 1..Len(bufferList') : bufferList'[i] = Len(wire) + i
      BY <2>2, <3>1, <3>2, Following DEF Numbers
    <3>4. Len(sendQueue') = 0
      BY <3>1
    <3> QED BY <2>2, <3>1, <3>2, <3>3, <3>4 DEF Numbers
  <2> QED BY <2>1, <2>2
<1>10. ASSUME NEW t \in Threads, SendAsync(t) PROVE Kept
  BY <1>10 DEF Kept, SendAsync
<1>11. ASSUME NEW t \in Threads, OnSendCompleted(t) PROVE Numbers'
  <2>1. CASE UNCHANGED <<wire, bufferList, pendingList>>
    BY <1>11, <2>1 DEF OnSendCompleted, Numbers
  <2>2. CASE wire' = wire \o bufferList /\ BatchCleared
    <3>1. /\ Len(wire) \in Nat /\ Len(bufferList) \in Nat /\ Len(sendQueue) \in Nat
          /\ wire \in Seq(Nat) /\ bufferList \in Seq(Nat)
      BY DEF Lists
    <3>2. \A i \in 1..Len(wire) : wire[i] = 0 + i
      BY <3>1 DEF Numbers
    <3>3. \A i \in 1..Len(bufferList) : bufferList[i] = 0 + Len(wire) + i
      BY <3>1 DEF Numbers
    <3>4. /\ Len(wire') = Len(wire) + Len(bufferList)
          /\ \A i \in 1..Len(wire') : wire'[i] = 0 + i
      BY <2>2, <3>1, <3>2, <3>3, Following
    <3>5. /\ bufferList' = <<>> /\ Len(bufferList') = 0 /\ pendingList' = <<>>
          /\ UNCHANGED <<disconnected, nSent, sendQueue>>
      BY <1>11, <2>2 DEF OnSendCompleted, BatchCleared
    <3> QED BY <3>1, <3>4, <3>5 DEF Numbers
  <2> QED BY <1>11, <2>1, <2>2 DEF OnSendCompleted
<1>12. ASSUME NEW t \in Threads, Disconnect(t) PROVE Numbers'
  BY <1>12 DEF Disconnect, Numbers
<1>13. ASSUME NEW t \in Threads, Shutdown(t) PROVE Kept
  BY <1>13 DEF Kept, Shutdown
<1>14. ASSUME NEW t \in Threads, Clear(t) PROVE Numbers'
  BY <1>14 DEF Clear, Control, Numbers
<1>15. ASSUME UNCHANGED vars PROVE Kept
  BY <1>15 DEF Kept, vars
<1> QED
  BY <1>0, <1>1, <1>2, <1>3, <1>4, <1>5, <1>6, <1>7, <1>8, <1>9, <1>10, <1>11, <1>12, <1>13,
     <1>14, <1>15 DEF Next, Receive, Inside

-----------------------------------------------------------------------------
IInv == Control /\ Cursors /\ Between /\ Inbox /\ Lists /\ Backed /\ Numbers

\* Before the first receive everything is empty.
LEMMA InitInv ==
  ASSUME Init
  PROVE  IInv
<1> USE DEF Init, Threads, SendSteps, DisconnectSteps, RecvSteps, Nobody
<1>1. Control
  BY DEF Control
<1>2. Cursors
  BY SizeAssumption, BoundAssumption DEF Cursors, DataSize
<1>3. Between
  BY SizeAssumption DEF Between, DataSize
<1>4. Inbox
  BY DEF Inbox, FirstIntact
<1>5. Lists /\ Backed /\ Numbers
  BY DEF Lists, Backed, SendBacked, Numbers
<1> QED
  BY <1>1, <1>2, <1>3, <1>4, <1>5 DEF IInv

\* The invariant: control and cursors, the packet boundaries, the order of
\* the sends and who is responsible for them.
THEOREM UnityInvariant == Spec => []IInv
<1>1. Init => IInv
  BY InitInv
<1>2. IInv /\ [Next]_vars => IInv'
  BY ControlStep, CursorsStep, BetweenStep, InboxStep, ListsStep, BackedStep, NumbersStep DEF IInv
<1> QED
  BY <1>1, <1>2, PTL DEF Spec

\* TypeOK: the cursors stay in the array of any size, and the lock is held by
\* exactly the thread that is inside Send or OnSendCompleted.
THEOREM UnityTypes == Spec => []TypeOK
<1>1. IInv => TypeOK
  BY DEF IInv, Control, Cursors, Inbox, Lists, TypeOK
<1> QED
  BY <1>1, UnityInvariant, PTL

\* RoomToReceive: a receive buffer of the largest packet's size is enough.
THEOREM UnityRoom == Spec => []RoomToReceive
<1>1. IInv => RoomToReceive
  <2> SUFFICES ASSUME IInv, pc["recv"] \in {"ReceiveAsync", "Receiving"}
               PROVE  /\ FreeSize > 0
                      /\ DataSize >= PrefixSize => DataSize < Size /\ Size - DataSize <= FreeSize
    BY DEF RoomToReceive
  <2>1. /\ readPos = 0 /\ processLength = 0 /\ writePos \in Nat /\ writePos <= BufferSize
        /\ DataSize >= PrefixSize => DataSize < Size
    BY DEF IInv, Between, Cursors
  <2>2. Size \in Nat /\ Size <= BufferSize
    BY SizeAssumption, BoundAssumption DEF IInv, Cursors, DataSize, Size, Sizes, Offset
  <2>3. DataSize = writePos /\ FreeSize = BufferSize - writePos
    BY <2>1 DEF DataSize, FreeSize
  <2> QED BY <2>1, <2>2, <2>3, SizeAssumption
<1> QED
  BY <1>1, UnityInvariant, PTL

\* FirstIntact: a misread packet is never the first of its receive.
THEOREM UnityFirstIntact == Spec => []FirstIntact
<1>1. IInv => FirstIntact
  BY DEF IInv, Inbox
<1> QED
  BY <1>1, UnityInvariant, PTL

\* SendBacked: an exception of SendAsync strands no buffer of a live
\* connection, because it comes only from a closed socket.
THEOREM UnitySendBacked == Spec => []SendBacked
<1>1. IInv => SendBacked
  BY DEF IInv, Backed, SendBacked
<1> QED
  BY <1>1, UnityInvariant, PTL

\* SendWhole: buffers leave in order and without a gap.
THEOREM UnitySendWhole == Spec => []SendWhole
<1>1. IInv => SendWhole
  <2> SUFFICES ASSUME IInv, ~disconnected
               PROVE  wire \o pendingList \o sendQueue = [i \in 1..nSent |-> i]
    BY DEF IInv, Numbers, SendWhole
  <2>1. /\ wire \in Seq(Nat) /\ pendingList \in Seq(Nat) /\ sendQueue \in Seq(Nat)
        /\ Len(wire) \in Nat /\ Len(pendingList) \in Nat /\ Len(sendQueue) \in Nat
    BY DEF IInv, Lists
  <2>2. /\ nSent = Len(wire) + Len(pendingList) + Len(sendQueue)
        /\ \A i \in 1..Len(sendQueue) : sendQueue[i] = Len(wire) + Len(pendingList) + i
    BY <2>1 DEF IInv, Numbers
  <2>3. \A i \in 1..Len(wire) : wire[i] = 0 + i
    BY <2>1 DEF IInv, Numbers
  <2>4. \A i \in 1..Len(pendingList) : pendingList[i] = 0 + Len(wire) + i
    BY <2>1 DEF IInv, Numbers
  <2>5. PICK s : s = wire \o pendingList
    OBVIOUS
  <2>6. /\ s \in Seq(Nat) /\ Len(s) = Len(wire) + Len(pendingList)
        /\ \A i \in 1..Len(s) : s[i] = 0 + i
    BY ONLY <2>1, <2>3, <2>4, <2>5, Following
  <2>7. \A i \in 1..Len(sendQueue) : sendQueue[i] = 0 + Len(s) + i
    BY ONLY <2>1, <2>2, <2>6
  <2>8. s \in Seq(Nat) /\ sendQueue \in Seq(Nat) /\ \A i \in 1..Len(s) : s[i] = 0 + i
    BY <2>1, <2>6
  <2>9. PICK r : r = s \o sendQueue
    OBVIOUS
  <2>10. /\ r \in Seq(Nat) /\ Len(r) = Len(s) + Len(sendQueue)
        /\ \A i \in 1..Len(r) : r[i] = 0 + i
    BY ONLY <2>8, <2>7, <2>9, Following
  <2>11. Len(r) = nSent /\ \A i \in 1..nSent : r[i] = i
    BY ONLY <2>1, <2>2, <2>6, <2>10
  <2>13. r = [i \in 1..nSent |-> i]
    BY ONLY <2>10, <2>11
  <2> QED BY <2>5, <2>9, <2>13
<1> QED
  BY <1>1, UnityInvariant, PTL
=============================================================================
