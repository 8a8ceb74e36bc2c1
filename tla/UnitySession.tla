---------------------------- MODULE UnitySession ----------------------------
(***************************************************************************)
(* The client's session (UnityScript/Network/Session.cs), a second         *)
(* implementation with a lock in place of the server's flag: the game's    *)
(* main thread sends and pops the packets, one completion at a time of the *)
(* send and one of the receive run beside it.                              *)
(*                                                                         *)
(* The lock is held from the enqueueing in Send, or the entry of           *)
(* OnSendCompleted, to the end of RegisterSend; what interferes there is   *)
(* Disconnect, which takes it only in Clear.                               *)
(*                                                                         *)
(* The array of the receive buffer is described by the stream position of  *)
(* its first byte, since Clean moves whatever is left there.               *)
(***************************************************************************)
EXTENDS Integers, Sequences

CONSTANTS
  BufferSize,   \* of the receive buffer, 65535
  PrefixSize,   \* PacketSession.HeaderSize, the size field only: 2
  HeaderSize,   \* what MakePacket skips, size and id: 4
  Total,        \* bound: bytes the server sends
  Streams,      \* the size fields considered: Streams[b] at stream position b
  MaxSends      \* bound: calls of Send

\* A size is an unsigned short.
Sizes == HeaderSize..BufferSize

ASSUME SizeAssumption ==
  /\ BufferSize \in Nat /\ PrefixSize \in Nat /\ HeaderSize \in Nat
  /\ 0 < PrefixSize /\ PrefixSize < HeaderSize /\ HeaderSize <= BufferSize
ASSUME BoundAssumption ==
  /\ Total \in Nat /\ MaxSends \in Nat
  /\ Streams \subseteq [0..Total -> Sizes]

Threads == {"main", "send", "recv"}
Nobody == "nobody"

VARIABLES
  disconnected,   \* _disconnected
  closed,         \* the socket is closed
  lock,           \* holder of _lock
  sendQueue,      \* _sendQueue, buffers numbered in the order of Send
  pendingList,    \* _pendingList
  bufferList,     \* _sendArgs.BufferList
  sendPosted,     \* SendAsync returned true and its completion is to come
  nSent, wire,    \* calls of Send; buffers whose send completed
  readPos, writePos, processLength,
  origin,         \* stream position of the first byte of the array
  received,       \* bytes received
  lens,           \* the stream
  inbox,          \* the packets given to PacketQueue so far
  popped,         \* how many of them the main thread has handled
  pc

socketVars == <<disconnected, closed>>
sendVars == <<sendQueue, pendingList, bufferList, sendPosted, nSent, wire>>
recvVars == <<readPos, writePos, processLength, origin, received, lens, inbox>>
vars == <<socketVars, lock, sendVars, recvVars, popped, pc>>

\* Connector starts the session with the first RegisterRecv.
Init ==
  /\ disconnected = FALSE /\ closed = FALSE /\ lock = Nobody
  /\ sendQueue = <<>> /\ pendingList = <<>> /\ bufferList = <<>> /\ sendPosted = FALSE
  /\ nSent = 0 /\ wire = <<>>
  /\ readPos = 0 /\ writePos = 0 /\ processLength = 0 /\ origin = 0 /\ received = 0
  /\ lens \in Streams
  /\ inbox = <<>> /\ popped = 0
  /\ pc = [t \in Threads |-> IF t = "recv" THEN "RegisterRecv" ELSE "Idle"]

Go(t, label) == pc' = [pc EXCEPT ![t] = label]

\* Mutant: an early return behind Monitor.Enter.
LeaveLocked(t) == Go(t, "Idle") /\ UNCHANGED lock

\* The thread leaves the session's code; the lock statement releases the lock
\* if the thread holds it, also on an exception.
Leave(t) ==
  /\ Go(t, "Idle")
  /\ lock' = IF lock = t THEN Nobody ELSE lock

-----------------------------------------------------------------------------
(* Sending, under the lock.                                                *)

\* The client sends in answer to packets: the first one follows S_Login.
Send ==
  /\ pc["main"] = "Idle" /\ lock = Nobody
  /\ popped > 0 /\ nSent < MaxSends
  /\ nSent' = nSent + 1
  /\ sendQueue' = Append(sendQueue, nSent + 1)
  /\ \/ /\ pendingList = <<>>
        /\ Go("main", "RegisterSend") /\ lock' = "main"
     \/ pendingList # <<>> /\ UNCHANGED <<pc, lock>>
  /\ UNCHANGED <<socketVars, pendingList, bufferList, sendPosted, wire, recvVars, popped>>

RegisterSend(t) ==
  /\ pc[t] = "RegisterSend"
  /\ \/ /\ disconnected
        /\ Leave(t) /\ UNCHANGED <<sendQueue, pendingList, bufferList>>
     \/ /\ ~disconnected
        /\ pendingList' = pendingList \o sendQueue
        /\ bufferList' = pendingList'
        /\ sendQueue' = <<>>
        /\ Go(t, "SendAsync") /\ UNCHANGED lock
  /\ UNCHANGED <<socketVars, sendPosted, nSent, wire, recvVars, popped>>

\* Posted, completed at once, or, on a closed socket, an exception that is
\* caught and leaves _pendingList as it is.
SendAsync(t) ==
  /\ pc[t] = "SendAsync"
  /\ \/ ~closed /\ sendPosted' = TRUE /\ Leave(t)
     \/ ~closed /\ Go(t, "OnSendCompleted") /\ UNCHANGED <<sendPosted, lock>>
     \/ closed /\ Leave(t) /\ UNCHANGED sendPosted
  /\ UNCHANGED <<socketVars, sendQueue, pendingList, bufferList, nSent, wire, recvVars, popped>>

\* The completion of a posted send takes the lock.
SendCompletes ==
  /\ pc["send"] = "Idle" /\ sendPosted /\ lock = Nobody
  /\ sendPosted' = FALSE
  /\ lock' = "send" /\ Go("send", "OnSendCompleted")
  /\ UNCHANGED <<socketVars, sendQueue, pendingList, bufferList, nSent, wire, recvVars, popped>>

\* Mutant: the completion forgets what was queued behind it.
QueueIgnored == FALSE

MoreQueued == sendQueue # <<>>

\* Mutant: the batch stays in the list.
BatchKept == bufferList' = <<>> /\ UNCHANGED pendingList

BatchCleared == bufferList' = <<>> /\ pendingList' = <<>>

\* Success, and the next registration; or failure, and Disconnect.
OnSendCompleted(t) ==
  /\ pc[t] = "OnSendCompleted"
  /\ \/ /\ wire' = wire \o bufferList
        /\ BatchCleared
        /\ \/ MoreQueued /\ Go(t, "RegisterSend") /\ UNCHANGED lock
           \/ ~MoreQueued /\ Leave(t)
     \/ /\ Go(t, "Disconnect")
        /\ UNCHANGED <<wire, bufferList, pendingList, lock>>
  /\ UNCHANGED <<socketVars, sendQueue, sendPosted, nSent, recvVars, popped>>

-----------------------------------------------------------------------------
(* Disconnection, under the lock or not.                                   *)

Disconnect(t) ==
  /\ pc[t] = "Disconnect"
  /\ disconnected' = TRUE
  /\ \/ disconnected /\ Leave(t)
     \/ ~disconnected /\ Go(t, "Shutdown") /\ UNCHANGED lock
  /\ UNCHANGED <<closed, sendVars, recvVars, popped>>

\* Shutdown throws when the peer has reset the connection: Close and Clear
\* are skipped.
Shutdown(t) ==
  /\ pc[t] = "Shutdown"
  /\ \/ closed' = TRUE /\ Go(t, "Clear") /\ UNCHANGED lock
     \/ UNCHANGED closed /\ Leave(t)
  /\ UNCHANGED <<disconnected, sendVars, recvVars, popped>>

Clear(t) ==
  /\ pc[t] = "Clear" /\ lock \in {t, Nobody}
  /\ sendQueue' = <<>> /\ pendingList' = <<>>
  /\ Leave(t)
  /\ UNCHANGED <<socketVars, bufferList, sendPosted, nSent, wire, recvVars, popped>>

-----------------------------------------------------------------------------
(* Receiving.                                                              *)

DataSize == writePos - readPos
FreeSize == BufferSize - writePos

\* Mutant: the server's rule, which moves only when little room is left.
CleanWhenShort ==
  /\ readPos' = IF DataSize # 0 /\ FreeSize > 1 THEN readPos ELSE 0
  /\ writePos' = readPos' + DataSize
  /\ origin' = origin + readPos - readPos'

\* Mutant: only an empty buffer is reset.
CleanWhenEmpty ==
  /\ readPos' = IF DataSize = 0 THEN 0 ELSE readPos
  /\ writePos' = readPos' + DataSize
  /\ origin' = origin + readPos - readPos'

Clean ==
  /\ readPos' = 0 /\ writePos' = DataSize
  /\ origin' = origin + readPos

RegisterRecv ==
  /\ pc["recv"] = "RegisterRecv"
  /\ \/ /\ disconnected
        /\ Go("recv", "Idle") /\ UNCHANGED <<readPos, writePos, origin>>
     \/ /\ ~disconnected
        /\ Clean
        /\ Go("recv", "ReceiveAsync")
  /\ UNCHANGED <<socketVars, lock, sendVars, processLength, received, lens, inbox, popped>>

\* Posted, or an exception on a closed socket.
ReceiveAsync ==
  /\ pc["recv"] = "ReceiveAsync"
  /\ \/ ~closed /\ Go("recv", "Receiving")
     \/ closed /\ Go("recv", "Idle")
  /\ UNCHANGED <<socketVars, lock, sendVars, recvVars, popped>>

\* The receive completes with n bytes, no more than were offered, so that
\* OnWrite takes them; with none, or an error, the connection is over.
OnRecvCompleted(n) ==
  /\ pc["recv"] = "Receiving"
  /\ n <= FreeSize /\ received + n <= Total
  /\ IF n = 0
       THEN Go("recv", "Disconnect") /\ UNCHANGED <<writePos, received, processLength>>
       ELSE /\ Go("recv", "OnRecv")
            /\ writePos' = writePos + n /\ received' = received + n
            /\ processLength' = 0
  /\ UNCHANGED <<socketVars, lock, sendVars, readPos, origin, lens, inbox, popped>>

\* The offset in the array at which OnRecv looks, and the size it reads there.
Offset == readPos + processLength
Size == lens[origin + Offset]
Unparsed == DataSize - processLength
PacketComplete == Unparsed >= PrefixSize /\ Unparsed >= Size

\* ParseFrom starts behind the first header of the array: these are the bytes
\* of the packet only if it is the first, or has no body.
ParsesOwnBody == Offset = 0 \/ Size = HeaderSize

\* A packet decoded from other bytes may by chance be right, be wrong, or be
\* no message at all; that exception ends OnRecvCompleted, which posts no
\* further receive.
OnRecvPacket ==
  /\ pc["recv"] = "OnRecv" /\ PacketComplete
  /\ \/ /\ \E right \in BOOLEAN :
             /\ ParsesOwnBody => right
             /\ inbox' = Append(inbox, [right |-> right, first |-> processLength = 0])
        /\ processLength' = processLength + Size
        /\ UNCHANGED pc
     \/ /\ ~ParsesOwnBody
        /\ Go("recv", "Deaf")
        /\ UNCHANGED <<inbox, processLength>>
  /\ UNCHANGED <<socketVars, lock, sendVars, readPos, writePos, origin, received, lens, popped>>

\* The loop ends, and the next receive is registered.
OnRead ==
  /\ pc["recv"] = "OnRecv" /\ ~PacketComplete
  /\ IF processLength > DataSize
       THEN Go("recv", "Disconnect") /\ UNCHANGED readPos
       ELSE Go("recv", "RegisterRecv") /\ readPos' = readPos + processLength
  /\ processLength' = 0
  /\ UNCHANGED <<socketVars, lock, sendVars, writePos, origin, received, lens, inbox, popped>>

\* NetworkManager.Update: PopAll, and the handlers; their sends are Send.
Update ==
  /\ pc["main"] = "Idle"
  /\ popped < Len(inbox)
  /\ popped' = Len(inbox)
  /\ UNCHANGED <<socketVars, lock, sendVars, recvVars, pc>>

-----------------------------------------------------------------------------
Inside(t) ==
  \/ RegisterSend(t) \/ SendAsync(t) \/ OnSendCompleted(t)
  \/ Disconnect(t) \/ Shutdown(t) \/ Clear(t)

Receive ==
  \/ RegisterRecv \/ ReceiveAsync \/ OnRecvPacket \/ OnRead
  \/ \E n \in 0..Total : OnRecvCompleted(n)

Next == Send \/ SendCompletes \/ Update \/ Receive \/ \E t \in Threads : Inside(t)

Spec == Init /\ [][Next]_vars

(* Threads are scheduled, a posted send completes because the server reads *)
(* or the connection breaks, and the lock is granted to one who waits for  *)
(* it again and again.                                                     *)
Fairness ==
  /\ \A t \in Threads : SF_vars(Inside(t))
  /\ SF_vars(SendCompletes)

FairSpec == Spec /\ Fairness
-----------------------------------------------------------------------------
(* Properties.                                                             *)

SendSteps == {"RegisterSend", "SendAsync", "OnSendCompleted"}
DisconnectSteps == {"Disconnect", "Shutdown", "Clear"}
RecvSteps == {"RegisterRecv", "ReceiveAsync", "Receiving", "OnRecv", "Deaf"}

\* The values stay in their types and the cursors in the buffer, and the lock
\* is held by exactly the thread that is inside Send or OnSendCompleted.
TypeOK ==
  /\ disconnected \in BOOLEAN /\ closed \in BOOLEAN /\ sendPosted \in BOOLEAN
  /\ nSent \in Nat /\ popped \in 0..Len(inbox) /\ lens \in [0..Total -> Sizes]
  /\ sendQueue \in Seq(Nat) /\ pendingList \in Seq(Nat)
  /\ bufferList \in Seq(Nat) /\ wire \in Seq(Nat)
  /\ inbox \in Seq([right : BOOLEAN, first : BOOLEAN])
  /\ 0 <= readPos /\ readPos <= writePos /\ writePos <= BufferSize
  /\ 0 <= processLength /\ processLength <= DataSize
  /\ origin \in Nat /\ received = origin + writePos /\ received <= Total
  /\ pc \in [Threads -> {"Idle"} \cup SendSteps \cup DisconnectSteps \cup RecvSteps]
  /\ pc["recv"] \notin SendSteps
  /\ \A t \in {"main", "send"} :
       pc[t] \notin RecvSteps /\ (lock = t <=> pc[t] # "Idle")
  /\ lock \in {"main", "send", Nobody}

\* Every receive has room for the rest of the packet it begins with, of which
\* something is missing: with no room it would complete with zero bytes,
\* which is taken for the end of the connection.
RoomToReceive ==
  pc["recv"] \in {"ReceiveAsync", "Receiving"} =>
    /\ FreeSize > 0
    /\ DataSize >= PrefixSize => DataSize < Size /\ Size - DataSize <= FreeSize

\* The first packet of a receive is decoded from its own bytes, and none of
\* them silences the client.
FirstIntact ==
  /\ \A i \in 1..Len(inbox) : inbox[i].first => inbox[i].right
  /\ pc["recv"] = "Deaf" => processLength # 0

\* On a live connection whatever waits in _pendingList or _sendQueue is in a
\* posted send, behind one, or in the hands of the thread that has the lock.
SendBacked ==
  ~disconnected /\ lock = Nobody =>
    /\ sendPosted <=> pendingList # <<>>
    /\ ~sendPosted => sendQueue = <<>>

\* Buffers reach the server in the order of Send, none twice and, while the
\* connection lives, none left out.
SendWhole ==
  /\ \A i \in 1..Len(wire) : wire[i] = i
  /\ ~disconnected => wire \o pendingList \o sendQueue = [i \in 1..nSent |-> i]

\* Send catches up again and again: every buffer leaves in the end, or the
\* connection ends.
SendsLeave == []<>(Len(wire) = nSent \/ disconnected)

\* Every packet handed to the main thread is the one the server sent.
Faithful == \A i \in 1..Len(inbox) : inbox[i].right
=============================================================================
