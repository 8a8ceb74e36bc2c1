-------------------------- MODULE SessionRefinement --------------------------
(***************************************************************************)
(* Session implements Connection, for any number of threads and any        *)
(* bounds, when every failure on a live connection is a reset; and sends   *)
(* stay in order whatever fails.                                           *)
(*                                                                         *)
(* Towards the peer (SendPath): the wire, the batch and the queue together *)
(* are the buffers of all calls of Send, until a batch is dropped; after   *)
(* that nothing is ever sent again, because either the connection is over, *)
(* or the flag is set with nobody behind it and the thread that dropped    *)
(* the batch is on its way to Disconnect.                                  *)
(*                                                                         *)
(* Towards the main thread (RecvPath): what was pushed and the rest of the *)
(* one running batch are the packets that arrived, and a receive that is   *)
(* still posted when the end is reported is the last one.                  *)
(***************************************************************************)
EXTENDS SessionProofs

\* What was sent is a prefix of what was handed to Send.
WirePrefix ==
  /\ Len(wire) <= nSent
  /\ \A i \in 1..Len(wire) : wire[i] = i

\* Nothing is missing between the wire and the newest buffer.
Whole ==
  /\ nSent = Len(wire) + Len(sendBuffers) + Len(sendQueue)
  /\ \A i \in 1..Len(sendBuffers) : sendBuffers[i] = Len(wire) + i
  /\ \A i \in 1..Len(sendQueue) : sendQueue[i] = Len(wire) + Len(sendBuffers) + i

\* A batch was dropped, and no batch will be posted again.
Dropped ==
  /\ sendBuffers = <<>> /\ ~sendPending /\ ~acceptPending
  /\ \A t \in Threads : pc[t] \notin {"SendDrain", "SendPost"}
  /\ connected => sendRegistered /\ \A t \in Threads : ~HoldsSend(t)

SendPath == WirePrefix /\ (Whole \/ Dropped)

\* Numbers grow from the wire over the batch to the queue.
Growing(s, low, high) ==
  /\ \A i \in 1..Len(s) : low < s[i] /\ s[i] <= high
  /\ \A i, j \in 1..Len(s) : i < j => s[i] < s[j]

Ordered ==
  \E a, b \in Nat :
    /\ a <= b /\ b <= nSent
    /\ Growing(wire, 0, a) /\ Growing(sendBuffers, a, b) /\ Growing(sendQueue, b, nSent)

-----------------------------------------------------------------------------
Marked == \E i \in 1..Len(packets) : packets[i] = Disc

\* The data packets pushed so far.
Pushed == IF Marked THEN Len(packets) - 1 ELSE Len(packets)

\* The end is reported after the disconnection, by the one thread that does it.
MarkedOnce ==
  Marked => ~connected /\ ~acceptPending /\ \A t \in Threads : pc[t] # "OnDisconnected"

BatchNext ==
  /\ \A t \in Threads :
       /\ batch[t] # <<>> => pc[t] = "OnRecv" /\ arrived = Pushed + Len(batch[t])
       /\ Len(batch[t]) <= MaxBatch
       /\ \A i \in 1..Len(batch[t]) : batch[t][i] = Pushed + i
  /\ (\A t \in Threads : batch[t] = <<>>) => arrived = Pushed

\* A receive is posted or about to be.
Posting == recvPending \/ \E t \in Threads : pc[t] = "RecvPost"

LastBatch ==
  \A i \in 1..Len(packets) : packets[i] = Disc =>
    /\ \A t \in Threads : Len(packets) - i + Len(batch[t]) <= MaxBatch
    /\ Posting => i = Len(packets)

RecvPath == MarkedOnce /\ BatchNext /\ LastBatch

-----------------------------------------------------------------------------
(* Order of sends, whatever fails.                                         *)

\* One growing sequence behind another is a growing sequence.
LEMMA GrowingConcat ==
  ASSUME NEW s \in Seq(Nat), NEW u \in Seq(Nat), NEW low \in Nat, NEW mid \in Nat, NEW high \in Nat,
         low <= mid, mid <= high, Growing(s, low, mid), Growing(u, mid, high)
  PROVE  Growing(s \o u, low, high)
<1> DEFINE r == s \o u
<1>1. /\ Len(r) = Len(s) + Len(u) /\ Len(s) \in Nat /\ Len(u) \in Nat
      /\ \A i \in 1..Len(s) : r[i] = s[i] /\ s[i] \in Nat
      /\ \A i \in 1..Len(u) : r[Len(s) + i] = u[i] /\ u[i] \in Nat
  OBVIOUS
<1> HIDE DEF r
<1>2. ASSUME NEW i \in 1..Len(r)
      PROVE  \/ i \in 1..Len(s) /\ r[i] = s[i]
             \/ i - Len(s) \in 1..Len(u) /\ r[i] = u[i - Len(s)]
  <2>1. CASE i <= Len(s)
    BY <1>1, <2>1
  <2>2. CASE i > Len(s)
    <3>1. i - Len(s) \in 1..Len(u) /\ i = Len(s) + (i - Len(s))
      BY <1>1, <2>2
    <3> QED BY <1>1, <3>1
  <2> QED BY <1>1, <2>1, <2>2
<1>3. ASSUME NEW i \in 1..Len(r)
      PROVE  low < r[i] /\ r[i] <= high
  <2>1. CASE i \in 1..Len(s) /\ r[i] = s[i]
    <3>1. low < s[i] /\ s[i] <= mid /\ s[i] \in Nat
      BY <1>1, <2>1 DEF Growing
    <3> QED BY <2>1, <3>1
  <2>2. CASE i - Len(s) \in 1..Len(u) /\ r[i] = u[i - Len(s)]
    <3>1. mid < u[i - Len(s)] /\ u[i - Len(s)] <= high /\ u[i - Len(s)] \in Nat
      BY <1>1, <2>2 DEF Growing
    <3> QED BY <2>2, <3>1
  <2> QED BY <1>2, <2>1, <2>2
<1>4. ASSUME NEW i \in 1..Len(r), NEW j \in 1..Len(r), i < j
      PROVE  r[i] < r[j]
  <2>1. CASE j <= Len(s)
    <3>1. i \in 1..Len(s) /\ j \in 1..Len(s)
      BY <1>1, <1>4, <2>1
    <3>2. r[i] = s[i] /\ r[j] = s[j] /\ s[i] < s[j]
      BY <1>1, <1>4, <3>1 DEF Growing
    <3> QED BY <3>2
  <2>2. CASE i <= Len(s) /\ j > Len(s)
    <3>1. r[i] = s[i] /\ s[i] <= mid /\ s[i] \in Nat
      BY <1>1, <2>2 DEF Growing
    <3>2. j - Len(s) \in 1..Len(u) /\ r[j] = u[j - Len(s)]
      BY <1>1, <1>2, <2>2
    <3>3. mid < r[j] /\ r[j] \in Nat
      BY <1>1, <3>2 DEF Growing
    <3> QED BY <3>1, <3>3
  <2>3. CASE i > Len(s)
    <3>1. /\ i - Len(s) \in 1..Len(u) /\ j - Len(s) \in 1..Len(u) /\ i - Len(s) < j - Len(s)
          /\ r[i] = u[i - Len(s)] /\ r[j] = u[j - Len(s)]
      BY <1>1, <1>2, <1>4, <2>3
    <3> QED BY <3>1 DEF Growing
  <2> QED BY <1>1, <2>1, <2>2, <2>3
<1> QED
  BY <1>3, <1>4 DEF Growing, r

\* A new number at the end.
LEMMA GrowingAppend ==
  ASSUME NEW s \in Seq(Nat), NEW low \in Nat, NEW n \in Nat, low <= n, Growing(s, low, n)
  PROVE  Growing(Append(s, n + 1), low, n + 1)
<1>1. Append(s, n + 1) = s \o <<n + 1>>
  OBVIOUS
<1>2. Growing(<<n + 1>>, n, n + 1)
  BY DEF Growing
<1>3. <<n + 1>> \in Seq(Nat) /\ n + 1 \in Nat /\ n <= n + 1
  OBVIOUS
<1>4. Growing(s \o <<n + 1>>, low, n + 1)
  BY ONLY <1>2, <1>3, GrowingConcat, s \in Seq(Nat), low \in Nat, n \in Nat, low <= n, Growing(s, low, n)
<1> QED
  BY <1>1, <1>4

LEMMA GrowingNone ==
  ASSUME NEW low, NEW high
  PROVE  Growing(<<>>, low, high)
BY DEF Growing

\* A buffer is appended with the next number, moved to the batch behind older
\* ones, moved to the wire or dropped.
LEMMA OrderedStep ==
  ASSUME QueuesOK, Ordered, [Next]_vars
  PROVE  Ordered'
<1> USE DEF Threads, connVars, registry, sendEvent, sendVars, recvVars, discVars, queueVars
<1> DEFINE Kept == UNCHANGED <<wire, sendBuffers, sendQueue, nSent>>
<1>0. ASSUME Kept PROVE Ordered'
  BY <1>0 DEF Ordered
<1> HIDE DEF Kept
<1>50. ASSUME NEW t \in Threads, NEW ret, Send(t, ret) PROVE Ordered'
  <2>1. PICK a \in Nat, b \in Nat :
          /\ a <= b /\ b <= nSent
          /\ Growing(wire, 0, a) /\ Growing(sendBuffers, a, b) /\ Growing(sendQueue, b, nSent)
    BY DEF Ordered
  <2>2. Growing(Append(sendQueue, nSent + 1), b, nSent + 1)
    BY <2>1, GrowingAppend DEF QueuesOK
  <2>3. b <= nSent + 1
    BY <2>1 DEF QueuesOK
  <2> QED
    BY <1>50, <2>1, <2>2, <2>3 DEF Send, Ordered
<1>1. ASSUME NEW w \in Workers, Accept(w) PROVE Kept
  BY <1>1 DEF Kept, Accept
<1>2. ASSUME NEW w \in Workers, AddSession(w) PROVE Kept
  BY <1>2 DEF Kept, AddSession
<1>3. ASSUME NEW w \in Workers, OnConnected(w) PROVE Kept
  BY <1>3 DEF Kept, OnConnected
<1>4. ASSUME NEW w \in Workers, SendLogin(w) PROVE Ordered'
  BY <1>4, <1>50 DEF SendLogin
<1>5. ASSUME NEW t \in AppThreads, AppSend(t) PROVE Ordered'
  BY <1>5, <1>50 DEF AppSend
<1>6. ASSUME NEW t \in Threads, RegisterSend(t) PROVE Kept
  BY <1>6 DEF Kept, RegisterSend, IsConnected
<1>7. ASSUME NEW t \in Threads, SendDrain(t) PROVE Ordered'
  <2>1. PICK a \in Nat, b \in Nat :
          /\ a <= b /\ b <= nSent
          /\ Growing(wire, 0, a) /\ Growing(sendBuffers, a, b) /\ Growing(sendQueue, b, nSent)
    BY DEF Ordered
  <2>2. Growing(sendBuffers \o sendQueue, a, nSent)
    BY <2>1, GrowingConcat DEF QueuesOK
  <2>3. a <= nSent /\ nSent <= nSent /\ nSent \in Nat
    BY <2>1 DEF QueuesOK
  <2> QED
    BY <1>7, <2>1, <2>2, <2>3, GrowingNone DEF SendDrain, Ordered
<1>8. ASSUME NEW t \in Threads, SendPost(t) PROVE Kept
  BY <1>8 DEF Kept, SendPost, CallDisconnect, CanFail
<1>9. ASSUME NEW t \in Threads, SendRelease(t) PROVE Ordered'
  BY <1>9, GrowingNone DEF SendRelease, Ordered
<1>10. ASSUME NEW t \in Threads, SendStore(t) PROVE Kept
  BY <1>10 DEF Kept, SendStore
<1>11. ASSUME NEW w \in Workers, ProcessSend(w) PROVE Ordered'
  <2>1. PICK a \in Nat, b \in Nat :
          /\ a <= b /\ b <= nSent
          /\ Growing(wire, 0, a) /\ Growing(sendBuffers, a, b) /\ Growing(sendQueue, b, nSent)
    BY DEF Ordered
  <2>2. Growing(wire \o sendBuffers, 0, b)
    BY <2>1, GrowingConcat DEF QueuesOK
  <2>3. CASE wire' = wire
    BY <1>11, <2>1, <2>3, GrowingNone DEF ProcessSend, Ordered
  <2>4. CASE wire' = wire \o sendBuffers
    BY <1>11, <2>1, <2>2, <2>4, GrowingNone DEF ProcessSend, Ordered
  <2> QED
    BY <1>11, <2>3, <2>4 DEF ProcessSend, CallDisconnect
<1>12. ASSUME NEW w \in Workers, SendNext(w) PROVE Kept
  BY <1>12 DEF Kept, SendNext, NothingQueued
<1>13. ASSUME NEW w \in Workers, RegisterRecv(w) PROVE Kept
  BY <1>13 DEF Kept, RegisterRecv, IsConnected
<1>14. ASSUME NEW w \in Workers, RecvPost(w) PROVE Kept
  BY <1>14 DEF Kept, RecvPost, CallDisconnect, CanFail
<1>15. ASSUME NEW w \in Workers, RecvRelease(w) PROVE Kept
  BY <1>15 DEF Kept, RecvRelease
<1>16. ASSUME NEW w \in Workers, ProcessRecv(w) PROVE Kept
  BY <1>16 DEF Kept, ProcessRecv, CallDisconnect, RecvTaken
<1>17. ASSUME NEW w \in Workers, OnRecvPacket(w) PROVE Kept
  BY <1>17 DEF Kept, OnRecvPacket
<1>18. ASSUME NEW w \in Workers, OnRecvDone(w) PROVE Kept
  BY <1>18 DEF Kept, OnRecvDone
<1>19. ASSUME NEW t \in Threads, Disconnect(t) PROVE Kept
  BY <1>19 DEF Kept, Disconnect, WasConnected
<1>20. ASSUME NEW t \in Threads, OnDisconnected(t) PROVE Kept
  BY <1>20 DEF Kept, OnDisconnected
<1>21. ASSUME NEW t \in Threads, ReleaseSession(t) PROVE Kept
  BY <1>21 DEF Kept, ReleaseSession
<1>22. ASSUME NEW t \in Threads, RegisterDisconnect(t) PROVE Kept
  BY <1>22 DEF Kept, RegisterDisconnect
<1>23. ASSUME NEW w \in Workers, ProcessDisconnect(w) PROVE Kept
  BY <1>23 DEF Kept, ProcessDisconnect
<1>24. ASSUME Pop PROVE Kept
  BY <1>24 DEF Kept, Pop
<1>25. ASSUME UNCHANGED vars PROVE Kept
  BY <1>25 DEF Kept, vars
<1> QED
  BY <1>0, <1>1, <1>2, <1>3, <1>4, <1>5, <1>6, <1>7, <1>8, <1>9, <1>10, <1>11, <1>12, <1>13,
     <1>14, <1>15, <1>16, <1>17, <1>18, <1>19, <1>20, <1>21, <1>22, <1>23, <1>24, <1>25 DEF
     Next, WorkerStep, Inside

\* SendOrder: buffers leave in the order of Send and none twice, whatever
\* operations fail and however.
THEOREM SendsOrdered == Spec => []SendOrder
<1>1. Init => Ordered
  BY GrowingNone DEF Init, Ordered
<1>2. TokenInv /\ Ordered /\ [Next]_vars => Ordered'
  BY OrderedStep DEF TokenInv
<1>3. TokenInv /\ Ordered => SendOrder
  <2> SUFFICES ASSUME TokenInv, Ordered PROVE SendOrder
    OBVIOUS
  <2>0. wire \in Seq(Nat) /\ sendBuffers \in Seq(Nat) /\ sendQueue \in Seq(Nat) /\ nSent \in Nat
    BY DEF TokenInv, QueuesOK
  <2>1. PICK a \in Nat, b \in Nat :
          /\ a <= b /\ b <= nSent
          /\ Growing(wire, 0, a) /\ Growing(sendBuffers, a, b) /\ Growing(sendQueue, b, nSent)
    BY DEF Ordered
  <2>2. Growing(wire \o sendBuffers, 0, b) /\ wire \o sendBuffers \in Seq(Nat)
    BY <2>0, <2>1, GrowingConcat
  <2> DEFINE sent == wire \o sendBuffers
  <2>3. sent \in Seq(Nat) /\ Growing(sent, 0, b)
    BY <2>2
  <2> HIDE DEF sent
  <2>4. 0 \in Nat /\ 0 <= b
    BY <2>1
  <2>5. Growing(sent \o sendQueue, 0, nSent)
    BY <2>0, <2>1, <2>3, <2>4, GrowingConcat
  <2>6. Growing(wire \o sendBuffers \o sendQueue, 0, nSent)
    BY <2>5 DEF sent
  <2> QED
    BY <2>6 DEF SendOrder, Growing
<1> QED
  BY <1>1, <1>2, <1>3, TokenInvariant, PTL DEF Spec

-----------------------------------------------------------------------------
(* Towards the peer.                                                       *)

\* After a batch was dropped nothing is posted or sent.
LEMMA DroppedStep ==
  ASSUME ControlOK, ErrorClosed, Dropped, [Next]_vars
  PROVE  Dropped'
<1> USE DEF ControlOK, Threads, Go, ErrorClosed, DisconnectSteps, SendSteps, RecvSteps,
           connVars, registry, sendEvent, sendVars, recvVars, discVars, queueVars
<1> DEFINE Kept == /\ UNCHANGED <<sendBuffers, sendPending>>
                   /\ acceptPending' => acceptPending
                   /\ \A u \in Threads : /\ pc'[u] \in {"SendDrain", "SendPost"} =>
                                             pc[u] \in {"SendDrain", "SendPost"}
                                         /\ HoldsSend(u)' => HoldsSend(u)
                   /\ connected' => connected
                   /\ sendRegistered => sendRegistered'
<1>0. ASSUME Kept PROVE Dropped'
  BY <1>0 DEF Dropped
<1> HIDE DEF Kept
<1>1. ASSUME NEW w \in Workers, Accept(w) PROVE Dropped'
  BY <1>1 DEF Accept, Dropped
<1>2. ASSUME NEW w \in Workers, AddSession(w) PROVE Kept
  BY <1>2 DEF Kept, HoldsSend, AddSession
<1>3. ASSUME NEW w \in Workers, OnConnected(w) PROVE Kept
  BY <1>3 DEF Kept, HoldsSend, OnConnected
<1>4. ASSUME NEW w \in Workers, SendLogin(w) PROVE Dropped'
  BY <1>4 DEF SendLogin, Send, TakesRegistration, Dropped, HoldsSend
<1>5. ASSUME NEW t \in AppThreads, AppSend(t) PROVE Dropped'
  BY <1>5 DEF AppSend, Send, TakesRegistration, Dropped, HoldsSend
<1>6. ASSUME NEW t \in Threads, RegisterSend(t) PROVE Dropped'
  BY <1>6 DEF RegisterSend, IsConnected, Dropped, HoldsSend
<1>7. ASSUME NEW t \in Threads, SendDrain(t) PROVE Dropped'
  BY <1>7 DEF SendDrain, Dropped
<1>8. ASSUME NEW t \in Threads, SendPost(t) PROVE Dropped'
  BY <1>8 DEF SendPost, Dropped
<1>9. ASSUME NEW t \in Threads, SendRelease(t) PROVE Dropped'
  BY <1>9 DEF SendRelease, Dropped
<1>10. ASSUME NEW t \in Threads, SendStore(t) PROVE Dropped'
  BY <1>10 DEF SendStore, Dropped
<1>11. ASSUME NEW w \in Workers, ProcessSend(w) PROVE Dropped'
  BY <1>11 DEF ProcessSend, Dropped
<1>12. ASSUME NEW w \in Workers, SendNext(w) PROVE Dropped'
  BY <1>12 DEF SendNext, Dropped, HoldsSend
<1>13. ASSUME NEW w \in Workers, RegisterRecv(w) PROVE Kept
  BY <1>13 DEF Kept, HoldsSend, RegisterRecv, IsConnected
<1>14. ASSUME NEW w \in Workers, RecvPost(w) PROVE Kept
  BY <1>14 DEF Kept, HoldsSend, RecvPost, CallDisconnect, CanFail
<1>15. ASSUME NEW w \in Workers, RecvRelease(w) PROVE Kept
  BY <1>15 DEF Kept, HoldsSend, RecvRelease
<1>16. ASSUME NEW w \in Workers, ProcessRecv(w) PROVE Kept
  BY <1>16 DEF Kept, HoldsSend, ProcessRecv, CallDisconnect, RecvTaken
<1>17. ASSUME NEW w \in Workers, OnRecvPacket(w) PROVE Kept
  BY <1>17 DEF Kept, HoldsSend, OnRecvPacket
<1>18. ASSUME NEW w \in Workers, OnRecvDone(w) PROVE Kept
  BY <1>18 DEF Kept, HoldsSend, OnRecvDone
<1>19. ASSUME NEW t \in Threads, Disconnect(t) PROVE Kept
  BY <1>19 DEF Kept, HoldsSend, Disconnect, WasConnected
<1>20. ASSUME NEW t \in Threads, OnDisconnected(t) PROVE Kept
  BY <1>20 DEF Kept, HoldsSend, OnDisconnected
<1>21. ASSUME NEW t \in Threads, ReleaseSession(t) PROVE Kept
  BY <1>21 DEF Kept, HoldsSend, ReleaseSession
<1>22. ASSUME NEW t \in Threads, RegisterDisconnect(t) PROVE Kept
  BY <1>22 DEF Kept, HoldsSend, RegisterDisconnect
<1>23. ASSUME NEW w \in Workers, ProcessDisconnect(w) PROVE Kept
  BY <1>23 DEF Kept, HoldsSend, ProcessDisconnect
<1>24. ASSUME Pop PROVE Kept
  BY <1>24 DEF Kept, HoldsSend, Pop
<1>25. ASSUME UNCHANGED vars PROVE Kept
  BY <1>25 DEF Kept, HoldsSend, vars
<1> QED
  BY <1>0, <1>1, <1>2, <1>3, <1>4, <1>5, <1>6, <1>7, <1>8, <1>9, <1>10, <1>11, <1>12, <1>13,
     <1>14, <1>15, <1>16, <1>17, <1>18, <1>19, <1>20, <1>21, <1>22, <1>23, <1>24, <1>25 DEF
     Next, WorkerStep, Inside

\* The error path of RegisterSend drops the batch on a closed connection.
LEMMA ReleaseDrops ==
  ASSUME ControlOK, ErrorClosed, BeforeAccept, SendToken, NEW t \in Threads, SendRelease(t)
  PROVE  Dropped'
<1> USE DEF ControlOK, Threads, Go
<1>1. HoldsSend(t)
  BY DEF SendRelease, HoldsSend, SendSteps
<1>2. ~connected /\ ~sendPending /\ ~acceptPending
  BY <1>1 DEF SendRelease, ErrorClosed, SendToken, SendExclusive, BeforeAccept
<1>3. \A u \in Threads : u # t => pc[u] \notin {"SendDrain", "SendPost"}
  BY <1>1 DEF SendToken, SendExclusive, HoldsSend, SendSteps
<1> QED
  BY <1>2, <1>3 DEF SendRelease, Dropped, connVars

\* A failed completion drops the batch on its way to Disconnect, and the flag
\* stays set.
LEMMA FailureDrops ==
  ASSUME ControlOK, BeforeAccept, SendToken,
         NEW w \in Workers, ProcessSend(w), CallDisconnect(w, "Idle")
  PROVE  Dropped'
<1> USE DEF ControlOK, Threads, Go
<1>1. sendPending /\ pc[w] = "Idle" /\ sendRegistered /\ ~acceptPending
  BY DEF ProcessSend, SendToken, BeforeAccept, Untouched
<1>2. \A u \in Threads : ~HoldsSend(u)
  BY <1>1 DEF SendToken, SendExclusive
<1>3. UNCHANGED <<connected, acceptPending, sendRegistered>> /\ sendBuffers' = <<>> /\ ~sendPending'
  BY DEF ProcessSend, connVars
<1>4. \A u \in Threads : pc'[u] \notin {"SendDrain", "SendPost"} /\ ~HoldsSend(u)'
  BY <1>2 DEF CallDisconnect, HoldsSend, SendSteps, DisconnectSteps
<1> QED
  BY <1>1, <1>3, <1>4 DEF Dropped

\* The batch that was sent is the continuation of the wire.
LEMMA Extends ==
  ASSUME QueuesOK, WirePrefix, Whole
  PROVE  /\ Len(wire \o sendBuffers) = Len(wire) + Len(sendBuffers)
         /\ \A i \in 1..Len(wire \o sendBuffers) : (wire \o sendBuffers)[i] = i
<1> DEFINE r == wire \o sendBuffers
<1>1. /\ Len(r) = Len(wire) + Len(sendBuffers) /\ Len(wire) \in Nat /\ Len(sendBuffers) \in Nat
      /\ \A i \in 1..Len(wire) : r[i] = wire[i]
      /\ \A i \in 1..Len(sendBuffers) : r[Len(wire) + i] = sendBuffers[i]
  BY DEF QueuesOK
<1> HIDE DEF r
<1>2. ASSUME NEW i \in 1..Len(r) PROVE r[i] = i
  <2>1. CASE i <= Len(wire)
    BY <1>1, <2>1 DEF WirePrefix
  <2>2. CASE i > Len(wire)
    <3>1. i - Len(wire) \in 1..Len(sendBuffers) /\ i = Len(wire) + (i - Len(wire))
      BY <1>1, <2>2
    <3>2. r[i] = sendBuffers[i - Len(wire)] /\ sendBuffers[i - Len(wire)] = Len(wire) + (i - Len(wire))
      BY <1>1, <3>1 DEF Whole
    <3> QED BY <1>1, <3>2
  <2> QED BY <1>1, <2>1, <2>2
<1> QED
  BY <1>1, <1>2 DEF r

\* The wire grows by whole batches, and the batches by the whole queue.
LEMMA SendPathStep ==
  ASSUME TokenInv, ErrorClosed, SendPath, [Next]_vars
  PROVE  SendPath'
<1> USE DEF connVars, registry, sendEvent, sendVars, recvVars, discVars, queueVars, Threads
<1>52. /\ ControlOK /\ SendToken /\ BeforeAccept /\ QueuesOK
       /\ wire \in Seq(Nat) /\ sendBuffers \in Seq(Nat) /\ sendQueue \in Seq(Nat) /\ nSent \in Nat
  BY DEF TokenInv, QueuesOK
<1>51. Dropped => Dropped'
  BY <1>52, DroppedStep
<1>50. ASSUME NEW t \in Threads, NEW ret, Send(t, ret) PROVE SendPath'
  <2>1. /\ UNCHANGED <<wire, sendBuffers>> /\ nSent' = nSent + 1
        /\ sendQueue' = Append(sendQueue, nSent + 1)
    BY <1>50 DEF Send
  <2>2. /\ Len(sendQueue') = Len(sendQueue) + 1 /\ Len(sendQueue) \in Nat
        /\ sendQueue'[Len(sendQueue) + 1] = nSent + 1
        /\ \A i \in 1..Len(sendQueue) : sendQueue'[i] = sendQueue[i]
        /\ Len(wire) \in Nat /\ Len(sendBuffers) \in Nat
    BY <1>52, <2>1
  <2>3. WirePrefix'
    BY <1>52, <2>1, <2>2 DEF SendPath, WirePrefix
  <2>4. Whole => Whole'
    BY <2>1, <2>2 DEF Whole
  <2> QED
    BY <1>51, <2>3, <2>4 DEF SendPath
<1> DEFINE Kept == UNCHANGED <<wire, sendBuffers, sendQueue, nSent>>
<1>0. ASSUME Kept PROVE SendPath'
  BY <1>0, <1>51 DEF SendPath, WirePrefix, Whole
<1> HIDE DEF Kept
<1>1. ASSUME NEW w \in Workers, Accept(w) PROVE Kept
  BY <1>1 DEF Kept, Accept
<1>2. ASSUME NEW w \in Workers, AddSession(w) PROVE Kept
  BY <1>2 DEF Kept, AddSession
<1>3. ASSUME NEW w \in Workers, OnConnected(w) PROVE Kept
  BY <1>3 DEF Kept, OnConnected
<1>4. ASSUME NEW w \in Workers, SendLogin(w) PROVE SendPath'
  BY <1>4, <1>50 DEF SendLogin
<1>5. ASSUME NEW t \in AppThreads, AppSend(t) PROVE SendPath'
  BY <1>5, <1>50 DEF AppSend
<1>6. ASSUME NEW t \in Threads, RegisterSend(t) PROVE Kept
  BY <1>6 DEF Kept, RegisterSend, IsConnected
<1>7. ASSUME NEW t \in Threads, SendDrain(t) PROVE SendPath'
  <2>1. Whole
    BY <1>7, <1>52 DEF SendDrain, SendPath, Dropped
  <2> DEFINE r == sendBuffers \o sendQueue
  <2>2. /\ Len(r) = Len(sendBuffers) + Len(sendQueue) /\ Len(sendBuffers) \in Nat /\ Len(sendQueue) \in Nat
        /\ Len(wire) \in Nat
        /\ \A i \in 1..Len(sendBuffers) : r[i] = sendBuffers[i]
        /\ \A i \in 1..Len(sendQueue) : r[Len(sendBuffers) + i] = sendQueue[i]
    BY <1>52
  <2>3. UNCHANGED <<wire, nSent>> /\ sendQueue' = <<>> /\ sendBuffers' = r
    BY <1>7 DEF SendDrain
  <2> HIDE DEF r
  <2>4. ASSUME NEW i \in 1..Len(r) PROVE r[i] = Len(wire) + i
    <3>1. CASE i <= Len(sendBuffers)
      BY <2>1, <2>2, <3>1 DEF Whole
    <3>2. CASE i > Len(sendBuffers)
      <4>1. i - Len(sendBuffers) \in 1..Len(sendQueue) /\ i = Len(sendBuffers) + (i - Len(sendBuffers))
        BY <2>2, <3>2
      <4>2. r[i] = sendQueue[i - Len(sendBuffers)]
        BY <2>2, <4>1
      <4>3. sendQueue[i - Len(sendBuffers)] = Len(wire) + Len(sendBuffers) + (i - Len(sendBuffers))
        BY <2>1, <4>1 DEF Whole
      <4> QED BY <2>2, <4>2, <4>3
    <3> QED BY <2>2, <3>1, <3>2
  <2>5. Len(sendQueue') = 0
    BY <2>3
  <2>6. Whole'
    BY <2>1, <2>2, <2>3, <2>4, <2>5 DEF Whole
  <2> QED
    BY <2>3, <2>6 DEF SendPath, WirePrefix
<1>8. ASSUME NEW t \in Threads, SendPost(t) PROVE Kept
  BY <1>8 DEF Kept, SendPost, CallDisconnect, CanFail
<1>9. ASSUME NEW t \in Threads, SendRelease(t) PROVE SendPath'
  <2>1. UNCHANGED <<wire, nSent>>
    BY <1>9 DEF SendRelease
  <2> QED
    BY <1>9, <1>52, <2>1, ReleaseDrops DEF SendPath, WirePrefix
<1>10. ASSUME NEW t \in Threads, SendStore(t) PROVE Kept
  BY <1>10 DEF Kept, SendStore
<1>11. ASSUME NEW w \in Workers, ProcessSend(w) PROVE SendPath'
  <2>1. CASE CallDisconnect(w, "Idle") /\ UNCHANGED wire
    <3>1. UNCHANGED nSent
      BY <1>11 DEF ProcessSend
    <3> QED
      BY <1>11, <1>52, <2>1, <3>1, FailureDrops DEF SendPath, WirePrefix
  <2>2. CASE wire' = wire \o sendBuffers
    <3>1. Whole
      BY <1>11 DEF ProcessSend, SendPath, Dropped
    <3>2. UNCHANGED <<nSent, sendQueue>> /\ sendBuffers' = <<>> /\ Len(sendBuffers') = 0
      BY <1>11 DEF ProcessSend
    <3>3. /\ Len(wire') = Len(wire) + Len(sendBuffers)
          /\ \A i \in 1..Len(wire') : wire'[i] = i
      BY <1>52, <2>2, <3>1, Extends DEF SendPath
    <3>4. Len(sendQueue) \in Nat /\ Len(wire) \in Nat /\ Len(sendBuffers) \in Nat
      BY <1>52
    <3>5. Whole'
      BY <3>1, <3>2, <3>3, <3>4 DEF Whole
    <3>6. WirePrefix'
      BY <3>1, <3>2, <3>3, <3>4 DEF Whole, WirePrefix
    <3> QED
      BY <3>5, <3>6 DEF SendPath
  <2> QED
    BY <1>11, <2>1, <2>2 DEF ProcessSend
<1>12. ASSUME NEW w \in Workers, SendNext(w) PROVE Kept
  BY <1>12 DEF Kept, SendNext, NothingQueued
<1>13. ASSUME NEW w \in Workers, RegisterRecv(w) PROVE Kept
  BY <1>13 DEF Kept, RegisterRecv, IsConnected
<1>14. ASSUME NEW w \in Workers, RecvPost(w) PROVE Kept
  BY <1>14 DEF Kept, RecvPost, CallDisconnect, CanFail
<1>15. ASSUME NEW w \in Workers, RecvRelease(w) PROVE Kept
  BY <1>15 DEF Kept, RecvRelease
<1>16. ASSUME NEW w \in Workers, ProcessRecv(w) PROVE Kept
  BY <1>16 DEF Kept, ProcessRecv, CallDisconnect, RecvTaken
<1>17. ASSUME NEW w \in Workers, OnRecvPacket(w) PROVE Kept
  BY <1>17 DEF Kept, OnRecvPacket
<1>18. ASSUME NEW w \in Workers, OnRecvDone(w) PROVE Kept
  BY <1>18 DEF Kept, OnRecvDone
<1>19. ASSUME NEW t \in Threads, Disconnect(t) PROVE Kept
  BY <1>19 DEF Kept, Disconnect, WasConnected
<1>20. ASSUME NEW t \in Threads, OnDisconnected(t) PROVE Kept
  BY <1>20 DEF Kept, OnDisconnected
<1>21. ASSUME NEW t \in Threads, ReleaseSession(t) PROVE Kept
  BY <1>21 DEF Kept, ReleaseSession
<1>22. ASSUME NEW t \in Threads, RegisterDisconnect(t) PROVE Kept
  BY <1>22 DEF Kept, RegisterDisconnect
<1>23. ASSUME NEW w \in Workers, ProcessDisconnect(w) PROVE Kept
  BY <1>23 DEF Kept, ProcessDisconnect
<1>24. ASSUME Pop PROVE Kept
  BY <1>24 DEF Kept, Pop
<1>25. ASSUME UNCHANGED vars PROVE Kept
  BY <1>25 DEF Kept, vars
<1> QED
  BY <1>0, <1>1, <1>2, <1>3, <1>4, <1>5, <1>6, <1>7, <1>8, <1>9, <1>10, <1>11, <1>12, <1>13,
     <1>14, <1>15, <1>16, <1>17, <1>18, <1>19, <1>20, <1>21, <1>22, <1>23, <1>24, <1>25 DEF
     Next, WorkerStep, Inside

-----------------------------------------------------------------------------
(* Towards the main thread.                                                *)

\* The thread in the loop of OnRecv is the only one with packets to hand over,
\* and no receive is posted behind its back.
LEMMA OneBatch ==
  ASSUME ControlOK, RecvExclusive, BatchNext, NEW w \in Threads, pc[w] = "OnRecv"
  PROVE  ~Posting /\ \A u \in Threads \ {w} : batch[u] = <<>>
<1>1. HoldsRecv(w)
  BY DEF HoldsRecv, RecvSteps
<1>2. \A u \in Threads : pc[u] \in {"OnRecv", "RecvPost"} => HoldsRecv(u)
  BY DEF HoldsRecv, RecvSteps
<1> QED
  BY <1>1, <1>2 DEF RecvExclusive, BatchNext, Posting

\* Pushing one more data packet.
LEMMA PushData ==
  ASSUME NEW n \in Nat, n # Disc, packets \in Seq(Nat), packets' = Append(packets, n)
  PROVE  /\ Marked' = Marked
         /\ Pushed' = Pushed + 1
         /\ Pushed \in Int
         /\ Len(packets') = Len(packets) + 1
         /\ \A i \in 1..Len(packets') : packets'[i] = Disc => i \in 1..Len(packets) /\ packets[i] = Disc
<1>1. /\ Len(packets') = Len(packets) + 1 /\ Len(packets) \in Nat
      /\ packets'[Len(packets) + 1] = n
      /\ \A i \in 1..Len(packets) : packets'[i] = packets[i]
  OBVIOUS
<1>2. \A i \in 1..Len(packets') : packets'[i] = Disc => i \in 1..Len(packets) /\ packets[i] = Disc
  BY <1>1
<1>3. Marked' = Marked
  BY <1>1, <1>2 DEF Marked
<1> QED
  BY <1>1, <1>2, <1>3 DEF Pushed

\* Pushing the report of the end.
LEMMA PushDisc ==
  ASSUME ~Marked, packets \in Seq(Nat), packets' = Append(packets, Disc)
  PROVE  /\ Marked'
         /\ Pushed' = Pushed
         /\ Len(packets') = Len(packets) + 1
         /\ \A i \in 1..Len(packets') : packets'[i] = Disc => i = Len(packets')
<1>1. /\ Len(packets') = Len(packets) + 1 /\ Len(packets) \in Nat
      /\ packets'[Len(packets) + 1] = Disc
      /\ \A i \in 1..Len(packets) : packets'[i] = packets[i]
  BY DEF Disc
<1>2. Marked'
  BY <1>1 DEF Marked
<1>3. \A i \in 1..Len(packets') : packets'[i] = Disc => i = Len(packets')
  BY <1>1 DEF Marked
<1> QED
  BY <1>1, <1>2, <1>3 DEF Pushed

\* The packets of a receive are pushed one after the other, and none is
\* posted after the end was reported.
LEMMA RecvPathStep ==
  ASSUME TokenInv, RecvPath, [Next]_vars
  PROVE  RecvPath'
<1> USE DEF connVars, registry, sendEvent, sendVars, recvVars, discVars, queueVars, Threads, Go,
           SendSteps, RecvSteps, DisconnectSteps
<1>50. /\ ControlOK /\ RecvExclusive /\ BeforeAccept /\ OneDisconnect
       /\ packets \in Seq(Nat) /\ batch \in [Threads -> Seq(Nat)] /\ arrived \in Nat
       /\ pc \in [Threads -> {"Idle", "SendNext"} \cup SendSteps \cup RecvSteps \cup DisconnectSteps]
       /\ rsRet \in [Threads -> {"Idle", "RegisterRecv"}]
       /\ dcRet \in [Threads -> {"Idle", "SendRelease", "RecvRelease"}]
  BY DEF TokenInv, QueuesOK, ControlOK
<1>51. \A u \in Threads : batch[u] # <<>> => pc[u] = "OnRecv"
  BY DEF RecvPath, BatchNext
<1> USE <1>50, <1>51
<1> DEFINE Kept == /\ UNCHANGED <<packets, batch, arrived>>
                   /\ connected' => connected
                   /\ acceptPending' => acceptPending
                   /\ \A u \in Threads : /\ pc'[u] = "OnDisconnected" => pc[u] = "OnDisconnected"
                                         /\ batch[u] # <<>> => pc'[u] = pc[u]
                   /\ Posting' => Posting
<1>0. ASSUME Kept PROVE RecvPath'
  <2>1. Marked' = Marked /\ Pushed' = Pushed
    BY <1>0 DEF Marked, Pushed
  <2>2. MarkedOnce'
    BY <1>0, <2>1 DEF MarkedOnce, RecvPath
  <2>3. BatchNext'
    BY <1>0, <2>1 DEF BatchNext, RecvPath
  <2>4. LastBatch'
    BY <1>0 DEF LastBatch, RecvPath
  <2> QED BY <2>2, <2>3, <2>4 DEF RecvPath
<1> HIDE DEF Kept
<1>1. ASSUME NEW w \in Workers, Accept(w) PROVE RecvPath'
  <2>1. packets = <<>> /\ UNCHANGED <<packets, batch, arrived, recvPending>> /\ pc[w] = "Idle"
    BY <1>1 DEF Accept, BeforeAccept, Untouched
  <2>2. ~Marked /\ ~Marked' /\ Pushed' = Pushed
    BY <2>1 DEF Marked, Pushed
  <2>3. BatchNext'
    BY <1>1, <2>1, <2>2 DEF Accept, BatchNext, RecvPath
  <2>4. LastBatch'
    BY <2>1 DEF LastBatch
  <2> QED BY <2>2, <2>3, <2>4 DEF MarkedOnce, RecvPath
<1>2. ASSUME NEW w \in Workers, AddSession(w) PROVE Kept
  BY <1>2 DEF Kept, Posting, AddSession
<1>3. ASSUME NEW w \in Workers, OnConnected(w) PROVE Kept
  BY <1>3 DEF Kept, Posting, OnConnected
<1>4. ASSUME NEW w \in Workers, SendLogin(w) PROVE Kept
  BY <1>4 DEF Kept, Posting, SendLogin, Send, TakesRegistration
<1>5. ASSUME NEW t \in AppThreads, AppSend(t) PROVE Kept
  BY <1>5 DEF Kept, Posting, AppSend, Send, TakesRegistration
<1>6. ASSUME NEW t \in Threads, RegisterSend(t) PROVE Kept
  BY <1>6 DEF Kept, Posting, RegisterSend, IsConnected
<1>7. ASSUME NEW t \in Threads, SendDrain(t) PROVE Kept
  BY <1>7 DEF Kept, Posting, SendDrain
<1>8. ASSUME NEW t \in Threads, SendPost(t) PROVE Kept
  BY <1>8 DEF Kept, Posting, SendPost, CallDisconnect, CanFail
<1>9. ASSUME NEW t \in Threads, SendRelease(t) PROVE Kept
  BY <1>9 DEF Kept, Posting, SendRelease
<1>10. ASSUME NEW t \in Threads, SendStore(t) PROVE Kept
  BY <1>10 DEF Kept, Posting, SendStore
<1>11. ASSUME NEW w \in Workers, ProcessSend(w) PROVE Kept
  BY <1>11 DEF Kept, Posting, ProcessSend, CallDisconnect
<1>12. ASSUME NEW w \in Workers, SendNext(w) PROVE Kept
  BY <1>12 DEF Kept, Posting, SendNext, NothingQueued
<1>13. ASSUME NEW w \in Workers, RegisterRecv(w) PROVE RecvPath'
  <2>1. CASE ~connected
    <3>1. Kept
      BY <1>13, <2>1 DEF Kept, Posting, RegisterRecv, IsConnected
    <3> QED BY <3>1, <1>0
  <2>2. CASE connected
    <3>1. ~Marked /\ UNCHANGED <<packets, batch, arrived>>
      BY <1>13, <2>2 DEF RegisterRecv, MarkedOnce, RecvPath
    <3>2. ~Marked' /\ Pushed' = Pushed
      BY <3>1 DEF Marked, Pushed
    <3>3. BatchNext'
      BY <1>13, <3>1, <3>2 DEF RegisterRecv, BatchNext, RecvPath
    <3>4. LastBatch'
      BY <3>2 DEF LastBatch, Marked
    <3> QED BY <3>2, <3>3, <3>4 DEF MarkedOnce, RecvPath
  <2> QED BY <2>1, <2>2
<1>14. ASSUME NEW w \in Workers, RecvPost(w) PROVE Kept
  BY <1>14 DEF Kept, Posting, RecvPost, CallDisconnect, CanFail
<1>15. ASSUME NEW w \in Workers, RecvRelease(w) PROVE Kept
  BY <1>15 DEF Kept, Posting, RecvRelease
<1>16. ASSUME NEW w \in Workers, ProcessRecv(w) PROVE RecvPath'
  <2>1. CASE UNCHANGED <<batch, arrived>> /\ CallDisconnect(w, "Idle")
    <3>1. Kept
      BY <1>16, <2>1 DEF Kept, Posting, ProcessRecv, CallDisconnect, RecvTaken
    <3> QED BY <3>1, <1>0
  <2>2. ASSUME NEW n \in 0..MaxBatch, arrived' = arrived + n,
               batch' = [batch EXCEPT ![w] = [i \in 1..n |-> arrived + i]], Go(w, "OnRecv")
        PROVE  RecvPath'
    <3>1. /\ pc[w] = "Idle" /\ recvPending /\ ~recvPending' /\ UNCHANGED <<packets, connected, acceptPending>>
      BY <1>16 DEF ProcessRecv, RecvTaken
    <3>2. \A u \in Threads : pc[u] # "OnRecv" /\ pc[u] # "RecvPost"
      BY <3>1 DEF RecvExclusive, HoldsRecv
    <3>3. \A u \in Threads : batch[u] = <<>>
      BY <3>2 DEF BatchNext, RecvPath
    <3>4. Marked' = Marked /\ Pushed' = Pushed /\ arrived = Pushed
      BY <3>1, <3>3 DEF Marked, Pushed, BatchNext, RecvPath
    <3>5. /\ batch'[w] = [i \in 1..n |-> arrived + i] /\ Len(batch'[w]) = n
          /\ \A u \in Threads \ {w} : batch'[u] = <<>> /\ Len(batch'[u]) = 0
      BY <2>2, <3>3
    <3>6. MarkedOnce'
      BY <2>2, <3>1, <3>4 DEF MarkedOnce, RecvPath
    <3>7. BatchNext'
      <4>1. pc'[w] = "OnRecv"
        BY <2>2
      <4>2. \A u \in Threads : batch'[u] # <<>> => u = w
        BY <3>5
      <4>3. (\A u \in Threads : batch'[u] = <<>>) => n = 0
        BY <3>5
      <4>4. n = 0 => arrived' = Pushed'
        BY <2>2, <3>4
      <4>5. \A i \in 1..n : batch'[w][i] = Pushed' + i
        BY <3>4, <3>5
      <4>6. arrived' = Pushed' + n /\ n <= MaxBatch /\ 0 <= MaxBatch
        BY <2>2, <3>4, BoundAssumption
      <4>7. ASSUME NEW u \in Threads \ {w}
            PROVE  batch'[u] = <<>> /\ Len(batch'[u]) <= MaxBatch /\ 1..Len(batch'[u]) = {}
        BY <3>5, <4>6
      <4> QED BY <3>5, <4>1, <4>2, <4>3, <4>4, <4>5, <4>6, <4>7 DEF BatchNext
    <3>8. LastBatch'
      <4>1. ASSUME NEW i \in 1..Len(packets), packets[i] = Disc
            PROVE  i = Len(packets)
        BY <3>1, <4>1 DEF Posting, LastBatch, RecvPath
      <4>2. \A u \in Threads : pc'[u] # "RecvPost"
        BY <2>2, <3>2
      <4>3. \A u \in Threads : Len(batch'[u]) \in Nat /\ Len(batch'[u]) <= MaxBatch
        <5>1. ASSUME NEW u \in Threads
              PROVE  Len(batch'[u]) = n \/ Len(batch'[u]) = 0
          BY <3>5
        <5> QED BY <5>1, BoundAssumption
      <4>4. \A i \in 1..Len(packets') : packets'[i] = Disc => Len(packets') - i = 0
        BY <3>1, <4>1
      <4>5. ~Posting'
        BY <3>1, <4>2 DEF Posting
      <4>6. \A u \in Threads : 0 + Len(batch'[u]) <= MaxBatch
        BY <4>3
      <4> QED BY <4>4, <4>5, <4>6 DEF LastBatch
    <3> QED BY <3>6, <3>7, <3>8 DEF RecvPath
  <2> QED BY <1>16, <2>1, <2>2 DEF ProcessRecv
<1>17. ASSUME NEW w \in Workers, OnRecvPacket(w) PROVE RecvPath'
  <2>1. /\ pc[w] = "OnRecv" /\ batch[w] # <<>> /\ batch[w] \in Seq(Nat)
        /\ packets' = Append(packets, batch[w][1]) /\ batch' = [batch EXCEPT ![w] = Tail(batch[w])]
        /\ UNCHANGED <<connected, acceptPending, recvPending, pc, arrived>>
    BY <1>17 DEF OnRecvPacket
  <2>2. ~Posting /\ \A u \in Threads \ {w} : batch[u] = <<>>
    BY <2>1, OneBatch DEF RecvPath
  <2>3. /\ arrived = Pushed + Len(batch[w]) /\ Len(batch[w]) <= MaxBatch
        /\ \A i \in 1..Len(batch[w]) : batch[w][i] = Pushed + i
    BY <2>1 DEF BatchNext, RecvPath
  <2>4. Len(batch[w]) \in Nat \ {0} /\ batch[w][1] \in Nat
    BY <2>1
  <2>5. Pushed \in Nat
    <3>1. Len(packets) \in Nat /\ (Marked => Len(packets) # 0)
      BY DEF Marked
    <3> QED BY <3>1 DEF Pushed
  <2>6. batch[w][1] = Pushed + 1
    BY <2>3, <2>4
  <2>7. batch[w][1] # Disc
    BY <2>5, <2>6 DEF Disc
  <2>8. /\ Marked' = Marked /\ Pushed' = Pushed + 1
        /\ Len(packets') = Len(packets) + 1
        /\ \A i \in 1..Len(packets') : packets'[i] = Disc => i \in 1..Len(packets) /\ packets[i] = Disc
    BY <2>1, <2>4, <2>7, PushData
  <2>9. /\ batch'[w] = Tail(batch[w]) /\ Len(batch'[w]) = Len(batch[w]) - 1
        /\ \A i \in 1..Len(batch[w]) - 1 : batch'[w][i] = batch[w][i + 1]
        /\ \A u \in Threads \ {w} : batch'[u] = <<>> /\ Len(batch'[u]) = 0
    BY <2>1, <2>2
  <2>10. MarkedOnce'
    BY <2>1, <2>8 DEF MarkedOnce, RecvPath
  <2>11. BatchNext'
    <3>1. \A i \in 1..Len(batch'[w]) : batch'[w][i] = Pushed' + i
      BY <2>3, <2>4, <2>5, <2>8, <2>9
    <3>2. arrived' = Pushed' + Len(batch'[w]) /\ Len(batch'[w]) <= MaxBatch
      <4>1. arrived = Pushed + Len(batch[w]) /\ Len(batch[w]) <= MaxBatch /\ MaxBatch \in Nat
        BY <2>3, BoundAssumption
      <4>2. arrived' = arrived /\ Pushed' = Pushed + 1 /\ Len(batch'[w]) = Len(batch[w]) - 1
        BY <2>1, <2>8, <2>9
      <4> QED BY <2>4, <2>5, <4>1, <4>2
    <3>3. batch'[w] = <<>> => Len(batch'[w]) = 0
      OBVIOUS
    <3>4. (\A u \in Threads : batch'[u] = <<>>) => arrived' = Pushed'
      <4>1. (\A u \in Threads : batch'[u] = <<>>) => Len(batch[w]) = 1
        BY <2>4, <2>9, <3>3
      <4>2. arrived' = Pushed + Len(batch[w]) /\ Pushed' = Pushed + 1
        BY <2>1, <2>3, <2>8
      <4> QED BY <4>1, <4>2
    <3>5. \A u \in Threads :
            /\ batch'[u] # <<>> => pc'[u] = "OnRecv" /\ arrived' = Pushed' + Len(batch'[u])
            /\ Len(batch'[u]) <= MaxBatch
            /\ \A i \in 1..Len(batch'[u]) : batch'[u][i] = Pushed' + i
      <4>1. ASSUME NEW u \in Threads \ {w}
            PROVE  batch'[u] = <<>> /\ Len(batch'[u]) <= MaxBatch /\ 1..Len(batch'[u]) = {}
        BY <2>9, BoundAssumption
      <4> QED BY <2>1, <3>1, <3>2, <4>1
    <3> QED BY <3>4, <3>5 DEF BatchNext
  <2>12. LastBatch'
    <3>1. ASSUME NEW i \in 1..Len(packets), packets[i] = Disc
          PROVE  Len(packets) - i + Len(batch[w]) <= MaxBatch
      BY <3>1 DEF LastBatch, RecvPath
    <3>2. ~Posting'
      BY <2>1, <2>2 DEF Posting
    <3>3. ASSUME NEW i \in 1..Len(packets), packets[i] = Disc, NEW u \in Threads
          PROVE  Len(packets') - i + Len(batch'[u]) <= MaxBatch
      <4>1. Len(packets) \in Nat /\ Len(batch[w]) \in Nat \ {0} /\ MaxBatch \in Nat
        BY <2>4, BoundAssumption
      <4>2. u = w \/ Len(batch'[u]) = 0
        BY <2>9
      <4>3. Len(packets') = Len(packets) + 1 /\ Len(batch'[w]) = Len(batch[w]) - 1
        BY <2>8, <2>9
      <4>4. i \in Nat /\ Len(packets) - i + Len(batch[w]) <= MaxBatch
        BY <3>1, <3>3, <4>1
      <4>5. CASE u = w
        <5>1. Len(batch'[u]) = Len(batch[w]) - 1
          BY <4>3, <4>5
        <5> QED BY <4>1, <4>3, <4>4, <5>1
      <4>6. CASE Len(batch'[u]) = 0
        BY <4>1, <4>3, <4>4, <4>6
      <4> QED BY <4>2, <4>5, <4>6
    <3> QED BY <2>8, <3>2, <3>3 DEF LastBatch
  <2> QED BY <2>10, <2>11, <2>12 DEF RecvPath
<1>18. ASSUME NEW w \in Workers, OnRecvDone(w) PROVE Kept
  BY <1>18 DEF Kept, Posting, OnRecvDone
<1>19. ASSUME NEW t \in Threads, Disconnect(t) PROVE RecvPath'
  <2>1. CASE connected
    <3>1. ~Marked /\ UNCHANGED <<packets, batch, arrived>>
      BY <1>19, <2>1 DEF Disconnect, MarkedOnce, RecvPath
    <3>2. ~Marked' /\ Pushed' = Pushed
      BY <3>1 DEF Marked, Pushed
    <3>3. BatchNext'
      BY <1>19, <3>1, <3>2 DEF Disconnect, WasConnected, BatchNext, RecvPath
    <3>4. LastBatch'
      BY <3>2 DEF LastBatch, Marked
    <3> QED BY <3>2, <3>3, <3>4 DEF MarkedOnce, RecvPath
  <2>2. CASE ~connected
    <3>1. Kept
      BY <1>19, <2>2 DEF Kept, Posting, Disconnect, WasConnected
    <3> QED BY <3>1, <1>0
  <2> QED BY <2>1, <2>2
<1>20. ASSUME NEW t \in Threads, OnDisconnected(t) PROVE RecvPath'
  <2>1. /\ pc[t] = "OnDisconnected" /\ pc' = [pc EXCEPT ![t] = "ReleaseSession"]
        /\ packets' = Append(packets, Disc)
        /\ UNCHANGED <<connected, acceptPending, recvPending, batch, arrived>>
    BY <1>20 DEF OnDisconnected
  <2>2. ~Marked
    BY <2>1 DEF MarkedOnce, RecvPath
  <2>3. /\ Marked' /\ Pushed' = Pushed
        /\ Len(packets') = Len(packets) + 1
        /\ \A i \in 1..Len(packets') : packets'[i] = Disc => i = Len(packets')
    BY <2>1, <2>2, PushDisc
  <2>4. MarkedOnce'
    BY <2>1, <2>3 DEF MarkedOnce, OneDisconnect, Disconnecting
  <2>5. BatchNext'
    BY <2>1, <2>3 DEF BatchNext, RecvPath
  <2>6. LastBatch'
    <3>1. \A u \in Threads : Len(batch'[u]) <= MaxBatch /\ Len(batch'[u]) \in Nat
      BY <2>1 DEF BatchNext, RecvPath
    <3>2. \A i \in 1..Len(packets') : packets'[i] = Disc => Len(packets') - i = 0
      BY <2>3
    <3>3. \A u \in Threads : 0 + Len(batch'[u]) <= MaxBatch
      BY <3>1
    <3> QED BY <2>3, <3>2, <3>3 DEF LastBatch
  <2> QED BY <2>4, <2>5, <2>6 DEF RecvPath
<1>21. ASSUME NEW t \in Threads, ReleaseSession(t) PROVE Kept
  BY <1>21 DEF Kept, Posting, ReleaseSession
<1>22. ASSUME NEW t \in Threads, RegisterDisconnect(t) PROVE Kept
  BY <1>22 DEF Kept, Posting, RegisterDisconnect
<1>23. ASSUME NEW w \in Workers, ProcessDisconnect(w) PROVE Kept
  BY <1>23 DEF Kept, Posting, ProcessDisconnect
<1>24. ASSUME Pop PROVE Kept
  BY <1>24 DEF Kept, Posting, Pop
<1>25. ASSUME UNCHANGED vars PROVE Kept
  BY <1>25 DEF Kept, Posting, vars
<1> QED
  BY <1>0, <1>1, <1>2, <1>3, <1>4, <1>5, <1>6, <1>7, <1>8, <1>9, <1>10, <1>11, <1>12, <1>13,
     <1>14, <1>15, <1>16, <1>17, <1>18, <1>19, <1>20, <1>21, <1>22, <1>23, <1>24, <1>25 DEF
     Next, WorkerStep, Inside

-----------------------------------------------------------------------------
(* The refinement, step by step.                                           *)

RefineInv == TokenInv /\ ErrorClosed /\ SendPath /\ RecvPath

\* A completed send delivers the batch, the oldest buffers not yet delivered.
LEMMA DeliverStep ==
  ASSUME RefineInv, NEW w \in Workers, ProcessSend(w)
  PROVE  [Conn!Next]_(Conn!vars)
<1>1. QueuesOK /\ wire \in Seq(Nat) /\ sendBuffers \in Seq(Nat) /\ sendQueue \in Seq(Nat)
      /\ nSent \in Nat /\ sendPending
  BY DEF RefineInv, TokenInv, QueuesOK, ProcessSend
<1>2. UNCHANGED <<acceptPending, connected, nSent, packets>>
  BY DEF ProcessSend, connVars, queueVars
<1>3. CASE wire' = wire
  BY <1>2, <1>3 DEF Conn!vars
<1>4. CASE wire' = wire \o sendBuffers /\ sendBuffers # <<>>
  <2>1. WirePrefix /\ Whole
    BY <1>1 DEF RefineInv, SendPath, Dropped
  <2>2. /\ Len(wire') = Len(wire) + Len(sendBuffers)
        /\ \A i \in 1..Len(wire') : wire'[i] = i
    BY <1>1, <1>4, <2>1, Extends
  <2>3. Len(wire') \in Len(wire) + 1 .. nSent
    <3>1. Len(wire) \in Nat /\ Len(sendBuffers) \in Nat \ {0} /\ Len(sendQueue) \in Nat
      BY <1>1, <1>4
    <3> QED BY <2>1, <2>2, <3>1 DEF Whole
  <2>4. wire' \in Seq(Nat)
    BY <1>1, <1>4
  <2>5. wire' = [i \in 1..Len(wire') |-> i]
    BY <2>2, <2>4
  <2>6. Conn!Deliver
    BY <1>2, <2>3, <2>5 DEF Conn!Deliver
  <2> QED BY <2>6 DEF Conn!Next
<1>5. CASE wire' = wire \o sendBuffers /\ sendBuffers = <<>>
  <2>1. wire' = wire
    BY <1>1, <1>5
  <2> QED BY <1>3, <2>1
<1> QED
  BY <1>3, <1>4, <1>5 DEF ProcessSend

\* One packet handed to OnRecvPacket is one packet received.
LEMMA ReceiveStep ==
  ASSUME RefineInv, NEW w \in Workers, OnRecvPacket(w)
  PROVE  Conn!Receive
<1>1. /\ pc[w] = "OnRecv" /\ batch[w] # <<>> /\ batch[w] \in Seq(Nat) /\ packets \in Seq(Nat)
      /\ packets' = Append(packets, batch[w][1])
      /\ UNCHANGED <<acceptPending, connected, nSent, wire>>
  BY DEF RefineInv, TokenInv, QueuesOK, OnRecvPacket, connVars, sendVars, sendEvent, Threads
<1>2. ~acceptPending
  BY <1>1 DEF RefineInv, TokenInv, BeforeAccept, Threads
<1>3. Len(batch[w]) \in Nat \ {0} /\ Len(packets) \in Nat /\ MaxBatch \in Nat
  BY <1>1, BoundAssumption
<1>4. batch[w][1] = Pushed + 1
  BY <1>3 DEF RefineInv, RecvPath, BatchNext, Threads
<1>5. Conn!Reported = Marked
  BY DEF Conn!Reported, Marked
<1>6. batch[w][1] = IF Conn!Reported THEN Len(packets) ELSE Len(packets) + 1
  BY <1>3, <1>4, <1>5 DEF Pushed
<1>7. ASSUME NEW i \in 1..Len(packets), packets[i] = Disc
      PROVE  Len(packets) - i < MaxBatch
  <2>1. Len(packets) - i + Len(batch[w]) <= MaxBatch
    BY <1>7 DEF RefineInv, RecvPath, LastBatch, Threads
  <2> QED BY <1>3, <2>1
<1> QED
  BY <1>1, <1>2, <1>6, <1>7 DEF Conn!Receive

\* A call of Send is a Send of a connection that exists.
LEMMA SendStep ==
  ASSUME NEW t \in Threads, NEW ret, Send(t, ret), ~acceptPending
  PROVE  Conn!Send
BY DEF Send, Conn!Send, connVars, sendEvent, queueVars

\* Every step of the threads is a step of the connection or changes nothing
\* its users can see.
LEMMA StepRefines ==
  ASSUME RefineInv, [Next]_vars
  PROVE  [Conn!Next]_(Conn!vars)
<1> USE DEF connVars, registry, sendEvent, sendVars, recvVars, discVars, queueVars
<1> DEFINE Kept == UNCHANGED <<acceptPending, connected, nSent, wire, packets>>
<1>0. ASSUME Kept PROVE [Conn!Next]_(Conn!vars)
  BY <1>0 DEF Conn!vars
<1> HIDE DEF Kept
<1>1. ASSUME NEW w \in Workers, Accept(w) PROVE Conn!Connect
  BY <1>1 DEF Accept, Conn!Connect
<1>2. ASSUME NEW w \in Workers, SendLogin(w) PROVE Conn!Send
  <2>1. Starting(w) /\ w \in Threads
    BY <1>2 DEF SendLogin, Starting, Threads
  <2>2. ~acceptPending
    BY <2>1 DEF RefineInv, TokenInv, StartAlone
  <2> QED BY <1>2, <2>1, <2>2, SendStep DEF SendLogin
<1>3. ASSUME NEW t \in AppThreads, AppSend(t) PROVE Conn!Send
  <2>1. packets # <<>>
    <3>1. popped \in 0..Len(packets) /\ popped # 0 /\ packets \in Seq(Nat)
      BY <1>3 DEF AppSend, RefineInv, TokenInv, QueuesOK
    <3> QED BY <3>1
  <2>2. ~acceptPending
    BY <2>1 DEF RefineInv, TokenInv, BeforeAccept, Untouched
  <2> QED BY <1>3, <2>2, SendStep DEF AppSend, Threads
<1>4. ASSUME NEW w \in Workers, ProcessSend(w) PROVE [Conn!Next]_(Conn!vars)
  BY <1>4, DeliverStep
<1>5. ASSUME NEW w \in Workers, OnRecvPacket(w) PROVE Conn!Receive
  BY <1>5, ReceiveStep
<1>6. ASSUME NEW t \in Threads, Disconnect(t) PROVE Conn!Close \/ Kept
  BY <1>6 DEF Disconnect, WasConnected, Conn!Close, Kept, RefineInv, TokenInv, FlagsOK
<1>7. ASSUME NEW t \in Threads, OnDisconnected(t) PROVE Conn!Report
  <2>1. Disconnecting(t)
    BY <1>7 DEF OnDisconnected, Disconnecting
  <2>2. ~connected /\ ~acceptPending
    BY <2>1 DEF RefineInv, TokenInv, OneDisconnect
  <2>3. ~Marked
    BY <1>7 DEF OnDisconnected, RefineInv, RecvPath, MarkedOnce
  <2> QED BY <1>7, <2>2, <2>3 DEF OnDisconnected, Conn!Report, Conn!Reported, Marked
<1>8. ASSUME NEW w \in Workers, \/ AddSession(w) \/ OnConnected(w) \/ SendNext(w)
                               \/ RegisterRecv(w) \/ RecvPost(w) \/ RecvRelease(w)
                               \/ OnRecvDone(w) \/ ProcessRecv(w) \/ ProcessDisconnect(w)
      PROVE  Kept
  BY <1>8 DEF Kept, AddSession, OnConnected, SendNext, RegisterRecv, RecvPost, RecvRelease,
     OnRecvDone, ProcessRecv, RecvTaken, ProcessDisconnect
<1>9. ASSUME NEW t \in Threads, \/ RegisterSend(t) \/ SendDrain(t) \/ SendPost(t)
                               \/ SendRelease(t) \/ SendStore(t) \/ ReleaseSession(t)
                               \/ RegisterDisconnect(t)
      PROVE  Kept
  BY <1>9 DEF Kept, RegisterSend, SendDrain, SendPost, SendRelease, SendStore, ReleaseSession,
     RegisterDisconnect
<1>10. ASSUME Pop PROVE Kept
  BY <1>10 DEF Kept, Pop
<1>11. ASSUME UNCHANGED vars PROVE Kept
  BY <1>11 DEF Kept, vars
<1> QED
  BY <1>0, <1>1, <1>2, <1>3, <1>4, <1>5, <1>6, <1>7, <1>8, <1>9, <1>10, <1>11
     DEF Next, WorkerStep, Inside, Conn!Next

\* IsConnection: when every failure on a live connection is a reset, Session
\* implements Connection: buffers go out and packets come in in order and
\* without a gap, and the end is reported once, for any number of workers and
\* application threads.
THEOREM ImplementsConnection ==
  ASSUME "other" \notin Failures
  PROVE  Spec => IsConnection
<1>1. Init => Conn!Init
  BY DEF Init, Conn!Init
<1>2. Init => ErrorClosed /\ SendPath /\ RecvPath
  <2> SUFFICES ASSUME Init PROVE ErrorClosed /\ SendPath /\ RecvPath
    OBVIOUS
  <2>1. WirePrefix /\ Whole
    BY DEF Init, WirePrefix, Whole
  <2>2. ~Marked /\ Pushed = 0 /\ \A t \in Threads : batch[t] = <<>> /\ Len(batch[t]) = 0
    BY DEF Init, Marked, Pushed
  <2>3. MarkedOnce /\ LastBatch
    BY <2>2 DEF MarkedOnce, LastBatch, Marked
  <2>4. BatchNext
    BY <2>2, BoundAssumption DEF Init, BatchNext
  <2> QED BY InitToken, <2>1, <2>3, <2>4 DEF SendPath, RecvPath
<1>3. TokenInv /\ (ErrorClosed /\ SendPath /\ RecvPath) /\ [Next]_vars
        => (ErrorClosed /\ SendPath /\ RecvPath)'
  BY ErrorClosedStep, SendPathStep, RecvPathStep DEF TokenInv
<1>4. TokenInv /\ (ErrorClosed /\ SendPath /\ RecvPath) /\ [Next]_vars => [Conn!Next]_(Conn!vars)
  BY StepRefines DEF RefineInv
<1> QED
  BY <1>1, <1>2, <1>3, <1>4, TokenInvariant, PTL DEF Spec, IsConnection, Conn!Spec
=============================================================================
