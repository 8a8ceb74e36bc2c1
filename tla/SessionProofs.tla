---------------------------- MODULE SessionProofs ----------------------------
(***************************************************************************)
(* What holds of Session for any number of threads and any bounds.         *)
(*                                                                         *)
(* The argument is one of tokens.  The right to work on the send event is  *)
(* a token that Send takes with the exchange of _sendRegistered, that a    *)
(* posted send carries, and that SendNext or SendStore gives back.  The    *)
(* right to work on the receive event is a token that the accept creates   *)
(* and that a posted receive carries.  The right to release the session is *)
(* what the one Disconnect that won the exchange of _connected holds.      *)
(* SendToken, RecvToken and Connection say so; they are inductive together *)
(* with the types, and Owners and FlagBacked follow step by step.          *)
(*                                                                         *)
(* Most step lemmas name in Kept what a step may do without touching their *)
(* tokens; the steps that do no more are dealt with by showing Kept, and   *)
(* the few that move a token have a proof of their own.                    *)
(***************************************************************************)
EXTENDS Session, TLAPS

Starting(t)      == pc[t] \in {"AddSession", "OnConnected", "SendLogin"}
Disconnecting(t) == pc[t] \in {"OnDisconnected", "ReleaseSession", "RegisterDisconnect"}

SendToken ==
  /\ SendExclusive
  /\ sendPending => sendRegistered
  /\ \A t \in Threads : HoldsSend(t) => sendRegistered

\* Before the accept nothing has happened; until the first RegisterRecv the
\* worker that accepted is alone.
Untouched ==
  /\ ~sendRegistered /\ ~recvPending /\ ~discPending
  /\ sendQueue = <<>> /\ packets = <<>>

BeforeAccept ==
  acceptPending => Untouched /\ ~connected /\ ~service /\ \A t \in Threads : pc[t] = "Idle"

StartAlone ==
  \A t \in Threads : Starting(t) =>
    /\ Untouched /\ connected /\ ~acceptPending
    /\ service = (pc[t] # "AddSession")
    /\ \A u \in Threads : u # t => pc[u] = "Idle"

\* One thread at most runs the body of Disconnect, once.
OneDisconnect ==
  /\ \A t \in Threads : Disconnecting(t) =>
       /\ ~connected /\ ~acceptPending /\ ~discPending
       /\ service = (pc[t] # "RegisterDisconnect")
       /\ \A u \in Threads : Disconnecting(u) => u = t
  /\ discPending => ~connected /\ ~acceptPending

Registry ==
  /\ connected => service \/ \E t \in Threads : pc[t] = "AddSession"
  /\ service => connected \/ \E t \in Threads : Disconnecting(t)
  /\ sessionCount = IF service THEN 1 ELSE 0

\* On a live connection a set flag has a token behind it, or a thread that is
\* about to disconnect.
FlagBacked ==
  (connected /\ sendRegistered) =>
    sendPending \/ \E t \in Threads : HoldsSend(t) \/ pc[t] = "Disconnect"

\* The owner is set from the registration of an operation to its completion.
Owners ==
  /\ PendingOwned
  /\ \A t \in Threads : /\ pc[t] \in {"SendDrain", "SendPost"} => sendOwner
                        /\ pc[t] = "RecvPost" => recvOwner

\* The error path of RegisterSend is left only on a closed session.
ErrorClosed ==
  \A t \in Threads : pc[t] \in {"SendRelease", "SendStore"} \/ Disconnecting(t) => ~connected

\* t will post the next receive, or disconnect.
Listens(t) ==
  \/ HoldsRecv(t) /\ pc[t] # "RecvRelease"
  \/ pc[t] = "Disconnect"

TokenInv ==
  /\ FlagsOK /\ QueuesOK /\ ControlOK
  /\ SendToken /\ RecvExclusive
  /\ BeforeAccept /\ StartAlone /\ OneDisconnect /\ Registry
  /\ FlagBacked /\ Owners

\* A thread is always at a step of the code and returns to a step that exists.
LEMMA ControlStep ==
  ASSUME ControlOK, [Next]_vars
  PROVE  ControlOK'
<1> USE DEF ControlOK, Go, Threads, DisconnectSteps, SendSteps, RecvSteps, connVars, registry,
           sendEvent, sendVars, recvVars, discVars, queueVars
<1>1. ASSUME NEW w \in Workers, Accept(w) PROVE ControlOK'
  BY <1>1 DEF Accept
<1>2. ASSUME NEW w \in Workers, AddSession(w) PROVE ControlOK'
  BY <1>2 DEF AddSession
<1>3. ASSUME NEW w \in Workers, OnConnected(w) PROVE ControlOK'
  BY <1>3 DEF OnConnected
<1>4. ASSUME NEW w \in Workers, SendLogin(w) PROVE ControlOK'
  BY <1>4 DEF SendLogin, Send, TakesRegistration
<1>5. ASSUME NEW t \in AppThreads, AppSend(t) PROVE ControlOK'
  BY <1>5 DEF AppSend, Send, TakesRegistration
<1>6. ASSUME NEW t \in Threads, RegisterSend(t) PROVE ControlOK'
  BY <1>6 DEF RegisterSend, IsConnected
<1>7. ASSUME NEW t \in Threads, SendDrain(t) PROVE ControlOK'
  BY <1>7 DEF SendDrain
<1>8. ASSUME NEW t \in Threads, SendPost(t) PROVE ControlOK'
  BY <1>8 DEF SendPost, CallDisconnect, CanFail
<1>9. ASSUME NEW t \in Threads, SendRelease(t) PROVE ControlOK'
  BY <1>9 DEF SendRelease
<1>10. ASSUME NEW t \in Threads, SendStore(t) PROVE ControlOK'
  BY <1>10 DEF SendStore
<1>11. ASSUME NEW w \in Workers, ProcessSend(w) PROVE ControlOK'
  BY <1>11 DEF ProcessSend, CallDisconnect
<1>12. ASSUME NEW w \in Workers, SendNext(w) PROVE ControlOK'
  BY <1>12 DEF SendNext, NothingQueued
<1>13. ASSUME NEW w \in Workers, RegisterRecv(w) PROVE ControlOK'
  BY <1>13 DEF RegisterRecv, IsConnected
<1>14. ASSUME NEW w \in Workers, RecvPost(w) PROVE ControlOK'
  BY <1>14 DEF RecvPost, CallDisconnect, CanFail
<1>15. ASSUME NEW w \in Workers, RecvRelease(w) PROVE ControlOK'
  BY <1>15 DEF RecvRelease
<1>16. ASSUME NEW w \in Workers, ProcessRecv(w) PROVE ControlOK'
  BY <1>16 DEF ProcessRecv, CallDisconnect, RecvTaken
<1>17. ASSUME NEW w \in Workers, OnRecvPacket(w) PROVE ControlOK'
  BY <1>17 DEF OnRecvPacket
<1>18. ASSUME NEW w \in Workers, OnRecvDone(w) PROVE ControlOK'
  BY <1>18 DEF OnRecvDone
<1>19. ASSUME NEW t \in Threads, Disconnect(t) PROVE ControlOK'
  BY <1>19 DEF Disconnect, WasConnected
<1>20. ASSUME NEW t \in Threads, OnDisconnected(t) PROVE ControlOK'
  BY <1>20 DEF OnDisconnected
<1>21. ASSUME NEW t \in Threads, ReleaseSession(t) PROVE ControlOK'
  BY <1>21 DEF ReleaseSession
<1>22. ASSUME NEW t \in Threads, RegisterDisconnect(t) PROVE ControlOK'
  BY <1>22 DEF RegisterDisconnect
<1>23. ASSUME NEW w \in Workers, ProcessDisconnect(w) PROVE ControlOK'
  BY <1>23 DEF ProcessDisconnect
<1>24. ASSUME Pop PROVE ControlOK'
  BY <1>24 DEF Pop
<1>25. ASSUME UNCHANGED vars PROVE ControlOK'
  BY <1>25 DEF vars
<1>26. QED
  BY <1>1, <1>2, <1>3, <1>4, <1>5, <1>6, <1>7, <1>8, <1>9, <1>10, <1>11, <1>12, <1>13, <1>14,
       <1>15, <1>16, <1>17, <1>18, <1>19, <1>20, <1>21, <1>22, <1>23, <1>24, <1>25 DEF Next,
       WorkerStep, Inside

\* The flags stay Boolean.
LEMMA FlagsStep ==
  ASSUME FlagsOK, [Next]_vars
  PROVE  FlagsOK'
<1> USE DEF FlagsOK, connVars, registry, sendEvent, sendVars, recvVars, discVars, queueVars
<1>1. ASSUME NEW w \in Workers, Accept(w) PROVE FlagsOK'
  BY <1>1 DEF Accept
<1>2. ASSUME NEW w \in Workers, AddSession(w) PROVE FlagsOK'
  BY <1>2 DEF AddSession
<1>3. ASSUME NEW w \in Workers, OnConnected(w) PROVE FlagsOK'
  BY <1>3 DEF OnConnected
<1>4. ASSUME NEW w \in Workers, SendLogin(w) PROVE FlagsOK'
  BY <1>4 DEF SendLogin, Send, TakesRegistration
<1>5. ASSUME NEW t \in AppThreads, AppSend(t) PROVE FlagsOK'
  BY <1>5 DEF AppSend, Send, TakesRegistration
<1>6. ASSUME NEW t \in Threads, RegisterSend(t) PROVE FlagsOK'
  BY <1>6 DEF RegisterSend, IsConnected
<1>7. ASSUME NEW t \in Threads, SendDrain(t) PROVE FlagsOK'
  BY <1>7 DEF SendDrain
<1>8. ASSUME NEW t \in Threads, SendPost(t) PROVE FlagsOK'
  BY <1>8 DEF SendPost, CallDisconnect, CanFail
<1>9. ASSUME NEW t \in Threads, SendRelease(t) PROVE FlagsOK'
  BY <1>9 DEF SendRelease
<1>10. ASSUME NEW t \in Threads, SendStore(t) PROVE FlagsOK'
  BY <1>10 DEF SendStore
<1>11. ASSUME NEW w \in Workers, ProcessSend(w) PROVE FlagsOK'
  BY <1>11 DEF ProcessSend, CallDisconnect
<1>12. ASSUME NEW w \in Workers, SendNext(w) PROVE FlagsOK'
  BY <1>12 DEF SendNext, NothingQueued
<1>13. ASSUME NEW w \in Workers, RegisterRecv(w) PROVE FlagsOK'
  BY <1>13 DEF RegisterRecv, IsConnected
<1>14. ASSUME NEW w \in Workers, RecvPost(w) PROVE FlagsOK'
  BY <1>14 DEF RecvPost, CallDisconnect, CanFail
<1>15. ASSUME NEW w \in Workers, RecvRelease(w) PROVE FlagsOK'
  BY <1>15 DEF RecvRelease
<1>16. ASSUME NEW w \in Workers, ProcessRecv(w) PROVE FlagsOK'
  BY <1>16 DEF ProcessRecv, CallDisconnect, RecvTaken
<1>17. ASSUME NEW w \in Workers, OnRecvPacket(w) PROVE FlagsOK'
  BY <1>17 DEF OnRecvPacket
<1>18. ASSUME NEW w \in Workers, OnRecvDone(w) PROVE FlagsOK'
  BY <1>18 DEF OnRecvDone
<1>19. ASSUME NEW t \in Threads, Disconnect(t) PROVE FlagsOK'
  BY <1>19 DEF Disconnect, WasConnected
<1>20. ASSUME NEW t \in Threads, OnDisconnected(t) PROVE FlagsOK'
  BY <1>20 DEF OnDisconnected
<1>21. ASSUME NEW t \in Threads, ReleaseSession(t) PROVE FlagsOK'
  BY <1>21 DEF ReleaseSession
<1>22. ASSUME NEW t \in Threads, RegisterDisconnect(t) PROVE FlagsOK'
  BY <1>22 DEF RegisterDisconnect
<1>23. ASSUME NEW w \in Workers, ProcessDisconnect(w) PROVE FlagsOK'
  BY <1>23 DEF ProcessDisconnect
<1>24. ASSUME Pop PROVE FlagsOK'
  BY <1>24 DEF Pop
<1>25. ASSUME UNCHANGED vars PROVE FlagsOK'
  BY <1>25 DEF vars
<1>26. QED
  BY <1>1, <1>2, <1>3, <1>4, <1>5, <1>6, <1>7, <1>8, <1>9, <1>10, <1>11, <1>12, <1>13, <1>14,
       <1>15, <1>16, <1>17, <1>18, <1>19, <1>20, <1>21, <1>22, <1>23, <1>24, <1>25 DEF Next,
       WorkerStep, Inside

\* The queues stay sequences of numbers, and Pop stays within the log.
LEMMA QueuesStep ==
  ASSUME QueuesOK, [Next]_vars
  PROVE  QueuesOK'
<1> USE DEF QueuesOK, Threads, Disc, connVars, registry, sendEvent, sendVars, recvVars, discVars,
           queueVars
<1>1. ASSUME NEW w \in Workers, Accept(w) PROVE QueuesOK'
  BY <1>1 DEF Accept
<1>2. ASSUME NEW w \in Workers, AddSession(w) PROVE QueuesOK'
  BY <1>2 DEF AddSession
<1>3. ASSUME NEW w \in Workers, OnConnected(w) PROVE QueuesOK'
  BY <1>3 DEF OnConnected
<1>4. ASSUME NEW w \in Workers, SendLogin(w) PROVE QueuesOK'
  BY <1>4 DEF SendLogin, Send, TakesRegistration
<1>5. ASSUME NEW t \in AppThreads, AppSend(t) PROVE QueuesOK'
  BY <1>5 DEF AppSend, Send, TakesRegistration
<1>6. ASSUME NEW t \in Threads, RegisterSend(t) PROVE QueuesOK'
  BY <1>6 DEF RegisterSend, IsConnected
<1>7. ASSUME NEW t \in Threads, SendDrain(t) PROVE QueuesOK'
  BY <1>7 DEF SendDrain
<1>8. ASSUME NEW t \in Threads, SendPost(t) PROVE QueuesOK'
  BY <1>8 DEF SendPost, CallDisconnect, CanFail
<1>9. ASSUME NEW t \in Threads, SendRelease(t) PROVE QueuesOK'
  BY <1>9 DEF SendRelease
<1>10. ASSUME NEW t \in Threads, SendStore(t) PROVE QueuesOK'
  BY <1>10 DEF SendStore
<1>11. ASSUME NEW w \in Workers, ProcessSend(w) PROVE QueuesOK'
  <2>1. wire' \in Seq(Nat)
    <3>1. wire \o sendBuffers \in Seq(Nat)
      OBVIOUS
    <3> QED BY <1>11, <3>1 DEF ProcessSend
  <2>2. sendBuffers' = <<>>
    BY <1>11 DEF ProcessSend
  <2> QED BY <1>11, <2>1, <2>2 DEF ProcessSend
<1>12. ASSUME NEW w \in Workers, SendNext(w) PROVE QueuesOK'
  BY <1>12 DEF SendNext, NothingQueued
<1>13. ASSUME NEW w \in Workers, RegisterRecv(w) PROVE QueuesOK'
  BY <1>13 DEF RegisterRecv, IsConnected
<1>14. ASSUME NEW w \in Workers, RecvPost(w) PROVE QueuesOK'
  BY <1>14 DEF RecvPost, CallDisconnect, CanFail
<1>15. ASSUME NEW w \in Workers, RecvRelease(w) PROVE QueuesOK'
  BY <1>15 DEF RecvRelease
<1>16. ASSUME NEW w \in Workers, ProcessRecv(w) PROVE QueuesOK'
  <2>1. batch' \in [Threads -> Seq(Nat)] /\ arrived' \in Nat
    <3>1. CASE UNCHANGED <<batch, arrived>>
      BY <3>1
    <3>2. ASSUME NEW n \in 0..MaxBatch, arrived' = arrived + n,
                 batch' = [batch EXCEPT ![w] = [i \in 1..n |-> arrived + i]]
          PROVE  batch' \in [Threads -> Seq(Nat)] /\ arrived' \in Nat
      <4>1. n \in Nat
        BY BoundAssumption
      <4>2. [i \in 1..n |-> arrived + i] \in Seq(Nat)
        BY <4>1
      <4> QED BY <3>2, <4>1, <4>2
    <3> QED BY <1>16, <3>1, <3>2 DEF ProcessRecv
  <2> QED BY <1>16, <2>1 DEF ProcessRecv
<1>17. ASSUME NEW w \in Workers, OnRecvPacket(w) PROVE QueuesOK'
  BY <1>17 DEF OnRecvPacket
<1>18. ASSUME NEW w \in Workers, OnRecvDone(w) PROVE QueuesOK'
  BY <1>18 DEF OnRecvDone
<1>19. ASSUME NEW t \in Threads, Disconnect(t) PROVE QueuesOK'
  BY <1>19 DEF Disconnect, WasConnected
<1>20. ASSUME NEW t \in Threads, OnDisconnected(t) PROVE QueuesOK'
  BY <1>20 DEF OnDisconnected
<1>21. ASSUME NEW t \in Threads, ReleaseSession(t) PROVE QueuesOK'
  BY <1>21 DEF ReleaseSession
<1>22. ASSUME NEW t \in Threads, RegisterDisconnect(t) PROVE QueuesOK'
  BY <1>22 DEF RegisterDisconnect
<1>23. ASSUME NEW w \in Workers, ProcessDisconnect(w) PROVE QueuesOK'
  BY <1>23 DEF ProcessDisconnect
<1>24. ASSUME Pop PROVE QueuesOK'
  BY <1>24 DEF Pop
<1>25. ASSUME UNCHANGED vars PROVE QueuesOK'
  BY <1>25 DEF vars
<1>26. QED
  BY <1>1, <1>2, <1>3, <1>4, <1>5, <1>6, <1>7, <1>8, <1>9, <1>10, <1>11, <1>12, <1>13, <1>14,
       <1>15, <1>16, <1>17, <1>18, <1>19, <1>20, <1>21, <1>22, <1>23, <1>24, <1>25 DEF Next,
       WorkerStep, Inside

\* The send token: Send creates it when there is none, SendPost hands it to
\* the posted operation, ProcessSend takes it back, SendNext and SendStore end
\* it; RegisterSend drops it with the flag left set when the session is closed.
LEMMA SendTokenStep ==
  ASSUME ControlOK, SendToken, [Next]_vars
  PROVE  SendToken'
<1> USE DEF ControlOK, Threads, Go, HoldsSend, DisconnectSteps, SendSteps, RecvSteps, connVars,
           registry, sendEvent, sendVars, recvVars, discVars, queueVars
<1> DEFINE Kept == /\ \A u \in Threads : HoldsSend(u)' => HoldsSend(u)
                   /\ UNCHANGED <<sendPending, sendRegistered>>
<1>0. ASSUME Kept PROVE SendToken'
  BY <1>0 DEF SendToken, SendExclusive
<1> HIDE DEF Kept
<1>1. ASSUME NEW w \in Workers, Accept(w) PROVE Kept
  BY <1>1 DEF Kept, Accept
<1>2. ASSUME NEW w \in Workers, AddSession(w) PROVE Kept
  BY <1>2 DEF Kept, AddSession
<1>3. ASSUME NEW w \in Workers, OnConnected(w) PROVE Kept
  BY <1>3 DEF Kept, OnConnected
<1>4. ASSUME NEW w \in Workers, SendLogin(w) PROVE SendToken'
  BY <1>4 DEF SendLogin, Send, TakesRegistration, SendToken, SendExclusive
<1>5. ASSUME NEW t \in AppThreads, AppSend(t) PROVE SendToken'
  BY <1>5 DEF AppSend, Send, TakesRegistration, SendToken, SendExclusive
<1>6. ASSUME NEW t \in Threads, RegisterSend(t) PROVE Kept
  BY <1>6 DEF Kept, RegisterSend, IsConnected
<1>7. ASSUME NEW t \in Threads, SendDrain(t) PROVE Kept
  BY <1>7 DEF Kept, SendDrain
<1>8. ASSUME NEW t \in Threads, SendPost(t) PROVE SendToken'
  BY <1>8 DEF SendPost, CallDisconnect, SendToken, SendExclusive
<1>9. ASSUME NEW t \in Threads, SendRelease(t) PROVE Kept
  BY <1>9 DEF Kept, SendRelease
<1>10. ASSUME NEW t \in Threads, SendStore(t) PROVE SendToken'
  BY <1>10 DEF SendStore, SendToken, SendExclusive
<1>11. ASSUME NEW w \in Workers, ProcessSend(w) PROVE SendToken'
  BY <1>11 DEF ProcessSend, CallDisconnect, SendToken, SendExclusive
<1>12. ASSUME NEW w \in Workers, SendNext(w) PROVE SendToken'
  BY <1>12 DEF SendNext, NothingQueued, SendToken, SendExclusive
<1>13. ASSUME NEW w \in Workers, RegisterRecv(w) PROVE Kept
  BY <1>13 DEF Kept, RegisterRecv, IsConnected
<1>14. ASSUME NEW w \in Workers, RecvPost(w) PROVE Kept
  BY <1>14 DEF Kept, RecvPost, CallDisconnect, CanFail
<1>15. ASSUME NEW w \in Workers, RecvRelease(w) PROVE Kept
  BY <1>15 DEF Kept, RecvRelease
<1>16. ASSUME NEW w \in Workers, ProcessRecv(w) PROVE Kept
  BY <1>16 DEF Kept, ProcessRecv, CallDisconnect, RecvTaken
<1>17. ASSUME NEW w \in Workers, OnRecvPacket(w) PROVE Kept
  BY <1>17 DEF Kept, OnRecvPacket
<1>18. ASSUME NEW w \in Workers, OnRecvDone(w) PROVE Kept
  BY <1>18 DEF Kept, OnRecvDone
<1>19. ASSUME NEW t \in Threads, Disconnect(t) PROVE Kept
  BY <1>19 DEF Kept, Disconnect, WasConnected
<1>20. ASSUME NEW t \in Threads, OnDisconnected(t) PROVE Kept
  BY <1>20 DEF Kept, OnDisconnected
<1>21. ASSUME NEW t \in Threads, ReleaseSession(t) PROVE Kept
  BY <1>21 DEF Kept, ReleaseSession
<1>22. ASSUME NEW t \in Threads, RegisterDisconnect(t) PROVE Kept
  BY <1>22 DEF Kept, RegisterDisconnect
<1>23. ASSUME NEW w \in Workers, ProcessDisconnect(w) PROVE Kept
  BY <1>23 DEF Kept, ProcessDisconnect
<1>24. ASSUME Pop PROVE Kept
  BY <1>24 DEF Kept, Pop
<1>25. ASSUME UNCHANGED vars PROVE Kept
  BY <1>25 DEF Kept, vars
<1>26. QED
  BY <1>0, <1>1, <1>2, <1>3, <1>4, <1>5, <1>6, <1>7, <1>8, <1>9, <1>10, <1>11, <1>12, <1>13,
       <1>14, <1>15, <1>16, <1>17, <1>18, <1>19, <1>20, <1>21, <1>22, <1>23, <1>24,
       <1>25 DEF Next, WorkerStep, Inside

\* The receive token: the accept creates it, RecvPost hands it to the posted
\* operation, ProcessRecv takes it back, and an early return ends it.
LEMMA RecvTokenStep ==
  ASSUME ControlOK, RecvExclusive, [Next]_vars
  PROVE  RecvExclusive'
<1> USE DEF ControlOK, Threads, Go, HoldsRecv, DisconnectSteps, SendSteps, RecvSteps, connVars,
           registry, sendEvent, sendVars, recvVars, discVars, queueVars
<1> DEFINE Kept == /\ \A u \in Threads : HoldsRecv(u)' => HoldsRecv(u)
                   /\ UNCHANGED <<recvPending, acceptPending>>
<1>0. ASSUME Kept PROVE RecvExclusive'
  BY <1>0 DEF RecvExclusive
<1> HIDE DEF Kept
<1>1. ASSUME NEW w \in Workers, Accept(w) PROVE RecvExclusive'
  BY <1>1 DEF Accept, RecvExclusive
<1>2. ASSUME NEW w \in Workers, AddSession(w) PROVE Kept
  BY <1>2 DEF Kept, AddSession
<1>3. ASSUME NEW w \in Workers, OnConnected(w) PROVE Kept
  BY <1>3 DEF Kept, OnConnected
<1>4. ASSUME NEW w \in Workers, SendLogin(w) PROVE Kept
  BY <1>4 DEF Kept, SendLogin, Send, TakesRegistration
<1>5. ASSUME NEW t \in AppThreads, AppSend(t) PROVE Kept
  BY <1>5 DEF Kept, AppSend, Send, TakesRegistration
<1>6. ASSUME NEW t \in Threads, RegisterSend(t) PROVE Kept
  BY <1>6 DEF Kept, RegisterSend, IsConnected
<1>7. ASSUME NEW t \in Threads, SendDrain(t) PROVE Kept
  BY <1>7 DEF Kept, SendDrain
<1>8. ASSUME NEW t \in Threads, SendPost(t) PROVE Kept
  BY <1>8 DEF Kept, SendPost, CallDisconnect, CanFail
<1>9. ASSUME NEW t \in Threads, SendRelease(t) PROVE Kept
  BY <1>9 DEF Kept, SendRelease
<1>10. ASSUME NEW t \in Threads, SendStore(t) PROVE Kept
  BY <1>10 DEF Kept, SendStore
<1>11. ASSUME NEW w \in Workers, ProcessSend(w) PROVE Kept
  BY <1>11 DEF Kept, ProcessSend, CallDisconnect
<1>12. ASSUME NEW w \in Workers, SendNext(w) PROVE Kept
  BY <1>12 DEF Kept, SendNext, NothingQueued
<1>13. ASSUME NEW w \in Workers, RegisterRecv(w) PROVE Kept
  BY <1>13 DEF Kept, RegisterRecv, IsConnected
<1>14. ASSUME NEW w \in Workers, RecvPost(w) PROVE RecvExclusive'
  BY <1>14 DEF RecvPost, CallDisconnect, RecvExclusive
<1>15. ASSUME NEW w \in Workers, RecvRelease(w) PROVE Kept
  BY <1>15 DEF Kept, RecvRelease
<1>16. ASSUME NEW w \in Workers, ProcessRecv(w) PROVE RecvExclusive'
  BY <1>16 DEF ProcessRecv, RecvTaken, CallDisconnect, RecvExclusive
<1>17. ASSUME NEW w \in Workers, OnRecvPacket(w) PROVE Kept
  BY <1>17 DEF Kept, OnRecvPacket
<1>18. ASSUME NEW w \in Workers, OnRecvDone(w) PROVE Kept
  BY <1>18 DEF Kept, OnRecvDone
<1>19. ASSUME NEW t \in Threads, Disconnect(t) PROVE Kept
  BY <1>19 DEF Kept, Disconnect, WasConnected
<1>20. ASSUME NEW t \in Threads, OnDisconnected(t) PROVE Kept
  BY <1>20 DEF Kept, OnDisconnected
<1>21. ASSUME NEW t \in Threads, ReleaseSession(t) PROVE Kept
  BY <1>21 DEF Kept, ReleaseSession
<1>22. ASSUME NEW t \in Threads, RegisterDisconnect(t) PROVE Kept
  BY <1>22 DEF Kept, RegisterDisconnect
<1>23. ASSUME NEW w \in Workers, ProcessDisconnect(w) PROVE Kept
  BY <1>23 DEF Kept, ProcessDisconnect
<1>24. ASSUME Pop PROVE Kept
  BY <1>24 DEF Kept, Pop
<1>25. ASSUME UNCHANGED vars PROVE Kept
  BY <1>25 DEF Kept, vars
<1>26. QED
  BY <1>0, <1>1, <1>2, <1>3, <1>4, <1>5, <1>6, <1>7, <1>8, <1>9, <1>10, <1>11, <1>12, <1>13,
       <1>14, <1>15, <1>16, <1>17, <1>18, <1>19, <1>20, <1>21, <1>22, <1>23, <1>24,
       <1>25 DEF Next, WorkerStep, Inside

\* Before the accept nothing else can happen.
LEMMA AcceptFirst ==
  ASSUME QueuesOK, SendToken, BeforeAccept, acceptPending, [Next]_vars
  PROVE  UNCHANGED vars \/ \E w \in Workers : Accept(w)
<1> USE ThreadAssumption DEF Threads, QueuesOK, SendToken, BeforeAccept, Untouched
<1>1. ASSUME NEW w \in Workers, Accept(w) PROVE \E v \in Workers : Accept(v)
  BY <1>1
<1>2. ASSUME NEW w \in Workers, AddSession(w) PROVE FALSE
  BY <1>2 DEF AddSession
<1>3. ASSUME NEW w \in Workers, OnConnected(w) PROVE FALSE
  BY <1>3 DEF OnConnected
<1>4. ASSUME NEW w \in Workers, SendLogin(w) PROVE FALSE
  BY <1>4 DEF SendLogin, Send
<1>5. ASSUME NEW t \in AppThreads, AppSend(t) PROVE FALSE
  BY <1>5 DEF AppSend, Send
<1>6. ASSUME NEW t \in Threads, RegisterSend(t) PROVE FALSE
  BY <1>6 DEF RegisterSend
<1>7. ASSUME NEW t \in Threads, SendDrain(t) PROVE FALSE
  BY <1>7 DEF SendDrain
<1>8. ASSUME NEW t \in Threads, SendPost(t) PROVE FALSE
  BY <1>8 DEF SendPost
<1>9. ASSUME NEW t \in Threads, SendRelease(t) PROVE FALSE
  BY <1>9 DEF SendRelease
<1>10. ASSUME NEW t \in Threads, SendStore(t) PROVE FALSE
  BY <1>10 DEF SendStore
<1>11. ASSUME NEW w \in Workers, ProcessSend(w) PROVE FALSE
  BY <1>11 DEF ProcessSend
<1>12. ASSUME NEW w \in Workers, SendNext(w) PROVE FALSE
  BY <1>12 DEF SendNext
<1>13. ASSUME NEW w \in Workers, RegisterRecv(w) PROVE FALSE
  BY <1>13 DEF RegisterRecv
<1>14. ASSUME NEW w \in Workers, RecvPost(w) PROVE FALSE
  BY <1>14 DEF RecvPost
<1>15. ASSUME NEW w \in Workers, RecvRelease(w) PROVE FALSE
  BY <1>15 DEF RecvRelease
<1>16. ASSUME NEW w \in Workers, ProcessRecv(w) PROVE FALSE
  BY <1>16 DEF ProcessRecv
<1>17. ASSUME NEW w \in Workers, OnRecvPacket(w) PROVE FALSE
  BY <1>17 DEF OnRecvPacket
<1>18. ASSUME NEW w \in Workers, OnRecvDone(w) PROVE FALSE
  BY <1>18 DEF OnRecvDone
<1>19. ASSUME NEW t \in Threads, Disconnect(t) PROVE FALSE
  BY <1>19 DEF Disconnect
<1>20. ASSUME NEW t \in Threads, OnDisconnected(t) PROVE FALSE
  BY <1>20 DEF OnDisconnected
<1>21. ASSUME NEW t \in Threads, ReleaseSession(t) PROVE FALSE
  BY <1>21 DEF ReleaseSession
<1>22. ASSUME NEW t \in Threads, RegisterDisconnect(t) PROVE FALSE
  BY <1>22 DEF RegisterDisconnect
<1>23. ASSUME NEW w \in Workers, ProcessDisconnect(w) PROVE FALSE
  BY <1>23 DEF ProcessDisconnect
<1>24. ASSUME Pop PROVE FALSE
  BY <1>24 DEF Pop
<1>25. ASSUME UNCHANGED vars PROVE UNCHANGED vars \/ \E w \in Workers : Accept(w)
  BY <1>25
<1>26. QED
  BY <1>1, <1>2, <1>3, <1>4, <1>5, <1>6, <1>7, <1>8, <1>9, <1>10, <1>11, <1>12, <1>13, <1>14,
       <1>15, <1>16, <1>17, <1>18, <1>19, <1>20, <1>21, <1>22, <1>23, <1>24, <1>25 DEF Next,
       WorkerStep, Inside

\* While a worker runs ProcessConnect it is the only one to move.
LEMMA StarterOnly ==
  ASSUME QueuesOK, SendToken, StartAlone, NEW s \in Threads, Starting(s), [Next]_vars
  PROVE  UNCHANGED vars \/ AddSession(s) \/ OnConnected(s) \/ SendLogin(s)
<1> USE ThreadAssumption DEF Threads, QueuesOK, SendToken, StartAlone, Untouched, Starting
<1>1. ASSUME NEW w \in Workers, Accept(w) PROVE FALSE
  BY <1>1 DEF Accept
<1>2. ASSUME NEW w \in Workers,
AddSession(w) PROVE UNCHANGED vars \/ AddSession(s) \/ OnConnected(s) \/ SendLogin(s)
  BY <1>2 DEF AddSession
<1>3. ASSUME NEW w \in Workers,
OnConnected(w) PROVE UNCHANGED vars \/ AddSession(s) \/ OnConnected(s) \/ SendLogin(s)
  BY <1>3 DEF OnConnected
<1>4. ASSUME NEW w \in Workers,
SendLogin(w) PROVE UNCHANGED vars \/ AddSession(s) \/ OnConnected(s) \/ SendLogin(s)
  BY <1>4 DEF SendLogin
<1>5. ASSUME NEW t \in AppThreads, AppSend(t) PROVE FALSE
  BY <1>5 DEF AppSend, Send
<1>6. ASSUME NEW t \in Threads, RegisterSend(t) PROVE FALSE
  BY <1>6 DEF RegisterSend
<1>7. ASSUME NEW t \in Threads, SendDrain(t) PROVE FALSE
  BY <1>7 DEF SendDrain
<1>8. ASSUME NEW t \in Threads, SendPost(t) PROVE FALSE
  BY <1>8 DEF SendPost
<1>9. ASSUME NEW t \in Threads, SendRelease(t) PROVE FALSE
  BY <1>9 DEF SendRelease
<1>10. ASSUME NEW t \in Threads, SendStore(t) PROVE FALSE
  BY <1>10 DEF SendStore
<1>11. ASSUME NEW w \in Workers, ProcessSend(w) PROVE FALSE
  BY <1>11 DEF ProcessSend
<1>12. ASSUME NEW w \in Workers, SendNext(w) PROVE FALSE
  BY <1>12 DEF SendNext
<1>13. ASSUME NEW w \in Workers, RegisterRecv(w) PROVE FALSE
  BY <1>13 DEF RegisterRecv
<1>14. ASSUME NEW w \in Workers, RecvPost(w) PROVE FALSE
  BY <1>14 DEF RecvPost
<1>15. ASSUME NEW w \in Workers, RecvRelease(w) PROVE FALSE
  BY <1>15 DEF RecvRelease
<1>16. ASSUME NEW w \in Workers, ProcessRecv(w) PROVE FALSE
  BY <1>16 DEF ProcessRecv
<1>17. ASSUME NEW w \in Workers, OnRecvPacket(w) PROVE FALSE
  BY <1>17 DEF OnRecvPacket
<1>18. ASSUME NEW w \in Workers, OnRecvDone(w) PROVE FALSE
  BY <1>18 DEF OnRecvDone
<1>19. ASSUME NEW t \in Threads, Disconnect(t) PROVE FALSE
  BY <1>19 DEF Disconnect
<1>20. ASSUME NEW t \in Threads, OnDisconnected(t) PROVE FALSE
  BY <1>20 DEF OnDisconnected
<1>21. ASSUME NEW t \in Threads, ReleaseSession(t) PROVE FALSE
  BY <1>21 DEF ReleaseSession
<1>22. ASSUME NEW t \in Threads, RegisterDisconnect(t) PROVE FALSE
  BY <1>22 DEF RegisterDisconnect
<1>23. ASSUME NEW w \in Workers, ProcessDisconnect(w) PROVE FALSE
  BY <1>23 DEF ProcessDisconnect
<1>24. ASSUME Pop PROVE FALSE
  BY <1>24 DEF Pop
<1>25. ASSUME UNCHANGED vars PROVE UNCHANGED vars \/ AddSession(s) \/ OnConnected(s) \/ SendLogin(s)
  BY <1>25
<1>26. QED
  BY <1>1, <1>2, <1>3, <1>4, <1>5, <1>6, <1>7, <1>8, <1>9, <1>10, <1>11, <1>12, <1>13, <1>14,
       <1>15, <1>16, <1>17, <1>18, <1>19, <1>20, <1>21, <1>22, <1>23, <1>24, <1>25 DEF Next,
       WorkerStep, Inside

\* acceptPending is never set again.
LEMMA AcceptOnce ==
  ASSUME [Next]_vars, acceptPending'
  PROVE  acceptPending
BY DEF Next, WorkerStep, Inside, vars, connVars,
       Accept, AddSession, OnConnected, SendLogin, AppSend, Send, RegisterSend, SendDrain,
       SendPost, SendRelease, SendStore, ProcessSend, SendNext, RegisterRecv, RecvPost,
       RecvRelease, ProcessRecv, OnRecvPacket, OnRecvDone, Disconnect, OnDisconnected,
       ReleaseSession, RegisterDisconnect, ProcessDisconnect, Pop

LEMMA BeforeAcceptStep ==
  ASSUME QueuesOK, SendToken, BeforeAccept, [Next]_vars
  PROVE  BeforeAccept'
<1> SUFFICES ASSUME acceptPending' PROVE BeforeAccept'
  BY DEF BeforeAccept
<1>1. acceptPending
  BY AcceptOnce
<1>2. UNCHANGED vars
  BY <1>1, AcceptFirst DEF Accept
<1> QED
  BY <1>2 DEF BeforeAccept, Untouched, vars, connVars, registry, sendVars, recvVars, discVars,
              queueVars

\* ProcessConnect begins with the accept, runs alone and is not entered again.
LEMMA StartAloneStep ==
  ASSUME FlagsOK, ControlOK, QueuesOK, SendToken, BeforeAccept, StartAlone, [Next]_vars
  PROVE  StartAlone'
<1>1. CASE acceptPending
  <2>1. CASE UNCHANGED vars
    BY <2>1 DEF StartAlone, Starting, Untouched, vars, connVars, registry, sendVars, recvVars,
                discVars, queueVars
  <2>2. ASSUME NEW w \in Workers, Accept(w) PROVE StartAlone'
    BY <2>2, <1>1 DEF FlagsOK, ControlOK, BeforeAccept, StartAlone, Starting, Untouched, Accept,
         Go,
                Threads, registry, sendVars, recvVars, discVars, queueVars
  <2> QED BY <1>1, <2>1, <2>2, AcceptFirst
<1>2. ASSUME NEW s \in Threads, Starting(s) PROVE StartAlone'
  <2> USE DEF StartAlone, Starting, Untouched, Go, ControlOK, Threads,
              connVars, registry, sendVars, sendEvent, recvVars, discVars, queueVars
  <2>1. CASE UNCHANGED vars
    BY <2>1 DEF vars
  <2>2. CASE AddSession(s)
    BY <1>2, <2>2 DEF AddSession
  <2>3. CASE OnConnected(s)
    BY <1>2, <2>3 DEF OnConnected
  <2>4. CASE SendLogin(s)
    BY <1>2, <2>4 DEF SendLogin, Send
  <2> HIDE DEF Starting
  <2> QED BY <1>2, <2>1, <2>2, <2>3, <2>4, StarterOnly
<1>3. CASE ~acceptPending /\ \A s \in Threads : ~Starting(s)
  <2>1. \A s \in Threads : ~Starting(s)'
    BY <1>3 DEF Next, WorkerStep, Inside, vars, Starting, ControlOK, Go, Threads, CallDisconnect,
       DisconnectSteps, SendSteps, RecvSteps,
       Accept, AddSession, OnConnected, SendLogin, AppSend, Send, RegisterSend, SendDrain,
       SendPost, SendRelease, SendStore, ProcessSend, SendNext, RegisterRecv, RecvPost,
       RecvRelease, ProcessRecv, OnRecvPacket, OnRecvDone, Disconnect, OnDisconnected,
       ReleaseSession, RegisterDisconnect, ProcessDisconnect, Pop
  <2> QED BY <2>1 DEF StartAlone
<1> QED BY <1>1, <1>2, <1>3

\* Only the Disconnect that won the exchange reaches the steps behind it, and
\* the registry follows: ReleaseSession takes out what AddSession put in.
LEMMA DisconnectStep ==
  ASSUME FlagsOK, ControlOK, BeforeAccept, StartAlone, OneDisconnect, Registry, [Next]_vars
  PROVE  OneDisconnect' /\ Registry'
<1> USE DEF ControlOK, Threads, Go, Disconnecting, DisconnectSteps, SendSteps, RecvSteps,
           connVars, registry, sendEvent, sendVars, recvVars, discVars, queueVars
<1> DEFINE Kept == /\ \A u \in Threads : Disconnecting(u)' <=> Disconnecting(u)
                   /\ \A u \in Threads : Disconnecting(u) => pc'[u] = pc[u]
                   /\ \A u \in Threads : pc[u] = "AddSession" => pc'[u] = "AddSession"
                   /\ UNCHANGED <<acceptPending, connected, service, sessionCount, discPending>>
<1>0. ASSUME Kept PROVE OneDisconnect' /\ Registry'
  <2>1. OneDisconnect'
    BY <1>0 DEF OneDisconnect
  <2>2. \A u \in Threads : Disconnecting(u) <=> Disconnecting(u)'
    BY <1>0
  <2>3. (connected => service \/ \E t \in Threads : pc[t] = "AddSession")'
    BY <1>0 DEF Registry
  <2>4. (service => connected \/ \E t \in Threads : Disconnecting(t))'
    BY <1>0, <2>2 DEF Registry
  <2>5. (sessionCount = IF service THEN 1 ELSE 0)'
    BY <1>0 DEF Registry
  <2> QED BY <2>1, <2>3, <2>4, <2>5 DEF Registry
<1> HIDE DEF Kept
<1>1. ASSUME NEW w \in Workers, Accept(w) PROVE OneDisconnect' /\ Registry'
  BY <1>1 DEF Accept, Disconnecting, Starting, OneDisconnect, Registry, StartAlone, BeforeAccept,
       Untouched
<1>2. ASSUME NEW w \in Workers, AddSession(w) PROVE OneDisconnect' /\ Registry'
  <2> USE DEF Disconnecting, Starting, FlagsOK
  <2>1. OneDisconnect'
    BY <1>2 DEF AddSession, OneDisconnect, StartAlone, Untouched
  <2>2. Registry'
    BY <1>2 DEF AddSession, Registry, OneDisconnect, StartAlone, Untouched
  <2> QED BY <2>1, <2>2
<1>3. ASSUME NEW w \in Workers, OnConnected(w) PROVE Kept
  BY <1>3 DEF Kept, OnConnected
<1>4. ASSUME NEW w \in Workers, SendLogin(w) PROVE Kept
  BY <1>4 DEF Kept, SendLogin, Send, TakesRegistration
<1>5. ASSUME NEW t \in AppThreads, AppSend(t) PROVE Kept
  BY <1>5 DEF Kept, AppSend, Send, TakesRegistration
<1>6. ASSUME NEW t \in Threads, RegisterSend(t) PROVE Kept
  BY <1>6 DEF Kept, RegisterSend, IsConnected
<1>7. ASSUME NEW t \in Threads, SendDrain(t) PROVE Kept
  BY <1>7 DEF Kept, SendDrain
<1>8. ASSUME NEW t \in Threads, SendPost(t) PROVE Kept
  BY <1>8 DEF Kept, SendPost, CallDisconnect, CanFail
<1>9. ASSUME NEW t \in Threads, SendRelease(t) PROVE Kept
  BY <1>9 DEF Kept, SendRelease
<1>10. ASSUME NEW t \in Threads, SendStore(t) PROVE Kept
  BY <1>10 DEF Kept, SendStore
<1>11. ASSUME NEW w \in Workers, ProcessSend(w) PROVE Kept
  BY <1>11 DEF Kept, ProcessSend, CallDisconnect
<1>12. ASSUME NEW w \in Workers, SendNext(w) PROVE Kept
  BY <1>12 DEF Kept, SendNext, NothingQueued
<1>13. ASSUME NEW w \in Workers, RegisterRecv(w) PROVE Kept
  BY <1>13 DEF Kept, RegisterRecv, IsConnected
<1>14. ASSUME NEW w \in Workers, RecvPost(w) PROVE Kept
  BY <1>14 DEF Kept, RecvPost, CallDisconnect, CanFail
<1>15. ASSUME NEW w \in Workers, RecvRelease(w) PROVE Kept
  BY <1>15 DEF Kept, RecvRelease
<1>16. ASSUME NEW w \in Workers, ProcessRecv(w) PROVE Kept
  BY <1>16 DEF Kept, ProcessRecv, CallDisconnect, RecvTaken
<1>17. ASSUME NEW w \in Workers, OnRecvPacket(w) PROVE Kept
  BY <1>17 DEF Kept, OnRecvPacket
<1>18. ASSUME NEW w \in Workers, OnRecvDone(w) PROVE Kept
  BY <1>18 DEF Kept, OnRecvDone
<1>19. ASSUME NEW t \in Threads, Disconnect(t) PROVE OneDisconnect' /\ Registry'
  <2> USE DEF Disconnecting, Starting, FlagsOK
  <2>1. OneDisconnect'
    BY <1>19 DEF Disconnect, WasConnected, OneDisconnect, Registry, StartAlone, BeforeAccept
  <2>2. Registry'
    BY <1>19 DEF Disconnect, WasConnected, OneDisconnect, Registry, StartAlone, BeforeAccept
  <2> QED BY <2>1, <2>2
<1>20. ASSUME NEW t \in Threads, OnDisconnected(t) PROVE OneDisconnect' /\ Registry'
  BY <1>20 DEF OnDisconnected, Disconnecting, Starting, OneDisconnect, Registry, StartAlone,
       BeforeAccept, Untouched
<1>21. ASSUME NEW t \in Threads, ReleaseSession(t) PROVE OneDisconnect' /\ Registry'
  <2> USE DEF Disconnecting, Starting, FlagsOK
  <2>1. OneDisconnect'
    BY <1>21 DEF ReleaseSession, OneDisconnect
  <2>2. Registry'
    BY <1>21 DEF ReleaseSession, OneDisconnect, Registry
  <2> QED BY <2>1, <2>2
<1>22. ASSUME NEW t \in Threads, RegisterDisconnect(t) PROVE OneDisconnect' /\ Registry'
  BY <1>22 DEF RegisterDisconnect, Disconnecting, Starting, OneDisconnect, Registry, StartAlone,
       BeforeAccept, Untouched
<1>23. ASSUME NEW w \in Workers, ProcessDisconnect(w) PROVE OneDisconnect' /\ Registry'
  BY <1>23 DEF ProcessDisconnect, Disconnecting, Starting, OneDisconnect, Registry, StartAlone,
       BeforeAccept, Untouched
<1>24. ASSUME Pop PROVE Kept
  BY <1>24 DEF Kept, Pop
<1>25. ASSUME UNCHANGED vars PROVE Kept
  BY <1>25 DEF Kept, vars
<1>26. QED
  BY <1>0, <1>1, <1>2, <1>3, <1>4, <1>5, <1>6, <1>7, <1>8, <1>9, <1>10, <1>11, <1>12, <1>13,
       <1>14, <1>15, <1>16, <1>17, <1>18, <1>19, <1>20, <1>21, <1>22, <1>23, <1>24,
       <1>25 DEF Next, WorkerStep, Inside

\* Whoever drops the send token clears the flag or leaves a closed session.
LEMMA FlagBackedStep ==
  ASSUME ControlOK, BeforeAccept, FlagBacked, [Next]_vars
  PROVE  FlagBacked'
<1> USE DEF ControlOK, Threads, Go, HoldsSend, DisconnectSteps, SendSteps, RecvSteps, connVars,
           registry, sendEvent, sendVars, recvVars, discVars, queueVars
<1> DEFINE Kept == /\ connected' => connected
                   /\ sendRegistered' => sendRegistered
                   /\ sendPending => sendPending'
                   /\ \A u \in Threads : HoldsSend(u) => HoldsSend(u)'
                   /\ \A u \in Threads : pc[u] = "Disconnect" => pc'[u] = "Disconnect"
<1>0. ASSUME Kept PROVE FlagBacked'
  BY <1>0 DEF FlagBacked
<1> HIDE DEF Kept
<1>1. ASSUME NEW w \in Workers, Accept(w) PROVE FlagBacked'
  BY <1>1 DEF Accept, BeforeAccept, Untouched, FlagBacked
<1>2. ASSUME NEW w \in Workers, AddSession(w) PROVE Kept
  BY <1>2 DEF Kept, AddSession
<1>3. ASSUME NEW w \in Workers, OnConnected(w) PROVE Kept
  BY <1>3 DEF Kept, OnConnected
<1>4. ASSUME NEW w \in Workers, SendLogin(w) PROVE FlagBacked'
  BY <1>4 DEF SendLogin, Send, TakesRegistration, FlagBacked
<1>5. ASSUME NEW t \in AppThreads, AppSend(t) PROVE FlagBacked'
  BY <1>5 DEF AppSend, Send, TakesRegistration, FlagBacked
<1>6. ASSUME NEW t \in Threads, RegisterSend(t) PROVE FlagBacked'
  BY <1>6 DEF RegisterSend, IsConnected, FlagBacked
<1>7. ASSUME NEW t \in Threads, SendDrain(t) PROVE Kept
  BY <1>7 DEF Kept, SendDrain
<1>8. ASSUME NEW t \in Threads, SendPost(t) PROVE FlagBacked'
  BY <1>8 DEF SendPost, CallDisconnect, FlagBacked
<1>9. ASSUME NEW t \in Threads, SendRelease(t) PROVE Kept
  BY <1>9 DEF Kept, SendRelease
<1>10. ASSUME NEW t \in Threads, SendStore(t) PROVE FlagBacked'
  BY <1>10 DEF SendStore, FlagBacked
<1>11. ASSUME NEW w \in Workers, ProcessSend(w) PROVE FlagBacked'
  BY <1>11 DEF ProcessSend, CallDisconnect, FlagBacked
<1>12. ASSUME NEW w \in Workers, SendNext(w) PROVE FlagBacked'
  BY <1>12 DEF SendNext, FlagBacked
<1>13. ASSUME NEW w \in Workers, RegisterRecv(w) PROVE Kept
  BY <1>13 DEF Kept, RegisterRecv, IsConnected
<1>14. ASSUME NEW w \in Workers, RecvPost(w) PROVE Kept
  BY <1>14 DEF Kept, RecvPost, CallDisconnect, CanFail
<1>15. ASSUME NEW w \in Workers, RecvRelease(w) PROVE Kept
  BY <1>15 DEF Kept, RecvRelease
<1>16. ASSUME NEW w \in Workers, ProcessRecv(w) PROVE Kept
  BY <1>16 DEF Kept, ProcessRecv, CallDisconnect, RecvTaken
<1>17. ASSUME NEW w \in Workers, OnRecvPacket(w) PROVE Kept
  BY <1>17 DEF Kept, OnRecvPacket
<1>18. ASSUME NEW w \in Workers, OnRecvDone(w) PROVE Kept
  BY <1>18 DEF Kept, OnRecvDone
<1>19. ASSUME NEW t \in Threads, Disconnect(t) PROVE FlagBacked'
  BY <1>19 DEF Disconnect, FlagBacked
<1>20. ASSUME NEW t \in Threads, OnDisconnected(t) PROVE Kept
  BY <1>20 DEF Kept, OnDisconnected
<1>21. ASSUME NEW t \in Threads, ReleaseSession(t) PROVE Kept
  BY <1>21 DEF Kept, ReleaseSession
<1>22. ASSUME NEW t \in Threads, RegisterDisconnect(t) PROVE Kept
  BY <1>22 DEF Kept, RegisterDisconnect
<1>23. ASSUME NEW w \in Workers, ProcessDisconnect(w) PROVE Kept
  BY <1>23 DEF Kept, ProcessDisconnect
<1>24. ASSUME Pop PROVE Kept
  BY <1>24 DEF Kept, Pop
<1>25. ASSUME UNCHANGED vars PROVE Kept
  BY <1>25 DEF Kept, vars
<1>26. QED
  BY <1>0, <1>1, <1>2, <1>3, <1>4, <1>5, <1>6, <1>7, <1>8, <1>9, <1>10, <1>11, <1>12, <1>13,
       <1>14, <1>15, <1>16, <1>17, <1>18, <1>19, <1>20, <1>21, <1>22, <1>23, <1>24,
       <1>25 DEF Next, WorkerStep, Inside

\* The references are dropped by the holder of the token, so never under a
\* posted operation.
LEMMA OwnersStep ==
  ASSUME ControlOK, SendToken, RecvExclusive, OneDisconnect, Owners, [Next]_vars
  PROVE  Owners'
<1> USE DEF ControlOK, Threads, Go, HoldsSend, HoldsRecv, DisconnectSteps, SendSteps, RecvSteps,
           connVars, registry, sendEvent, sendVars, recvVars, discVars, queueVars
<1> DEFINE Kept == /\ sendPending' => sendPending
                   /\ recvPending' => recvPending
                   /\ discPending' => discPending
                   /\ sendOwner => sendOwner'
                   /\ recvOwner => recvOwner'
                   /\ discOwner => discOwner'
                   /\ \A u \in Threads :
                        /\ pc'[u] \in {"SendDrain", "SendPost"} =>
                             pc[u] \in {"SendDrain", "SendPost"}
                        /\ pc'[u] = "RecvPost" => pc[u] = "RecvPost"
<1>0. ASSUME Kept PROVE Owners'
  BY <1>0 DEF Owners, PendingOwned
<1> HIDE DEF Kept
<1>1. ASSUME NEW w \in Workers, Accept(w) PROVE Kept
  BY <1>1 DEF Kept, Accept
<1>2. ASSUME NEW w \in Workers, AddSession(w) PROVE Kept
  BY <1>2 DEF Kept, AddSession
<1>3. ASSUME NEW w \in Workers, OnConnected(w) PROVE Kept
  BY <1>3 DEF Kept, OnConnected
<1>4. ASSUME NEW w \in Workers, SendLogin(w) PROVE Kept
  BY <1>4 DEF Kept, SendLogin, Send, TakesRegistration
<1>5. ASSUME NEW t \in AppThreads, AppSend(t) PROVE Kept
  BY <1>5 DEF Kept, AppSend, Send, TakesRegistration
<1>6. ASSUME NEW t \in Threads, RegisterSend(t) PROVE Owners'
  BY <1>6 DEF RegisterSend, Owners, PendingOwned
<1>7. ASSUME NEW t \in Threads, SendDrain(t) PROVE Kept
  BY <1>7 DEF Kept, SendDrain
<1>8. ASSUME NEW t \in Threads, SendPost(t) PROVE Owners'
  BY <1>8 DEF SendPost, CallDisconnect, Owners, PendingOwned
<1>9. ASSUME NEW t \in Threads, SendRelease(t) PROVE Owners'
  BY <1>9 DEF SendRelease, Owners, PendingOwned, SendToken, SendExclusive
<1>10. ASSUME NEW t \in Threads, SendStore(t) PROVE Kept
  BY <1>10 DEF Kept, SendStore
<1>11. ASSUME NEW w \in Workers, ProcessSend(w) PROVE Owners'
  BY <1>11 DEF ProcessSend, CallDisconnect, Owners, PendingOwned, SendToken, SendExclusive
<1>12. ASSUME NEW w \in Workers, SendNext(w) PROVE Kept
  BY <1>12 DEF Kept, SendNext, NothingQueued
<1>13. ASSUME NEW w \in Workers, RegisterRecv(w) PROVE Owners'
  BY <1>13 DEF RegisterRecv, Owners, PendingOwned
<1>14. ASSUME NEW w \in Workers, RecvPost(w) PROVE Owners'
  BY <1>14 DEF RecvPost, CallDisconnect, Owners, PendingOwned
<1>15. ASSUME NEW w \in Workers, RecvRelease(w) PROVE Owners'
  BY <1>15 DEF RecvRelease, Owners, PendingOwned, RecvExclusive
<1>16. ASSUME NEW w \in Workers, ProcessRecv(w) PROVE Owners'
  BY <1>16 DEF ProcessRecv, RecvTaken, CallDisconnect, Owners, PendingOwned, RecvExclusive
<1>17. ASSUME NEW w \in Workers, OnRecvPacket(w) PROVE Kept
  BY <1>17 DEF Kept, OnRecvPacket
<1>18. ASSUME NEW w \in Workers, OnRecvDone(w) PROVE Kept
  BY <1>18 DEF Kept, OnRecvDone
<1>19. ASSUME NEW t \in Threads, Disconnect(t) PROVE Kept
  BY <1>19 DEF Kept, Disconnect, WasConnected
<1>20. ASSUME NEW t \in Threads, OnDisconnected(t) PROVE Kept
  BY <1>20 DEF Kept, OnDisconnected
<1>21. ASSUME NEW t \in Threads, ReleaseSession(t) PROVE Kept
  BY <1>21 DEF Kept, ReleaseSession
<1>22. ASSUME NEW t \in Threads, RegisterDisconnect(t) PROVE Owners'
  BY <1>22 DEF RegisterDisconnect, Owners, PendingOwned, OneDisconnect, Disconnecting
<1>23. ASSUME NEW w \in Workers, ProcessDisconnect(w) PROVE Owners'
  BY <1>23 DEF ProcessDisconnect, Owners, PendingOwned
<1>24. ASSUME Pop PROVE Kept
  BY <1>24 DEF Kept, Pop
<1>25. ASSUME UNCHANGED vars PROVE Kept
  BY <1>25 DEF Kept, vars
<1>26. QED
  BY <1>0, <1>1, <1>2, <1>3, <1>4, <1>5, <1>6, <1>7, <1>8, <1>9, <1>10, <1>11, <1>12, <1>13,
       <1>14, <1>15, <1>16, <1>17, <1>18, <1>19, <1>20, <1>21, <1>22, <1>23, <1>24,
       <1>25 DEF Next, WorkerStep, Inside

\* Without other failures HandleError always disconnects before it returns.
LEMMA ErrorClosedStep ==
  ASSUME "other" \notin Failures, ControlOK, BeforeAccept, ErrorClosed, [Next]_vars
  PROVE  ErrorClosed'
<1> USE DEF ControlOK, Threads, Go, Disconnecting, DisconnectSteps, SendSteps, RecvSteps,
           connVars, registry, sendEvent, sendVars, recvVars, discVars, queueVars
<1> DEFINE Kept == /\ connected' => connected
                   /\ \A u \in Threads :
                        /\ pc'[u] \in {"SendRelease", "SendStore"} =>
                             pc[u] \in {"SendRelease", "SendStore"}
                        /\ Disconnecting(u)' => Disconnecting(u)
<1>0. ASSUME Kept PROVE ErrorClosed'
  BY <1>0 DEF ErrorClosed
<1> HIDE DEF Kept
<1>1. ASSUME NEW w \in Workers, Accept(w) PROVE ErrorClosed'
  BY <1>1 DEF Accept, BeforeAccept, ErrorClosed
<1>2. ASSUME NEW w \in Workers, AddSession(w) PROVE Kept
  BY <1>2 DEF Kept, AddSession
<1>3. ASSUME NEW w \in Workers, OnConnected(w) PROVE Kept
  BY <1>3 DEF Kept, OnConnected
<1>4. ASSUME NEW w \in Workers, SendLogin(w) PROVE Kept
  BY <1>4 DEF Kept, SendLogin, Send, TakesRegistration
<1>5. ASSUME NEW t \in AppThreads, AppSend(t) PROVE Kept
  BY <1>5 DEF Kept, AppSend, Send, TakesRegistration
<1>6. ASSUME NEW t \in Threads, RegisterSend(t) PROVE Kept
  BY <1>6 DEF Kept, RegisterSend, IsConnected
<1>7. ASSUME NEW t \in Threads, SendDrain(t) PROVE Kept
  BY <1>7 DEF Kept, SendDrain
<1>8. ASSUME NEW t \in Threads, SendPost(t) PROVE ErrorClosed'
  BY <1>8 DEF SendPost, CallDisconnect, CanFail, ErrorClosed
<1>9. ASSUME NEW t \in Threads, SendRelease(t) PROVE Kept
  BY <1>9 DEF Kept, SendRelease
<1>10. ASSUME NEW t \in Threads, SendStore(t) PROVE Kept
  BY <1>10 DEF Kept, SendStore
<1>11. ASSUME NEW w \in Workers, ProcessSend(w) PROVE Kept
  BY <1>11 DEF Kept, ProcessSend, CallDisconnect
<1>12. ASSUME NEW w \in Workers, SendNext(w) PROVE Kept
  BY <1>12 DEF Kept, SendNext, NothingQueued
<1>13. ASSUME NEW w \in Workers, RegisterRecv(w) PROVE Kept
  BY <1>13 DEF Kept, RegisterRecv, IsConnected
<1>14. ASSUME NEW w \in Workers, RecvPost(w) PROVE Kept
  BY <1>14 DEF Kept, RecvPost, CallDisconnect, CanFail
<1>15. ASSUME NEW w \in Workers, RecvRelease(w) PROVE Kept
  BY <1>15 DEF Kept, RecvRelease
<1>16. ASSUME NEW w \in Workers, ProcessRecv(w) PROVE Kept
  BY <1>16 DEF Kept, ProcessRecv, CallDisconnect, RecvTaken
<1>17. ASSUME NEW w \in Workers, OnRecvPacket(w) PROVE Kept
  BY <1>17 DEF Kept, OnRecvPacket
<1>18. ASSUME NEW w \in Workers, OnRecvDone(w) PROVE Kept
  BY <1>18 DEF Kept, OnRecvDone
<1>19. ASSUME NEW t \in Threads, Disconnect(t) PROVE ErrorClosed'
  BY <1>19 DEF Disconnect, ErrorClosed
<1>20. ASSUME NEW t \in Threads, OnDisconnected(t) PROVE Kept
  BY <1>20 DEF Kept, OnDisconnected
<1>21. ASSUME NEW t \in Threads, ReleaseSession(t) PROVE Kept
  BY <1>21 DEF Kept, ReleaseSession
<1>22. ASSUME NEW t \in Threads, RegisterDisconnect(t) PROVE ErrorClosed'
  BY <1>22 DEF RegisterDisconnect, ErrorClosed
<1>23. ASSUME NEW w \in Workers, ProcessDisconnect(w) PROVE Kept
  BY <1>23 DEF Kept, ProcessDisconnect
<1>24. ASSUME Pop PROVE Kept
  BY <1>24 DEF Kept, Pop
<1>25. ASSUME UNCHANGED vars PROVE Kept
  BY <1>25 DEF Kept, vars
<1>26. QED
  BY <1>0, <1>1, <1>2, <1>3, <1>4, <1>5, <1>6, <1>7, <1>8, <1>9, <1>10, <1>11, <1>12, <1>13,
       <1>14, <1>15, <1>16, <1>17, <1>18, <1>19, <1>20, <1>21, <1>22, <1>23, <1>24,
       <1>25 DEF Next, WorkerStep, Inside

\* The flag is cleared behind an empty queue, or on a closed session.
LEMMA NoStrandedStep ==
  ASSUME ControlOK, BeforeAccept, ErrorClosed, NoStranded, [Next]_vars
  PROVE  NoStranded'
<1> USE DEF ControlOK, Threads, Go, ErrorClosed, DisconnectSteps, SendSteps, RecvSteps, connVars,
           registry, sendEvent, sendVars, recvVars, discVars, queueVars
<1> DEFINE Kept == /\ connected' => connected
                   /\ sendRegistered => sendRegistered'
                   /\ sendQueue' \in {sendQueue, <<>>}
<1>0. ASSUME Kept PROVE NoStranded'
  BY <1>0 DEF NoStranded
<1> HIDE DEF Kept
<1>1. ASSUME NEW w \in Workers, Accept(w) PROVE NoStranded'
  BY <1>1 DEF Accept, BeforeAccept, Untouched, NoStranded
<1>2. ASSUME NEW w \in Workers, AddSession(w) PROVE Kept
  BY <1>2 DEF Kept, AddSession
<1>3. ASSUME NEW w \in Workers, OnConnected(w) PROVE Kept
  BY <1>3 DEF Kept, OnConnected
<1>4. ASSUME NEW w \in Workers, SendLogin(w) PROVE NoStranded'
  BY <1>4 DEF SendLogin, Send, NoStranded
<1>5. ASSUME NEW t \in AppThreads, AppSend(t) PROVE NoStranded'
  BY <1>5 DEF AppSend, Send, NoStranded
<1>6. ASSUME NEW t \in Threads, RegisterSend(t) PROVE Kept
  BY <1>6 DEF Kept, RegisterSend, IsConnected
<1>7. ASSUME NEW t \in Threads, SendDrain(t) PROVE Kept
  BY <1>7 DEF Kept, SendDrain
<1>8. ASSUME NEW t \in Threads, SendPost(t) PROVE Kept
  BY <1>8 DEF Kept, SendPost, CallDisconnect, CanFail
<1>9. ASSUME NEW t \in Threads, SendRelease(t) PROVE Kept
  BY <1>9 DEF Kept, SendRelease
<1>10. ASSUME NEW t \in Threads, SendStore(t) PROVE NoStranded'
  BY <1>10 DEF SendStore, NoStranded
<1>11. ASSUME NEW w \in Workers, ProcessSend(w) PROVE Kept
  BY <1>11 DEF Kept, ProcessSend, CallDisconnect
<1>12. ASSUME NEW w \in Workers, SendNext(w) PROVE NoStranded'
  BY <1>12 DEF SendNext, NothingQueued, NoStranded
<1>13. ASSUME NEW w \in Workers, RegisterRecv(w) PROVE Kept
  BY <1>13 DEF Kept, RegisterRecv, IsConnected
<1>14. ASSUME NEW w \in Workers, RecvPost(w) PROVE Kept
  BY <1>14 DEF Kept, RecvPost, CallDisconnect, CanFail
<1>15. ASSUME NEW w \in Workers, RecvRelease(w) PROVE Kept
  BY <1>15 DEF Kept, RecvRelease
<1>16. ASSUME NEW w \in Workers, ProcessRecv(w) PROVE Kept
  BY <1>16 DEF Kept, ProcessRecv, CallDisconnect, RecvTaken
<1>17. ASSUME NEW w \in Workers, OnRecvPacket(w) PROVE Kept
  BY <1>17 DEF Kept, OnRecvPacket
<1>18. ASSUME NEW w \in Workers, OnRecvDone(w) PROVE Kept
  BY <1>18 DEF Kept, OnRecvDone
<1>19. ASSUME NEW t \in Threads, Disconnect(t) PROVE Kept
  BY <1>19 DEF Kept, Disconnect, WasConnected
<1>20. ASSUME NEW t \in Threads, OnDisconnected(t) PROVE Kept
  BY <1>20 DEF Kept, OnDisconnected
<1>21. ASSUME NEW t \in Threads, ReleaseSession(t) PROVE Kept
  BY <1>21 DEF Kept, ReleaseSession
<1>22. ASSUME NEW t \in Threads, RegisterDisconnect(t) PROVE Kept
  BY <1>22 DEF Kept, RegisterDisconnect
<1>23. ASSUME NEW w \in Workers, ProcessDisconnect(w) PROVE Kept
  BY <1>23 DEF Kept, ProcessDisconnect
<1>24. ASSUME Pop PROVE Kept
  BY <1>24 DEF Kept, Pop
<1>25. ASSUME UNCHANGED vars PROVE Kept
  BY <1>25 DEF Kept, vars
<1>26. QED
  BY <1>0, <1>1, <1>2, <1>3, <1>4, <1>5, <1>6, <1>7, <1>8, <1>9, <1>10, <1>11, <1>12, <1>13,
       <1>14, <1>15, <1>16, <1>17, <1>18, <1>19, <1>20, <1>21, <1>22, <1>23, <1>24,
       <1>25 DEF Next, WorkerStep, Inside

\* Whoever holds the receive registration of a live connection posts the next
\* receive, unless another thread is about to disconnect.
LEMMA ListeningStep ==
  ASSUME "other" \notin Failures, ControlOK, RecvExclusive, OneDisconnect, Listening,
         [Next]_vars
  PROVE  Listening'
<1> USE DEF ControlOK, Threads, Go, DisconnectSteps, SendSteps, RecvSteps, connVars, registry,
           sendEvent, sendVars, recvVars, discVars, queueVars, HoldsRecv, Listens
<1> DEFINE Kept == /\ connected' => connected
                   /\ recvPending => recvPending'
                   /\ \A u \in Threads : Listens(u) => Listens(u)'
<1>0. ASSUME Kept PROVE Listening'
  BY <1>0 DEF Listening
<1> HIDE DEF Kept
<1>1. ASSUME NEW w \in Workers, Accept(w) PROVE Listening'
  BY <1>1 DEF Accept, Listening
<1>2. ASSUME NEW w \in Workers, AddSession(w) PROVE Kept
  BY <1>2 DEF Kept, AddSession
<1>3. ASSUME NEW w \in Workers, OnConnected(w) PROVE Kept
  BY <1>3 DEF Kept, OnConnected
<1>4. ASSUME NEW w \in Workers, SendLogin(w) PROVE Kept
  BY <1>4 DEF Kept, SendLogin, Send, TakesRegistration
<1>5. ASSUME NEW t \in AppThreads, AppSend(t) PROVE Kept
  BY <1>5 DEF Kept, AppSend, Send, TakesRegistration
<1>6. ASSUME NEW t \in Threads, RegisterSend(t) PROVE Kept
  BY <1>6 DEF Kept, RegisterSend, IsConnected
<1>7. ASSUME NEW t \in Threads, SendDrain(t) PROVE Kept
  BY <1>7 DEF Kept, SendDrain
<1>8. ASSUME NEW t \in Threads, SendPost(t) PROVE Kept
  BY <1>8 DEF Kept, SendPost, CallDisconnect, CanFail
<1>9. ASSUME NEW t \in Threads, SendRelease(t) PROVE Kept
  BY <1>9 DEF Kept, SendRelease
<1>10. ASSUME NEW t \in Threads, SendStore(t) PROVE Kept
  BY <1>10 DEF Kept, SendStore
<1>11. ASSUME NEW w \in Workers, ProcessSend(w) PROVE Kept
  BY <1>11 DEF Kept, ProcessSend, CallDisconnect
<1>12. ASSUME NEW w \in Workers, SendNext(w) PROVE Kept
  BY <1>12 DEF Kept, SendNext, NothingQueued
<1>13. ASSUME NEW w \in Workers, RegisterRecv(w) PROVE Listening'
  BY <1>13 DEF RegisterRecv, IsConnected, Listening
<1>14. ASSUME NEW w \in Workers, RecvPost(w) PROVE Listening'
  BY <1>14 DEF RecvPost, CallDisconnect, CanFail, Listening
<1>15. ASSUME NEW w \in Workers, RecvRelease(w) PROVE Listening'
  BY <1>15 DEF RecvRelease, RecvExclusive, Listening
<1>16. ASSUME NEW w \in Workers, ProcessRecv(w) PROVE Listening'
  BY <1>16 DEF ProcessRecv, CallDisconnect, RecvTaken, Listening
<1>17. ASSUME NEW w \in Workers, OnRecvPacket(w) PROVE Kept
  BY <1>17 DEF Kept, OnRecvPacket
<1>18. ASSUME NEW w \in Workers, OnRecvDone(w) PROVE Kept
  BY <1>18 DEF Kept, OnRecvDone
<1>19. ASSUME NEW t \in Threads, Disconnect(t) PROVE Listening'
  BY <1>19 DEF Disconnect, Listening
<1>20. ASSUME NEW t \in Threads, OnDisconnected(t) PROVE Listening'
  BY <1>20 DEF OnDisconnected, OneDisconnect, Disconnecting, Listening
<1>21. ASSUME NEW t \in Threads, ReleaseSession(t) PROVE Listening'
  BY <1>21 DEF ReleaseSession, OneDisconnect, Disconnecting, Listening
<1>22. ASSUME NEW t \in Threads, RegisterDisconnect(t) PROVE Listening'
  BY <1>22 DEF RegisterDisconnect, OneDisconnect, Disconnecting, Listening
<1>23. ASSUME NEW w \in Workers, ProcessDisconnect(w) PROVE Kept
  BY <1>23 DEF Kept, ProcessDisconnect
<1>24. ASSUME Pop PROVE Kept
  BY <1>24 DEF Kept, Pop
<1>25. ASSUME UNCHANGED vars PROVE Kept
  BY <1>25 DEF Kept, vars
<1>26. QED
  BY <1>0, <1>1, <1>2, <1>3, <1>4, <1>5, <1>6, <1>7, <1>8, <1>9, <1>10, <1>11, <1>12, <1>13,
       <1>14, <1>15, <1>16, <1>17, <1>18, <1>19, <1>20, <1>21, <1>22, <1>23, <1>24,
       <1>25 DEF Next, WorkerStep, Inside

-----------------------------------------------------------------------------
\* Initially nothing has happened.
LEMMA InitToken ==
  ASSUME Init
  PROVE  TokenInv /\ ErrorClosed /\ NoStranded
<1> USE DEF Init
<1>0. FlagsOK
  BY DEF FlagsOK
<1>1. QueuesOK
  <2>1. batch \in [Threads -> Seq(Nat)]
    OBVIOUS
  <2>2. popped \in 0..Len(packets)
    OBVIOUS
  <2> QED BY <2>1, <2>2 DEF QueuesOK
<1>2. ControlOK
  BY DEF ControlOK
<1>3. \A t \in Threads : pc[t] = "Idle"
  OBVIOUS
<1>4. \A t \in Threads : ~HoldsSend(t) /\ ~HoldsRecv(t) /\ ~Starting(t) /\ ~Disconnecting(t)
  BY <1>3 DEF HoldsSend, HoldsRecv, Starting, Disconnecting, SendSteps, RecvSteps, DisconnectSteps
<1>5. SendToken /\ RecvExclusive
  BY <1>4 DEF SendToken, SendExclusive, RecvExclusive
<1>6. BeforeAccept /\ StartAlone /\ OneDisconnect /\ Registry
  BY <1>3, <1>4 DEF BeforeAccept, StartAlone, OneDisconnect, Registry, Untouched
<1>7. FlagBacked /\ Owners /\ ErrorClosed /\ NoStranded
  BY <1>3, <1>4 DEF FlagBacked, Owners, PendingOwned, ErrorClosed, NoStranded
<1> QED
  BY <1>0, <1>1, <1>2, <1>5, <1>6, <1>7 DEF TokenInv

\* The invariant is inductive.
LEMMA StepToken ==
  ASSUME TokenInv, [Next]_vars
  PROVE  TokenInv'
BY ControlStep, FlagsStep, QueuesStep, SendTokenStep, RecvTokenStep, BeforeAcceptStep,
   StartAloneStep, DisconnectStep, FlagBackedStep, OwnersStep DEF TokenInv

THEOREM TokenInvariant == Spec => []TokenInv
<1>1. Init => TokenInv
  BY InitToken
<1>2. TokenInv /\ [Next]_vars => TokenInv'
  BY StepToken
<1> QED
  BY <1>1, <1>2, PTL DEF Spec

\* TypeOK: no variable leaves its type and the session is counted at most
\* once, whatever the number of threads that call Disconnect.
THEOREM TypeCorrect == Spec => []TypeOK
<1>1. TokenInv => TypeOK
  BY DEF TokenInv, Registry, TypeOK
<1> QED
  BY <1>1, TokenInvariant, PTL

\* SendExclusive: the unlocked writes to _sendEvent never overlap.
THEOREM SendExclusion == Spec => []SendExclusive
<1>1. TokenInv => SendExclusive
  BY DEF TokenInv, SendToken
<1> QED
  BY <1>1, TokenInvariant, PTL

\* RecvExclusive: receives of a session are handled one after the other.
THEOREM RecvExclusion == Spec => []RecvExclusive
<1>1. TokenInv => RecvExclusive
  BY DEF TokenInv
<1> QED
  BY <1>1, TokenInvariant, PTL

\* RegistrationExact: _sendRegistered is set exactly while somebody is
\* responsible for the queue of a live session.
THEOREM RegistrationCorrect == Spec => []RegistrationExact
<1>1. TokenInv => RegistrationExact
  BY DEF TokenInv, SendToken, FlagBacked, RegistrationExact
<1> QED
  BY <1>1, TokenInvariant, PTL

\* PendingOwned: no completion is dispatched through a null owner.
THEOREM OwnersCorrect == Spec => []PendingOwned
<1>1. TokenInv => PendingOwned
  BY DEF TokenInv, Owners
<1> QED
  BY <1>1, TokenInvariant, PTL

\* RegistryExact: the service's set and count follow the connection.
THEOREM RegistryCorrect == Spec => []RegistryExact
<1>1. TokenInv => RegistryExact
  BY DEF TokenInv, Registry, OneDisconnect, Disconnecting, RegistryExact
<1> QED
  BY <1>1, TokenInvariant, PTL

\* NoStranded: when every failure of WSASend on a live connection is a reset,
\* a queued buffer of a live session always has somebody who will register it.
THEOREM NeverStranded ==
  ASSUME "other" \notin Failures
  PROVE  Spec => []NoStranded
<1>1. Init => ErrorClosed /\ NoStranded
  BY InitToken
<1>2. TokenInv /\ ErrorClosed /\ NoStranded /\ [Next]_vars => (ErrorClosed /\ NoStranded)'
  BY ErrorClosedStep, NoStrandedStep DEF TokenInv
<1> QED
  BY <1>1, <1>2, TokenInvariant, PTL DEF Spec

\* Listening: when every failure of WSARecv on a live connection is a reset,
\* a live session has a receive posted, or a thread that will post one or
\* disconnect.
THEOREM AlwaysListening ==
  ASSUME "other" \notin Failures
  PROVE  Spec => []Listening
<1>1. Init => Listening
  BY DEF Init, Listening
<1>2. TokenInv /\ Listening /\ [Next]_vars => Listening'
  BY ListeningStep DEF TokenInv
<1> QED
  BY <1>1, <1>2, TokenInvariant, PTL DEF Spec
=============================================================================
