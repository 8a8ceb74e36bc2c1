------------------------------- MODULE Session -------------------------------
(***************************************************************************)
(* One server-side session of ServerCore (Session.cpp) as GameSession.cpp  *)
(* uses it: the completion-port workers that dispatch its events, the      *)
(* application threads that send on it, and the main thread that pops the  *)
(* global packet queue.  Each action is the code between two points where  *)
(* another thread can observe or change what it reads: a critical section, *)
(* an atomic exchange, a posted operation.                                 *)
(*                                                                         *)
(* pc[t] names the next such step of thread t; the return addresses of the *)
(* two routines that are called from several places are kept in rsRet      *)
(* (RegisterSend) and dcRet (Disconnect).                                  *)
(*                                                                         *)
(* A definition marked "Mutant" is no part of the model: it is the next    *)
(* definition with a plausible bug, and shows that a property can fail.    *)
(***************************************************************************)
EXTENDS Integers, Sequences, FiniteSets

CONSTANTS
  Workers,      \* threads in IocpCore::Dispatch (Server.cpp starts five)
  AppThreads,   \* threads that call Send outside a completion
  Main,         \* the one that pops GPacketQueue
  Failures,     \* immediate failures of WSASend and WSARecv considered
  MaxSends,     \* bound: calls of Send in a behaviour
  MaxPackets,   \* bound: packets the peer sends
  MaxBatch      \* bound: packets completed by one receive

ASSUME ThreadAssumption ==
  /\ Main \in AppThreads
  /\ Workers \cap AppThreads = {}
ASSUME FailureAssumption == Failures \subseteq {"reset", "other"}
ASSUME BoundAssumption ==
  /\ MaxSends \in Nat \ {0}
  /\ MaxPackets \in Nat
  /\ MaxBatch \in Nat \ {0}

Threads == Workers \cup AppThreads

\* The zero-length packet OnDisconnected pushes; data packets are numbered from 1.
Disc == 0

VARIABLES
  acceptPending,   \* the AcceptEx of this session has not completed
  connected,       \* _connected
  service,         \* the session is in Service::_sessions
  sessionCount,    \* its contribution to Service::_sessionCount
  manager,         \* the session is in GSessionManager
  sendQueue,       \* _sendQueue, buffers numbered in the order of Send
  sendRegistered,  \* _sendRegistered
  sendOwner,       \* _sendEvent.owner is not null
  sendBuffers,     \* _sendEvent.sendBuffers
  sendPending,     \* a WSASend was accepted and its completion not dispatched
  nSent,           \* calls of Send so far
  wire,            \* buffers whose send completed
  recvOwner,       \* _recvEvent.owner is not null
  recvPending,     \* a WSARecv was accepted and its completion not dispatched
  batch,           \* packets OnRecv has still to hand to OnRecvPacket
  arrived,         \* packets received so far
  discOwner,       \* _disconnectEvent.owner is not null
  discPending,     \* a DisconnectEx was accepted and not dispatched
  packets,         \* log of what was pushed on GPacketQueue for this session
  popped,          \* length of the popped prefix of that log
  pc, rsRet, dcRet

connVars  == <<acceptPending, connected>>
registry  == <<service, sessionCount, manager>>
sendEvent == <<sendOwner, sendBuffers, sendPending, wire>>
sendVars  == <<sendQueue, sendRegistered, nSent, sendEvent>>
recvVars  == <<recvOwner, recvPending, batch, arrived>>
discVars  == <<discOwner, discPending>>
queueVars == <<packets, popped>>
vars == <<connVars, registry, sendVars, recvVars, discVars, queueVars, pc, rsRet, dcRet>>

Init ==
  /\ acceptPending = TRUE /\ connected = FALSE
  /\ service = FALSE /\ sessionCount = 0 /\ manager = FALSE
  /\ sendQueue = <<>> /\ sendRegistered = FALSE /\ nSent = 0
  /\ sendOwner = FALSE /\ sendBuffers = <<>> /\ sendPending = FALSE /\ wire = <<>>
  /\ recvOwner = FALSE /\ recvPending = FALSE
  /\ batch = [t \in Threads |-> <<>>] /\ arrived = 0
  /\ discOwner = FALSE /\ discPending = FALSE
  /\ packets = <<>> /\ popped = 0
  /\ pc = [t \in Threads |-> "Idle"]
  /\ rsRet = [t \in Threads |-> "Idle"]
  /\ dcRet = [t \in Threads |-> "Idle"]

Go(t, label) == pc' = [pc EXCEPT ![t] = label]

\* Mutant: the check of the registrations is forgotten.
ConnectedUnchecked == TRUE

\* What IsConnected returns.
IsConnected == connected

\* An operation fails at once: for a reason in Failures while the connection
\* lives, for either reason once it is closed.
CanFail(f) == f \in Failures \/ ~connected

\* Thread t calls Disconnect and continues at ret when it returns.
CallDisconnect(t, ret) ==
  /\ Go(t, "Disconnect")
  /\ dcRet' = [dcRet EXCEPT ![t] = ret]

-----------------------------------------------------------------------------
(* Connection: Listener::ProcessAccept calls ProcessConnect.               *)

Accept(w) ==
  /\ pc[w] = "Idle" /\ acceptPending
  /\ acceptPending' = FALSE
  /\ connected' = TRUE
  /\ Go(w, "AddSession")
  /\ UNCHANGED <<registry, sendVars, recvVars, discVars, queueVars, rsRet, dcRet>>

AddSession(w) ==
  /\ pc[w] = "AddSession"
  /\ sessionCount' = sessionCount + 1
  /\ service' = TRUE
  /\ Go(w, "OnConnected")
  /\ UNCHANGED <<connVars, manager, sendVars, recvVars, discVars, queueVars, rsRet, dcRet>>

\* GameSession::OnConnected enters the session manager, then sends S_Login.
OnConnected(w) ==
  /\ pc[w] = "OnConnected"
  /\ manager' = TRUE
  /\ Go(w, "SendLogin")
  /\ UNCHANGED <<connVars, service, sessionCount, sendVars, recvVars, discVars, queueVars, rsRet, dcRet>>

-----------------------------------------------------------------------------
(* Sending.                                                                *)

\* Mutant: every Send calls RegisterSend.
EverySendRegisters == TRUE

\* The exchange of _sendRegistered found it FALSE.
TakesRegistration == ~sendRegistered

\* The critical section of Send: queue the buffer and try to take the
\* registration; whoever took it calls RegisterSend.
Send(t, ret) ==
  /\ nSent' = nSent + 1
  /\ sendQueue' = Append(sendQueue, nSent + 1)
  /\ sendRegistered' = TRUE
  /\ IF TakesRegistration
       THEN Go(t, "RegisterSend") /\ rsRet' = [rsRet EXCEPT ![t] = ret]
       ELSE Go(t, ret) /\ UNCHANGED rsRet
  /\ UNCHANGED <<connVars, registry, sendEvent, recvVars, discVars, queueVars, dcRet>>

SendLogin(w) ==
  /\ pc[w] = "SendLogin"
  /\ Send(w, "RegisterRecv")

\* The game sends to a session only through a Player, which exists once a
\* packet of the session was handled; the packet that makes it send may be
\* another session's, so it sends at any later time.
AppSend(t) ==
  /\ pc[t] = "Idle"
  /\ nSent < MaxSends
  /\ \E i \in 1..popped : packets[i] # Disc
  /\ Send(t, "Idle")

\* Mutant: the reference is taken before the early return.
RegisterSendOwning(t) ==
  /\ pc[t] = "RegisterSend"
  /\ sendOwner' = TRUE
  /\ Go(t, IF IsConnected THEN "SendDrain" ELSE rsRet[t])
  /\ UNCHANGED <<connVars, registry, sendQueue, sendRegistered, nSent, sendBuffers, sendPending,
                 wire, recvVars, discVars, queueVars, rsRet, dcRet>>

\* The head of RegisterSend, up to its critical section.
RegisterSend(t) ==
  /\ pc[t] = "RegisterSend"
  /\ \/ /\ ~IsConnected
        /\ Go(t, rsRet[t])
        /\ UNCHANGED sendOwner
     \/ /\ IsConnected
        /\ sendOwner' = TRUE
        /\ Go(t, "SendDrain")
  /\ UNCHANGED <<connVars, registry, sendQueue, sendRegistered, nSent, sendBuffers, sendPending,
                 wire, recvVars, discVars, queueVars, rsRet, dcRet>>

\* The critical section of RegisterSend: the whole queue becomes one batch.
SendDrain(t) ==
  /\ pc[t] = "SendDrain"
  /\ sendBuffers' = sendBuffers \o sendQueue
  /\ sendQueue' = <<>>
  /\ Go(t, "SendPost")
  /\ UNCHANGED <<connVars, registry, sendRegistered, nSent, sendOwner, sendPending, wire,
                 recvVars, discVars, queueVars, rsRet, dcRet>>

\* WSASend and the HandleError of its failure: a reset or an abort
\* disconnects, any other error is only printed.
SendPost(t) ==
  /\ pc[t] = "SendPost"
  /\ \/ /\ sendPending' = TRUE
        /\ Go(t, rsRet[t]) /\ UNCHANGED dcRet
     \/ /\ CanFail("reset")
        /\ CallDisconnect(t, "SendRelease") /\ UNCHANGED sendPending
     \/ /\ CanFail("other")
        /\ Go(t, "SendRelease") /\ UNCHANGED <<sendPending, dcRet>>
  /\ UNCHANGED <<connVars, registry, sendQueue, sendRegistered, nSent, sendOwner, sendBuffers,
                 wire, recvVars, discVars, queueVars, rsRet>>

\* Mutant: the failed batch goes back to the queue, behind newer buffers.
SendReleaseRequeue(t) ==
  /\ pc[t] = "SendRelease"
  /\ sendOwner' = FALSE
  /\ sendBuffers' = <<>>
  /\ sendQueue' = sendQueue \o sendBuffers
  /\ Go(t, "SendStore")
  /\ UNCHANGED <<connVars, registry, sendRegistered, nSent, sendPending, wire, recvVars,
                 discVars, queueVars, rsRet, dcRet>>

SendRelease(t) ==
  /\ pc[t] = "SendRelease"
  /\ sendOwner' = FALSE
  /\ sendBuffers' = <<>>
  /\ Go(t, "SendStore")
  /\ UNCHANGED <<connVars, registry, sendQueue, sendRegistered, nSent, sendPending, wire,
                 recvVars, discVars, queueVars, rsRet, dcRet>>

SendStore(t) ==
  /\ pc[t] = "SendStore"
  /\ sendRegistered' = FALSE
  /\ Go(t, rsRet[t])
  /\ UNCHANGED <<connVars, registry, sendQueue, nSent, sendEvent, recvVars, discVars, queueVars,
                 rsRet, dcRet>>

\* A send completion is dispatched: numOfBytes is positive, or zero when the
\* connection broke.
ProcessSend(w) ==
  /\ pc[w] = "Idle" /\ sendPending
  /\ sendPending' = FALSE
  /\ sendOwner' = FALSE
  /\ sendBuffers' = <<>>
  /\ \/ /\ wire' = wire \o sendBuffers
        /\ Go(w, "SendNext") /\ UNCHANGED dcRet
     \/ /\ CallDisconnect(w, "Idle")
        /\ UNCHANGED wire
  /\ UNCHANGED <<connVars, registry, sendQueue, sendRegistered, nSent, recvVars, discVars,
                 queueVars, rsRet>>

\* Mutant: the queue is not looked at.
NothingQueuedAssumed == TRUE

NothingQueued == sendQueue = <<>>

\* Mutant: the rest of the queue is left to the next Send.
SendNextQuiet(w) ==
  /\ pc[w] = "SendNext"
  /\ sendRegistered' = (sendQueue # <<>>)
  /\ Go(w, "Idle")
  /\ UNCHANGED <<connVars, registry, sendQueue, nSent, sendEvent, recvVars, discVars, queueVars,
                 rsRet, dcRet>>

\* The critical section at the end of ProcessSend.
SendNext(w) ==
  /\ pc[w] = "SendNext"
  /\ \/ /\ NothingQueued
        /\ sendRegistered' = FALSE
        /\ Go(w, "Idle") /\ UNCHANGED rsRet
     \/ /\ ~NothingQueued
        /\ Go(w, "RegisterSend")
        /\ rsRet' = [rsRet EXCEPT ![w] = "Idle"]
        /\ UNCHANGED sendRegistered
  /\ UNCHANGED <<connVars, registry, sendQueue, nSent, sendEvent, recvVars, discVars, queueVars,
                 dcRet>>

-----------------------------------------------------------------------------
(* Receiving.                                                              *)

RegisterRecv(w) ==
  /\ pc[w] = "RegisterRecv"
  /\ \/ /\ ~IsConnected
        /\ Go(w, "Idle")
        /\ UNCHANGED recvOwner
     \/ /\ IsConnected
        /\ recvOwner' = TRUE
        /\ Go(w, "RecvPost")
  /\ UNCHANGED <<connVars, registry, sendVars, recvPending, batch, arrived, discVars, queueVars,
                 rsRet, dcRet>>

RecvPost(w) ==
  /\ pc[w] = "RecvPost"
  /\ \/ /\ recvPending' = TRUE
        /\ Go(w, "Idle") /\ UNCHANGED dcRet
     \/ /\ CanFail("reset")
        /\ CallDisconnect(w, "RecvRelease") /\ UNCHANGED recvPending
     \/ /\ CanFail("other")
        /\ Go(w, "RecvRelease") /\ UNCHANGED <<recvPending, dcRet>>
  /\ UNCHANGED <<connVars, registry, sendVars, recvOwner, batch, arrived, discVars, queueVars, rsRet>>

RecvRelease(w) ==
  /\ pc[w] = "RecvRelease"
  /\ recvOwner' = FALSE
  /\ Go(w, "Idle")
  /\ UNCHANGED <<connVars, registry, sendVars, recvPending, batch, arrived, discVars, queueVars,
                 rsRet, dcRet>>

\* Mutant: the next receive is posted before the packets are handed over.
RecvRearmed == recvPending' = TRUE /\ recvOwner' = TRUE

RecvTaken == recvPending' = FALSE /\ recvOwner' = FALSE

\* A receive completion is dispatched: zero bytes, or bytes that complete n
\* packets (none, when they end inside a packet).
ProcessRecv(w) ==
  /\ pc[w] = "Idle" /\ recvPending
  /\ RecvTaken
  /\ \/ /\ CallDisconnect(w, "Idle")
        /\ UNCHANGED <<batch, arrived>>
     \/ /\ \E n \in 0..MaxBatch :
             /\ arrived + n <= MaxPackets
             /\ arrived' = arrived + n
             /\ batch' = [batch EXCEPT ![w] = [i \in 1..n |-> arrived + i]]
        /\ Go(w, "OnRecv") /\ UNCHANGED dcRet
  /\ UNCHANGED <<connVars, registry, sendVars, discVars, queueVars, rsRet>>

\* The loop of PacketSession::OnRecv: GameSession::OnRecvPacket pushes one packet.
OnRecvPacket(w) ==
  /\ pc[w] = "OnRecv" /\ batch[w] # <<>>
  /\ packets' = Append(packets, Head(batch[w]))
  /\ batch' = [batch EXCEPT ![w] = Tail(@)]
  /\ UNCHANGED <<connVars, registry, sendVars, recvOwner, recvPending, arrived, discVars, popped,
                 pc, rsRet, dcRet>>

\* Mutant: no receive is registered after a receive.
OnRecvLast(w) ==
  /\ pc[w] = "OnRecv" /\ batch[w] = <<>>
  /\ Go(w, "Idle")
  /\ UNCHANGED <<connVars, registry, sendVars, recvVars, discVars, queueVars, rsRet, dcRet>>

\* No complete packet is left: the loop ends and ProcessRecv registers the
\* next receive.
OnRecvDone(w) ==
  /\ pc[w] = "OnRecv" /\ batch[w] = <<>>
  /\ Go(w, "RegisterRecv")
  /\ UNCHANGED <<connVars, registry, sendVars, recvVars, discVars, queueVars, rsRet, dcRet>>

-----------------------------------------------------------------------------
(* Disconnection.                                                          *)

\* Mutant: every caller of Disconnect goes on.
EveryDisconnectWins == TRUE

\* The exchange of _connected found it TRUE.
WasConnected == connected

\* The exchange at the head of Disconnect: only the first caller goes on.
Disconnect(t) ==
  /\ pc[t] = "Disconnect"
  /\ IF WasConnected THEN Go(t, "OnDisconnected") ELSE Go(t, dcRet[t])
  /\ connected' = FALSE
  /\ UNCHANGED <<acceptPending, registry, sendVars, recvVars, discVars, queueVars, rsRet, dcRet>>

OnDisconnected(t) ==
  /\ pc[t] = "OnDisconnected"
  /\ packets' = Append(packets, Disc)
  /\ Go(t, "ReleaseSession")
  /\ UNCHANGED <<connVars, registry, sendVars, recvVars, discVars, popped, rsRet, dcRet>>

ReleaseSession(t) ==
  /\ pc[t] = "ReleaseSession"
  /\ service' = FALSE
  /\ sessionCount' = sessionCount - 1
  /\ Go(t, "RegisterDisconnect")
  /\ UNCHANGED <<connVars, manager, sendVars, recvVars, discVars, queueVars, rsRet, dcRet>>

\* DisconnectEx is accepted, or fails at once and the reference is dropped.
RegisterDisconnect(t) ==
  /\ pc[t] = "RegisterDisconnect"
  /\ Go(t, dcRet[t])
  /\ \/ discOwner' = TRUE /\ discPending' = TRUE
     \/ discOwner' = FALSE /\ UNCHANGED discPending
  /\ UNCHANGED <<connVars, registry, sendVars, recvVars, queueVars, rsRet, dcRet>>

ProcessDisconnect(w) ==
  /\ pc[w] = "Idle" /\ discPending
  /\ discPending' = FALSE
  /\ discOwner' = FALSE
  /\ UNCHANGED <<connVars, registry, sendVars, recvVars, queueVars, pc, rsRet, dcRet>>

-----------------------------------------------------------------------------
(* The main thread takes one packet of GPacketQueue and handles it.  The   *)
(* disconnection packet removes the session from its manager; the sends    *)
(* that the other packets cause are AppSend.                               *)

\* Mutant: HandlePacket does not treat the zero-length packet.
LeavesNever(p) == FALSE

LeavesManager(p) == p = Disc

Pop ==
  /\ pc[Main] = "Idle"
  /\ popped < Len(packets)
  /\ popped' = popped + 1
  /\ manager' = (manager /\ ~LeavesManager(packets[popped + 1]))
  /\ UNCHANGED <<connVars, service, sessionCount, sendVars, recvVars, discVars, packets, pc, rsRet, dcRet>>

-----------------------------------------------------------------------------
\* The steps a thread takes once it is inside the code, and completions.
Inside(t) ==
  \/ RegisterSend(t) \/ SendDrain(t) \/ SendPost(t) \/ SendRelease(t) \/ SendStore(t)
  \/ Disconnect(t) \/ OnDisconnected(t) \/ ReleaseSession(t) \/ RegisterDisconnect(t)

WorkerStep(w) ==
  \/ AddSession(w) \/ OnConnected(w) \/ SendLogin(w) \/ SendNext(w)
  \/ RegisterRecv(w) \/ RecvPost(w) \/ RecvRelease(w) \/ OnRecvPacket(w)
  \/ OnRecvDone(w)

Next ==
  \/ \E w \in Workers : Accept(w) \/ ProcessSend(w) \/ ProcessRecv(w) \/ ProcessDisconnect(w)
  \/ \E w \in Workers : WorkerStep(w)
  \/ \E t \in Threads : Inside(t)
  \/ \E t \in AppThreads : AppSend(t)
  \/ Pop

Spec == Init /\ [][Next]_vars

(* Threads are scheduled.  The completion port is a FIFO queue, so a       *)
(* completion that is there again and again is dispatched (strong          *)
(* fairness: the workers may be busy in between); a send completes because *)
(* the peer reads or the connection breaks, a receive completes for        *)
(* certain only once the connection is down.                               *)
Fairness ==
  /\ \A t \in Threads : WF_vars(Inside(t))
  /\ \A w \in Workers : WF_vars(WorkerStep(w))
  /\ SF_vars(\E w \in Workers : ProcessSend(w))
  /\ SF_vars(~connected /\ \E w \in Workers : ProcessRecv(w))
  /\ SF_vars(\E w \in Workers : ProcessDisconnect(w))
  /\ WF_vars(Pop)

FairSpec == Spec /\ Fairness
-----------------------------------------------------------------------------
(* Where a thread is.                                                      *)

DisconnectSteps == {"Disconnect", "OnDisconnected", "ReleaseSession", "RegisterDisconnect"}
SendSteps == {"RegisterSend", "SendDrain", "SendPost", "SendRelease", "SendStore"}
RecvSteps == {"AddSession", "OnConnected", "SendLogin", "RegisterRecv", "RecvPost",
              "RecvRelease", "OnRecv"}

\* t took the send registration, or the completion that carries it, and has
\* neither posted a send nor given the registration back.
HoldsSend(t) ==
  \/ pc[t] \in SendSteps \cup {"SendNext"}
  \/ pc[t] \in DisconnectSteps /\ dcRet[t] = "SendRelease"

\* t is between the completion of a receive (or of the accept) and the
\* registration of the next receive.
HoldsRecv(t) ==
  \/ pc[t] \in RecvSteps
  \/ pc[t] \in SendSteps /\ rsRet[t] = "RegisterRecv"
  \/ pc[t] \in DisconnectSteps /\ dcRet[t] = "RecvRelease"
  \/ pc[t] \in DisconnectSteps /\ dcRet[t] = "SendRelease" /\ rsRet[t] = "RegisterRecv"

-----------------------------------------------------------------------------
(* Properties.                                                             *)

FlagsOK ==
  /\ acceptPending \in BOOLEAN /\ connected \in BOOLEAN
  /\ service \in BOOLEAN /\ manager \in BOOLEAN
  /\ sendRegistered \in BOOLEAN /\ sendOwner \in BOOLEAN /\ sendPending \in BOOLEAN
  /\ recvOwner \in BOOLEAN /\ recvPending \in BOOLEAN
  /\ discOwner \in BOOLEAN /\ discPending \in BOOLEAN

QueuesOK ==
  /\ nSent \in Nat /\ arrived \in Nat
  /\ sendQueue \in Seq(Nat) /\ sendBuffers \in Seq(Nat) /\ wire \in Seq(Nat)
  /\ batch \in [Threads -> Seq(Nat)]
  /\ packets \in Seq(Nat) /\ popped \in 0..Len(packets)

ControlOK ==
  /\ pc \in [Threads -> {"Idle", "SendNext"} \cup SendSteps \cup RecvSteps \cup DisconnectSteps]
  /\ rsRet \in [Threads -> {"Idle", "RegisterRecv"}]
  /\ dcRet \in [Threads -> {"Idle", "SendRelease", "RecvRelease"}]

\* Every variable has its type; the session counts once or not at all.
TypeOK == FlagsOK /\ QueuesOK /\ ControlOK /\ sessionCount \in {0, 1}

\* _sendEvent is one object written without the lock (RegisterSend,
\* ProcessSend): at most one thread works on it, and none while an operation
\* that uses it is posted.
SendExclusive ==
  /\ \A t, u \in Threads : HoldsSend(t) /\ HoldsSend(u) => t = u
  /\ sendPending => \A t \in Threads : ~HoldsSend(t)

\* _sendRegistered tells the truth: it is set while a send is posted or being
\* registered and, on a live connection, is never left set behind (all later
\* buffers would wait for a completion that never comes).
RegistrationExact ==
  /\ (sendPending \/ \E t \in Threads : HoldsSend(t)) => sendRegistered
  /\ (connected /\ sendRegistered) =>
       sendPending \/ \E t \in Threads : HoldsSend(t) \/ pc[t] = "Disconnect"

\* The same for _recvEvent and the receive buffer: receives never overlap,
\* so packets of a session are pushed by one thread at a time.
RecvExclusive ==
  /\ \A t, u \in Threads : HoldsRecv(t) /\ HoldsRecv(u) => t = u
  /\ (recvPending \/ acceptPending) => \A t \in Threads : ~HoldsRecv(t)
  /\ ~(recvPending /\ acceptPending)

\* Dispatch follows IocpEvent::owner: an operation that is posted keeps a
\* reference to its session.
PendingOwned ==
  /\ sendPending => sendOwner
  /\ recvPending => recvOwner
  /\ discPending => discOwner

\* Buffers leave in the order in which Send queued them, whatever fails; none
\* is sent twice.
SendOrder ==
  LET all == wire \o sendBuffers \o sendQueue
  IN  \A i, j \in 1..Len(all) : i < j => all[i] < all[j]

\* _sendRegistered is cleared only when the queue is empty, or nobody would
\* register the queued buffers until some later Send.
NoStranded == (connected /\ ~sendRegistered) => sendQueue = <<>>

\* A live session always listens: a receive is posted, or some thread is on
\* its way to post one or to disconnect.
Listening ==
  connected => \/ recvPending
               \/ \E t \in Threads : HoldsRecv(t) /\ pc[t] # "RecvRelease"
               \/ \E t \in Threads : pc[t] = "Disconnect"

\* The service's set and count agree, hold every live session from AddSession
\* on, and no session beyond the Disconnect that releases it.
RegistryExact ==
  /\ sessionCount = IF service THEN 1 ELSE 0
  /\ connected => service \/ \E t \in Threads : pc[t] = "AddSession"
  /\ service => connected \/ \E t \in Threads : pc[t] \in {"OnDisconnected", "ReleaseSession"}

\* After the disconnection every strong reference to the session that the
\* server keeps is dropped: the service's, the manager's, the posted events',
\* the queued packets'.
Released ==
  /\ ~service /\ ~manager
  /\ ~sendOwner /\ ~recvOwner /\ ~discOwner
  /\ popped = Len(packets)

Reclaimed == (~acceptPending /\ ~connected) ~> []Released

-----------------------------------------------------------------------------
(* The session as its users see it.                                        *)

Conn == INSTANCE Connection WITH
          Late <- MaxBatch, fresh <- acceptPending, open <- connected,
          sent <- nSent, delivered <- wire, inbox <- packets

\* While failures are resets the session is a connection: whatever the
\* threads do, buffers go out and packets come in in order and without a gap,
\* the end is reported once, and packets may be pushed behind that report (a
\* worker still delivers a receive), but only those of one receive.
IsConnection == Conn!Spec

\* The same with its liveness: no buffer waits for ever on a live connection,
\* and every disconnection is reported.
IsFairConnection == Conn!FairSpec
=============================================================================
