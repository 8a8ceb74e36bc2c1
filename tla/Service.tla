------------------------------ MODULE Service ------------------------------
(***************************************************************************)
(* How sessions begin: the server's Listener, which keeps a fixed number   *)
(* of accept events that re-arm themselves, and a ClientService that       *)
(* connects to it, as Server.cpp and DummyClient.cpp start them.  Between  *)
(* the two is the network, which completes what they post.                 *)
(*                                                                         *)
(* A server session is the number of its creation.  It lives as long as it *)
(* is referenced: by an accept event, by the stack of a thread, by the     *)
(* service.  Its destructor closes the socket.  What it does between its   *)
(* connection and its end is the subject of module Session.                *)
(***************************************************************************)
EXTENDS Integers, FiniteSets

CONSTANTS
  Workers,          \* threads in IocpCore::Dispatch of the server
  Main,             \* the thread that calls ServerService::Start
  MaxSessionCount,  \* of the server: accept events
  ClientCount,      \* _maxSessionCount of the client service
  MaxFailures       \* bound: calls of AcceptEx that fail at once

ASSUME CountAssumption ==
  /\ Main \notin Workers
  /\ MaxSessionCount \in Nat \ {0}
  /\ ClientCount \in Nat
  /\ MaxFailures \in Nat

Threads == Workers \cup {Main}
Events  == 1..MaxSessionCount
Clients == 1..ClientCount

VARIABLES
  opened,        \* accept events created (_acceptEvents)
  running,       \* the server's workers are launched
  armed,         \* events whose AcceptEx is pending
  completed,     \* events whose completion is in the port
  eventSession,  \* IocpEvent::session of each event, 0 before the first
  created,       \* sessions created
  failures,      \* calls of AcceptEx that failed at once
  connected,     \* sessions with _connected
  sessions, sessionCount,      \* of the server's service
  pc, event, session, stack,   \* of each thread: the event (0: none) and session
                               \* it handles, the sessions its frames refer to
  link,          \* the connection of each client as the network has it
  taker,         \* the server session that was given the connection, 0: none
  client,        \* the session of each client
  asked,         \* clients for which Connect was called
  clientRunning  \* the client's workers are launched

poolVars   == <<armed, completed, eventSession, created, failures>>
serverVars == <<connected, sessions, sessionCount>>
stackVars  == <<pc, event, session, stack>>
netVars    == <<link, taker>>
clientVars == <<client, asked, clientRunning>>
vars == <<opened, running, poolVars, serverVars, stackVars, netVars, clientVars>>

Init ==
  /\ opened = 0 /\ running = FALSE
  /\ armed = {} /\ completed = {} /\ eventSession = [e \in Events |-> 0]
  /\ created = 0 /\ failures = 0
  /\ connected = {} /\ sessions = {} /\ sessionCount = 0
  /\ pc = [t \in Threads |-> "Idle"] /\ event = [t \in Threads |-> 0]
  /\ session = [t \in Threads |-> 0] /\ stack = [t \in Threads |-> {}]
  /\ link = [c \in Clients |-> "none"] /\ taker = [c \in Clients |-> 0]
  /\ client = [c \in Clients |-> "new"] /\ asked = 0 /\ clientRunning = FALSE

Go(t, label) == pc' = [pc EXCEPT ![t] = label]

-----------------------------------------------------------------------------
(* The pool of accept events.                                              *)

\* The loop of StartAccept: the next event, armed by the main thread.
StartAccept ==
  /\ pc[Main] = "Idle" /\ ~running /\ opened < MaxSessionCount
  /\ opened' = opened + 1
  /\ event' = [event EXCEPT ![Main] = opened + 1]
  /\ Go(Main, "RegisterAccept")
  /\ UNCHANGED <<running, poolVars, serverVars, session, stack, netVars, clientVars>>

\* Start has returned and main launches the workers.
Launch ==
  /\ pc[Main] = "Idle" /\ ~running /\ opened = MaxSessionCount
  /\ running' = TRUE
  /\ UNCHANGED <<opened, poolVars, serverVars, stackVars, netVars, clientVars>>

\* Mutant: maxSessionCount bounds the sessions of the service.
RegisterAcceptBelowMax(t) ==
  /\ pc[t] = "RegisterAccept"
  /\ sessionCount < MaxSessionCount
  /\ created' = created + 1
  /\ eventSession' = [eventSession EXCEPT ![event[t]] = created + 1]
  /\ stack' = [stack EXCEPT ![t] = @ \cup {created + 1}]
  /\ Go(t, "AcceptEx")
  /\ UNCHANGED <<opened, running, armed, completed, failures, serverVars, event, session,
                 netVars, clientVars>>

\* A frame of RegisterAccept creates a session for the event.
RegisterAccept(t) ==
  /\ pc[t] = "RegisterAccept"
  /\ created' = created + 1
  /\ eventSession' = [eventSession EXCEPT ![event[t]] = created + 1]
  /\ stack' = [stack EXCEPT ![t] = @ \cup {created + 1}]
  /\ Go(t, "AcceptEx")
  /\ UNCHANGED <<opened, running, armed, completed, failures, serverVars, event, session,
                 netVars, clientVars>>

\* AcceptEx is pending, and from here on the event may complete on another
\* thread; or it fails at once, and RegisterAccept calls itself.
AcceptEx(t) ==
  /\ pc[t] = "AcceptEx"
  /\ \/ /\ armed' = armed \cup {event[t]}
        /\ event' = [event EXCEPT ![t] = 0]
        /\ Go(t, "Return")
        /\ UNCHANGED failures
     \/ /\ failures < MaxFailures
        /\ failures' = failures + 1
        /\ Go(t, "RegisterAccept")
        /\ UNCHANGED <<armed, event>>
  /\ UNCHANGED <<opened, running, completed, eventSession, created, serverVars, session, stack,
                 netVars, clientVars>>

\* What still refers to a session once the frames of t are gone.
KeptWithout(t) ==
  {eventSession[e] : e \in Events} \cup sessions \cup UNION {stack[u] : u \in Threads \ {t}}

\* The frames unwind; sessions that nothing else refers to are destroyed.
Return(t) ==
  /\ pc[t] = "Return"
  /\ stack' = [stack EXCEPT ![t] = {}]
  /\ link' = [c \in Clients |->
       IF link[c] = "accepted" /\ taker[c] \in stack[t] \ KeptWithout(t) THEN "closed" ELSE link[c]]
  /\ Go(t, "Idle")
  /\ UNCHANGED <<opened, running, poolVars, serverVars, event, session, taker, clientVars>>

-----------------------------------------------------------------------------
(* A completed accept.                                                     *)

\* Dispatch and the head of ProcessAccept: a reference to the session.
Dispatch(w, e) ==
  /\ running /\ pc[w] = "Idle" /\ e \in completed
  /\ completed' = completed \ {e}
  /\ event' = [event EXCEPT ![w] = e]
  /\ session' = [session EXCEPT ![w] = eventSession[e]]
  /\ stack' = [stack EXCEPT ![w] = {eventSession[e]}]
  /\ Go(w, "ProcessAccept")
  /\ UNCHANGED <<opened, running, armed, eventSession, created, failures, serverVars, netVars,
                 clientVars>>

\* Mutant: the error path returns without arming the event again.
ProcessAcceptGivesUp(w) ==
  /\ pc[w] = "ProcessAccept"
  /\ \/ /\ \E c \in Clients : taker[c] = session[w]
        /\ connected' = connected \cup {session[w]}
        /\ Go(w, "AddSession") /\ UNCHANGED event
     \/ /\ Go(w, "Return") /\ event' = [event EXCEPT ![w] = 0] /\ UNCHANGED connected
  /\ UNCHANGED <<opened, running, poolVars, sessions, sessionCount, session, stack,
                 netVars, clientVars>>

\* SetUpdateAcceptSocket or getpeername fails, which they certainly do when
\* the accept completed with an error, and the event is armed again; or both
\* succeed and ProcessConnect sets _connected.
ProcessAccept(w) ==
  /\ pc[w] = "ProcessAccept"
  /\ \/ /\ \E c \in Clients : taker[c] = session[w]
        /\ connected' = connected \cup {session[w]}
        /\ Go(w, "AddSession")
     \/ /\ Go(w, "RegisterAccept") /\ UNCHANGED connected
  /\ UNCHANGED <<opened, running, poolVars, sessions, sessionCount, event, session, stack,
                 netVars, clientVars>>

AddSession(w) ==
  /\ pc[w] = "AddSession"
  /\ sessionCount' = sessionCount + 1
  /\ sessions' = sessions \cup {session[w]}
  /\ Go(w, "RegisterRecv")
  /\ UNCHANGED <<opened, running, poolVars, connected, event, session, stack, netVars, clientVars>>

\* Thread w calls Disconnect on a live session: the exchange of _connected.
CallDisconnect(w, s) ==
  /\ s \in connected
  /\ connected' = connected \ {s}
  /\ Go(w, "ReleaseSession")

\* The end of ProcessConnect, after OnConnected.  On a connection that was
\* established and is over, WSARecv fails as a reset or is posted in vain.
RegisterRecv(w) ==
  /\ pc[w] = "RegisterRecv"
  /\ \/ Go(w, "RegisterAccept") /\ UNCHANGED connected
     \/ /\ \E c \in Clients : taker[c] = session[w] /\ link[c] = "closed"
        /\ CallDisconnect(w, session[w])
  /\ UNCHANGED <<opened, running, poolVars, sessions, sessionCount, event, session, stack,
                 netVars, clientVars>>

\* A send or a receive of client c's session completes with zero bytes.
ProcessEnd(w, c) ==
  /\ running /\ pc[w] = "Idle" /\ link[c] = "closed"
  /\ taker[c] \in sessions
  /\ CallDisconnect(w, taker[c])
  /\ session' = [session EXCEPT ![w] = taker[c]]
  /\ stack' = [stack EXCEPT ![w] = {taker[c]}]
  /\ UNCHANGED <<opened, running, poolVars, sessions, sessionCount, event, netVars, clientVars>>

\* ReleaseSession, and back to ProcessAccept or out of Dispatch.
ReleaseSession(w) ==
  /\ pc[w] = "ReleaseSession"
  /\ sessions' = sessions \ {session[w]}
  /\ sessionCount' = sessionCount - 1
  /\ Go(w, IF event[w] = 0 THEN "Return" ELSE "RegisterAccept")
  /\ UNCHANGED <<opened, running, poolVars, connected, event, session, stack, netVars, clientVars>>

-----------------------------------------------------------------------------
(* The client service.                                                     *)

\* The loop of ClientService::Start.  A ConnectEx that fails at once ends
\* it: the sessions that remain are never created, and main goes on.
Connect ==
  /\ ~clientRunning /\ asked < ClientCount
  /\ asked' = asked + 1
  /\ \/ /\ link' = [link EXCEPT ![asked + 1] = "waiting"]
        /\ client' = [client EXCEPT ![asked + 1] = "connecting"]
        /\ UNCHANGED clientRunning
     \/ clientRunning' = TRUE /\ UNCHANGED <<link, client>>
  /\ UNCHANGED <<opened, running, poolVars, serverVars, stackVars, taker>>

LaunchClients ==
  /\ ~clientRunning /\ asked = ClientCount
  /\ clientRunning' = TRUE
  /\ UNCHANGED <<opened, running, poolVars, serverVars, stackVars, netVars, client, asked>>

\* Dispatch takes a completed ConnectEx for a success (IocpCore.cpp), and
\* ProcessConnect registers the session and posts a receive.  On a connection
\* that was refused WSARecv fails with an error that is only printed, and the
\* session is deaf; on one that is over it fails as a reset or is posted.
ProcessConnect(c) ==
  /\ clientRunning /\ client[c] = "connecting" /\ link[c] # "waiting"
  /\ \/ link[c] = "refused" /\ client' = [client EXCEPT ![c] = "deaf"]
     \/ link[c] = "closed" /\ client' = [client EXCEPT ![c] = "over"]
     \/ link[c] # "refused" /\ client' = [client EXCEPT ![c] = "listening"]
  /\ UNCHANGED <<opened, running, poolVars, serverVars, stackVars, netVars, asked, clientRunning>>

\* Its receive completes with zero bytes, and it disconnects.
ClientEnd(c) ==
  /\ clientRunning /\ client[c] = "listening" /\ link[c] = "closed"
  /\ client' = [client EXCEPT ![c] = "over"]
  /\ UNCHANGED <<opened, running, poolVars, serverVars, stackVars, netVars, asked, clientRunning>>

-----------------------------------------------------------------------------
(* The network.                                                            *)

\* The listening socket takes the connection into its backlog, or refuses.
Handshake(c) ==
  /\ link[c] = "waiting"
  /\ \E answer \in {"backlog", "refused"} : link' = [link EXCEPT ![c] = answer]
  /\ UNCHANGED <<opened, running, poolVars, serverVars, stackVars, taker, clientVars>>

\* An accept completes with a connection, or with an error as it was reset.
CompleteAccept(e, c) ==
  /\ e \in armed /\ link[c] = "backlog"
  /\ armed' = armed \ {e}
  /\ completed' = completed \cup {e}
  /\ \/ /\ link' = [link EXCEPT ![c] = "accepted"]
        /\ taker' = [taker EXCEPT ![c] = eventSession[e]]
     \/ /\ link' = [link EXCEPT ![c] = "closed"]
        /\ UNCHANGED taker
  /\ UNCHANGED <<opened, running, eventSession, created, failures, serverVars, stackVars, clientVars>>

\* The connection breaks.
Break(c) ==
  /\ link[c] \in {"backlog", "accepted"}
  /\ link' = [link EXCEPT ![c] = "closed"]
  /\ UNCHANGED <<opened, running, poolVars, serverVars, stackVars, taker, clientVars>>

-----------------------------------------------------------------------------
Step(t) ==
  \/ RegisterAccept(t) \/ AcceptEx(t) \/ Return(t)
  \/ ProcessAccept(t) \/ AddSession(t) \/ RegisterRecv(t) \/ ReleaseSession(t)

Next ==
  \/ StartAccept \/ Launch
  \/ \E t \in Threads : Step(t)
  \/ \E w \in Workers, e \in Events : Dispatch(w, e)
  \/ \E w \in Workers, c \in Clients : ProcessEnd(w, c)
  \/ Connect \/ LaunchClients
  \/ \E c \in Clients : ProcessConnect(c) \/ ClientEnd(c) \/ Handshake(c) \/ Break(c)
  \/ \E e \in Events, c \in Clients : CompleteAccept(e, c)

Spec == Init /\ [][Next]_vars

(* Both programs' threads are scheduled, and their ports are FIFO queues:  *)
(* what waits there again and again is dispatched (strong fairness: the    *)
(* workers may be busy in between).  The network hands the connections of  *)
(* the backlog to armed accepts in turn.  Nothing is assumed of how a      *)
(* connection is answered or when it breaks.                               *)
Fairness ==
  /\ WF_vars(StartAccept \/ Launch)
  /\ \A t \in Threads : WF_vars(Step(t))
  /\ \A e \in Events : SF_vars(\E w \in Workers : Dispatch(w, e))
  /\ \A c \in Clients :
       /\ SF_vars(\E w \in Workers : ProcessEnd(w, c))
       /\ SF_vars(\E e \in Events : CompleteAccept(e, c))
       /\ WF_vars(ProcessConnect(c) \/ ClientEnd(c))
  /\ WF_vars(Connect \/ LaunchClients)

FairSpec == Spec /\ Fairness
-----------------------------------------------------------------------------
(* Properties.                                                             *)

Labels == {"Idle", "RegisterAccept", "AcceptEx", "Return", "ProcessAccept", "AddSession",
           "RegisterRecv", "ReleaseSession"}
Links == {"none", "waiting", "backlog", "refused", "accepted", "closed"}

PoolOK ==
  /\ opened \in 0..MaxSessionCount /\ running \in BOOLEAN
  /\ created \in Nat /\ failures \in 0..MaxFailures
  /\ armed \subseteq 1..opened /\ completed \subseteq 1..opened
  /\ eventSession \in [Events -> 0..created]

SessionsOK ==
  /\ connected \subseteq 1..created /\ sessions \subseteq 1..created
  /\ sessionCount \in Int

ThreadsOK ==
  /\ pc \in [Threads -> Labels] /\ event \in [Threads -> 0..opened]
  /\ session \in [Threads -> 0..created]
  /\ stack \in [Threads -> SUBSET (1..created)]

ClientsOK ==
  /\ link \in [Clients -> Links] /\ taker \in [Clients -> 0..created]
  /\ client \in [Clients -> {"new", "connecting", "listening", "deaf", "over"}]
  /\ asked \in 0..ClientCount /\ clientRunning \in BOOLEAN

\* Every variable has its type.
TypeOK == PoolOK /\ SessionsOK /\ ThreadsOK /\ ClientsOK

\* The pool never shrinks: each accept event is armed, or waits in the port,
\* or is in the hands of one thread, and in one of these places only.
PoolKept ==
  /\ armed \cap completed = {}
  /\ \A e \in armed \cup completed : \A t \in Threads : event[t] # e
  /\ \A e \in (1..opened) \ (armed \cup completed) : \E t \in Threads : event[t] = e
  /\ \A t, u \in Threads : event[t] = event[u] /\ event[t] # 0 => t = u

\* An armed accept has a session of its own, which no connection was given
\* to, which is not registered and which no thread works on.
FreshAccepts ==
  \A e \in armed :
    /\ eventSession[e] # 0
    /\ eventSession[e] \notin connected \cup sessions
    /\ \A f \in Events \ {e} : eventSession[f] # eventSession[e]
    /\ \A c \in Clients : taker[c] # eventSession[e]
    /\ \A t \in Threads : session[t] # eventSession[e]

\* The service counts its sessions, however many workers add and release.
Counted == IsFiniteSet(sessions) /\ sessionCount = Cardinality(sessions)

\* Whatever fails in AcceptEx or behind it and however workers interleave,
\* the listener keeps all its accepts, each with a fresh session, and the
\* service's count is exact (Listener.cpp, Service.cpp).
Accepting == PoolKept /\ FreshAccepts /\ Counted

\* A connection in the backlog is taken, although more may be live than there
\* are accept events: both ends register it, or the client's session learns
\* that it is over.  (A client that was refused is another matter: it is deaf.)
EndsMeet ==
  \A c \in Clients :
    link[c] = "backlog" ~> \/ client[c] = "listening" /\ taker[c] \in sessions
                           \/ client[c] = "over"
=============================================================================
