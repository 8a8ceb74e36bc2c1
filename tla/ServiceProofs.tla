---------------------------- MODULE ServiceProofs ----------------------------
(***************************************************************************)
(* The listener never loses an accept, gives every accept a session of its *)
(* own and keeps the service's count exact, for any number of workers,     *)
(* accept events, clients and failures.                                    *)
(***************************************************************************)
EXTENDS Service, FiniteSetTheorems, TLAPS

InAccept == {"ProcessAccept", "AddSession", "RegisterRecv"}
WithEvent == InAccept \cup {"RegisterAccept", "AcceptEx"}

\* No two accept events have the same session.
OwnSessions ==
  \A e, f \in Events : eventSession[e] = eventSession[f] /\ e # f => eventSession[e] = 0

\* Nobody has heard of the session of event e yet.
Fresh(e) ==
  /\ eventSession[e] # 0
  /\ eventSession[e] \notin connected \cup sessions
  /\ \A f \in Events \ {e} : eventSession[f] # eventSession[e]
  /\ \A c \in Clients : taker[c] # eventSession[e]
  /\ \A t \in Threads : session[t] # eventSession[e]

\* The session of an event is fresh from RegisterAccept until the accept
\* completes, and unregistered until a worker has taken the completion.
Waiting ==
  /\ \A e \in armed : Fresh(e)
  /\ \A t \in Threads : pc[t] = "AcceptEx" => Fresh(event[t])
  /\ \A e \in completed : eventSession[e] # 0 /\ eventSession[e] \notin connected \cup sessions

\* Where thread t is tells what it holds.
At(t) ==
  /\ pc[t] \in {"Idle", "Return"} => event[t] = 0
  /\ pc[t] \in WithEvent => event[t] # 0
  /\ pc[t] \in InAccept => session[t] = eventSession[event[t]] /\ session[t] # 0
  /\ pc[t] = "ProcessAccept" => session[t] \notin connected
  /\ pc[t] \in {"ProcessAccept", "AddSession"} => session[t] \notin sessions
  /\ pc[t] = "RegisterRecv" /\ session[t] \in connected => session[t] \in sessions
  /\ pc[t] = "ReleaseSession" => session[t] \in sessions \ connected

\* Each session is released by one thread, the one that won the exchange.
OneRelease ==
  \A t, u \in Threads :
    pc[t] = "ReleaseSession" /\ pc[u] = "ReleaseSession" /\ session[t] = session[u] => t = u

Stations == OneRelease /\ \A t \in Threads : At(t)

ServiceInv == TypeOK /\ PoolKept /\ OwnSessions /\ Waiting /\ Stations /\ Counted

\* Steps that touch nothing the invariant speaks of, types aside.
Elsewhere ==
  UNCHANGED <<opened, armed, completed, eventSession, connected, sessions, sessionCount,
              pc, event, session, taker>>

\* A thread handles at most the opened events, which are some of the pool's.
LEMMA EventBounds ==
  ASSUME TypeOK
  PROVE  /\ 1..opened \subseteq Events
         /\ \A t \in Threads : event[t] # 0 => event[t] \in 1..opened
         /\ \A e \in armed \cup completed : e \in Events
BY CountAssumption DEF TypeOK, PoolOK, ThreadsOK, Events, Threads

\* A thread on its way through an accept has its event and session.
LEMMA Holding ==
  ASSUME ServiceInv, NEW t \in Threads
  PROVE  /\ pc[t] \in WithEvent => event[t] \in 1..opened /\ event[t] \in Events
         /\ pc[t] \in InAccept \cup {"ReleaseSession"} => session[t] \in 1..created
         /\ created + 1 \in Nat /\ 1..created \subseteq 1..(created + 1)
         /\ 0..created \subseteq 0..(created + 1)
<1>1. event[t] \in 0..opened /\ session[t] \in 0..created /\ opened \in 0..MaxSessionCount
      /\ created \in Nat /\ sessions \subseteq 1..created
  BY DEF ServiceInv, TypeOK, PoolOK, ThreadsOK, SessionsOK
<1>2. /\ pc[t] \in WithEvent => event[t] # 0
      /\ pc[t] \in InAccept => session[t] # 0
      /\ pc[t] = "ReleaseSession" => session[t] \in sessions
  BY DEF ServiceInv, Stations, At
<1> QED
  BY <1>1, <1>2, CountAssumption DEF Events

LEMMA InitInv == ASSUME Init PROVE ServiceInv
<1>1. TypeOK
  <2>1. 0 \in 0..0 /\ 0 \in 0..MaxSessionCount /\ 0 \in 0..MaxFailures /\ 0 \in 0..ClientCount
    BY CountAssumption
  <2>2. PoolOK
    BY <2>1 DEF Init, PoolOK
  <2>3. SessionsOK
    BY DEF Init, SessionsOK
  <2>4. ThreadsOK
    BY <2>1 DEF Init, ThreadsOK, Labels
  <2>5. ClientsOK
    BY <2>1 DEF Init, ClientsOK, Links
  <2> QED
    BY <2>2, <2>3, <2>4, <2>5 DEF TypeOK
<1>2. PoolKept /\ OwnSessions /\ Waiting /\ Stations
  BY DEF Init, PoolKept, OwnSessions, Waiting, Stations, OneRelease, At, WithEvent, InAccept,
      Events, Threads
<1>3. Counted
  BY FS_EmptySet DEF Init, Counted
<1> QED
  BY <1>1, <1>2, <1>3 DEF ServiceInv

\* Types are kept by every step.
LEMMA TypeStep ==
  ASSUME ServiceInv, [Next]_vars
  PROVE  TypeOK'
<1>1. ASSUME StartAccept PROVE TypeOK'
  <2>1. PoolOK'
    BY <1>1, CountAssumption
    DEF StartAccept, PoolOK, Events, TypeOK, ServiceInv, poolVars
  <2>2. SessionsOK'
    BY <1>1, CountAssumption
    DEF StartAccept, SessionsOK, PoolOK, TypeOK, ServiceInv, poolVars, serverVars
  <2>3. ThreadsOK'
    BY <1>1, CountAssumption
    DEF StartAccept, ThreadsOK, PoolOK, Threads, Events, Labels, TypeOK, ServiceInv, Go,
        poolVars
  <2>4. ClientsOK'
    BY <1>1, CountAssumption
    DEF StartAccept, ClientsOK, PoolOK, Clients, Links, TypeOK, ServiceInv, poolVars, netVars,
        clientVars
  <2> QED
    BY <2>1, <2>2, <2>3, <2>4 DEF TypeOK
<1>2. ASSUME Launch PROVE TypeOK'
  <2>1. PoolOK'
    BY <1>2, CountAssumption
    DEF Launch, PoolOK, Events, TypeOK, ServiceInv, poolVars
  <2>2. SessionsOK'
    BY <1>2, CountAssumption
    DEF Launch, SessionsOK, PoolOK, TypeOK, ServiceInv, poolVars, serverVars
  <2>3. ThreadsOK'
    BY <1>2, CountAssumption
    DEF Launch, ThreadsOK, PoolOK, Threads, Events, Labels, TypeOK, ServiceInv, poolVars,
        stackVars
  <2>4. ClientsOK'
    BY <1>2, CountAssumption
    DEF Launch, ClientsOK, PoolOK, Clients, Links, TypeOK, ServiceInv, poolVars, netVars,
        clientVars
  <2> QED
    BY <2>1, <2>2, <2>3, <2>4 DEF TypeOK
<1>3. ASSUME NEW t \in Threads, RegisterAccept(t) PROVE TypeOK'
  <2>1. PoolOK'
    BY <1>3, CountAssumption, Holding
    DEF RegisterAccept, PoolOK, TypeOK, ServiceInv, WithEvent, InAccept
  <2>2. SessionsOK'
    BY <1>3, CountAssumption, Holding
    DEF RegisterAccept, SessionsOK, PoolOK, TypeOK, ServiceInv, WithEvent, InAccept, serverVars
  <2>3. ThreadsOK'
    <3>1. stack' \in [Threads -> SUBSET (1..(created + 1))]
      <4>1. created + 1 \in 1..(created + 1) /\ 1..created \subseteq 1..(created + 1)
        BY Holding DEF ServiceInv, TypeOK, PoolOK
      <4>2. stack \in [Threads -> SUBSET (1..(created + 1))]
        BY <4>1 DEF ServiceInv, TypeOK, ThreadsOK
      <4>3. stack[t] \cup {created + 1} \in SUBSET (1..(created + 1))
        BY <4>1, <4>2
      <4> QED
        BY <1>3, <4>2, <4>3 DEF RegisterAccept
    <3>2. session' \in [Threads -> 0..(created + 1)]
      BY <1>3, Holding DEF RegisterAccept, ServiceInv, TypeOK, ThreadsOK
    <3>3. pc' \in [Threads -> Labels]
      BY <1>3 DEF RegisterAccept, Go, ServiceInv, TypeOK, ThreadsOK, Labels
    <3> QED
      BY <1>3, <3>1, <3>2, <3>3 DEF RegisterAccept, ServiceInv, TypeOK, ThreadsOK
  <2>4. ClientsOK'
    BY <1>3, CountAssumption, Holding
    DEF RegisterAccept, ClientsOK, PoolOK, Clients, Links, TypeOK, ServiceInv, netVars,
        clientVars
  <2> QED
    BY <2>1, <2>2, <2>3, <2>4 DEF TypeOK
<1>4. ASSUME NEW t \in Threads, AcceptEx(t) PROVE TypeOK'
  <2>1. PoolOK'
    <3>1. event[t] \in 1..opened
      BY <1>4, Holding DEF AcceptEx, WithEvent
    <3>2. opened' = opened /\ running' = running /\ completed' = completed
          /\ eventSession' = eventSession /\ created' = created
      BY <1>4 DEF AcceptEx
    <3>3. armed' \subseteq 1..opened
      BY <1>4, <3>1 DEF AcceptEx, ServiceInv, TypeOK, PoolOK
    <3>4. failures \in 0..MaxFailures /\ failures' \in {failures, failures + 1}
          /\ (failures' # failures => failures < MaxFailures)
      BY <1>4 DEF AcceptEx, ServiceInv, TypeOK, PoolOK
    <3>5. failures' \in 0..MaxFailures
      BY <3>4, CountAssumption
    <3> QED
      BY <3>2, <3>3, <3>5 DEF ServiceInv, TypeOK, PoolOK
  <2>2. SessionsOK'
    BY <1>4, CountAssumption, Holding
    DEF AcceptEx, SessionsOK, PoolOK, TypeOK, ServiceInv, WithEvent, InAccept, serverVars
  <2>3. ThreadsOK'
    <3>1. pc' \in [Threads -> Labels]
      BY <1>4 DEF AcceptEx, Go, ServiceInv, TypeOK, ThreadsOK, Labels
    <3>2. 0 \in 0..opened
      BY DEF ServiceInv, TypeOK, PoolOK
    <3>3. event' \in [Threads -> 0..opened]
      BY <1>4, <3>2 DEF AcceptEx, ServiceInv, TypeOK, ThreadsOK
    <3>4. opened' = opened /\ created' = created /\ session' = session /\ stack' = stack
      BY <1>4 DEF AcceptEx
    <3> QED
      BY <3>1, <3>3, <3>4 DEF ServiceInv, TypeOK, ThreadsOK
  <2>4. ClientsOK'
    BY <1>4, CountAssumption, Holding
    DEF AcceptEx, ClientsOK, PoolOK, Clients, Links, TypeOK, ServiceInv, netVars, clientVars
  <2> QED
    BY <2>1, <2>2, <2>3, <2>4 DEF TypeOK
<1>5. ASSUME NEW t \in Threads, Return(t) PROVE TypeOK'
  <2>1. PoolOK'
    BY <1>5, CountAssumption
    DEF Return, PoolOK, Events, TypeOK, ServiceInv, poolVars
  <2>2. SessionsOK'
    BY <1>5, CountAssumption
    DEF Return, SessionsOK, PoolOK, TypeOK, ServiceInv, poolVars, serverVars
  <2>3. ThreadsOK'
    BY <1>5, CountAssumption
    DEF Return, ThreadsOK, PoolOK, Threads, Events, Labels, TypeOK, ServiceInv, Go, poolVars
  <2>4. ClientsOK'
    BY <1>5, CountAssumption
    DEF Return, ClientsOK, PoolOK, Clients, Links, TypeOK, ServiceInv, poolVars, clientVars
  <2> QED
    BY <2>1, <2>2, <2>3, <2>4 DEF TypeOK
<1>6. ASSUME NEW t \in Threads, ProcessAccept(t) PROVE TypeOK'
  <2>1. PoolOK'
    BY <1>6, CountAssumption, Holding
    DEF ProcessAccept, PoolOK, TypeOK, ServiceInv, WithEvent, InAccept, poolVars
  <2>2. SessionsOK'
    BY <1>6, CountAssumption, Holding
    DEF ProcessAccept, SessionsOK, PoolOK, TypeOK, ServiceInv, InAccept, ThreadsOK, Threads,
        WithEvent, poolVars
  <2>3. ThreadsOK'
    BY <1>6, CountAssumption, Holding
    DEF ProcessAccept, ThreadsOK, PoolOK, Threads, Events, Labels, TypeOK, ServiceInv, Go,
        WithEvent, InAccept, poolVars
  <2>4. ClientsOK'
    BY <1>6, CountAssumption, Holding
    DEF ProcessAccept, ClientsOK, PoolOK, Clients, Links, TypeOK, ServiceInv, poolVars,
        netVars, clientVars
  <2> QED
    BY <2>1, <2>2, <2>3, <2>4 DEF TypeOK
<1>7. ASSUME NEW t \in Threads, AddSession(t) PROVE TypeOK'
  <2>1. PoolOK'
    BY <1>7, CountAssumption, Holding
    DEF AddSession, PoolOK, TypeOK, ServiceInv, WithEvent, InAccept, poolVars
  <2>2. SessionsOK'
    <3>1. session[t] \in 1..created
      BY <1>7, Holding DEF AddSession, InAccept
    <3>2. connected' = connected /\ created' = created /\ sessions' = sessions \cup {session[t]}
          /\ sessionCount' = sessionCount + 1
      BY <1>7 DEF AddSession, poolVars
    <3>3. sessions' \subseteq 1..created
      BY <3>1, <3>2 DEF ServiceInv, TypeOK, SessionsOK
    <3> QED
      BY <3>2, <3>3 DEF ServiceInv, TypeOK, SessionsOK
  <2>3. ThreadsOK'
    BY <1>7, CountAssumption, Holding
    DEF AddSession, ThreadsOK, PoolOK, Threads, Events, Labels, TypeOK, ServiceInv, Go,
        WithEvent, InAccept, poolVars
  <2>4. ClientsOK'
    BY <1>7, CountAssumption, Holding
    DEF AddSession, ClientsOK, PoolOK, Clients, Links, TypeOK, ServiceInv, poolVars, netVars,
        clientVars
  <2> QED
    BY <2>1, <2>2, <2>3, <2>4 DEF TypeOK
<1>8. ASSUME NEW t \in Threads, RegisterRecv(t) PROVE TypeOK'
  <2>1. PoolOK'
    BY <1>8, CountAssumption, Holding
    DEF RegisterRecv, PoolOK, TypeOK, ServiceInv, CallDisconnect, Go, poolVars
  <2>2. SessionsOK'
    BY <1>8, CountAssumption, Holding
    DEF RegisterRecv, SessionsOK, PoolOK, TypeOK, ServiceInv, CallDisconnect, InAccept,
        ThreadsOK, Threads, Go, poolVars
  <2>3. ThreadsOK'
    BY <1>8, CountAssumption, Holding
    DEF RegisterRecv, ThreadsOK, PoolOK, Threads, Events, Labels, TypeOK, ServiceInv,
        CallDisconnect, Go, poolVars
  <2>4. ClientsOK'
    BY <1>8, CountAssumption, Holding
    DEF RegisterRecv, ClientsOK, PoolOK, Clients, Links, TypeOK, ServiceInv, CallDisconnect,
        poolVars, netVars, clientVars
  <2> QED
    BY <2>1, <2>2, <2>3, <2>4 DEF TypeOK
<1>9. ASSUME NEW t \in Threads, ReleaseSession(t) PROVE TypeOK'
  <2>1. PoolOK'
    BY <1>9, CountAssumption, Holding
    DEF ReleaseSession, PoolOK, TypeOK, ServiceInv, WithEvent, InAccept, poolVars
  <2>2. SessionsOK'
    <3>1. connected' = connected /\ created' = created /\ sessions' = sessions \ {session[t]}
          /\ sessionCount' = sessionCount - 1
      BY <1>9 DEF ReleaseSession, poolVars
    <3>2. sessions' \subseteq 1..created
      BY <3>1 DEF ServiceInv, TypeOK, SessionsOK
    <3> QED
      BY <3>1, <3>2 DEF ServiceInv, TypeOK, SessionsOK
  <2>3. ThreadsOK'
    BY <1>9, CountAssumption, Holding
    DEF ReleaseSession, ThreadsOK, PoolOK, Threads, Events, Labels, TypeOK, ServiceInv, Go,
        WithEvent, InAccept, poolVars
  <2>4. ClientsOK'
    BY <1>9, CountAssumption, Holding
    DEF ReleaseSession, ClientsOK, PoolOK, Clients, Links, TypeOK, ServiceInv, poolVars,
        netVars, clientVars
  <2> QED
    BY <2>1, <2>2, <2>3, <2>4 DEF TypeOK
<1>10. ASSUME NEW w \in Workers, NEW e \in Events, Dispatch(w, e) PROVE TypeOK'
  <2>1. PoolOK'
    BY <1>10, CountAssumption
    DEF Dispatch, PoolOK, Events, TypeOK, ServiceInv
  <2>2. SessionsOK'
    BY <1>10, CountAssumption
    DEF Dispatch, SessionsOK, PoolOK, TypeOK, ServiceInv, serverVars
  <2>3. ThreadsOK'
    BY <1>10, CountAssumption
    DEF Dispatch, ThreadsOK, PoolOK, Threads, Events, Labels, TypeOK, ServiceInv, Waiting, Go
  <2>4. ClientsOK'
    BY <1>10, CountAssumption
    DEF Dispatch, ClientsOK, PoolOK, Clients, Links, TypeOK, ServiceInv, netVars, clientVars
  <2> QED
    BY <2>1, <2>2, <2>3, <2>4 DEF TypeOK
<1>11. ASSUME NEW w \in Workers, NEW c \in Clients, ProcessEnd(w, c) PROVE TypeOK'
  <2>1. PoolOK'
    BY <1>11, CountAssumption
    DEF ProcessEnd, PoolOK, Events, TypeOK, ServiceInv, CallDisconnect, Go, poolVars
  <2>2. SessionsOK'
    BY <1>11, CountAssumption
    DEF ProcessEnd, SessionsOK, PoolOK, TypeOK, ServiceInv, CallDisconnect, Stations, At,
        InAccept, ThreadsOK, Threads, Go, poolVars
  <2>3. ThreadsOK'
    <3>1. taker[c] \in 1..created /\ taker[c] \in 0..created
      BY <1>11 DEF ProcessEnd, ServiceInv, TypeOK, SessionsOK, ClientsOK
    <3>2. stack' \in [Threads -> SUBSET (1..created)] /\ session' \in [Threads -> 0..created]
      BY <1>11, <3>1 DEF ProcessEnd, ServiceInv, TypeOK, ThreadsOK
    <3>3. pc' \in [Threads -> Labels]
      BY <1>11 DEF ProcessEnd, CallDisconnect, Go, ServiceInv, TypeOK, ThreadsOK, Labels
    <3> QED
      BY <1>11, <3>2, <3>3 DEF ProcessEnd, poolVars, ServiceInv, TypeOK, ThreadsOK
  <2>4. ClientsOK'
    BY <1>11, CountAssumption
    DEF ProcessEnd, ClientsOK, PoolOK, Clients, Links, TypeOK, ServiceInv, CallDisconnect,
        poolVars, netVars, clientVars
  <2> QED
    BY <2>1, <2>2, <2>3, <2>4 DEF TypeOK
<1>12. ASSUME Connect PROVE TypeOK'
  <2>1. PoolOK'
    BY <1>12, CountAssumption
    DEF Connect, PoolOK, Events, TypeOK, ServiceInv, poolVars
  <2>2. SessionsOK'
    BY <1>12, CountAssumption
    DEF Connect, SessionsOK, PoolOK, TypeOK, ServiceInv, poolVars, serverVars
  <2>3. ThreadsOK'
    BY <1>12, CountAssumption
    DEF Connect, ThreadsOK, PoolOK, Threads, Events, Labels, TypeOK, ServiceInv, poolVars,
        stackVars
  <2>4. ClientsOK'
    <3>1. asked + 1 \in Clients /\ asked' \in 0..ClientCount
      BY <1>12, CountAssumption DEF Connect, ServiceInv, TypeOK, ClientsOK, Clients
    <3>2. link' \in [Clients -> Links]
      BY <1>12, <3>1 DEF Connect, ServiceInv, TypeOK, ClientsOK, Links
    <3>3. client' \in [Clients -> {"new", "connecting", "listening", "deaf", "over"}]
      BY <1>12, <3>1 DEF Connect, ServiceInv, TypeOK, ClientsOK
    <3>4. clientRunning' \in BOOLEAN /\ taker' = taker /\ created' = created
      BY <1>12 DEF Connect, ServiceInv, TypeOK, ClientsOK, poolVars
    <3> QED
      BY <3>1, <3>2, <3>3, <3>4 DEF ServiceInv, TypeOK, ClientsOK
  <2> QED
    BY <2>1, <2>2, <2>3, <2>4 DEF TypeOK
<1>13. ASSUME LaunchClients PROVE TypeOK'
  <2>1. PoolOK'
    BY <1>13, CountAssumption
    DEF LaunchClients, PoolOK, Events, TypeOK, ServiceInv, poolVars
  <2>2. SessionsOK'
    BY <1>13, CountAssumption
    DEF LaunchClients, SessionsOK, PoolOK, TypeOK, ServiceInv, poolVars, serverVars
  <2>3. ThreadsOK'
    BY <1>13, CountAssumption
    DEF LaunchClients, ThreadsOK, PoolOK, Threads, Events, Labels, TypeOK, ServiceInv,
        poolVars, stackVars
  <2>4. ClientsOK'
    BY <1>13, CountAssumption
    DEF LaunchClients, ClientsOK, PoolOK, Clients, Links, TypeOK, ServiceInv, poolVars, netVars
  <2> QED
    BY <2>1, <2>2, <2>3, <2>4 DEF TypeOK
<1>14. ASSUME NEW c \in Clients, ProcessConnect(c) PROVE TypeOK'
  <2>1. PoolOK'
    BY <1>14, CountAssumption
    DEF ProcessConnect, PoolOK, Events, TypeOK, ServiceInv, poolVars
  <2>2. SessionsOK'
    BY <1>14, CountAssumption
    DEF ProcessConnect, SessionsOK, PoolOK, TypeOK, ServiceInv, poolVars, serverVars
  <2>3. ThreadsOK'
    BY <1>14, CountAssumption
    DEF ProcessConnect, ThreadsOK, PoolOK, Threads, Events, Labels, TypeOK, ServiceInv,
        poolVars, stackVars
  <2>4. ClientsOK'
    BY <1>14, CountAssumption
    DEF ProcessConnect, ClientsOK, PoolOK, Clients, Links, TypeOK, ServiceInv, poolVars, netVars
  <2> QED
    BY <2>1, <2>2, <2>3, <2>4 DEF TypeOK
<1>15. ASSUME NEW c \in Clients, ClientEnd(c) PROVE TypeOK'
  <2>1. PoolOK'
    BY <1>15, CountAssumption
    DEF ClientEnd, PoolOK, Events, TypeOK, ServiceInv, poolVars
  <2>2. SessionsOK'
    BY <1>15, CountAssumption
    DEF ClientEnd, SessionsOK, PoolOK, TypeOK, ServiceInv, poolVars, serverVars
  <2>3. ThreadsOK'
    BY <1>15, CountAssumption
    DEF ClientEnd, ThreadsOK, PoolOK, Threads, Events, Labels, TypeOK, ServiceInv, poolVars,
        stackVars
  <2>4. ClientsOK'
    BY <1>15, CountAssumption
    DEF ClientEnd, ClientsOK, PoolOK, Clients, Links, TypeOK, ServiceInv, poolVars, netVars
  <2> QED
    BY <2>1, <2>2, <2>3, <2>4 DEF TypeOK
<1>16. ASSUME NEW c \in Clients, Handshake(c) PROVE TypeOK'
  <2>1. PoolOK'
    BY <1>16, CountAssumption
    DEF Handshake, PoolOK, Events, TypeOK, ServiceInv, poolVars
  <2>2. SessionsOK'
    BY <1>16, CountAssumption
    DEF Handshake, SessionsOK, PoolOK, TypeOK, ServiceInv, poolVars, serverVars
  <2>3. ThreadsOK'
    BY <1>16, CountAssumption
    DEF Handshake, ThreadsOK, PoolOK, Threads, Events, Labels, TypeOK, ServiceInv, poolVars,
        stackVars
  <2>4. ClientsOK'
    BY <1>16, CountAssumption
    DEF Handshake, ClientsOK, PoolOK, Clients, Links, TypeOK, ServiceInv, poolVars, clientVars
  <2> QED
    BY <2>1, <2>2, <2>3, <2>4 DEF TypeOK
<1>17. ASSUME NEW c \in Clients, Break(c) PROVE TypeOK'
  <2>1. PoolOK'
    BY <1>17, CountAssumption
    DEF Break, PoolOK, Events, TypeOK, ServiceInv, poolVars
  <2>2. SessionsOK'
    BY <1>17, CountAssumption
    DEF Break, SessionsOK, PoolOK, TypeOK, ServiceInv, poolVars, serverVars
  <2>3. ThreadsOK'
    BY <1>17, CountAssumption
    DEF Break, ThreadsOK, PoolOK, Threads, Events, Labels, TypeOK, ServiceInv, poolVars,
        stackVars
  <2>4. ClientsOK'
    BY <1>17, CountAssumption
    DEF Break, ClientsOK, PoolOK, Clients, Links, TypeOK, ServiceInv, poolVars, clientVars
  <2> QED
    BY <2>1, <2>2, <2>3, <2>4 DEF TypeOK
<1>18. ASSUME NEW e \in Events, NEW c \in Clients, CompleteAccept(e, c) PROVE TypeOK'
  <2>1. PoolOK'
    BY <1>18, CountAssumption
    DEF CompleteAccept, PoolOK, Events, TypeOK, ServiceInv
  <2>2. SessionsOK'
    BY <1>18, CountAssumption
    DEF CompleteAccept, SessionsOK, PoolOK, TypeOK, ServiceInv, serverVars
  <2>3. ThreadsOK'
    BY <1>18, CountAssumption
    DEF CompleteAccept, ThreadsOK, PoolOK, Threads, Events, Labels, TypeOK, ServiceInv,
        stackVars
  <2>4. ClientsOK'
    BY <1>18, CountAssumption
    DEF CompleteAccept, ClientsOK, PoolOK, Clients, Links, Events, TypeOK, ServiceInv,
        clientVars
  <2> QED
    BY <2>1, <2>2, <2>3, <2>4 DEF TypeOK
<1>19. ASSUME UNCHANGED vars PROVE TypeOK'
  BY <1>19
  DEF ServiceInv, TypeOK, PoolOK, SessionsOK, ThreadsOK, ClientsOK, vars, poolVars,
      serverVars, stackVars, netVars, clientVars
<1> QED
  BY <1>1, <1>2, <1>3, <1>4, <1>5, <1>6, <1>7, <1>8, <1>9, <1>10, <1>11, <1>12, <1>13, <1>14,
      <1>15, <1>16, <1>17, <1>18, <1>19
  DEF Next, Step

\* An event moves between the port, the pool and one thread.
LEMMA PoolStep ==
  ASSUME ServiceInv, [Next]_vars
  PROVE  PoolKept'
<1>1. ASSUME StartAccept PROVE PoolKept'
  BY <1>1, EventBounds, CountAssumption
  DEF StartAccept, PoolKept, Stations, At, WithEvent, InAccept, Go, poolVars, serverVars,
      netVars, clientVars, ServiceInv, TypeOK, PoolOK, SessionsOK, ThreadsOK, ClientsOK,
      Threads
<1>2. ASSUME NEW t \in Threads, RegisterAccept(t) PROVE PoolKept'
  BY <1>2, EventBounds, CountAssumption
  DEF RegisterAccept, PoolKept, Stations, At, WithEvent, InAccept, Go, serverVars, netVars,
      clientVars, ServiceInv, TypeOK, PoolOK, SessionsOK, ThreadsOK, ClientsOK, Threads
<1>3. ASSUME NEW t \in Threads, AcceptEx(t) PROVE PoolKept'
  <2>1. event[t] \in 1..opened /\ event \in [Threads -> 0..opened] /\ opened' = opened
        /\ opened \in Nat /\ event[t] # 0
    BY <1>3, Holding, CountAssumption
    DEF AcceptEx, WithEvent, ServiceInv, TypeOK, PoolOK, ThreadsOK
  <2>2. event[t] \notin armed \cup completed
        /\ \A u \in Threads : event[u] = event[t] => u = t
    BY <2>1 DEF ServiceInv, PoolKept
  <2>3. CASE armed' = armed /\ event' = event
    BY <1>3, <2>3, <2>1 DEF AcceptEx, ServiceInv, PoolKept
  <2>4. CASE armed' = armed \cup {event[t]} /\ event' = [event EXCEPT ![t] = 0]
    <3>1. completed' = completed
      BY <1>3 DEF AcceptEx
    <3>2. event'[t] = 0 /\ \A u \in Threads : u # t => event'[u] = event[u]
      BY <2>1, <2>4
    <3>3. \A e \in armed' \cup completed' : \A u \in Threads : event'[u] # e
      BY <2>1, <2>2, <2>4, <3>1, <3>2, EventBounds DEF ServiceInv, PoolKept, TypeOK, PoolOK
    <3>4. \A e \in (1..opened') \ (armed' \cup completed') : \E u \in Threads : event'[u] = e
      BY <2>1, <2>4, <3>1, <3>2 DEF ServiceInv, PoolKept
    <3>5. armed' \cap completed' = {}
      BY <2>2, <2>4, <3>1 DEF ServiceInv, PoolKept
    <3>6. \A u, v \in Threads : event'[u] = event'[v] /\ event'[u] # 0 => u = v
      BY <3>2 DEF ServiceInv, PoolKept
    <3> QED
      BY <3>3, <3>4, <3>5, <3>6 DEF PoolKept
  <2> QED
    BY <1>3, <2>3, <2>4 DEF AcceptEx
<1>4. ASSUME NEW t \in Threads, Return(t) PROVE PoolKept'
  BY <1>4, EventBounds, CountAssumption
  DEF Return, PoolKept, Stations, At, WithEvent, InAccept, Go, poolVars, serverVars,
      clientVars, ServiceInv, TypeOK, PoolOK, SessionsOK, ThreadsOK, ClientsOK, Threads
<1>5. ASSUME NEW t \in Threads, ProcessAccept(t) PROVE PoolKept'
  BY <1>5, EventBounds, CountAssumption
  DEF ProcessAccept, PoolKept, Stations, At, WithEvent, InAccept, Go, poolVars, netVars,
      clientVars, ServiceInv, TypeOK, PoolOK, SessionsOK, ThreadsOK, ClientsOK, Threads
<1>6. ASSUME NEW t \in Threads, AddSession(t) PROVE PoolKept'
  BY <1>6, EventBounds, CountAssumption
  DEF AddSession, PoolKept, Stations, At, WithEvent, InAccept, Go, poolVars, netVars,
      clientVars, ServiceInv, TypeOK, PoolOK, SessionsOK, ThreadsOK, ClientsOK, Threads
<1>7. ASSUME NEW t \in Threads, RegisterRecv(t) PROVE PoolKept'
  BY <1>7, EventBounds, CountAssumption
  DEF RegisterRecv, PoolKept, Stations, At, WithEvent, InAccept, Go, CallDisconnect, poolVars,
      netVars, clientVars, ServiceInv, TypeOK, PoolOK, SessionsOK, ThreadsOK, ClientsOK,
      Threads
<1>8. ASSUME NEW t \in Threads, ReleaseSession(t) PROVE PoolKept'
  BY <1>8, EventBounds, CountAssumption
  DEF ReleaseSession, PoolKept, Stations, At, WithEvent, InAccept, Go, poolVars, netVars,
      clientVars, ServiceInv, TypeOK, PoolOK, SessionsOK, ThreadsOK, ClientsOK, Threads
<1>9. ASSUME NEW w \in Workers, NEW e \in Events, Dispatch(w, e) PROVE PoolKept'
  BY <1>9, EventBounds, CountAssumption
  DEF Dispatch, PoolKept, Stations, At, WithEvent, InAccept, Go, serverVars, netVars,
      clientVars, ServiceInv, TypeOK, PoolOK, SessionsOK, ThreadsOK, ClientsOK, Threads
<1>10. ASSUME NEW w \in Workers, NEW c \in Clients, ProcessEnd(w, c) PROVE PoolKept'
  BY <1>10, EventBounds, CountAssumption
  DEF ProcessEnd, PoolKept, Stations, At, WithEvent, InAccept, Go, CallDisconnect, poolVars,
      netVars, clientVars, ServiceInv, TypeOK, PoolOK, SessionsOK, ThreadsOK, ClientsOK,
      Threads
<1>11. ASSUME NEW e \in Events, NEW c \in Clients, CompleteAccept(e, c) PROVE PoolKept'
  BY <1>11, EventBounds, CountAssumption
  DEF CompleteAccept, PoolKept, Stations, At, WithEvent, InAccept, serverVars, stackVars,
      clientVars, ServiceInv, TypeOK, PoolOK, SessionsOK, ThreadsOK, ClientsOK, Threads
<1>12. ASSUME Elsewhere PROVE PoolKept'
  BY <1>12 DEF Elsewhere, ServiceInv, PoolKept, Stations, At, WithEvent, InAccept
<1> QED
  BY <1>1, <1>2, <1>3, <1>4, <1>5, <1>6, <1>7, <1>8, <1>9, <1>10, <1>11, <1>12, CountAssumption
  DEF Next, Step, vars, poolVars, serverVars, stackVars, netVars, clientVars, Elsewhere,
      Threads, Break, ClientEnd, Connect, Handshake, Launch, LaunchClients, ProcessConnect

\* The session that RegisterAccept creates is new.
LEMMA OwnSessionsStep ==
  ASSUME ServiceInv, [Next]_vars
  PROVE  OwnSessions'
<1>1. ASSUME StartAccept PROVE OwnSessions'
  BY <1>1, EventBounds, CountAssumption
  DEF StartAccept, OwnSessions, Events, Go, poolVars, serverVars, netVars, clientVars,
      ServiceInv, TypeOK, PoolOK, SessionsOK, ThreadsOK, ClientsOK, Threads
<1>2. ASSUME NEW t \in Threads, RegisterAccept(t) PROVE OwnSessions'
  BY <1>2, EventBounds, CountAssumption
  DEF RegisterAccept, OwnSessions, Events, Go, serverVars, netVars, clientVars, ServiceInv,
      TypeOK, PoolOK, SessionsOK, ThreadsOK, ClientsOK, Threads
<1>3. ASSUME NEW t \in Threads, AcceptEx(t) PROVE OwnSessions'
  BY <1>3, EventBounds, CountAssumption
  DEF AcceptEx, OwnSessions, Events, Go, serverVars, netVars, clientVars, ServiceInv, TypeOK,
      PoolOK, SessionsOK, ThreadsOK, ClientsOK, Threads
<1>4. ASSUME NEW t \in Threads, Return(t) PROVE OwnSessions'
  BY <1>4, EventBounds, CountAssumption
  DEF Return, OwnSessions, Events, Go, poolVars, serverVars, clientVars, ServiceInv, TypeOK,
      PoolOK, SessionsOK, ThreadsOK, ClientsOK, Threads
<1>5. ASSUME NEW t \in Threads, ProcessAccept(t) PROVE OwnSessions'
  BY <1>5, EventBounds, CountAssumption
  DEF ProcessAccept, OwnSessions, Events, Go, poolVars, netVars, clientVars, ServiceInv,
      TypeOK, PoolOK, SessionsOK, ThreadsOK, ClientsOK, Threads
<1>6. ASSUME NEW t \in Threads, AddSession(t) PROVE OwnSessions'
  BY <1>6, EventBounds, CountAssumption
  DEF AddSession, OwnSessions, Events, Go, poolVars, netVars, clientVars, ServiceInv, TypeOK,
      PoolOK, SessionsOK, ThreadsOK, ClientsOK, Threads
<1>7. ASSUME NEW t \in Threads, RegisterRecv(t) PROVE OwnSessions'
  BY <1>7, EventBounds, CountAssumption
  DEF RegisterRecv, OwnSessions, Events, Go, CallDisconnect, poolVars, netVars, clientVars,
      ServiceInv, TypeOK, PoolOK, SessionsOK, ThreadsOK, ClientsOK, Threads
<1>8. ASSUME NEW t \in Threads, ReleaseSession(t) PROVE OwnSessions'
  BY <1>8, EventBounds, CountAssumption
  DEF ReleaseSession, OwnSessions, Events, Go, poolVars, netVars, clientVars, ServiceInv,
      TypeOK, PoolOK, SessionsOK, ThreadsOK, ClientsOK, Threads
<1>9. ASSUME NEW w \in Workers, NEW e \in Events, Dispatch(w, e) PROVE OwnSessions'
  BY <1>9, EventBounds, CountAssumption
  DEF Dispatch, OwnSessions, Events, Go, serverVars, netVars, clientVars, ServiceInv, TypeOK,
      PoolOK, SessionsOK, ThreadsOK, ClientsOK, Threads
<1>10. ASSUME NEW w \in Workers, NEW c \in Clients, ProcessEnd(w, c) PROVE OwnSessions'
  BY <1>10, EventBounds, CountAssumption
  DEF ProcessEnd, OwnSessions, Events, Go, CallDisconnect, poolVars, netVars, clientVars,
      ServiceInv, TypeOK, PoolOK, SessionsOK, ThreadsOK, ClientsOK, Threads
<1>11. ASSUME NEW e \in Events, NEW c \in Clients, CompleteAccept(e, c) PROVE OwnSessions'
  BY <1>11, EventBounds, CountAssumption
  DEF CompleteAccept, OwnSessions, Events, serverVars, stackVars, clientVars, ServiceInv,
      TypeOK, PoolOK, SessionsOK, ThreadsOK, ClientsOK, Threads
<1>12. ASSUME Elsewhere PROVE OwnSessions'
  BY <1>12 DEF Elsewhere, ServiceInv, OwnSessions, Events
<1> QED
  BY <1>1, <1>2, <1>3, <1>4, <1>5, <1>6, <1>7, <1>8, <1>9, <1>10, <1>11, <1>12, CountAssumption
  DEF Next, Step, vars, poolVars, serverVars, stackVars, netVars, clientVars, Elsewhere,
      Threads, Break, ClientEnd, Connect, Handshake, Launch, LaunchClients, ProcessConnect

\* A session that waits in an accept is handed out with it.
LEMMA WaitingStep ==
  ASSUME ServiceInv, [Next]_vars
  PROVE  Waiting'
<1>1. ASSUME StartAccept PROVE Waiting'
  BY <1>1, EventBounds, CountAssumption
  DEF StartAccept, Waiting, Fresh, PoolKept, OwnSessions, Stations, At, WithEvent, InAccept,
      Go, poolVars, serverVars, netVars, clientVars, ServiceInv, TypeOK, PoolOK, SessionsOK,
      ThreadsOK, ClientsOK, Threads
<1>2. ASSUME NEW t \in Threads, RegisterAccept(t) PROVE Waiting'
  BY <1>2, EventBounds, CountAssumption
  DEF RegisterAccept, Waiting, Fresh, PoolKept, OwnSessions, Stations, At, WithEvent,
      InAccept, Go, serverVars, netVars, clientVars, ServiceInv, TypeOK, PoolOK, SessionsOK,
      ThreadsOK, ClientsOK, Threads
<1>3. ASSUME NEW t \in Threads, AcceptEx(t) PROVE Waiting'
  <2>1. eventSession' = eventSession /\ connected' = connected /\ sessions' = sessions
        /\ taker' = taker /\ session' = session /\ completed' = completed
    BY <1>3 DEF AcceptEx, serverVars, netVars
  <2>2. \A e : Fresh(e) => Fresh(e)'
    BY <2>1 DEF Fresh
  <2>3. armed' \subseteq armed \cup {event[t]} /\ Fresh(event[t])
    BY <1>3 DEF AcceptEx, ServiceInv, Waiting
  <2>4. \A e \in armed' : Fresh(e)'
    BY <2>2, <2>3 DEF ServiceInv, Waiting
  <2>5. \A u \in Threads : pc'[u] = "AcceptEx" => pc[u] = "AcceptEx" /\ event'[u] = event[u]
    BY <1>3 DEF AcceptEx, Go, ServiceInv, TypeOK, ThreadsOK
  <2>6. \A u \in Threads : pc'[u] = "AcceptEx" => Fresh(event[u])'
    BY <2>1, <2>5 DEF ServiceInv, Waiting, Fresh
  <2> QED
    BY <2>1, <2>4, <2>6 DEF ServiceInv, Waiting
<1>4. ASSUME NEW t \in Threads, Return(t) PROVE Waiting'
  BY <1>4, EventBounds, CountAssumption
  DEF Return, Waiting, Fresh, PoolKept, OwnSessions, Stations, At, WithEvent, InAccept, Go,
      poolVars, serverVars, clientVars, ServiceInv, TypeOK, PoolOK, SessionsOK, ThreadsOK,
      ClientsOK, Threads
<1>5. ASSUME NEW t \in Threads, ProcessAccept(t) PROVE Waiting'
  BY <1>5, EventBounds, CountAssumption
  DEF ProcessAccept, Waiting, Fresh, PoolKept, OwnSessions, Stations, At, WithEvent, InAccept,
      Go, poolVars, netVars, clientVars, ServiceInv, TypeOK, PoolOK, SessionsOK, ThreadsOK,
      ClientsOK, Threads
<1>6. ASSUME NEW t \in Threads, AddSession(t) PROVE Waiting'
  BY <1>6, EventBounds, CountAssumption
  DEF AddSession, Waiting, Fresh, PoolKept, OwnSessions, Stations, At, WithEvent, InAccept,
      Go, poolVars, netVars, clientVars, ServiceInv, TypeOK, PoolOK, SessionsOK, ThreadsOK,
      ClientsOK, Threads
<1>7. ASSUME NEW t \in Threads, RegisterRecv(t) PROVE Waiting'
  BY <1>7, EventBounds, CountAssumption
  DEF RegisterRecv, Waiting, Fresh, PoolKept, OwnSessions, Stations, At, WithEvent, InAccept,
      Go, CallDisconnect, poolVars, netVars, clientVars, ServiceInv, TypeOK, PoolOK,
      SessionsOK, ThreadsOK, ClientsOK, Threads
<1>8. ASSUME NEW t \in Threads, ReleaseSession(t) PROVE Waiting'
  BY <1>8, EventBounds, CountAssumption
  DEF ReleaseSession, Waiting, Fresh, PoolKept, OwnSessions, Stations, At, WithEvent,
      InAccept, Go, poolVars, netVars, clientVars, ServiceInv, TypeOK, PoolOK, SessionsOK,
      ThreadsOK, ClientsOK, Threads
<1>9. ASSUME NEW w \in Workers, NEW e \in Events, Dispatch(w, e) PROVE Waiting'
  BY <1>9, EventBounds, CountAssumption
  DEF Dispatch, Waiting, Fresh, PoolKept, OwnSessions, Stations, At, WithEvent, InAccept, Go,
      serverVars, netVars, clientVars, ServiceInv, TypeOK, PoolOK, SessionsOK, ThreadsOK,
      ClientsOK, Threads
<1>10. ASSUME NEW w \in Workers, NEW c \in Clients, ProcessEnd(w, c) PROVE Waiting'
  BY <1>10, EventBounds, CountAssumption
  DEF ProcessEnd, Waiting, Fresh, PoolKept, OwnSessions, Stations, At, WithEvent, InAccept,
      Go, CallDisconnect, poolVars, netVars, clientVars, ServiceInv, TypeOK, PoolOK,
      SessionsOK, ThreadsOK, ClientsOK, Threads
<1>11. ASSUME NEW e \in Events, NEW c \in Clients, CompleteAccept(e, c) PROVE Waiting'
  BY <1>11, EventBounds, CountAssumption
  DEF CompleteAccept, Waiting, Fresh, PoolKept, OwnSessions, Stations, At, WithEvent,
      InAccept, serverVars, stackVars, clientVars, ServiceInv, TypeOK, PoolOK, SessionsOK,
      ThreadsOK, ClientsOK, Threads
<1>12. ASSUME Elsewhere PROVE Waiting'
  BY <1>12
  DEF Elsewhere, ServiceInv, Waiting, Fresh, PoolKept, OwnSessions, Stations, At, WithEvent,
      InAccept
<1> QED
  BY <1>1, <1>2, <1>3, <1>4, <1>5, <1>6, <1>7, <1>8, <1>9, <1>10, <1>11, <1>12, CountAssumption
  DEF Next, Step, vars, poolVars, serverVars, stackVars, netVars, clientVars, Elsewhere,
      Threads, Break, ClientEnd, Connect, Handshake, Launch, LaunchClients, ProcessConnect

\* Threads that work on accepts have different sessions.
LEMMA StationsStep ==
  ASSUME ServiceInv, [Next]_vars
  PROVE  Stations'
<1>1. ASSUME StartAccept PROVE Stations'
  BY <1>1, EventBounds, CountAssumption
  DEF StartAccept, Stations, OneRelease, At, Waiting, Fresh, PoolKept, OwnSessions, WithEvent,
      InAccept, Go, poolVars, serverVars, netVars, clientVars, ServiceInv, TypeOK, PoolOK,
      SessionsOK, ThreadsOK, ClientsOK, Threads
<1>2. ASSUME NEW t \in Threads, RegisterAccept(t) PROVE Stations'
  BY <1>2, EventBounds, CountAssumption
  DEF RegisterAccept, Stations, OneRelease, At, Waiting, Fresh, PoolKept, OwnSessions,
      WithEvent, InAccept, Go, serverVars, netVars, clientVars, ServiceInv, TypeOK, PoolOK,
      SessionsOK, ThreadsOK, ClientsOK, Threads
<1>3. ASSUME NEW t \in Threads, AcceptEx(t) PROVE Stations'
  BY <1>3, EventBounds, CountAssumption
  DEF AcceptEx, Stations, OneRelease, At, Waiting, Fresh, PoolKept, OwnSessions, WithEvent,
      InAccept, Go, serverVars, netVars, clientVars, ServiceInv, TypeOK, PoolOK, SessionsOK,
      ThreadsOK, ClientsOK, Threads
<1>4. ASSUME NEW t \in Threads, Return(t) PROVE Stations'
  BY <1>4, EventBounds, CountAssumption
  DEF Return, Stations, OneRelease, At, Waiting, Fresh, PoolKept, OwnSessions, WithEvent,
      InAccept, Go, poolVars, serverVars, clientVars, ServiceInv, TypeOK, PoolOK, SessionsOK,
      ThreadsOK, ClientsOK, Threads
<1>5. ASSUME NEW t \in Threads, ProcessAccept(t) PROVE Stations'
  BY <1>5, EventBounds, CountAssumption
  DEF ProcessAccept, Stations, OneRelease, At, Waiting, Fresh, PoolKept, OwnSessions,
      WithEvent, InAccept, Go, poolVars, netVars, clientVars, ServiceInv, TypeOK, PoolOK,
      SessionsOK, ThreadsOK, ClientsOK, Threads
<1>6. ASSUME NEW t \in Threads, AddSession(t) PROVE Stations'
  BY <1>6, EventBounds, CountAssumption
  DEF AddSession, Stations, OneRelease, At, Waiting, Fresh, PoolKept, OwnSessions, WithEvent,
      InAccept, Go, poolVars, netVars, clientVars, ServiceInv, TypeOK, PoolOK, SessionsOK,
      ThreadsOK, ClientsOK, Threads
<1>7. ASSUME NEW t \in Threads, RegisterRecv(t) PROVE Stations'
  BY <1>7, EventBounds, CountAssumption
  DEF RegisterRecv, Stations, OneRelease, At, Waiting, Fresh, PoolKept, OwnSessions,
      WithEvent, InAccept, Go, CallDisconnect, poolVars, netVars, clientVars, ServiceInv,
      TypeOK, PoolOK, SessionsOK, ThreadsOK, ClientsOK, Threads
<1>8. ASSUME NEW t \in Threads, ReleaseSession(t) PROVE Stations'
  BY <1>8, EventBounds, CountAssumption
  DEF ReleaseSession, Stations, OneRelease, At, Waiting, Fresh, PoolKept, OwnSessions,
      WithEvent, InAccept, Go, poolVars, netVars, clientVars, ServiceInv, TypeOK, PoolOK,
      SessionsOK, ThreadsOK, ClientsOK, Threads
<1>9. ASSUME NEW w \in Workers, NEW e \in Events, Dispatch(w, e) PROVE Stations'
  BY <1>9, EventBounds, CountAssumption
  DEF Dispatch, Stations, OneRelease, At, Waiting, Fresh, PoolKept, OwnSessions, WithEvent,
      InAccept, Go, serverVars, netVars, clientVars, ServiceInv, TypeOK, PoolOK, SessionsOK,
      ThreadsOK, ClientsOK, Threads
<1>10. ASSUME NEW w \in Workers, NEW c \in Clients, ProcessEnd(w, c) PROVE Stations'
  BY <1>10, EventBounds, CountAssumption
  DEF ProcessEnd, Stations, OneRelease, At, Waiting, Fresh, PoolKept, OwnSessions, WithEvent,
      InAccept, Go, CallDisconnect, poolVars, netVars, clientVars, ServiceInv, TypeOK, PoolOK,
      SessionsOK, ThreadsOK, ClientsOK, Threads
<1>11. ASSUME NEW e \in Events, NEW c \in Clients, CompleteAccept(e, c) PROVE Stations'
  BY <1>11, EventBounds, CountAssumption
  DEF CompleteAccept, Stations, OneRelease, At, Waiting, Fresh, PoolKept, OwnSessions,
      WithEvent, InAccept, serverVars, stackVars, clientVars, ServiceInv, TypeOK, PoolOK,
      SessionsOK, ThreadsOK, ClientsOK, Threads
<1>12. ASSUME Elsewhere PROVE Stations'
  BY <1>12
  DEF Elsewhere, ServiceInv, Stations, OneRelease, At, Waiting, Fresh, PoolKept, OwnSessions,
      WithEvent, InAccept
<1> QED
  BY <1>1, <1>2, <1>3, <1>4, <1>5, <1>6, <1>7, <1>8, <1>9, <1>10, <1>11, <1>12, CountAssumption
  DEF Next, Step, vars, poolVars, serverVars, stackVars, netVars, clientVars, Elsewhere,
      Threads, Break, ClientEnd, Connect, Handshake, Launch, LaunchClients, ProcessConnect

\* A session is added once and released once.
LEMMA CountStep ==
  ASSUME ServiceInv, [Next]_vars
  PROVE  Counted'
<1>1. ASSUME StartAccept PROVE Counted'
  BY <1>1, EventBounds, CountAssumption
  DEF StartAccept, Counted, Stations, At, Go, poolVars, serverVars, netVars, clientVars,
      ServiceInv, TypeOK, PoolOK, SessionsOK, ThreadsOK, ClientsOK, Threads
<1>2. ASSUME NEW t \in Threads, RegisterAccept(t) PROVE Counted'
  BY <1>2, EventBounds, CountAssumption
  DEF RegisterAccept, Counted, Stations, At, Go, serverVars, netVars, clientVars, ServiceInv,
      TypeOK, PoolOK, SessionsOK, ThreadsOK, ClientsOK, Threads
<1>3. ASSUME NEW t \in Threads, AcceptEx(t) PROVE Counted'
  BY <1>3, EventBounds, CountAssumption
  DEF AcceptEx, Counted, Stations, At, Go, serverVars, netVars, clientVars, ServiceInv,
      TypeOK, PoolOK, SessionsOK, ThreadsOK, ClientsOK, Threads
<1>4. ASSUME NEW t \in Threads, Return(t) PROVE Counted'
  BY <1>4, EventBounds, CountAssumption
  DEF Return, Counted, Stations, At, Go, poolVars, serverVars, clientVars, ServiceInv, TypeOK,
      PoolOK, SessionsOK, ThreadsOK, ClientsOK, Threads
<1>5. ASSUME NEW t \in Threads, ProcessAccept(t) PROVE Counted'
  BY <1>5, EventBounds, CountAssumption
  DEF ProcessAccept, Counted, Stations, At, Go, poolVars, netVars, clientVars, ServiceInv,
      TypeOK, PoolOK, SessionsOK, ThreadsOK, ClientsOK, Threads
<1>6. ASSUME NEW t \in Threads, AddSession(t) PROVE Counted'
  BY <1>6, EventBounds, CountAssumption, FS_AddElement
  DEF AddSession, Counted, Stations, At, Go, poolVars, netVars, clientVars, ServiceInv,
      TypeOK, PoolOK, SessionsOK, ThreadsOK, ClientsOK, Threads
<1>7. ASSUME NEW t \in Threads, RegisterRecv(t) PROVE Counted'
  BY <1>7, EventBounds, CountAssumption
  DEF RegisterRecv, Counted, Stations, At, Go, CallDisconnect, poolVars, netVars, clientVars,
      ServiceInv, TypeOK, PoolOK, SessionsOK, ThreadsOK, ClientsOK, Threads
<1>8. ASSUME NEW t \in Threads, ReleaseSession(t) PROVE Counted'
  BY <1>8, EventBounds, CountAssumption, FS_RemoveElement
  DEF ReleaseSession, Counted, Stations, At, Go, poolVars, netVars, clientVars, ServiceInv,
      TypeOK, PoolOK, SessionsOK, ThreadsOK, ClientsOK, Threads
<1>9. ASSUME NEW w \in Workers, NEW e \in Events, Dispatch(w, e) PROVE Counted'
  BY <1>9, EventBounds, CountAssumption
  DEF Dispatch, Counted, Stations, At, Go, serverVars, netVars, clientVars, ServiceInv,
      TypeOK, PoolOK, SessionsOK, ThreadsOK, ClientsOK, Threads
<1>10. ASSUME NEW w \in Workers, NEW c \in Clients, ProcessEnd(w, c) PROVE Counted'
  BY <1>10, EventBounds, CountAssumption
  DEF ProcessEnd, Counted, Stations, At, Go, CallDisconnect, poolVars, netVars, clientVars,
      ServiceInv, TypeOK, PoolOK, SessionsOK, ThreadsOK, ClientsOK, Threads
<1>11. ASSUME NEW e \in Events, NEW c \in Clients, CompleteAccept(e, c) PROVE Counted'
  BY <1>11, EventBounds, CountAssumption
  DEF CompleteAccept, Counted, Stations, At, serverVars, stackVars, clientVars, ServiceInv,
      TypeOK, PoolOK, SessionsOK, ThreadsOK, ClientsOK, Threads
<1>12. ASSUME Elsewhere PROVE Counted'
  BY <1>12 DEF Elsewhere, ServiceInv, Counted, Stations, At
<1> QED
  BY <1>1, <1>2, <1>3, <1>4, <1>5, <1>6, <1>7, <1>8, <1>9, <1>10, <1>11, <1>12, CountAssumption
  DEF Next, Step, vars, poolVars, serverVars, stackVars, netVars, clientVars, Elsewhere,
      Threads, Break, ClientEnd, Connect, Handshake, Launch, LaunchClients, ProcessConnect

\* The inductive invariant.
THEOREM ServiceInvariant == Spec => []ServiceInv
<1>1. ASSUME ServiceInv, [Next]_vars PROVE ServiceInv'
  <2>1. TypeOK'
    BY <1>1, TypeStep
  <2> QED
    BY <1>1, <2>1, PoolStep, OwnSessionsStep, WaitingStep, StationsStep, CountStep
    DEF ServiceInv
<1> QED
  BY <1>1, InitInv, PTL DEF Spec

\* Type correctness.
THEOREM ServiceTypes == Spec => []TypeOK
<1>1. ServiceInv => TypeOK
  BY DEF ServiceInv
<1> QED
  BY <1>1, ServiceInvariant, PTL

\* Whatever AcceptEx and the workers do, every accept event stays in the pool
\* with a fresh session and the service counts its sessions (Listener.cpp,
\* Service.cpp).
THEOREM ListenerAccepting == Spec => []Accepting
<1>1. ServiceInv => Accepting
  BY DEF ServiceInv, Accepting, Waiting, Fresh, FreshAccepts
<1> QED
  BY <1>1, ServiceInvariant, PTL
=============================================================================
