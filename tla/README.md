# online-omok: verification project

Online omok (five in a row) is a Windows game server in C++ over I/O completion
ports and a Unity client in C#. This directory holds TLA+ models of it, TLC
configurations that check them, and TLAPS proofs about all seven models of the
code. Every safety property that a run checks is also a theorem.

Paths below are relative to the repository. The repository has no tests and no
design documents; what the code promises is taken from the code, its comments
and its log strings.

## Inventory

| part | state it keeps | operations | talks to |
| --- | --- | --- | --- |
| Session (`ServerCore/Session.cpp`) | `_connected`, send queue and flag `_sendRegistered`, four event objects with an `owner` reference | Send, RegisterSend / ProcessSend, RegisterRecv / ProcessRecv, Disconnect, ProcessConnect | completion port, Service, GameSession |
| RecvBuffer and framing (`RecvBuffer.cpp`, `PacketSession::OnRecv`) | buffer, read and write cursors | OnWrite, OnRecv, OnRead, Clean | Session, inside ProcessRecv |
| GameSession, PacketQueue, registries | `GPacketQueue`, `GSessionManager`, `Service::_sessions` and its count | OnConnected, OnRecvPacket, OnDisconnected, Push, Pop, Add, Remove | workers push, the main thread pops |
| GameManager, GameRoom, ServerPacketHandler | `_gameRooms`; per room players, board, `_start`; per player weak pointers to session and room | SignUp, MatchRoom, LeaveRoom, EnterRoom, StartGame, PlayStone | Session::Send; called on the main thread only |
| CheckWin | reads the board | the four walks of CheckWinRecursive | PlayStone |
| Unity game window (`UI_Game.cs`, `PacketHandler.cs`) | `_state` (None, MyTurn, Wait), `_stones`, running coroutines | StartGame, Clear, DoNextTurn, EndGame, CheckStone, click | packets of the server, in order, on the frame loop |
| Unity network (`Session.cs`, `ClientPacketManager.cs`) | send queue and `_pendingList` under a lock, receive buffer | Send, RegisterSend, OnRecvCompleted, MakePacket | game window |
| Listener, Service, IocpCore | pool of accept events, session set and its count | StartAccept, RegisterAccept, ProcessAccept, AddSession, ReleaseSession, ClientService::Start, Dispatch | Session |
| helpers | none or trivial | SendBuffer, BufferReader/Writer, NetAddress, SocketUtils, ThreadManager | everywhere |

Two worlds meet in `GPacketQueue`. On one side five worker threads dispatch
completions, and any thread may call `Send`; on the other a single main thread
pops packets and runs the game. Packets cross in one direction, `Send` in the
other. Everything behind the queue is sequential but works on stale facts: a
session may be over when its packet is handled, a game may be over when its
stone is handled. The clients are further actors, with channels in both
directions; the turn exists in the clients only.

What is hard, and what makes each part correct:

* **Session** - interleaving. `RegisterSend` and `ProcessSend` touch a shared
  event outside the lock, guarded by one atomic flag. Correct: one user of each
  event at a time; nothing queued is forgotten, reordered or sent twice; one
  disconnection; registries that follow it; no leak by the self-references.
* **RecvBuffer** - boundaries. Correct: room for a whole packet whenever a
  receive is posted, no overlapping `memcpy`, a stream cut anywhere comes out
  as the packets that went in, as soon as they are complete.
* **Rooms and handlers** - long sequences and stale pointers. Correct: seats,
  pointers, boards and the clients' knowledge agree after any sequence of joins
  and departures; untested pointers are never null.
* **CheckWin** - unsigned wrap-around, a flat board, "exactly five".
* **Unity session** - the same job as the server's, with other means: a lock, a
  pending list, caught exceptions, a disconnection that does not take the lock.
  Correct: nothing sent is lost, doubled or left behind on a live connection;
  every receive has room; packets come out as they were sent.
* **Listener** - a fixed pool of events that re-arm themselves on any worker.
  Correct: no accept is lost on an error path, none is given a session in use,
  the service's count is exact, every client is answered.
* **Game window** - order of packets, clicks and timers. Correct: the turn is
  never doubled and never lost.

`PROJECT.json` lists each hazard at its line with the properties that answer it.

## Modules

| module | models | state and actions |
| --- | --- | --- |
| `Session` | one accepted session with its workers, senders and the main thread | a `pc` per thread; an action per critical section, atomic exchange, posted operation or completion, so that threads interleave wherever the code lets them. `packets`/`popped` are the log of what was pushed on `GPacketQueue` and the prefix handled |
| `Connection` | nothing: what a session promises the game | abstract: connect, send, deliver, receive, close, report |
| `RecvBuffer` | the receive buffer and the framing loop | bytes are their positions in the peer's stream, headers are given by a function of the position; completion, one iteration of OnRecv, OnRead, Clean |
| `CheckWin` | the board of one game | PlayStone split in Put and Refuse; the walk is a recursive function with 16-bit sums |
| `GameServer` | the main thread: sessions' players, rooms, boards, matching | one action `HandlePacket` per packet taken, with the whole handler; the connection and a permissive client are the environment |
| `Match` | nothing: what the game server promises its players | abstract: come, wait, pair, play, go |
| `Omok` | `GameServer` composed with the game windows of its clients | extends `GameServer`; each client action is conjoined with what it does to `_state`, `_stones` and the coroutines |
| `UnitySession` | the client's session: `_lock`, `_sendQueue`, `_pendingList`, the receive buffer, `OnRecv` and `MakePacket` | a `pc` for the main thread and for one completion each of the send and the receive; an action per stretch of code that `Disconnect`, or another thread without the lock, can get between |
| `Service` | the server's `Listener` and `Service`, a `ClientService` that connects to it, the network between | a `pc` per server thread, the accept event it handles and the sessions its stack refers to; a client session is driven by its single completion |
| `SessionProofs`, `SessionRefinement`, `RecvBufferProofs`, `CheckWinProofs`, `GameServerProofs`, `OmokProofs`, `UnitySessionProofs`, `ServiceProofs` | theorems | |
| `MCSession`, `MCRecvBuffer`, `MCCheckWin`, `MCGameServer`, `MCOmok`, `MCUnitySession`, `MCService` | instances for TLC | |

How the modules fit. `Session` implements `Connection` (`IsConnection`, a
refinement: `connected` is the abstract connection, the completed sends are what
was delivered, the log of pushed packets is the inbox). `GameServer` is written
against `Connection`: its channels `up` and `down` are in order and without gaps,
and `Late` packets at most follow a disconnection. `GameServer` implements `Match`
(`IsMatch`, a refinement: `GSessionManager` is who is present, a room with one player is
a player who waits, a room with two is a match with its board and whether it is over,
`late` is `stray`); a packet that is refused, or only signs up, is invisible. `RecvBuffer` refines the step
`ProcessRecv` of `Session`; it may be sequential because `Session` shows that
receives never overlap (`RecvExclusive`). `CheckWin` fills in the choice that
`GameServer` leaves open when a stone is put. `Service` shows how the session of
`Session` comes to its `Accept`, and that it starts there with a session nobody
else works on (`Accepting`). `Omok` extends `GameServer`, and every step of it is
one of `GameServer` or leaves the server alone (theorem `OmokIsServer`).

Conventions: a definition introduced by the word "Mutant" is not part of any
model. It is the definition that follows it with one plausible bug, and it
documents what the property that names it would catch.

### Abstractions

* `Session`: buffers and packets are numbers in the order of their creation.
  A failing call fails as a reset (`HandleError` disconnects) or otherwise
  (`HandleError` only prints); once the connection is closed any failure is
  possible. Completion with zero bytes may come at any time. The session
  begins with its accept; `Service` models what leads there. `DisconnectEx` with reuse of the
  socket has no effect on the session's state.
* `GameServer`: `up[c]` merges the wire with `GPacketQueue`. The queue keeps the
  order of arrival over all sessions, but arrival itself can be delayed at will,
  so taking the head of any `up[c]` next allows the same orders. A player is its
  session's identity (a client signs up once). `rooms` may be walked in any order
  because the set is sorted by addresses. An expired `weak_ptr` is `NoRoom`, or
  membership in `freed`; a null pointer followed sets `crashed` and stops the
  server. A win is a free choice. Fields only shown on screen, `playerInfo`
  among them, are left out. `game`, `games`, `late` and `strayed` are history
  variables: no guard reads them.
* `Omok`: a click may hit any cell, free or not, since the client never updates
  `StoneInfo.StoneType` (`DoNextTurn` changes the sprite only). A notice ends at
  any time after it was shown, in place of one second later.
* `UnitySession`: bytes are stream positions, and the array of the receive
  buffer is given by the position of its first byte. A packet decoded from other
  bytes than its own is right by chance, wrong, or throws. A synchronous
  completion of `SendAsync` runs in the caller under the re-entrant lock; of
  `ReceiveAsync`, it is the same steps in the same order. The size fields are any
  function of the position, since `MakePacket` and `OnRecv` read nothing else.
* `Service`: what a session does between `AddSession` and its end is `Session`'s
  subject, `OnConnected` included; here it may end once its connection has, also
  while `ProcessConnect` still runs. References by event, stack and service are
  kept, because the last one to go closes the socket. `CreateSession` is taken to
  succeed: if the socket cannot be registered it returns null, which
  `RegisterAccept` follows (`Listener.cpp:96-99`), and the server is gone.
  `StartAccept` may fail before its loop, and the server then never listens. A
  client whose connection was refused is taken for connected (`IocpCore.cpp:46`),
  cannot receive and stays registered, `deaf`.
* `CheckWin`: a move puts a stone of either colour, in any order. A client sends
  its own colour, but `PlayStone` stores what the packet says without a look at
  the sender or the turn, and a late stone of one game can fall into the next
  (`strayed` in `Omok`). The constants `MAX_LINE` and 4 are parameters.

## Runs

| run | instance | checks |
| --- | --- | --- |
| `session_resets` | 3 workers, main and a second sender; 3 sends, 4 packets, batches of 2; failures are resets | all safety properties of `Session`, and that it implements `Connection` |
| `session_errors` | the same threads, other failures too | buffers may be lost, but are never reordered or sent twice |
| `session_progress` | 2 workers, fair | `Session` implements `Connection` with its liveness: every buffer goes out or the connection ends, every end is reported; every reference is dropped |
| `session_stranded` | 2 workers and main only; 3 sends, S_Login included, 2 packets, batches of 1; resets and other failures | expected violation, see Findings |
| `recvbuffer` | see `MCRecvBuffer` | cursors, room, no overlap, intact and prompt packets |
| `checkwin_small_board` | 4 lines, three in a row win, 6 stones of either colour in any order, colours symmetric | `CheckWin` equals the declarative definition of a winning line |
| `game_server` | 3 clients, 2 stones each, 2 late packets | rooms, boards, pointers; damage only after late packets; nobody forgotten; players informed; `GameServer` implements `Match` |
| `omok_turns` | 3 clients, 2 cells, 3 stones each | boards ready, one mover, alternating stones, somebody moves |
| `omok_liveness` | 3 clients, 1 cell, 1 stone each, fair | the turn comes |
| `unity_session` | a buffer of 5 bytes, 7 bytes received, 3 sends; packets without a body, with the smallest and with the largest | the lock, room to receive, sends backed, whole and leaving; the first packet of a receive is its own |
| `unity_faithful` | the same | expected violation, see Findings |
| `service` | 2 workers and main, 1 accept event, 2 clients, 1 failing `AcceptEx`, fair | the pool and its sessions, the count; every connection of the backlog is taken or its end is learnt |

Why the bounds are enough. A session has at most a receive, a send and a
disconnection in flight, so three workers are as many as it can occupy at once;
the second sender adds a thread that is not the main thread. Three sends are one
in flight, one queued behind it and one arriving while the registration changes
hands. Four packets with batches of two let packets arrive after those behind
which the disconnection was queued, so the bound `Late` of `Connection` is met. In
`recvbuffer` the stream is longer than the buffer and sizes cover the smallest
and largest packet. On four lines with six stones every edge and corner ends
some line, all directions win, a line of four, too long to win, occurs, and so does
one the other colour cuts; nothing in `CheckWin` tells black from white, so the two
are a symmetry set.
Three clients are a game and a successor for either player; two games at a time
are covered by the theorems, which hold for any number of clients. One cell suffices for refusals of an
occupied cell, two for alternation. All of `late`, `crashed` and `strayed` become
true in the runs: without the exemption the properties that mention them fail.
In `unity_session` the received bytes exceed the buffer, so that it must be
cleaned, and a receive can carry two packets; three sends are one in flight, one
behind it and one more. In `service` there are fewer accept events than clients,
so the event must be armed again while its first session lives; what larger
pools add, `Accepting` between several events, is a theorem.

Symmetry is used for workers, clients, rooms and colours, in the runs without liveness
(in `session_resets` and `game_server` beside a refinement that is a safety property).
`CHECK_DEADLOCK FALSE` is set where everyone may be gone.

### What the runs show beyond "no error"

* With clients that keep to the protocol, the server's untested pointers
  (`ServerPacketHandler.cpp:75-78`, `GameRoom.cpp:51,83,132`) are null only after
  a packet was handled behind the disconnection of its own session. Such packets
  exist: `Session` allows up to a batch of them. A late `C_EnterRoom` seats a
  player nobody removes any more; a late `C_PlayStone` finds its room gone.
* The server checks neither sender nor turn, and yet stones alternate, because
  the clients' states alone see to it - except when a stone or a notice outlives
  its game. Then a stone may be put in the next game, and both players may have
  the turn; but even then the turn is not lost.
* Sends are safe under resets. Under an error that is only printed a batch is
  dropped on a live connection, and a buffer may be stranded.
* In the Unity session the caught exception of `SendAsync` is harmless: the
  socket is closed only behind `_disconnected`, so what stays in `_pendingList`
  belongs to a connection that is over.
* `maxSessionCount` does not bound the sessions: it is the number of accepts
  pending at a time, and they are armed again while their sessions live.

## Fairness

`Session!FairSpec`: threads are scheduled (weak fairness of each thread's steps).
The completion port is FIFO, so a posted completion that is repeatedly available
is dispatched although workers may be busy in between: strong fairness. A send
completes because the peer reads or the connection breaks; a receive is certain
to complete only once the connection is down, so fairness is assumed only there.
The main thread polls without end.

`Connection!FairSpec` is what this amounts to for the user of a session: what was
sent is delivered while the connection lives, and its end is reported.

`UnitySession!FairSpec`: a posted send completes, because the server reads or the
connection breaks, and the lock goes in the end to a thread that waits for it
again and again (strong fairness: .NET's monitor keeps its waiters in a queue).
Nothing is assumed of the receive.

`Service!FairSpec`: threads are scheduled, both ports are FIFO queues as above,
and armed accepts are given the connections of the backlog in turn. How a
connection is answered and whether it breaks is open.

`Omok!FairOmok`: the main thread handles what has arrived, Unity's frame loop
handles what was received (`NetworkManager.Update`), and a notice ends. Nothing
is assumed of players (clicks, sign-up) nor of connections.

## Proofs

`SessionProofs` (any set of threads, any bounds, any failures unless stated):

| theorem | states |
| --- | --- |
| `TokenInvariant` | the inductive invariant `TokenInv` |
| `TypeCorrect` | `TypeOK` |
| `SendExclusion`, `RecvExclusion` | at most one thread uses the send (receive) event, none while it is posted |
| `RegistrationCorrect` | `_sendRegistered` tells the truth |
| `OwnersCorrect` | a posted operation keeps its session alive |
| `RegistryCorrect` | the service's set and count follow the connection |
| `NeverStranded` | with resets only, no buffer waits on a live session without someone to send it |
| `AlwaysListening` | with resets only, a live session has a receive posted, or a thread that will post one or disconnect |

None of these properties is inductive: `SendExclusive`, say, does not exclude a
thread about to take a registration that another still holds with the flag
clear. The strengthening treats the right to work on an event as a token. The
exchange of `_sendRegistered` creates the send token, a posted send carries it,
`SendNext` or `SendStore` gives it back (`SendToken`); the accept creates the
receive token (`RecvExclusive` with `BeforeAccept` and `StartAlone`, which say that
nothing runs before the accept and only the accepting worker until the first
`RegisterRecv`); the thread that won the exchange of `_connected` is the only one in
the body of `Disconnect` (`OneDisconnect`), which gives the registry; `FlagBacked`
and `Owners` follow the flag and the references step by step. Each part has its
step lemma with a step per action. `NeverStranded` adds `ErrorClosed`: with resets
only, the error path of `RegisterSend` runs on a closed session. `AlwaysListening`
follows the receive token: it is dropped only behind a failed receive, which is a
reset, so the thread that drops it disconnects.

`SessionRefinement` (any threads and bounds):

| theorem | states |
| --- | --- |
| `SendsOrdered` | `SendOrder`, whatever fails |
| `ImplementsConnection` | `Session` implements `Connection` (`IsConnection`), when failures on a live connection are resets |

On the way to the peer, wire, batch and queue together are the buffers of all calls
of `Send` until a batch is dropped, and after that nothing is sent again (`SendPath`):
the connection is over, or the flag is set with nobody behind it and the thread
that dropped the batch is about to disconnect. On the way to the main thread, what
was pushed and the rest of the one running batch are the packets that arrived, and
a receive that is posted, or about to be, on a connection that is over has nothing
pushed behind the report (`RecvPath`). With `TokenInv` each step is then one of
`Connection` or a stutter.

`RecvBufferProofs` (any buffer of at least three packets' size, any stream of
packets smaller than `BufferSize`, the code's 10 x 0x10000 included):

| theorem | states |
| --- | --- |
| `BufferInvariant`, `BufferTypes` | the inductive invariant, `TypeOK` |
| `CopiesApart` | `Clean` never copies between overlapping areas |
| `AlwaysRoom` | every receive is posted with room for the largest packet |
| `StreamIntact`, `PacketsPrompt` | packets come out as they went in, none is left behind |
| `NeverOverflows` | the overflow checks never disconnect a peer |

The argument: after the loop the leftover is less than one packet, so less than
`BufferSize`; `Clean` moves it only when less than `BufferSize` is free, hence from
beyond twice that size.

`CheckWinProofs` (any board of up to 255 lines and any line length, 19 and 4 included):

| theorem | states |
| --- | --- |
| `Walked` | `CheckWinRecursive` counts the cells of one type that follow a cell |
| `BoardTypes` | `TypeOK`: the board holds as many stones as were put |
| `CheckWinExact` | `WinExact`, whatever colours are put in whatever order |

The induction rules of the library cannot be used (they take the formula as a
parameter), but its well-founded minimum can: a wrong count would be wrong at a
least distance from the end of its run. `Run` says without recursion what is to be
counted; from every cell there is exactly one, hence the equations of `walk` have a
solution, and every solution counts the run. Runs of `WinCount` stones on both
sides of a cell are a `Line` through it, and a stone that is put neither makes nor
breaks a line elsewhere, so `WinExact` is inductive with `TypeOK`.

`GameServerProofs` (any clients, rooms, cells, plays and late packets):

| theorem | states |
| --- | --- |
| `GameInvariant` | the inductive invariant `GInv` |
| `GameTypes`, `GameRooms`, `GameBoards` | `TypeOK`, `RoomsExact`, `RunningHasBoard` |
| `GameDamage` | null pointers and ghosts only after a late packet (`OnlyAfterLate`) |
| `GameNobodyForgotten` | who asked for a room sits in one |
| `GameInformed` | `PlayersInformed` |
| `GameIsMatch` | `GameServer` implements `Match` (`IsMatch`) |

`GInv` has four parts. `Typed` types the packets under way too. `Seats` says that
rooms, seats and pointers agree. `Protocol` says for each client what its phase
means for the packets in both channels (`Stage`) and what each packet of its queue
finds when it is handled, a late one included (`Queue`); this is what the safety
properties lack, since a handler trusts a packet for what its sender was when it
was sent. `Damage` ties null pointers and ghosts to a late packet. `HandlePacket` is
first split into its eight outcomes; each is shown to keep `Seats` for the server,
the protocol of the client whose packet it is, and that of all others.
`PlayersInformed` speaks of a maximum over the turns under way; `Informed` says the
same with a witness (`Tells`), which a packet sent or read carries over. `GameIsMatch`
takes the outcomes one by one: only one room changes (`RoomChanged`), and `Pointed`, which
says that a managed session's pointer leads to the room it sits in or nowhere, makes a
departure in the code a departure from that seat.

`OmokProofs` (as above, with any number of cells):

| theorem | states |
| --- | --- |
| `OmokIsServer` | `Omok` implements `GameServer`: all of the above holds with these clients |
| `OmokInvariant` | the inductive invariant |
| `OmokTypes`, `OmokBoardReady` | `TypeOKUI`, `BoardReady` |
| `OmokInformed` | `PlayersInformed`, `NobodyForgotten`, `RoomsExact` in `Omok` |
| `OmokTurn` | the inductive invariant of the turns, `TurnInv` |
| `OmokOneMover`, `OmokStonesAlternate` | `OneMover`, `StonesAlternate` |
| `OmokAwaited` | the inductive invariant `Awaited` |
| `OmokSomebodyMoves` | `SomebodyMoves` |

`BoardReady` needs to know of every packet under way what the client will show when
its turn comes: `Fits` says that a game begins for a client only when the one before
was ended for it, and that stones and results come within a game. That the server
sends nothing else follows from `Informed`.

That there is one mover cannot be read off the windows: the turn may be anywhere.
`TurnInv` treats it as a token of its game, in a window that shows MyTurn, in a packet
that will give the turn to the window that reads it, in a stone on its way to the
server, or in a notice whose end gives the turn back. Of a running game, only the
player whose colour is next by the number of stones on the board has the token, and
in one place only (`Turns`); the colours' numbers differ by at most one (`Alternating`).
A step of a client moves the token, a step of another game leaves it alone (`Kept`),
and the server that puts a stone takes it from one player and gives it to the other.
All of this holds until a stone or a notice outlives its game (`strayed`), as the
properties say; `OmokAssumption`, that the board is finite and a blank cell is no
stone, is needed to count stones.

`SomebodyMoves` has no such exemption, and a stray stone may well double the turn, so
the token is of no use. `Awaited` asks less: in a running game whose players are both
online, one of them will have the turn when it has read everything, shows a notice
behind which nothing sets its state, or has a stone under way, which the server will
answer with another turn.

`UnitySessionProofs` (any buffer, header sizes, stream and number of sends):

| theorem | states |
| --- | --- |
| `UnityInvariant` | the inductive invariant |
| `UnityTypes`, `UnityRoom`, `UnityFirstIntact` | `TypeOK`, `RoomToReceive`, `FirstIntact` |
| `UnitySendBacked`, `UnitySendWhole` | `SendBacked`, `SendWhole` |

The lock is held by exactly the thread inside Send or OnSendCompleted, and the
socket is closed only behind `_disconnected`; the buffers being sent continue the
wire, `_pendingList` is the list being sent, and the queue continues it while the
connection lives. `Clean` leaves the rest of one packet at the front of the array.

`ServiceProofs` (any workers, accept events, clients and failures):

| theorem | states |
| --- | --- |
| `ServiceInvariant`, `ServiceTypes` | the inductive invariant, `TypeOK` |
| `ListenerAccepting` | `Accepting`: the pool is kept, armed accepts are fresh, the count is exact |

An event's session is unknown to everyone from `RegisterAccept` until its accept
completes and unregistered until a worker has taken the completion (`Waiting`);
threads on an accept have different sessions because events do (`OwnSessions`); a
session is released by the one thread that won the exchange of `_connected`
(`OneRelease`), so it is added and released once and the count follows.

Assumptions are the named ASSUMEs of the modules, evaluated by TLC in every run.
Only model-checked: liveness (the second half of `IsFairConnection`, `Reclaimed`,
`TurnComes`, `SendsLeave`, `EndsMeet`), which is out of the prover's reach.

## Findings

`session_stranded`: the error path of `RegisterSend` (`Session.cpp:203-206`) clears
`_sendRegistered` without looking at the queue. If another thread queued a buffer
since the batch was drained, it left the sending to the holder of the flag; with
an error that `HandleError` only prints, the connection lives on and the buffer
waits for some later `Send`. `ProcessSend` shows the rule the error path misses
(`Session.cpp:276-293`): under the lock, clear the flag only if the queue is empty.
Two sends after S_Login are enough.

`unity_faithful`: `MakePacket` parses `buffer.Array` from index `count = 4`, whatever
`buffer.Offset` is (`UnityScript/Network/Packet/ClientPacketManager.cs:85-101`), while
`OnRecv` hands over every packet of a receive with its own offset, of a buffer that
`UnityScript/Network/Session.cs:13` draws as several packets in a row. The second
packet of a receive is decoded from the first one's bytes, or throws, and then no
further receive is posted. `FirstIntact`, which holds, says that it takes two packets
in one receive. `GameServer` and `Omok` assume what `Connection` promises, that is,
clients that read one packet at a time.

## Plan

Done: the modules and proofs above. Left: `UnitySession` as an implementation of
`Connection`, for its sending side.

## Not modelled

The dummy client's packet handlers (a load generator that answers each packet with
the next); `Connector.cs` and `SendBuffer.cs`; byte-level readers and writers, protobuf
and its generated code, which are most of the repository's lines; thread, socket and
address wrappers; Unity's scenes, resources, sound and pools.
`GameSessionManager::Broadcast` has no caller, `CloseService` is a TODO, `C_Dummy` only
answers.
