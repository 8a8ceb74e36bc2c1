----------------------------- MODULE GameServer -----------------------------
(***************************************************************************)
(* The game server's main thread: it pops one packet at a time and runs    *)
(* ServerPacketHandler::HandlePacket, which changes GSessionManager, the   *)
(* rooms of GGameManager and each GameRoom, and sends.  A handler is one   *)
(* atomic action: no other thread touches this state.                      *)
(*                                                                         *)
(* Packets.  up[c] is everything client c has sent and the main thread has *)
(* not handled: bytes on the wire followed by c's entries of GPacketQueue. *)
(* The queue is filled in the order of arrival, and arrival may be delayed *)
(* at will, so the main thread may find any nonempty up[c] next.  down[c]  *)
(* is what was sent to c and not yet received.  Both keep their order, as  *)
(* module Connection promises, which module Session implements.            *)
(*                                                                         *)
(* Disconnect cuts up[c]: a prefix arrived before the connection broke,    *)
(* then comes the zero-length packet of OnDisconnected, then at most Late  *)
(* packets a worker was still reporting (Receive of module Connection);    *)
(* the rest is lost.                                                       *)
(*                                                                         *)
(* A client here does what some Unity client may do: it signs up when told *)
(* it has no account, asks for a room when logged in, and, while it has a  *)
(* board, puts a stone of its type whenever it likes.  Module Omok narrows *)
(* the last point to what UI_Game allows.                                  *)
(*                                                                         *)
(* Whether a stone wins is left open; module CheckWin is about that.       *)
(***************************************************************************)
EXTENDS Integers, Sequences, FiniteSets, SequencesExt

CONSTANTS
  Clients,      \* one GameSession each, and its Player once it signed up
  Rooms,        \* identities for GameRoom objects; a freed one may be reused
  Cells,        \* cells of the board
  MaxPlays,     \* bound on the stones one client sends
  Late,         \* packets that may follow the client's own disconnection
  Black, White, \* Protocol::STONE_TYPE_*, and the players' types
  NoRoom        \* an expired weak_ptr<GameRoom>

ASSUME GameAssumption ==
  /\ MaxPlays \in Nat /\ Late \in Nat
  /\ Cardinality(Rooms) >= Cardinality(Clients)
  /\ NoRoom \notin Rooms /\ Black # White

VARIABLES
  up, down,     \* packets in flight, per client
  phase,        \* how far the client has come
  told,         \* the client's type and game, from S_StartGame
  plays,        \* stones sent so far, per client
  managed,      \* GSessionManager._sessions
  signed,       \* clients whose session->player is set
  freed,        \* clients whose GameSession has been destroyed
  gameRoom,     \* Player::gameRoom
  rooms,        \* GGameManager._gameRooms
  players,      \* GameRoom::_players
  stones,       \* GameRoom::_stones: the board, or NoBoard when cleared
  start,        \* GameRoom::_start
  game,         \* history: the number of the room's last game
  games,        \* history: games begun so far
  late,         \* history: a packet was handled after its own disconnection
  crashed       \* a null pointer was followed

clientVars == <<phase, told, plays>>
roomVars   == <<gameRoom, rooms, players, stones, start, game, games>>
vars == <<up, down, clientVars, managed, signed, freed, roomVars, late, crashed>>

Blank   == "blank"
NoBoard == [c \in {} |-> Blank]
Fresh   == [c \in Cells |-> Blank]
Types   == {Black, White}

Msg(kind) == [kind |-> kind, cell |-> "", stone |-> "", game |-> 0]
Disc      == Msg("disconnected")      \* Packet(session, nullptr, 0)

Init ==
  /\ up = [c \in Clients |-> <<>>] /\ down = [c \in Clients |-> <<>>]
  /\ phase = [c \in Clients |-> "off"]
  /\ told = [c \in Clients |-> Msg("")]
  /\ plays = [c \in Clients |-> 0]
  /\ managed = {} /\ signed = {} /\ freed = {}
  /\ gameRoom = [c \in Clients |-> NoRoom]
  /\ rooms = {}
  /\ players = [r \in Rooms |-> <<>>]
  /\ stones = [r \in Rooms |-> NoBoard]
  /\ start = [r \in Rooms |-> FALSE]
  /\ game = [r \in Rooms |-> 0] /\ games = 0
  /\ late = FALSE /\ crashed = FALSE

-----------------------------------------------------------------------------
(* The clients and the connection *)

Online(c) == phase[c] \notin {"off", "gone"}

(* GameSession::OnConnected: into GSessionManager, then S_Login(false).    *)
OnConnected(c) ==
  /\ phase[c] = "off"
  /\ phase' = [phase EXCEPT ![c] = "new"]
  /\ managed' = managed \cup {c}
  /\ down' = [down EXCEPT ![c] = <<Msg("S_Login(false)")>>]
  /\ UNCHANGED <<up, told, plays, signed, freed, roomVars, late, crashed>>

(* The connection breaks; OnDisconnected queues the zero-length packet.    *)
OnDisconnected(c) ==
  /\ Online(c)
  /\ phase' = [phase EXCEPT ![c] = "gone"]
  /\ down' = [down EXCEPT ![c] = <<>>]
  /\ \E arrived \in 0..Len(up[c]) : \E after \in 0..Late :
        /\ arrived + after <= Len(up[c])
        /\ up' = [up EXCEPT ![c] = SubSeq(@, 1, arrived) \o <<Disc>>
                                     \o SubSeq(@, arrived + 1, arrived + after)]
  /\ UNCHANGED <<told, plays, managed, signed, freed, roomVars, late, crashed>>

ClientSends(c, m) == up' = [up EXCEPT ![c] = Append(@, m)]

(* UI_SignUp.SubmitName: the popup closes itself.                          *)
SubmitName(c) ==
  /\ phase[c] = "signup"
  /\ phase' = [phase EXCEPT ![c] = "login"]
  /\ ClientSends(c, Msg("C_SignUp"))
  /\ UNCHANGED <<down, told, plays, managed, signed, freed, roomVars, late, crashed>>

Heard(c, kind) == down[c] # <<>> /\ Head(down[c]).kind = kind
Took(c) == down' = [down EXCEPT ![c] = Tail(@)]

(* Handle_S_Login *)
LoginRefused(c) ==
  /\ Heard(c, "S_Login(false)") /\ Took(c)
  /\ phase' = [phase EXCEPT ![c] = "signup"]
  /\ UNCHANGED <<up, told, plays, managed, signed, freed, roomVars, late, crashed>>

LoginAccepted(c) ==
  /\ Heard(c, "S_Login(true)") /\ Took(c)
  /\ phase' = [phase EXCEPT ![c] = "lobby"]
  /\ ClientSends(c, Msg("C_EnterRoom"))
  /\ UNCHANGED <<told, plays, managed, signed, freed, roomVars, late, crashed>>

(* UI_Game.StartGame and UI_Game.Clear: the board appears and goes.        *)
GameBegins(c) ==
  /\ Heard(c, "S_StartGame") /\ Took(c)
  /\ phase' = [phase EXCEPT ![c] = "game"]
  /\ told' = [told EXCEPT ![c] = Head(down[c])]
  /\ UNCHANGED <<up, plays, managed, signed, freed, roomVars, late, crashed>>

GameLeft(c) ==
  /\ Heard(c, "S_LeaveGame") /\ Took(c)
  /\ phase' = [phase EXCEPT ![c] = "lobby"]
  /\ UNCHANGED <<up, told, plays, managed, signed, freed, roomVars, late, crashed>>

(* DoNextTurn, EndGame, CheckStone: what the client shows, and no more.    *)
GameNews(c, kind) ==
  /\ Heard(c, kind) /\ Took(c)
  /\ UNCHANGED <<up, clientVars, managed, signed, freed, roomVars, late, crashed>>

(* UI_Game.PlayStoneCallback                                               *)
PlayStoneCallback(c, cell) ==
  /\ phase[c] = "game" /\ plays[c] < MaxPlays
  /\ plays' = [plays EXCEPT ![c] = @ + 1]
  /\ ClientSends(c, [kind |-> "C_PlayStone", cell |-> cell,
                     stone |-> told[c].stone, game |-> told[c].game])
  /\ UNCHANGED <<down, phase, told, managed, signed, freed, roomVars, late, crashed>>

-----------------------------------------------------------------------------
(* The server *)

(* weak_ptr<GameSession>::lock() of these players is null.                 *)
Dangling(cs) == cs \cap freed # {}

(* session->Send(out[c]) for each c of out's domain: nothing goes to a      *)
(* broken connection.                                                      *)
SendAll(out) ==
  down' = [c \in Clients |->
             IF c \in DOMAIN out /\ Online(c) THEN Append(down[c], out[c]) ELSE down[c]]

SendTo(c, kind) == SendAll([x \in {c} |-> Msg(kind)])

Members(r) == Range(players[r])

(* Mutant: the third player is let in. *)
HasSeatForThree(r) == Len(players[r]) < 3

HasSeat(r) == Len(players[r]) < 2

(* Following a null pointer is undefined; the model stops the server.      *)
Crash ==
  /\ crashed' = TRUE
  /\ UNCHANGED <<down, managed, signed, roomVars>>

(* GameManager::SignUp *)
Handle_C_SignUp(c) ==
  /\ signed' = signed \cup {c}
  /\ SendTo(c, "S_Login(true)")
  /\ UNCHANGED <<managed, roomVars, crashed>>

(* GameRoom::StartGame for the two players in their order of entry.        *)
StartGame(r, black, white) ==
  /\ SendAll([c \in {black, white} |->
                [Msg("S_StartGame") EXCEPT !.stone = IF c = black THEN Black ELSE White,
                                           !.game = games + 1]])
  /\ stones' = [stones EXCEPT ![r] = Fresh]
  /\ start' = [start EXCEPT ![r] = TRUE]
  /\ games' = games + 1
  /\ game' = [game EXCEPT ![r] = games + 1]

(* GameRoom::EnterRoom of a room with a seat *)
EnterRoom(r, c) ==
  IF Dangling(Members(r))
  THEN Crash
  ELSE /\ gameRoom' = [gameRoom EXCEPT ![c] = r]
       /\ players' = [players EXCEPT ![r] = Append(@, c)]
       /\ IF Len(players[r]) = 1
          THEN StartGame(r, players[r][1], c)
          ELSE UNCHANGED <<down, stones, start, games, game>>
       /\ UNCHANGED <<managed, signed, crashed>>

(* Mutant: a new room although there is a seat. *)
Handle_C_EnterRoomAnew(c) ==
  IF c \notin signed
  THEN Crash
  ELSE \E r \in Rooms \ rooms : EnterRoom(r, c) /\ rooms' = rooms \cup {r}

(* GameManager::MatchRoom: the set of rooms is walked in the order of their *)
(* addresses, so any room with a seat may be the first; else a new one.     *)
Handle_C_EnterRoom(c) ==
  IF c \notin signed
  THEN Crash
  ELSE \/ \E r \in rooms : HasSeat(r) /\ EnterRoom(r, c) /\ UNCHANGED rooms
       \/ /\ \A r \in rooms : ~HasSeat(r)
          /\ \E r \in Rooms \ rooms : EnterRoom(r, c) /\ rooms' = rooms \cup {r}

Placeable(r, cell) == start[r] /\ stones[r][cell] = Blank

(* GameRoom::PlayStone.  The player may have left the room since: only the *)
(* room and the cell are looked at.                                        *)
PlayStone(r, c, m) ==
  IF ~Placeable(r, m.cell)
  THEN SendTo(c, "S_CheckStone(false)") /\ UNCHANGED <<managed, signed, roomVars, crashed>>
  ELSE IF Dangling(Members(r))
  THEN Crash
  ELSE \E won \in BOOLEAN :
         /\ stones' = [stones EXCEPT ![r][m.cell] = m.stone]
         /\ start' = [start EXCEPT ![r] = ~won]
         /\ SendAll([x \in Members(r) |->
              [Msg(IF won THEN "S_ThrowResult" ELSE "S_PlayStone") EXCEPT !.stone = m.stone]])
         /\ UNCHANGED <<managed, signed, gameRoom, rooms, players, game, games, crashed>>

Handle_C_PlayStone(c, m) ==
  IF c \notin signed \/ gameRoom[c] = NoRoom
  THEN Crash
  ELSE PlayStone(gameRoom[c], c, m)

(* Mutant: the room outlives its last player. *)
ForgetRoomNever(r, left) == UNCHANGED <<rooms, gameRoom>>

(* GameManager::LeaveRoom, last part: an empty room is erased, and every    *)
(* weak pointer to it expires.                                              *)
ForgetRoom(r, left) ==
  IF left = <<>>
  THEN /\ rooms' = rooms \ {r}
       /\ gameRoom' = [p \in Clients |-> IF gameRoom[p] = r THEN NoRoom ELSE gameRoom[p]]
  ELSE UNCHANGED <<rooms, gameRoom>>

(* The erase of remove: a player sits at most once (RoomsExact). *)
Without(s, c) ==
  IF c \in Range(s) THEN RemoveAt(s, CHOOSE i \in DOMAIN s : s[i] = c) ELSE s

(* Mutant: the board is cleared but the game not stopped. *)
LeaveRunning(r, c) ==
  LET left == Without(players[r], c)
  IN  /\ players' = [players EXCEPT ![r] = left]
      /\ SendAll([x \in Range(left) |-> Msg("S_LeaveGame")])
      /\ stones' = [stones EXCEPT ![r] = NoBoard]
      /\ ForgetRoom(r, left)
      /\ UNCHANGED <<start, signed, game, games, crashed>>

(* Mutant: the erase keeps the player that leaves and drops the others. *)
LeaveRoomReversed(r, c) ==
  LET left == SelectSeq(players[r], LAMBDA p : p = c)
  IN  /\ players' = [players EXCEPT ![r] = left]
      /\ SendAll([x \in Range(left) |-> Msg("S_LeaveGame")])
      /\ stones' = [stones EXCEPT ![r] = NoBoard]
      /\ start' = [start EXCEPT ![r] = FALSE]
      /\ ForgetRoom(r, left)
      /\ UNCHANGED <<signed, game, games, crashed>>

(* GameRoom::LeaveRoom *)
LeaveRoom(r, c) ==
  LET left == Without(players[r], c)
  IN  IF Dangling(Range(left))
      THEN crashed' = TRUE /\ UNCHANGED <<down, signed, roomVars>>
      ELSE /\ players' = [players EXCEPT ![r] = left]
           /\ SendAll([x \in Range(left) |-> Msg("S_LeaveGame")])
           /\ stones' = [stones EXCEPT ![r] = NoBoard]
           /\ start' = [start EXCEPT ![r] = FALSE]
           /\ ForgetRoom(r, left)
           /\ UNCHANGED <<signed, game, games, crashed>>

(* Mutant: the session leaves the manager and keeps its seat. *)
KeepSeat(c) == managed' = managed \ {c} /\ UNCHANGED <<down, signed, roomVars, crashed>>

(* HandlePacket with len 0: the session leaves the manager and its room.   *)
HandleDisconnected(c) ==
  /\ managed' = managed \ {c}
  /\ IF c \in signed /\ gameRoom[c] # NoRoom
     THEN LeaveRoom(gameRoom[c], c)
     ELSE UNCHANGED <<down, signed, roomVars, crashed>>

(* One turn of the main loop. *)
HandlePacket(c) ==
  /\ ~crashed /\ up[c] # <<>>
  /\ LET m == Head(up[c])
     IN  /\ \/ m.kind = "C_SignUp"    /\ Handle_C_SignUp(c)
            \/ m.kind = "C_EnterRoom" /\ Handle_C_EnterRoom(c)
            \/ m.kind = "C_PlayStone" /\ Handle_C_PlayStone(c, m)
            \/ m = Disc               /\ HandleDisconnected(c)
  /\ up' = [up EXCEPT ![c] = Tail(@)]
  /\ late' = (late \/ (c \notin managed /\ Head(up[c]) # Disc))
  /\ UNCHANGED <<clientVars, freed>>

(* The last reference to a session of which nothing is queued any more is  *)
(* dropped; seen only by a room that still has its player.                 *)
FreeSession(c) ==
  /\ phase[c] = "gone" /\ c \notin managed /\ up[c] = <<>> /\ c \notin freed
  /\ \E r \in rooms : c \in Members(r)
  /\ freed' = freed \cup {c}
  /\ UNCHANGED <<up, down, clientVars, managed, signed, roomVars, late, crashed>>

Next ==
  \E c \in Clients :
     \/ OnConnected(c) \/ OnDisconnected(c) \/ SubmitName(c)
     \/ LoginRefused(c) \/ LoginAccepted(c) \/ GameBegins(c) \/ GameLeft(c)
     \/ \E kind \in {"S_PlayStone", "S_ThrowResult", "S_CheckStone(false)"} : GameNews(c, kind)
     \/ \E cell \in Cells : PlayStoneCallback(c, cell)
     \/ HandlePacket(c) \/ FreeSession(c)

Spec == Init /\ [][Next]_vars

-----------------------------------------------------------------------------
(* Every piece of the state has its type; a room never has a third player. *)
TypeOK ==
  /\ phase \in [Clients -> {"off", "new", "signup", "login", "lobby", "game", "gone"}]
  /\ plays \in [Clients -> 0..MaxPlays]
  /\ managed \subseteq Clients /\ signed \subseteq Clients /\ freed \subseteq Clients
  /\ gameRoom \in [Clients -> Rooms \cup {NoRoom}]
  /\ rooms \subseteq Rooms
  /\ players \in [Rooms -> UNION {[1..n -> Clients] : n \in 0..2}]
  /\ \A r \in Rooms : stones[r] = NoBoard \/ stones[r] \in [Cells -> Types \cup {Blank}]
  /\ start \in [Rooms -> BOOLEAN]
  /\ game \in [Rooms -> 0..games]
  /\ late \in BOOLEAN /\ crashed \in BOOLEAN

(* The rooms the manager keeps are those somebody is in, nobody sits twice *)
(* or in two rooms, and a seated player's own pointer leads to its room:   *)
(* whatever the order of joins and departures over several rooms.          *)
RoomsExact ==
  /\ \A r \in Rooms : players[r] # <<>> <=> r \in rooms
  /\ \A r \in Rooms : IsInjective(players[r])
  /\ \A r \in rooms : \A c \in Members(r) : gameRoom[c] = r
  /\ \A c \in Clients : gameRoom[c] \in rooms \cup {NoRoom}

(* PlayStone indexes _stones after looking at _start only: a game that runs *)
(* has its whole board, and both its players.                              *)
RunningHasBoard ==
  \A r \in Rooms : start[r] => DOMAIN stones[r] = Cells /\ Len(players[r]) = 2

(* The handlers follow session->player, gameRoom.lock() and session.lock() *)
(* without a test.  With clients that keep to the protocol one of them is  *)
(* null only after some packet was handled behind the disconnection of its *)
(* own session, which Session's check-then-post allows; and only then does *)
(* a session that is gone for good hold a seat nobody will take from it.   *)
OnlyAfterLate ==
  late \/ (~crashed /\ \A r \in rooms : Members(r) \subseteq managed)

(* A client that is logged in and whose C_EnterRoom has been handled sits  *)
(* in a room until it disconnects: nobody is forgotten by the matching or  *)
(* by another player's departure.                                          *)
NobodyForgotten ==
  \A c \in Clients :
     phase[c] \in {"lobby", "game"} /\ ~crashed
     /\ (\A i \in DOMAIN up[c] : up[c][i].kind # "C_EnterRoom")
     => \E r \in rooms : c \in Members(r)

(* What client c knows of its game when it has read all that was sent to   *)
(* it: its last S_StartGame, unless an S_LeaveGame came after.             *)
Known(c) ==
  LET turns == {i \in DOMAIN down[c] : down[c][i].kind \in {"S_StartGame", "S_LeaveGame"}}
  IN  IF turns # {} THEN down[c][Max(turns)]
      ELSE IF phase[c] = "game" THEN told[c] ELSE Msg("S_LeaveGame")

(* Both players of a running game have been told of this very game, black  *)
(* and white as they entered, and a player left alone has been told that   *)
(* the game is over, whatever games and opponents came before.             *)
PlayersInformed ==
  \A r \in rooms : \A i \in DOMAIN players[r] :
     LET c == players[r][i]
     IN  Online(c) =>
           /\ start[r] => /\ Known(c).kind = "S_StartGame"
                          /\ Known(c).game = game[r]
                          /\ Known(c).stone = (IF i = 1 THEN Black ELSE White)
           /\ Len(players[r]) = 1 => Known(c).kind = "S_LeaveGame"

-----------------------------------------------------------------------------
(* The server as its players see it.                                       *)

Table(r) ==
  [black |-> players[r][1], white |-> players[r][2], board |-> stones[r], over |-> ~start[r]]

LeftAlone == {c \in Clients : \E r \in rooms : players[r] = <<c>>}
Tables == {Table(r) : r \in {q \in rooms : Len(players[q]) = 2}}

M == INSTANCE Match WITH
       Players <- Clients, Stones <- Types, present <- managed,
       waiting <- LeftAlone, matches <- Tables, stray <- late

(* Whatever the clients do and however their packets and disconnections     *)
(* interleave, the server is a Match: nobody who waits is passed over, the  *)
(* boards change by stones on free cells of running games only, a player   *)
(* who goes gives up its seat, and stones are put by those at the board as *)
(* long as no packet is handled behind its own disconnection.              *)
IsMatch == M!Spec
=============================================================================
