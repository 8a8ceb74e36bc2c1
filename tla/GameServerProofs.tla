--------------------------- MODULE GameServerProofs ---------------------------
(***************************************************************************)
(* Proofs about the game server, for any clients, rooms, board and lateness*)
(* and any number of stones.  The inductive invariant has four parts:      *)
(*                                                                         *)
(*   Typed     the types, those of the packets under way included;         *)
(*   Seats     rooms, players and the pointers between them agree;         *)
(*   Protocol  for each client, what its phase says of the packets under   *)
(*             way (Stage) and what a packet of its queue finds when it is *)
(*             handled, a late one included (Queue);                       *)
(*   Damage    a null pointer followed, a session freed too early or a     *)
(*             seat kept needs a late packet.                              *)
(*                                                                         *)
(* HandleSplit turns HandlePacket into its eight possible outcomes; every  *)
(* part is then shown to survive an outcome, or a step of a client, once   *)
(* for the client concerned and once for the others (Bystander).           *)
(*                                                                         *)
(* Two results rest on it: what the players have been told (Informed), and *)
(* that the server implements Match, outcome by outcome.                   *)
(***************************************************************************)
EXTENDS GameServer, TLAPS

Placed == [kind : {"C_PlayStone"}, cell : Cells, stone : Types, game : Nat]
UpMsgs == {Msg("C_SignUp"), Msg("C_EnterRoom"), Disc} \cup Placed

Starts == [kind : {"S_StartGame"}, cell : {""}, stone : Types, game : Nat]
Notes  == [kind : {"S_PlayStone", "S_ThrowResult"}, cell : {""}, stone : Types, game : Nat]
Leaves == {Msg("S_LeaveGame")}
GameMsgs == Starts \cup Notes \cup Leaves \cup {Msg("S_CheckStone(false)")}
GameKinds == {"S_StartGame", "S_PlayStone", "S_ThrowResult", "S_LeaveGame", "S_CheckStone(false)"}
DownMsgs == GameMsgs \cup {Msg("S_Login(false)"), Msg("S_Login(true)")}

Boards == {NoBoard} \cup [Cells -> Types \cup {Blank}]
Phases == {"off", "new", "signup", "login", "lobby", "game", "gone"}

\* The types, those of the channels included.
Typed ==
  /\ phase \in [Clients -> Phases]
  /\ plays \in [Clients -> 0..MaxPlays]
  /\ managed \subseteq Clients /\ signed \subseteq Clients /\ freed \subseteq Clients
  /\ gameRoom \in [Clients -> Rooms \cup {NoRoom}]
  /\ rooms \subseteq Rooms
  /\ players \in [Rooms -> Seq(Clients)]
  /\ \A r \in Rooms : Len(players[r]) <= 2
  /\ stones \in [Rooms -> Boards]
  /\ start \in [Rooms -> BOOLEAN]
  /\ games \in Nat /\ game \in [Rooms -> 0..games]
  /\ late \in BOOLEAN /\ crashed \in BOOLEAN
  /\ up \in [Clients -> Seq(UpMsgs)]
  /\ down \in [Clients -> Seq(DownMsgs)]
  /\ told \in [Clients -> Starts \cup {Msg("")}]
  /\ \A c \in Clients : phase[c] = "game" => told[c] \in Starts

\* Rooms, seats and pointers agree.
Seats ==
  /\ \A r \in Rooms : players[r] # <<>> <=> r \in rooms
  /\ \A r \in Rooms : \A i, j \in 1..Len(players[r]) : players[r][i] = players[r][j] => i = j
  /\ \A r \in Rooms : \A c \in Members(r) : gameRoom[c] = r /\ c \in signed
  /\ \A c \in Clients : gameRoom[c] \in rooms \cup {NoRoom}
  /\ RunningHasBoard

Seated(c) == \E r \in Rooms : c \in Members(r)
Unseated(c) == gameRoom[c] = NoRoom /\ ~Seated(c)

Waiting(c) ==
  /\ phase[c] = "lobby" /\ Unseated(c)
  /\ up[c] = <<Msg("C_EnterRoom")>> /\ down[c] = <<>>

Playing(c) ==
  /\ crashed \/ Seated(c)
  /\ up[c] \in Seq(Placed) /\ down[c] \in Seq(GameMsgs)

\* How far client c has come, and what may be under way to and from it.
Stage(c) ==
  /\ phase[c] = "off" =>
       up[c] = <<>> /\ down[c] = <<>> /\ c \notin managed /\ Unseated(c)
  /\ phase[c] = "new" =>
       up[c] = <<>> /\ down[c] = <<Msg("S_Login(false)")>> /\ c \in managed /\ Unseated(c)
  /\ phase[c] = "signup" =>
       up[c] = <<>> /\ down[c] = <<>> /\ c \in managed /\ Unseated(c)
  /\ phase[c] = "login" =>
       /\ c \in managed /\ Unseated(c)
       /\ \/ up[c] = <<Msg("C_SignUp")>> /\ down[c] = <<>>
          \/ up[c] = <<>> /\ down[c] = <<Msg("S_Login(true)")>> /\ c \in signed
  /\ phase[c] \in {"lobby", "game"} =>
       /\ c \in managed /\ c \in signed
       /\ Waiting(c) \/ Playing(c)
  /\ phase[c] = "gone" => down[c] = <<>>

Alone(c, i) == \A j \in 1..Len(up[c]) : up[c][j] = Disc \/ j = i

\* What the packets of client c, a late one included, find when handled.
Queue(c) ==
  /\ \A i \in 1..Len(up[c]) :
       /\ up[c][i] = Msg("C_SignUp") => Unseated(c) /\ Alone(c, i)
       /\ up[c][i] = Msg("C_EnterRoom") => c \in signed /\ Unseated(c) /\ Alone(c, i)
       /\ up[c][i] \in Placed =>
            c \in signed /\ (c \in managed => crashed \/ Seated(c))
       /\ up[c][i] = Disc =>
            /\ phase[c] = "gone" /\ c \in managed
            /\ \A j \in 1..Len(up[c]) : up[c][j] = Disc => j = i
  /\ phase[c] = "gone" /\ c \in managed => \E i \in 1..Len(up[c]) : up[c][i] = Disc

SeatsManaged == late \/ \A r \in rooms : Members(r) \subseteq managed

\* Damage needs a late packet.
Damage ==
  /\ crashed => late
  /\ freed # {} => late
  /\ SeatsManaged

Protocol == \A c \in Clients : Stage(c) /\ Queue(c)

\* The steps of a client and its connection, and of the last reference.
ClientStep(c) ==
  \/ OnConnected(c) \/ OnDisconnected(c) \/ SubmitName(c)
  \/ LoginRefused(c) \/ LoginAccepted(c) \/ GameBegins(c) \/ GameLeft(c)
  \/ \E kind \in {"S_PlayStone", "S_ThrowResult", "S_CheckStone(false)"} : GameNews(c, kind)
  \/ \E cell \in Cells : PlayStoneCallback(c, cell)
  \/ FreeSession(c)

-----------------------------------------------------------------------------
\* Messages, as the records they are.
LEMMA Messages ==
  /\ \A k : Msg(k).kind = k
  /\ UpMsgs = {Msg("C_SignUp"), Msg("C_EnterRoom"), Disc} \cup Placed
  /\ Disc = Msg("disconnected")
  /\ \A m \in Placed :
       m.kind = "C_PlayStone" /\ m.cell \in Cells /\ m.stone \in Types /\ m.game \in Nat
  /\ \A m \in Starts : m.kind = "S_StartGame" /\ m.stone \in Types /\ m.game \in Nat
  /\ \A m \in Notes : m.kind \in {"S_PlayStone", "S_ThrowResult"}
  /\ \A m \in GameMsgs : m.kind \in GameKinds
<1>1. \A k : Msg(k).kind = k
  BY DEF Msg
<1>2. \A m \in Placed :
        m.kind = "C_PlayStone" /\ m.cell \in Cells /\ m.stone \in Types /\ m.game \in Nat
  BY DEF Placed
<1>3. \A m \in Starts : m.kind = "S_StartGame" /\ m.stone \in Types /\ m.game \in Nat
  BY DEF Starts
<1>4. \A m \in Notes : m.kind \in {"S_PlayStone", "S_ThrowResult"}
  BY DEF Notes
<1>5. \A m \in GameMsgs : m.kind \in GameKinds
  BY <1>1, <1>3, <1>4 DEF GameMsgs, Leaves, GameKinds
<1> QED BY <1>1, <1>2, <1>3, <1>4, <1>5 DEF UpMsgs, Disc

\* Lists of at most two players.
LEMMA OneLong ==
  ASSUME NEW S, NEW s \in Seq(S), Len(s) = 1
  PROVE  s = <<s[1]>>
<1>1. DOMAIN s = 1..1
  BY SMT
<1> QED OBVIOUS

\* A sequence of two elements.
LEMMA TwoLong ==
  ASSUME NEW S, NEW s \in Seq(S), Len(s) = 2
  PROVE  s = <<s[1], s[2]>>
<1>1. s = [i \in 1..2 |-> s[i]]
  BY SMT
<1>2. 1..2 = {1, 2}
  OBVIOUS
<1> QED BY <1>1, <1>2

\* The sequences of at most two elements.
LEMMA Short ==
  ASSUME NEW S, NEW s \in Seq(S), Len(s) <= 2
  PROVE  \/ s = <<>>
         \/ Len(s) = 1 /\ \E p \in S : s = <<p>>
         \/ Len(s) = 2 /\ \E p, q \in S : s = <<p, q>>
<1>1. CASE Len(s) = 0
  BY <1>1
<1>2. CASE Len(s) = 1
  <2>1. s = <<s[1]>>
    BY <1>2, OneLong
  <2>2. s[1] \in S
    BY <1>2
  <2> QED BY <1>2, <2>1, <2>2
<1>3. CASE Len(s) = 2
  <2>1. s = <<s[1], s[2]>>
    BY <1>3, TwoLong
  <2>2. s[1] \in S
    BY <1>3
  <2>3. s[2] \in S
    BY <1>3
  <2> QED BY <1>3, <2>1, <2>2, <2>3
<1>4. Len(s) = 0 \/ Len(s) = 1 \/ Len(s) = 2
  <2> DEFINE n == Len(s)
  <2>1. n \in Nat /\ n <= 2
    OBVIOUS
  <2> HIDE DEF n
  <2>2. n = 0 \/ n = 1 \/ n = 2
    BY <2>1
  <2> QED BY <2>2 DEF n
<1> QED BY <1>1, <1>2, <1>3, <1>4

\* A room's player list is among those TypeOK names.
LEMMA Bounded ==
  ASSUME NEW S, NEW s \in Seq(S), Len(s) <= 2
  PROVE  s \in UNION {[1..n -> S] : n \in 0..2}
<1> DEFINE n == Len(s)
<1>1. s \in [1..n -> S]
  OBVIOUS
<1>2. n \in Nat /\ n <= 2
  OBVIOUS
<1> HIDE DEF n
<1>3. n \in 0..2
  BY <1>2
<1> QED BY <1>1, <1>3

\* Sequences, element by element.
LEMMA Appended ==
  ASSUME NEW S, NEW s \in Seq(S), NEW e \in S
  PROVE  /\ Append(s, e) \in Seq(S) /\ Len(Append(s, e)) = Len(s) + 1
         /\ \A i \in 1..Len(s) : Append(s, e)[i] = s[i]
         /\ Append(s, e)[Len(s) + 1] = e
OBVIOUS

\* The domain of a sequence.
LEMMA Indexes ==
  ASSUME NEW S, NEW s \in Seq(S)
  PROVE  DOMAIN s = 1..Len(s)
OBVIOUS

\* The head and the tail of a queue.
LEMMA Popped ==
  ASSUME NEW S, NEW s \in Seq(S), s # <<>>
  PROVE  /\ Head(s) \in S /\ Head(s) = s[1] /\ 1 \in 1..Len(s)
         /\ Tail(s) \in Seq(S) /\ Len(Tail(s)) = Len(s) - 1
         /\ \A i \in 1..Len(s) - 1 : Tail(s)[i] = s[i + 1]
OBVIOUS

\* A part of a sequence.
LEMMA Part ==
  ASSUME NEW S, NEW s \in Seq(S), NEW m \in Nat, NEW n \in Nat, m + n <= Len(s)
  PROVE  /\ SubSeq(s, m + 1, m + n) \in Seq(S) /\ Len(SubSeq(s, m + 1, m + n)) = n
         /\ \A i \in 1..n : SubSeq(s, m + 1, m + n)[i] = s[m + i]
OBVIOUS

\* Two sequences in a row.
LEMMA Joined ==
  ASSUME NEW S, NEW s \in Seq(S), NEW t \in Seq(S)
  PROVE  /\ s \o t \in Seq(S) /\ Len(s \o t) = Len(s) + Len(t)
         /\ \A i \in 1..Len(s) : (s \o t)[i] = s[i]
         /\ \A i \in 1..Len(t) : (s \o t)[Len(s) + i] = t[i]
OBVIOUS

\* A second player joins.
LEMMA AppendedToOne ==
  ASSUME NEW S, NEW s \in Seq(S), NEW e \in S, Len(s) = 1
  PROVE  Append(s, e) = <<s[1], e>>
<1> DEFINE t == Append(s, e)
<1>1. /\ t \in Seq(S) /\ Len(t) = Len(s) + 1
      /\ (\A i \in 1..Len(s) : t[i] = s[i]) /\ t[Len(s) + 1] = e
  BY Appended
<1> HIDE DEF t
<1>2. t \in Seq(S) /\ Len(t) = 2 /\ t[1] = s[1] /\ t[2] = e
  BY <1>1
<1> QED BY <1>2, TwoLong DEF t

\* Lists of at most two players.
LEMMA Lists ==
  ASSUME NEW p, NEW c
  PROVE  /\ Append(<<>>, c) = <<c>> /\ Append(<<p>>, c) = <<p, c>>
         /\ Len(<<>>) = 0 /\ Len(<<p>>) = 1 /\ Len(<<p, c>>) = 2
         /\ <<p>>[1] = p /\ <<p, c>>[1] = p /\ <<p, c>>[2] = c
         /\ <<p>> # <<>> /\ <<p, c>> # <<>>
<1>1. Append(<<>>, c) = <<c>> OBVIOUS
<1>2. Len(<<>>) = 0 /\ Len(<<p>>) = 1 /\ Len(<<p, c>>) = 2 OBVIOUS
<1>3. <<p>>[1] = p /\ <<p, c>>[1] = p /\ <<p, c>>[2] = c OBVIOUS
<1>4. <<p>> # <<>> /\ <<p, c>> # <<>> OBVIOUS
<1>5. <<p>> \in Seq({p, c}) /\ c \in {p, c}
  OBVIOUS
<1>6. Append(<<p>>, c) = <<p, c>>
  BY <1>2, <1>3, <1>5, AppendedToOne
<1> QED BY <1>1, <1>2, <1>3, <1>4, <1>6

\* Who is in such a list.
LEMMA NobodyIn == Range(<<>>) = {}
BY DEF Range

\* The elements of such lists.
LEMMA Ranges ==
  ASSUME NEW p, NEW q
  PROVE  Range(<<>>) = {} /\ Range(<<p>>) = {p} /\ Range(<<p, q>>) = {p, q}
<1>1. Range(<<>>) = {} BY DEF Range
<1>2. Range(<<p>>) = {p} BY DEF Range
<1>3. Range(<<p, q>>) = {p, q} BY DEF Range
<1> QED BY <1>1, <1>2, <1>3

\* What RemoveAt leaves of two.
LEMMA RemovedOfTwo ==
  ASSUME NEW S, NEW s \in Seq(S), Len(s) = 2
  PROVE  RemoveAt(s, 1) = <<s[2]>> /\ RemoveAt(s, 2) = <<s[1]>>
<1> DEFINE t == RemoveAt(s, 1)
           u == RemoveAt(s, 2)
<1>1. t \in Seq(S) /\ Len(t) = 1 /\ t[1] = s[2]
  BY DEF RemoveAt
<1>2. u \in Seq(S) /\ Len(u) = 1 /\ u[1] = s[1]
  BY DEF RemoveAt
<1> HIDE DEF t, u
<1>3. t = <<t[1]>>
  BY <1>1, OneLong
<1>4. u = <<u[1]>>
  BY <1>2, OneLong
<1> QED BY <1>1, <1>2, <1>3, <1>4 DEF t, u

\* Where a player sits in a list of two.
LEMMA Places ==
  ASSUME NEW p, NEW q, p # q
  PROVE  /\ (CHOOSE i \in DOMAIN <<p, q>> : <<p, q>>[i] = p) = 1
         /\ (CHOOSE i \in DOMAIN <<p, q>> : <<p, q>>[i] = q) = 2
<1>1. DOMAIN <<p, q>> = {1, 2}
  OBVIOUS
<1>2. \A i \in {1, 2} : (<<p, q>>[i] = p <=> i = 1) /\ (<<p, q>>[i] = q <=> i = 2)
  OBVIOUS
<1>3. (CHOOSE i \in DOMAIN <<p, q>> : <<p, q>>[i] = p) = 1
  BY <1>1, <1>2
<1>4. (CHOOSE i \in DOMAIN <<p, q>> : <<p, q>>[i] = q) = 2
  BY <1>1, <1>2
<1> QED BY <1>3, <1>4

\* What the erase leaves.
LEMMA LeftOfOne ==
  ASSUME NEW p, NEW c
  PROVE  /\ Without(<<>>, c) = <<>>
         /\ Without(<<p>>, c) = IF c = p THEN <<>> ELSE <<p>>
<1>1. Without(<<>>, c) = <<>>
  BY Ranges, Zenon DEF Without
<1>2. Without(<<p>>, p) = <<>>
  <2>1. Range(<<p>>) = {p} BY Ranges
  <2>2. RemoveAt(<<p>>, 1) = <<>> BY DEF RemoveAt
  <2>3. DOMAIN <<p>> = {1} /\ <<p>>[1] = p OBVIOUS
  <2>4. (CHOOSE i \in DOMAIN <<p>> : <<p>>[i] = p) = 1 BY <2>3
  <2> QED BY <2>1, <2>2, <2>4, Zenon DEF Without
<1>3. c # p => Without(<<p>>, c) = <<p>>
  <2>1. Range(<<p>>) = {p} BY Ranges
  <2> QED BY <2>1, Zenon DEF Without
<1> QED BY <1>1, <1>2, <1>3

\* Who is left of two players when c leaves.
LEMMA LeftOfTwo ==
  ASSUME NEW p, NEW q, p # q, NEW c
  PROVE  Without(<<p, q>>, c) = IF c = p THEN <<q>> ELSE IF c = q THEN <<p>> ELSE <<p, q>>
<1>1. Range(<<p, q>>) = {p, q}
  BY Ranges
<1>2. RemoveAt(<<p, q>>, 1) = <<q>> /\ RemoveAt(<<p, q>>, 2) = <<p>>
  <2>1. <<p, q>> \in Seq({p, q}) /\ Len(<<p, q>>) = 2 /\ <<p, q>>[1] = p /\ <<p, q>>[2] = q
    OBVIOUS
  <2> QED BY <2>1, RemovedOfTwo
<1>3. Without(<<p, q>>, p) = <<q>>
  <2>1. (CHOOSE i \in DOMAIN <<p, q>> : <<p, q>>[i] = p) = 1 BY Places
  <2> QED BY <1>1, <1>2, <2>1, Zenon DEF Without
<1>4. Without(<<p, q>>, q) = <<p>>
  <2>1. (CHOOSE i \in DOMAIN <<p, q>> : <<p, q>>[i] = q) = 2 BY Places
  <2> QED BY <1>1, <1>2, <2>1, Zenon DEF Without
<1>5. c \notin {p, q} => Without(<<p, q>>, c) = <<p, q>>
  BY <1>1, Zenon DEF Without
<1> QED BY <1>3, <1>4, <1>5

\* A packet is taken off the queue.
Pop(c) ==
  /\ ~crashed /\ up[c] # <<>>
  /\ up' = [up EXCEPT ![c] = Tail(@)]
  /\ late' = (late \/ (c \notin managed /\ Head(up[c]) # Disc))
  /\ UNCHANGED <<clientVars, freed>>

\* The outcomes of HandlePacket.
SignUp(c) ==
  /\ Head(up[c]) = Msg("C_SignUp")
  /\ signed' = signed \cup {c}
  /\ SendTo(c, "S_Login(true)")
  /\ UNCHANGED <<managed, roomVars, crashed>>

Failure(c) ==
  /\ crashed' = TRUE /\ late' = TRUE
  /\ Head(up[c]) # Msg("C_SignUp")
  /\ \/ Head(up[c]) # Disc /\ managed' = managed
     \/ Head(up[c]) = Disc /\ managed' = managed \ {c}
  /\ UNCHANGED <<down, signed, roomVars>>

Sit(c, r) ==
  /\ Head(up[c]) = Msg("C_EnterRoom") /\ c \in signed
  /\ r \in Rooms \ rooms /\ players[r] = <<>> /\ \A q \in rooms : ~HasSeat(q)
  /\ gameRoom' = [gameRoom EXCEPT ![c] = r]
  /\ players' = [players EXCEPT ![r] = <<c>>]
  /\ rooms' = rooms \cup {r}
  /\ UNCHANGED <<down, stones, start, games, game, managed, signed, crashed>>

Join(c, r, p) ==
  /\ Head(up[c]) = Msg("C_EnterRoom") /\ c \in signed
  /\ r \in rooms /\ p \in Clients /\ players[r] = <<p>>
  /\ gameRoom' = [gameRoom EXCEPT ![c] = r]
  /\ players' = [players EXCEPT ![r] = <<p, c>>]
  /\ StartGame(r, p, c)
  /\ UNCHANGED <<rooms, managed, signed, crashed>>

Refuse(c) ==
  /\ Head(up[c]) \in Placed
  /\ SendTo(c, "S_CheckStone(false)")
  /\ UNCHANGED <<managed, signed, roomVars, crashed>>

Put(c, r, m, won) ==
  /\ Head(up[c]) = m /\ m \in Placed
  /\ r \in rooms /\ gameRoom[c] = r /\ start[r] /\ stones[r][m.cell] = Blank
  /\ stones' = [stones EXCEPT ![r][m.cell] = m.stone]
  /\ start' = [start EXCEPT ![r] = ~won]
  /\ SendAll([x \in Members(r) |->
       [Msg(IF won THEN "S_ThrowResult" ELSE "S_PlayStone") EXCEPT !.stone = m.stone]])
  /\ UNCHANGED <<managed, signed, gameRoom, rooms, players, game, games, crashed>>

Depart(c, r, left) ==
  /\ Head(up[c]) = Disc
  /\ managed' = managed \ {c}
  /\ r \in rooms /\ gameRoom[c] = r /\ left = Without(players[r], c)
  /\ players' = [players EXCEPT ![r] = left]
  /\ SendAll([x \in Range(left) |-> Msg("S_LeaveGame")])
  /\ stones' = [stones EXCEPT ![r] = NoBoard]
  /\ start' = [start EXCEPT ![r] = FALSE]
  /\ ForgetRoom(r, left)
  /\ UNCHANGED <<signed, game, games, crashed>>

Vanish(c) ==
  /\ Head(up[c]) = Disc /\ ~Seated(c)
  /\ managed' = managed \ {c}
  /\ UNCHANGED <<down, signed, roomVars, crashed>>

Outcome(c) ==
  \/ SignUp(c) \/ Failure(c) \/ Refuse(c) \/ Vanish(c)
  \/ \E r \in Rooms : Sit(c, r)
  \/ \E r \in Rooms, p \in Clients : Join(c, r, p)
  \/ \E r \in Rooms, m \in Placed, won \in BOOLEAN : Put(c, r, m, won)
  \/ \E r \in Rooms : Depart(c, r, Without(players[r], c))

\* The packet that is handled.
LEMMA HeadOfQueue ==
  ASSUME Typed, NEW c \in Clients, up[c] # <<>>
  PROVE  /\ Head(up[c]) \in UpMsgs /\ Head(up[c]) = up[c][1] /\ 1 \in 1..Len(up[c])
         /\ Tail(up[c]) \in Seq(UpMsgs) /\ Len(Tail(up[c])) = Len(up[c]) - 1
         /\ \A i \in 1..Len(up[c]) - 1 : Tail(up[c])[i] = up[c][i + 1]
<1>1. up[c] \in Seq(UpMsgs)
  BY DEF Typed
<1> QED BY <1>1, Popped

\* Whoever follows a null pointer handles a late packet, or came after one.
LEMMA HandleSplit ==
  ASSUME Typed, Seats, Protocol, Damage, NEW c \in Clients, HandlePacket(c)
  PROVE  Pop(c) /\ Outcome(c)
<1> DEFINE m == Head(up[c])
<1>1. Pop(c)
  BY DEF HandlePacket, Pop
<1>2. /\ m \in UpMsgs /\ m = up[c][1] /\ 1 \in 1..Len(up[c])
  BY <1>1, HeadOfQueue DEF Pop
<1>3. Stage(c) /\ Queue(c)
  BY DEF Protocol
<1>4. ASSUME NEW r \in Rooms, Dangling(Members(r)) PROVE late
  BY <1>4 DEF Dangling, Damage
<1>5. CASE m.kind = "C_SignUp" /\ Handle_C_SignUp(c)
  <2>1. m = Msg("C_SignUp")
    BY <1>2, <1>5, Messages
  <2>2. SignUp(c)
    BY <2>1, <1>5 DEF Handle_C_SignUp, SignUp
  <2> QED BY <2>2, <1>1 DEF Outcome
<1>6. CASE m.kind = "C_EnterRoom" /\ Handle_C_EnterRoom(c)
  <2>1. m = Msg("C_EnterRoom") /\ m # Disc /\ m # Msg("C_SignUp")
    BY <1>2, <1>6, Messages
  <2>2. c \in signed
    BY <2>1, <1>2, <1>3 DEF Queue
  <2>3. ASSUME NEW r \in Rooms, Dangling(Members(r)), EnterRoom(r, c)
        PROVE  Failure(c)
    <3>1. Crash BY <2>3 DEF EnterRoom
    <3>2. late' BY <2>3, <1>4, <1>1 DEF Pop
    <3> QED BY <3>1, <3>2, <2>1 DEF Crash, Failure, Typed
  <2>4. ASSUME NEW r \in rooms, HasSeat(r), EnterRoom(r, c), UNCHANGED rooms, ~Dangling(Members(r))
        PROVE  \E p \in Clients : Join(c, r, p)
    <3>1. r \in Rooms /\ players[r] \in Seq(Clients) /\ Len(players[r]) < 2 /\ players[r] # <<>>
      BY <2>4 DEF HasSeat, Typed, Seats
    <3>2. PICK p \in Clients : players[r] = <<p>>
      BY <3>1, Short
    <3>3. /\ Append(players[r], c) = <<p, c>> /\ Len(players[r]) = 1 /\ players[r][1] = p
      BY <3>2, Lists
    <3>4. Join(c, r, p)
      BY <2>1, <2>2, <2>4, <3>1, <3>2, <3>3 DEF EnterRoom, Join
    <3> QED BY <3>4
  <2>5. ASSUME NEW r \in Rooms \ rooms, EnterRoom(r, c), rooms' = rooms \cup {r},
               \A q \in rooms : ~HasSeat(q), ~Dangling(Members(r))
        PROVE  Sit(c, r)
    <3>1. players[r] = <<>> /\ Len(players[r]) = 0 /\ Append(players[r], c) = <<c>>
      BY <2>5, Lists DEF Seats
    <3> QED BY <2>1, <2>2, <2>5, <3>1 DEF EnterRoom, Sit
  <2>6. rooms \subseteq Rooms BY DEF Typed
  <2> QED BY <2>2, <2>3, <2>4, <2>5, <2>6, <1>1, <1>6 DEF Handle_C_EnterRoom, Outcome
<1>7. CASE m.kind = "C_PlayStone" /\ Handle_C_PlayStone(c, m)
  <2>1. m \in Placed /\ m # Disc /\ m # Msg("C_SignUp")
    BY <1>2, <1>7, Messages
  <2>2. c \in signed /\ (c \in managed => Seated(c))
    BY <2>1, <1>1, <1>2, <1>3 DEF Queue, Pop
  <2>3. CASE c \notin signed \/ gameRoom[c] = NoRoom
    <3>1. gameRoom[c] = NoRoom BY <2>2, <2>3
    <3>2. c \notin managed
      BY <2>2, <3>1, GameAssumption DEF Seated, Seats
    <3>3. late' BY <3>2, <2>1, <1>1 DEF Pop
    <3> QED BY <1>1, <1>7, <2>1, <2>3, <3>3 DEF Handle_C_PlayStone, Crash, Failure, Outcome
  <2>4. CASE c \in signed /\ gameRoom[c] # NoRoom
    <3> DEFINE r == gameRoom[c]
    <3>1. r \in rooms /\ r \in Rooms
      BY <2>4 DEF Seats, Typed
    <3>2. PlayStone(r, c, m)
      BY <2>4, <1>7 DEF Handle_C_PlayStone
    <3>3. CASE ~Placeable(r, m.cell)
      BY <3>2, <3>3, <1>1, <2>1 DEF PlayStone, Refuse, Outcome
    <3>4. CASE Placeable(r, m.cell) /\ Dangling(Members(r))
      <4>1. late' BY <3>1, <3>4, <1>4, <1>1 DEF Pop
      <4> QED BY <3>2, <3>4, <4>1, <1>1, <2>1 DEF PlayStone, Crash, Failure, Outcome
    <3>5. CASE Placeable(r, m.cell) /\ ~Dangling(Members(r))
      <4>1. PICK won \in BOOLEAN :
              /\ stones' = [stones EXCEPT ![r][m.cell] = m.stone]
              /\ start' = [start EXCEPT ![r] = ~won]
              /\ SendAll([x \in Members(r) |->
                   [Msg(IF won THEN "S_ThrowResult" ELSE "S_PlayStone") EXCEPT !.stone = m.stone]])
              /\ UNCHANGED <<managed, signed, gameRoom, rooms, players, game, games, crashed>>
        BY <3>2, <3>5 DEF PlayStone
      <4>2. Put(c, r, m, won)
        BY <2>1, <3>1, <3>5, <4>1 DEF Put, Placeable
      <4> QED BY <1>1, <2>1, <3>1, <4>2 DEF Outcome
    <3> QED BY <3>3, <3>4, <3>5
  <2> QED BY <2>3, <2>4
<1>8. CASE m = Disc /\ HandleDisconnected(c)
  <2>1. m # Msg("C_SignUp") BY <1>8, Messages
  <2>2. CASE c \in signed /\ gameRoom[c] # NoRoom
    <3> DEFINE r == gameRoom[c]
               left == Without(players[r], c)
    <3>1. r \in rooms /\ r \in Rooms
      BY <2>2 DEF Seats, Typed
    <3>2. LeaveRoom(r, c) /\ managed' = managed \ {c}
      BY <2>2, <1>8 DEF HandleDisconnected
    <3>3. CASE Dangling(Range(left))
      <4>1. late' BY <3>3, <1>1 DEF Dangling, Damage, Pop
      <4> QED BY <2>1, <3>2, <3>3, <4>1, <1>1, <1>8 DEF LeaveRoom, Failure, Outcome
    <3>4. CASE ~Dangling(Range(left))
      <4>1. Depart(c, r, left)
        BY <3>1, <3>2, <3>4, <1>8 DEF LeaveRoom, Depart
      <4> QED BY <4>1, <3>1, <1>1 DEF Outcome
    <3> QED BY <3>3, <3>4
  <2>3. CASE ~(c \in signed /\ gameRoom[c] # NoRoom)
    <3>1. ~Seated(c)
      BY <2>3, GameAssumption DEF Seats, Seated
    <3> QED BY <2>3, <3>1, <1>1, <1>8 DEF HandleDisconnected, Vanish, Outcome
  <2> QED BY <2>2, <2>3
<1> QED BY <1>1, <1>5, <1>6, <1>7, <1>8 DEF HandlePacket

-----------------------------------------------------------------------------
\* A room when c has left it.
LEMMA Remaining ==
  ASSUME Typed, Seats, NEW r \in Rooms, NEW c \in Clients
  PROVE  LET left == Without(players[r], c)
         IN  /\ left \in Seq(Clients) /\ Len(left) <= 2
             /\ Range(left) = Members(r) \ {c}
             /\ \A i, j \in 1..Len(left) : left[i] = left[j] => i = j
             /\ c \in Members(r) => Len(left) <= 1
<1> DEFINE left == Without(players[r], c)
<1>1. players[r] \in Seq(Clients) /\ Len(players[r]) <= 2
  BY DEF Typed
<1>2. ASSUME players[r] = <<>>
      PROVE  /\ left \in Seq(Clients) /\ Len(left) <= 2 /\ Range(left) = Members(r) \ {c}
             /\ \A i, j \in 1..Len(left) : left[i] = left[j] => i = j
             /\ Len(left) <= 1
  <2>1. left = <<>>
    BY <1>2, LeftOfOne
  <2>2. <<>> \in Seq(Clients) /\ Len(<<>>) = 0 /\ Range(<<>>) = {}
    BY NobodyIn
  <2>3. Members(r) = {}
    BY <1>2, <2>2 DEF Members
  <2> HIDE DEF left
  <2> QED BY <2>1, <2>2, <2>3
<1>3. ASSUME NEW p \in Clients, players[r] = <<p>> PROVE left = IF c = p THEN <<>> ELSE <<p>>
  BY <1>3, LeftOfOne
<1>4. ASSUME NEW p \in Clients, NEW q \in Clients, players[r] = <<p, q>>
      PROVE  /\ p # q
             /\ left = IF c = p THEN <<q>> ELSE IF c = q THEN <<p>> ELSE <<p, q>>
  <2>1. p # q
    BY <1>4, Lists DEF Seats
  <2> QED BY <1>4, <2>1, LeftOfTwo
<1>5. ASSUME NEW p \in Clients, players[r] = <<p>>
      PROVE  /\ left \in Seq(Clients) /\ Len(left) <= 2 /\ Range(left) = Members(r) \ {c}
             /\ \A i, j \in 1..Len(left) : left[i] = left[j] => i = j
             /\ Len(left) <= 1
  <2>1. Members(r) = {p} BY <1>5, Ranges DEF Members
  <2>2. CASE c = p
    <3>1. left = <<>> BY <1>3, <1>5, <2>2
    <3>2. <<>> \in Seq(Clients) /\ Len(<<>>) = 0 /\ Range(<<>>) = {}
      BY NobodyIn
    <3> HIDE DEF left
    <3> QED BY <2>1, <2>2, <3>1, <3>2
  <2>3. CASE c # p
    <3>1. left = <<p>> BY <1>3, <1>5, <2>3
    <3>2. <<p>> \in Seq(Clients) /\ Len(<<p>>) = 1 OBVIOUS
    <3>3. Range(<<p>>) = {p} BY Ranges
    <3> HIDE DEF left
    <3> QED BY <2>1, <2>3, <3>1, <3>2, <3>3
  <2> QED BY <2>2, <2>3
<1>6. ASSUME NEW p \in Clients, NEW q \in Clients, players[r] = <<p, q>>
      PROVE  /\ left \in Seq(Clients) /\ Len(left) <= 2 /\ Range(left) = Members(r) \ {c}
             /\ \A i, j \in 1..Len(left) : left[i] = left[j] => i = j
             /\ c \in Members(r) => Len(left) <= 1
  <2>1. Members(r) = {p, q} /\ p # q BY <1>4, <1>6, Ranges DEF Members
  <2>2. ASSUME NEW x \in Clients, left = <<x>>, Members(r) \ {c} = {x}
        PROVE  /\ left \in Seq(Clients) /\ Len(left) = 1 /\ Range(left) = Members(r) \ {c}
               /\ \A i, j \in 1..Len(left) : left[i] = left[j] => i = j
    <3>1. <<x>> \in Seq(Clients) /\ Len(<<x>>) = 1 OBVIOUS
    <3>2. Range(<<x>>) = {x} BY Ranges
    <3> HIDE DEF left
    <3> QED BY <2>2, <3>1, <3>2
  <2>3. CASE c = p
    <3>1. left = <<q>> /\ Members(r) \ {c} = {q} BY <1>4, <1>6, <2>1, <2>3
    <3> QED BY <2>2, <3>1
  <2>4. CASE c # p /\ c = q
    <3>1. left = <<p>> /\ Members(r) \ {c} = {p} BY <1>4, <1>6, <2>1, <2>4
    <3> QED BY <2>2, <3>1
  <2>5. CASE c # p /\ c # q
    <3>1. left = <<p, q>> BY <1>4, <1>6, <2>5
    <3>2. <<p, q>> \in Seq(Clients) /\ Len(<<p, q>>) = 2 OBVIOUS
    <3>3. Range(<<p, q>>) = {p, q} BY Ranges
    <3>4. left = players[r] BY <1>6, <3>1
    <3> HIDE DEF left
    <3> QED BY <2>1, <2>5, <3>1, <3>2, <3>3, <3>4 DEF Seats
  <2> QED BY <2>3, <2>4, <2>5
<1> QED BY <1>1, <1>2, <1>5, <1>6, Short

-----------------------------------------------------------------------------
(* Types.                                                                  *)

\* What the handlers send.
LEMMA SentTypes ==
  /\ \A k \in {"S_Login(false)", "S_Login(true)", "S_LeaveGame", "S_CheckStone(false)"} :
       Msg(k) \in DownMsgs
  /\ \A s \in Types, g \in Nat :
       [Msg("S_StartGame") EXCEPT !.stone = s, !.game = g] \in Starts
  /\ \A s \in Types, won \in BOOLEAN :
       [Msg(IF won THEN "S_ThrowResult" ELSE "S_PlayStone") EXCEPT !.stone = s] \in Notes
<1>1. \A k \in {"S_Login(false)", "S_Login(true)", "S_LeaveGame", "S_CheckStone(false)"} :
        Msg(k) \in DownMsgs
  BY DEF DownMsgs, GameMsgs, Leaves
<1>2. \A s \in Types, g \in Nat :
        [Msg("S_StartGame") EXCEPT !.stone = s, !.game = g] \in Starts
  BY DEF Starts, Msg
<1>3. \A s \in Types, won \in BOOLEAN :
        [Msg(IF won THEN "S_ThrowResult" ELSE "S_PlayStone") EXCEPT !.stone = s] \in Notes
  BY DEF Notes, Msg
<1> QED BY <1>1, <1>2, <1>3

\* The number of the next game.
LEMMA NextGame ==
  ASSUME Typed
  PROVE  games + 1 \in Nat
<1>1. games \in Nat
  BY DEF Typed
<1> QED BY <1>1

\* SendAll reaches who is online.
LEMMA Sent ==
  ASSUME Typed, NEW out, SendAll(out), \A x \in DOMAIN out : out[x] \in DownMsgs
  PROVE  /\ down' \in [Clients -> Seq(DownMsgs)]
         /\ \A x \in Clients :
              down'[x] = IF x \in DOMAIN out /\ Online(x) THEN Append(down[x], out[x]) ELSE down[x]
<1>1. ASSUME NEW x \in Clients, x \in DOMAIN out
      PROVE  Append(down[x], out[x]) \in Seq(DownMsgs)
  <2>1. down[x] \in Seq(DownMsgs) /\ out[x] \in DownMsgs
    BY <1>1 DEF Typed
  <2> QED BY <2>1, Appended
<1>2. \A x \in Clients : down[x] \in Seq(DownMsgs)
  BY DEF Typed
<1> QED BY <1>1, <1>2 DEF SendAll

\* Types survive the steps of the clients and of the server.
LEMMA TypedClient ==
  ASSUME Typed, Protocol, NEW c \in Clients, ClientStep(c)
  PROVE  Typed'
<1> USE DEF ClientStep
<1> USE DEF clientVars, roomVars, Phases
<1> DEFINE Room ==
      /\ gameRoom \in [Clients -> Rooms \cup {NoRoom}] /\ rooms \subseteq Rooms
      /\ players \in [Rooms -> Seq(Clients)] /\ \A r \in Rooms : Len(players[r]) <= 2
      /\ stones \in [Rooms -> Boards] /\ start \in [Rooms -> BOOLEAN]
      /\ games \in Nat /\ game \in [Rooms -> 0..games]
           Chan ==
      /\ up \in [Clients -> Seq(UpMsgs)] /\ down \in [Clients -> Seq(DownMsgs)]
           Play ==
      /\ phase \in [Clients -> Phases] /\ plays \in [Clients -> 0..MaxPlays]
      /\ told \in [Clients -> Starts \cup {Msg("")}]
      /\ \A x \in Clients : phase[x] = "game" => told[x] \in Starts
           Sets ==
      /\ managed \subseteq Clients /\ signed \subseteq Clients /\ freed \subseteq Clients
      /\ late \in BOOLEAN /\ crashed \in BOOLEAN
<1>1. Typed <=> Room /\ Chan /\ Play /\ Sets
  BY DEF Typed
<1>2. Typed' <=> Room' /\ Chan' /\ Play' /\ Sets'
  BY DEF Typed
<1>3. Room'
  <2>1. UNCHANGED roomVars
    BY DEF OnConnected, OnDisconnected, SubmitName, LoginRefused,
       LoginAccepted, GameBegins,
           GameLeft, GameNews, PlayStoneCallback, FreeSession
  <2> QED BY <2>1, <1>1
<1>4. Sets'
  BY <1>1 DEF OnConnected, OnDisconnected, SubmitName, LoginRefused,
       LoginAccepted, GameBegins,
           GameLeft, GameNews, PlayStoneCallback, FreeSession
<1>5. /\ \A m \in UpMsgs : Append(up[c], m) \in Seq(UpMsgs)
      /\ down[c] # <<>> => Head(down[c]) \in DownMsgs /\ Tail(down[c]) \in Seq(DownMsgs)
  <2>1. up[c] \in Seq(UpMsgs) /\ down[c] \in Seq(DownMsgs)
    BY <1>1
  <2> QED BY <2>1, Appended, Popped
<1>6. Msg("C_SignUp") \in UpMsgs /\ Msg("C_EnterRoom") \in UpMsgs /\ Disc \in UpMsgs
  BY DEF UpMsgs
<1>7. up \in [Clients -> Seq(UpMsgs)] /\ down \in [Clients -> Seq(DownMsgs)]
  BY <1>1
<1>8. CASE OnConnected(c)
  <2>1. <<Msg("S_Login(false)")>> \in Seq(DownMsgs)
    <3>1. Msg("S_Login(false)") \in DownMsgs BY SentTypes
    <3> QED BY <3>1
  <2>2. Chan' BY <1>1, <1>8, <2>1 DEF OnConnected
  <2>3. Play' BY <1>1, <1>8 DEF OnConnected
  <2> QED BY <1>2, <1>3, <1>4, <2>2, <2>3
<1>9. CASE OnDisconnected(c)
  <2>1. PICK arrived \in 0..Len(up[c]), after \in 0..Late :
          /\ arrived + after <= Len(up[c])
          /\ up' = [up EXCEPT ![c] = SubSeq(@, 1, arrived) \o <<Disc>>
                                       \o SubSeq(@, arrived + 1, arrived + after)]
    BY <1>9 DEF OnDisconnected
  <2> DEFINE pre == SubSeq(up[c], 1, arrived)
             post == SubSeq(up[c], arrived + 1, arrived + after)
             cut == pre \o <<Disc>> \o post
  <2>2. arrived \in Nat /\ after \in Nat /\ up[c] \in Seq(UpMsgs)
    <3>1. up[c] \in Seq(UpMsgs) BY <1>7
    <3>2. Late \in Nat BY GameAssumption
    <3> QED BY <2>1, <3>1, <3>2
  <2>3. pre \in Seq(UpMsgs)
    <3>1. 0 \in Nat /\ 0 + arrived <= Len(up[c]) /\ 0 + 1 = 1 /\ 0 + arrived = arrived
      BY <2>1, <2>2
    <3>2. SubSeq(up[c], 0 + 1, 0 + arrived) \in Seq(UpMsgs)
      BY <3>1, <2>2, Part
    <3> QED BY <3>1, <3>2
  <2>4. post \in Seq(UpMsgs)
    BY <2>1, <2>2, Part
  <2>5. up' \in [Clients -> Seq(UpMsgs)]
    <3>1. <<Disc>> \in Seq(UpMsgs)
      BY <1>6
    <3>2. cut \in Seq(UpMsgs)
      <4> HIDE DEF pre, post
      <4>1. pre \o <<Disc>> \in Seq(UpMsgs) BY <2>3, <3>1, Joined
      <4> QED BY <4>1, <2>4, Joined
    <3>3. up' = [up EXCEPT ![c] = cut]
      BY <2>1
    <3> HIDE DEF cut
    <3> QED BY <1>7, <3>2, <3>3
  <2>6. Chan'
    <3>1. down' = [down EXCEPT ![c] = <<>>] BY <1>9 DEF OnDisconnected
    <3>2. <<>> \in Seq(DownMsgs) OBVIOUS
    <3> QED BY <1>7, <2>5, <3>1, <3>2
  <2>7. Play' BY <1>1, <1>9 DEF OnDisconnected
  <2> QED BY <1>2, <1>3, <1>4, <2>6, <2>7
<1>10. CASE SubmitName(c)
  <2>1. Chan' BY <1>1, <1>5, <1>6, <1>10 DEF SubmitName, ClientSends
  <2>2. Play' BY <1>1, <1>10 DEF SubmitName
  <2> QED BY <1>2, <1>3, <1>4, <2>1, <2>2
<1>11. CASE LoginRefused(c)
  <2>1. Chan' BY <1>1, <1>5, <1>11 DEF LoginRefused, Heard, Took
  <2>2. Play' BY <1>1, <1>11 DEF LoginRefused
  <2> QED BY <1>2, <1>3, <1>4, <2>1, <2>2
<1>12. CASE LoginAccepted(c)
  <2>1. Chan' BY <1>1, <1>5, <1>6, <1>12 DEF LoginAccepted, Heard, Took, ClientSends
  <2>2. Play' BY <1>1, <1>12 DEF LoginAccepted
  <2> QED BY <1>2, <1>3, <1>4, <2>1, <2>2
<1>13. CASE GameBegins(c)
  <2>1. Chan' BY <1>1, <1>5, <1>13 DEF GameBegins, Heard, Took
  <2>2. Head(down[c]) \in Starts
    <3>1. Head(down[c]) \in DownMsgs /\ Head(down[c]).kind = "S_StartGame"
      BY <1>5, <1>13 DEF GameBegins, Heard
    <3> QED BY <3>1, Messages DEF DownMsgs, GameMsgs, Leaves
  <2>3. Play' BY <1>1, <1>13, <2>2 DEF GameBegins
  <2> QED BY <1>2, <1>3, <1>4, <2>1, <2>3
<1>14. CASE GameLeft(c)
  <2>1. Chan' BY <1>1, <1>5, <1>14 DEF GameLeft, Heard, Took
  <2>2. Play' BY <1>1, <1>14 DEF GameLeft
  <2> QED BY <1>2, <1>3, <1>4, <2>1, <2>2
<1>15. ASSUME NEW kind, GameNews(c, kind) PROVE Typed'
  <2>1. Chan' BY <1>1, <1>5, <1>15 DEF GameNews, Heard, Took
  <2>2. Play' BY <1>1, <1>15 DEF GameNews
  <2> QED BY <1>2, <1>3, <1>4, <2>1, <2>2
<1>16. ASSUME NEW cell \in Cells, PlayStoneCallback(c, cell) PROVE Typed'
  <2> DEFINE m == [kind |-> "C_PlayStone", cell |-> cell,
                   stone |-> told[c].stone, game |-> told[c].game]
  <2>1. told[c] \in Starts
    BY <1>1, <1>16 DEF PlayStoneCallback
  <2>2. m \in UpMsgs
    BY <2>1, Messages DEF UpMsgs, Placed
  <2>3. Chan'
    <3>1. up' = [up EXCEPT ![c] = Append(@, m)] /\ UNCHANGED down
      BY <1>16 DEF PlayStoneCallback, ClientSends
    <3>2. Append(up[c], m) \in Seq(UpMsgs)
      <4> HIDE DEF m
      <4> QED BY <1>5, <2>2
    <3>3. UNCHANGED down BY <1>16 DEF PlayStoneCallback
    <3> HIDE DEF m
    <3>4. up' \in [Clients -> Seq(UpMsgs)] BY <1>7, <3>1, <3>2
    <3> QED BY <1>7, <3>3, <3>4
  <2>4. Play'
    <3>1. /\ plays' = [plays EXCEPT ![c] = @ + 1] /\ plays[c] < MaxPlays
          /\ UNCHANGED <<phase, told>>
      BY <1>16 DEF PlayStoneCallback
    <3>2. plays \in [Clients -> 0..MaxPlays] /\ plays[c] + 1 \in 0..MaxPlays
      <4>1. plays \in [Clients -> 0..MaxPlays] /\ MaxPlays \in Nat
        BY <1>1, GameAssumption
      <4> QED BY <4>1, <3>1
    <3>3. plays' \in [Clients -> 0..MaxPlays]
      BY <3>1, <3>2
    <3> QED BY <1>1, <3>1, <3>3
  <2> QED BY <1>2, <1>3, <1>4, <2>3, <2>4
<1>17. CASE FreeSession(c)
  <2>1. Chan' /\ Play' BY <1>1, <1>17 DEF FreeSession
  <2> QED BY <1>2, <1>3, <1>4, <2>1
<1> QED BY <1>8, <1>9, <1>10, <1>11, <1>12, <1>13, <1>14, <1>15, <1>16, <1>17

\* The types survive a step of the server.
LEMMA TypedServer ==
  ASSUME Typed, Seats, NEW c \in Clients, Pop(c), Outcome(c)
  PROVE  Typed'
<1> USE DEF clientVars, roomVars
<1> DEFINE Room ==
      /\ gameRoom \in [Clients -> Rooms \cup {NoRoom}] /\ rooms \subseteq Rooms
      /\ players \in [Rooms -> Seq(Clients)] /\ \A r \in Rooms : Len(players[r]) <= 2
           Play ==
      /\ stones \in [Rooms -> Boards] /\ start \in [Rooms -> BOOLEAN]
      /\ games \in Nat /\ game \in [Rooms -> 0..games]
           Sets ==
      /\ managed \subseteq Clients /\ signed \subseteq Clients /\ crashed \in BOOLEAN
           Chan == down \in [Clients -> Seq(DownMsgs)]
           Rest ==
      /\ phase \in [Clients -> Phases] /\ plays \in [Clients -> 0..MaxPlays]
      /\ freed \subseteq Clients /\ late \in BOOLEAN
      /\ up \in [Clients -> Seq(UpMsgs)]
      /\ told \in [Clients -> Starts \cup {Msg("")}]
      /\ \A x \in Clients : phase[x] = "game" => told[x] \in Starts
<1>1. Room /\ Play /\ Sets /\ Chan /\ Rest
  BY DEF Typed
<1>2. Room' /\ Play' /\ Sets' /\ Chan' /\ Rest' => Typed'
  BY DEF Typed
<1>3. Rest'
  <2>1. Tail(up[c]) \in Seq(UpMsgs)
    BY HeadOfQueue DEF Pop
  <2> QED BY <1>1, <2>1 DEF Pop
<1>4. \A k \in {"S_Login(false)", "S_Login(true)", "S_LeaveGame", "S_CheckStone(false)"} :
        SendTo(c, k) => Chan'
  BY Sent, SentTypes DEF SendTo
<1>5. CASE SignUp(c)
  <2>1. Chan' BY <1>4, <1>5 DEF SignUp
  <2>2. Room' /\ Play' /\ Sets' BY <1>1, <1>5 DEF SignUp
  <2> QED BY <1>2, <1>3, <2>1, <2>2
<1>6. CASE Failure(c)
  <2>1. Chan' /\ Room' /\ Play' /\ Sets' BY <1>1, <1>6 DEF Failure
  <2> QED BY <1>2, <1>3, <2>1
<1>7. CASE Refuse(c)
  <2>1. Chan' BY <1>4, <1>7 DEF Refuse
  <2>2. Room' /\ Play' /\ Sets' BY <1>1, <1>7 DEF Refuse
  <2> QED BY <1>2, <1>3, <2>1, <2>2
<1>8. CASE Vanish(c)
  <2>1. Chan' /\ Room' /\ Play' /\ Sets' BY <1>1, <1>8 DEF Vanish
  <2> QED BY <1>2, <1>3, <2>1
<1>9. ASSUME NEW r \in Rooms, Sit(c, r) PROVE Typed'
  <2>1. <<c>> \in Seq(Clients) /\ Len(<<c>>) <= 2
    OBVIOUS
  <2>2. players' \in [Rooms -> Seq(Clients)] /\ \A x \in Rooms : Len(players'[x]) <= 2
    BY <1>1, <1>9, <2>1 DEF Sit
  <2>3. Room' BY <1>1, <1>9, <2>2 DEF Sit
  <2>4. Chan' /\ Play' /\ Sets' BY <1>1, <1>9 DEF Sit
  <2> QED BY <1>2, <1>3, <2>3, <2>4
<1>10. ASSUME NEW r \in Rooms, NEW p \in Clients, Join(c, r, p) PROVE Typed'
  <2>1. <<p, c>> \in Seq(Clients) /\ Len(<<p, c>>) <= 2
    OBVIOUS
  <2>2. players' \in [Rooms -> Seq(Clients)] /\ \A x \in Rooms : Len(players'[x]) <= 2
    BY <1>1, <1>10, <2>1 DEF Join
  <2>3. Room' BY <1>1, <1>10, <2>2 DEF Join
  <2>4. games + 1 \in Nat /\ \A x \in {p, c} :
          [Msg("S_StartGame") EXCEPT !.stone = IF x = p THEN Black ELSE White,
                                     !.game = games + 1] \in DownMsgs
    <3>1. games + 1 \in Nat
      <4>1. games \in Nat BY <1>1
      <4> QED BY <4>1
    <3>2. Black \in Types /\ White \in Types
      BY DEF Types
    <3> QED BY <3>1, <3>2, SentTypes DEF DownMsgs, GameMsgs
  <2>5. Chan' BY <1>10, <2>4, Sent DEF Join, StartGame
  <2>6. Play'
    <3>1. Fresh \in Boards
      BY DEF Fresh, Boards
    <3>2. /\ stones' = [stones EXCEPT ![r] = Fresh] /\ start' = [start EXCEPT ![r] = TRUE]
          /\ games' = games + 1 /\ game' = [game EXCEPT ![r] = games + 1]
      BY <1>10 DEF Join, StartGame
    <3>3. /\ stones \in [Rooms -> Boards] /\ start \in [Rooms -> BOOLEAN]
          /\ games \in Nat /\ game \in [Rooms -> 0..games]
      BY <1>1
    <3>4. stones' \in [Rooms -> Boards] /\ start' \in [Rooms -> BOOLEAN]
      BY <3>1, <3>2, <3>3
    <3>5. games' \in Nat /\ 0..games \subseteq 0..games' /\ games + 1 \in 0..games'
      BY <3>2, <3>3
    <3>6. game' \in [Rooms -> 0..games']
      BY <3>2, <3>3, <3>5
    <3> QED BY <3>4, <3>5, <3>6
  <2>7. Sets' BY <1>1, <1>10 DEF Join
  <2> QED BY <1>2, <1>3, <2>3, <2>5, <2>6, <2>7
<1>11. ASSUME NEW r \in Rooms, NEW m \in Placed, NEW won \in BOOLEAN, Put(c, r, m, won)
       PROVE  Typed'
  <2>1. m.cell \in Cells /\ m.stone \in Types
    BY Messages
  <2>2. \A x \in Members(r) :
          [Msg(IF won THEN "S_ThrowResult" ELSE "S_PlayStone") EXCEPT !.stone = m.stone]
            \in DownMsgs
    BY <2>1, SentTypes DEF DownMsgs, GameMsgs
  <2>3. Chan'
    BY <1>11, <2>2, Sent DEF Put
  <2>4. Play'
    <3>1. stones[r] \in [Cells -> Types \cup {Blank}]
      <4>1. stones[r] \in Boards /\ DOMAIN stones[r] = Cells
        BY <1>1, <1>11 DEF Put, Seats, RunningHasBoard
      <4>2. CASE stones[r] = NoBoard
        <5>1. Cells = {}
          BY <4>1, <4>2 DEF NoBoard
        <5> QED BY <4>2, <5>1 DEF NoBoard
      <4> QED BY <4>1, <4>2 DEF Boards
    <3>2. [stones[r] EXCEPT ![m.cell] = m.stone] \in Boards
      BY <3>1, <2>1 DEF Boards
    <3>3. stones' = [stones EXCEPT ![r] = [stones[r] EXCEPT ![m.cell] = m.stone]]
      BY <1>11 DEF Put
    <3>4. stones' \in [Rooms -> Boards]
      BY <1>1, <3>2, <3>3
    <3>5. start' \in [Rooms -> BOOLEAN] /\ UNCHANGED <<games, game>>
      BY <1>1, <1>11 DEF Put
    <3> QED BY <1>1, <3>4, <3>5
  <2>5. Room' /\ Sets' BY <1>1, <1>11 DEF Put
  <2> QED BY <1>2, <1>3, <2>3, <2>4, <2>5
<1>12. ASSUME NEW r \in Rooms, Depart(c, r, Without(players[r], c)) PROVE Typed'
  <2> DEFINE left == Without(players[r], c)
  <2>1. left \in Seq(Clients) /\ Len(left) <= 2
    BY Remaining
  <2> HIDE DEF left
  <2>2. players' \in [Rooms -> Seq(Clients)] /\ \A x \in Rooms : Len(players'[x]) <= 2
    BY <1>1, <1>12, <2>1 DEF Depart, left
  <2>3. Room'
    BY <1>1, <1>12, <2>2 DEF Depart, ForgetRoom, left
  <2>4. Chan'
    BY <1>12, Sent, SentTypes DEF Depart, left
  <2>5. Play'
    <3>1. stones' \in [Rooms -> Boards] /\ start' \in [Rooms -> BOOLEAN]
      BY <1>1, <1>12 DEF Depart, Boards
    <3> QED BY <1>1, <1>12, <3>1 DEF Depart
  <2>6. Sets' BY <1>1, <1>12 DEF Depart
  <2> QED BY <1>2, <1>3, <2>3, <2>4, <2>5, <2>6
<1> QED BY <1>5, <1>6, <1>7, <1>8, <1>9, <1>10, <1>11, <1>12 DEF Outcome

-----------------------------------------------------------------------------
(* Who sits where.                                                         *)

\* Who sits where after each outcome.
LEMMA MembersSit ==
  ASSUME Typed, NEW c \in Clients, NEW r \in Rooms, Sit(c, r)
  PROVE  \A x \in Rooms : Members(x)' = IF x = r THEN {c} ELSE Members(x)
<1>1. Range(<<c>>) = {c}
  BY Ranges
<1>2. \A x \in Rooms : players'[x] = IF x = r THEN <<c>> ELSE players[x]
  BY DEF Typed, Sit
<1> QED BY <1>1, <1>2 DEF Members

\* The players of every room after c joined r.
LEMMA MembersJoin ==
  ASSUME Typed, NEW c \in Clients, NEW r \in Rooms, NEW p \in Clients, Join(c, r, p)
  PROVE  /\ \A x \in Rooms : Members(x)' = IF x = r THEN {p, c} ELSE Members(x)
         /\ Members(r) = {p}
<1>1. Range(<<p, c>>) = {p, c} /\ Range(<<p>>) = {p}
  BY Ranges
<1>2. \A x \in Rooms : players'[x] = IF x = r THEN <<p, c>> ELSE players[x]
  BY DEF Typed, Join
<1>3. players[r] = <<p>>
  BY DEF Join
<1> QED BY <1>1, <1>2, <1>3 DEF Members

\* The players of every room after c left r.
LEMMA MembersDepart ==
  ASSUME Typed, Seats, NEW c \in Clients, NEW r \in Rooms, Depart(c, r, Without(players[r], c))
  PROVE  \A x \in Rooms : Members(x)' = IF x = r THEN Members(r) \ {c} ELSE Members(x)
<1> DEFINE left == Without(players[r], c)
<1>1. Range(left) = Members(r) \ {c}
  BY Remaining
<1>2. \A x \in Rooms : players'[x] = IF x = r THEN left ELSE players[x]
  BY DEF Typed, Depart
<1> HIDE DEF left
<1> QED BY <1>1, <1>2 DEF Members

\* A room's members and its list.
LEMMA SomebodyIn ==
  ASSUME Typed, NEW r \in Rooms
  PROVE  /\ Members(r) \subseteq Clients
         /\ players[r] = <<>> <=> Members(r) = {}
         /\ \A c : c \in Members(r) <=> \E i \in 1..Len(players[r]) : players[r][i] = c
<1>1. players[r] \in Seq(Clients) /\ DOMAIN players[r] = 1..Len(players[r])
  BY Indexes DEF Typed
<1>2. \A c : c \in Members(r) <=> \E i \in 1..Len(players[r]) : players[r][i] = c
  BY <1>1 DEF Members, Range
<1>3. players[r] # <<>> => 1 \in 1..Len(players[r])
  BY <1>1, Popped
<1>4. players[r] = <<>> => Members(r) = {}
  BY <1>2, NobodyIn DEF Members
<1>5. Members(r) \subseteq Clients
  BY <1>1, <1>2
<1> QED BY <1>2, <1>3, <1>4, <1>5

\* Only the owner of the room's new seat, or of the lost one, is affected.
LEMMA SeatsServer ==
  ASSUME Typed, Seats, Protocol, NEW c \in Clients, Pop(c), Outcome(c), Typed'
  PROVE  Seats'
<1> USE DEF roomVars
<1> DEFINE Same == UNCHANGED <<gameRoom, rooms, players, stones, start>> /\ signed \subseteq signed'
<1>1. ASSUME Same PROVE Seats'
  <2>1. \A r \in Rooms : Members(r)' = Members(r)
    BY <1>1 DEF Members
  <2> QED BY <1>1, <2>1 DEF Seats, RunningHasBoard
<1>2. CASE SignUp(c) \/ Failure(c) \/ Refuse(c) \/ Vanish(c)
  <2>1. Same
    BY <1>2 DEF SignUp, Failure, Refuse, Vanish
  <2> QED BY <1>1, <2>1
<1>3. Head(up[c]) = Msg("C_EnterRoom") => Unseated(c)
  BY HeadOfQueue DEF Pop, Protocol, Queue
<1>4. ASSUME NEW r \in Rooms, Sit(c, r) PROVE Seats'
  <2>1. \A x \in Rooms : Members(x)' = IF x = r THEN {c} ELSE Members(x)
    BY <1>4, MembersSit
  <2>2. \A x \in Rooms : players'[x] = IF x = r THEN <<c>> ELSE players[x]
    BY <1>4 DEF Typed, Sit
  <2>3. Unseated(c) /\ c \in signed
    BY <1>3, <1>4 DEF Sit
  <2>4. \A x \in Rooms : players'[x] # <<>> <=> x \in rooms'
    BY <1>4, <2>2, Lists DEF Seats, Sit
  <2>5. ASSUME NEW x \in Rooms, NEW i \in 1..Len(players'[x]), NEW j \in 1..Len(players'[x]),
               players'[x][i] = players'[x][j]
        PROVE  i = j
    BY <2>2, <2>5, Lists DEF Seats
  <2>6. ASSUME NEW x \in Rooms, NEW d \in Members(x)' PROVE gameRoom'[d] = x /\ d \in signed'
    <3>1. d \in Clients /\ gameRoom' = [gameRoom EXCEPT ![c] = r] /\ signed' = signed
      BY <2>6, <2>1, <1>4, SomebodyIn DEF Sit
    <3>2. CASE x = r
      BY <3>1, <3>2, <2>1, <2>3 DEF Typed
    <3>3. CASE x # r
      <4>1. d \in Members(x) /\ d # c BY <2>1, <2>3, <3>3 DEF Unseated, Seated
      <4> QED BY <3>1, <4>1 DEF Typed, Seats
    <3> QED BY <3>2, <3>3
  <2>7. \A d \in Clients : gameRoom'[d] \in rooms' \cup {NoRoom}
    BY <1>4 DEF Sit, Typed, Seats
  <2>8. RunningHasBoard'
    <3>1. ~start[r]
      BY <1>4, Lists DEF Sit, Seats, RunningHasBoard
    <3> QED BY <1>4, <2>2, <3>1 DEF Sit, Seats, RunningHasBoard
  <2> QED BY <2>4, <2>5, <2>6, <2>7, <2>8 DEF Seats
<1>5. ASSUME NEW r \in Rooms, NEW p \in Clients, Join(c, r, p) PROVE Seats'
  <2>1. /\ \A x \in Rooms : Members(x)' = IF x = r THEN {p, c} ELSE Members(x)
        /\ Members(r) = {p}
    BY <1>5, MembersJoin
  <2>2. \A x \in Rooms : players'[x] = IF x = r THEN <<p, c>> ELSE players[x]
    BY <1>5 DEF Typed, Join
  <2>3. Unseated(c) /\ c \in signed /\ c # p
    BY <1>3, <1>5, <2>1 DEF Join, Unseated, Seated
  <2>4. \A x \in Rooms : players'[x] # <<>> <=> x \in rooms'
    BY <1>5, <2>2, Lists DEF Seats, Join
  <2>5. ASSUME NEW x \in Rooms, NEW i \in 1..Len(players'[x]), NEW j \in 1..Len(players'[x]),
               players'[x][i] = players'[x][j]
        PROVE  i = j
    BY <2>2, <2>3, <2>5, Lists DEF Seats
  <2>6. ASSUME NEW x \in Rooms, NEW d \in Members(x)' PROVE gameRoom'[d] = x /\ d \in signed'
    <3>1. d \in Clients /\ gameRoom' = [gameRoom EXCEPT ![c] = r] /\ signed' = signed
      BY <2>6, <2>1, <1>5, SomebodyIn DEF Join
    <3>2. CASE x = r
      <4>1. d = p \/ d = c BY <2>1, <2>6, <3>2
      <4>2. gameRoom[p] = r /\ p \in signed BY <2>1 DEF Seats
      <4> QED BY <3>1, <3>2, <4>1, <4>2, <2>3 DEF Typed
    <3>3. CASE x # r
      <4>1. d \in Members(x) /\ d # c BY <2>1, <2>3, <3>3 DEF Unseated, Seated
      <4> QED BY <3>1, <4>1 DEF Typed, Seats
    <3> QED BY <3>2, <3>3
  <2>7. \A d \in Clients : gameRoom'[d] \in rooms' \cup {NoRoom}
    BY <1>5 DEF Join, Typed, Seats
  <2>8. RunningHasBoard'
    <3>1. DOMAIN Fresh = Cells /\ Len(<<p, c>>) = 2
      BY Lists DEF Fresh
    <3>2. stones' = [stones EXCEPT ![r] = Fresh] /\ start' = [start EXCEPT ![r] = TRUE]
      BY <1>5 DEF Join, StartGame
    <3> QED BY <2>2, <3>1, <3>2 DEF Typed, Seats, RunningHasBoard
  <2> QED BY <2>4, <2>5, <2>6, <2>7, <2>8 DEF Seats
<1>6. ASSUME NEW r \in Rooms, NEW m \in Placed, NEW won \in BOOLEAN, Put(c, r, m, won)
      PROVE  Seats'
  <2>1. \A x \in Rooms : Members(x)' = Members(x)
    BY <1>6 DEF Put, Members
  <2>2. RunningHasBoard'
    <3>1. stones' = [stones EXCEPT ![r][m.cell] = m.stone] /\ start' = [start EXCEPT ![r] = ~won]
      BY <1>6 DEF Put
    <3>2. \A x \in Rooms : DOMAIN stones'[x] = DOMAIN stones[x]
      BY <3>1 DEF Typed
    <3>3. start[r] /\ \A x \in Rooms : x # r => start'[x] = start[x]
      BY <1>6, <3>1 DEF Put, Typed
    <3>4. UNCHANGED players
      BY <1>6 DEF Put
    <3> QED BY <3>2, <3>3, <3>4 DEF Seats, RunningHasBoard
  <2> QED BY <1>6, <2>1, <2>2 DEF Put, Seats
<1>7. ASSUME NEW r \in Rooms, Depart(c, r, Without(players[r], c)) PROVE Seats'
  <2> DEFINE left == Without(players[r], c)
  <2>1. \A x \in Rooms : Members(x)' = IF x = r THEN Members(r) \ {c} ELSE Members(x)
    BY <1>7, MembersDepart
  <2>2. \A x \in Rooms : players'[x] = IF x = r THEN left ELSE players[x]
    BY <1>7 DEF Typed, Depart
  <2>3. \A i, j \in 1..Len(left) : left[i] = left[j] => i = j
    BY Remaining
  <2>4. \/ left = <<>> /\ rooms' = rooms \ {r}
           /\ gameRoom' = [p \in Clients |-> IF gameRoom[p] = r THEN NoRoom ELSE gameRoom[p]]
        \/ left # <<>> /\ UNCHANGED <<rooms, gameRoom>>
    BY <1>7 DEF Depart, ForgetRoom
  <2> HIDE DEF left
  <2>5. \A x \in Rooms : players'[x] # <<>> <=> x \in rooms'
    BY <1>7, <2>2, <2>4 DEF Seats, Depart
  <2>6. ASSUME NEW x \in Rooms, NEW i \in 1..Len(players'[x]), NEW j \in 1..Len(players'[x]),
               players'[x][i] = players'[x][j]
        PROVE  i = j
    BY <2>2, <2>3, <2>6 DEF Seats
  <2>7. ASSUME NEW x \in Rooms, NEW d \in Members(x)' PROVE gameRoom'[d] = x /\ d \in signed'
    <3>1. d \in Members(x) /\ d \in Clients /\ signed' = signed
      BY <1>7, <2>1, <2>7, SomebodyIn DEF Depart
    <3>2. gameRoom[d] = x /\ d \in signed
      BY <3>1 DEF Seats
    <3>3. left = <<>> => x # r
      <4>1. left = <<>> => players'[r] = <<>> BY <2>2
      <4>2. players'[r] = <<>> => Members(r)' = {} BY NobodyIn DEF Members
      <4> QED BY <4>1, <4>2, <2>7
    <3> QED BY <2>4, <3>1, <3>2, <3>3
  <2>8. \A d \in Clients : gameRoom'[d] \in rooms' \cup {NoRoom}
    <3>1. ASSUME NEW d \in Clients PROVE gameRoom[d] \in rooms \cup {NoRoom}
      BY DEF Seats
    <3>2. CASE left = <<>>
      <4>1. \A d \in Clients : gameRoom'[d] = IF gameRoom[d] = r THEN NoRoom ELSE gameRoom[d]
        BY <2>4, <3>2
      <4> QED BY <2>4, <3>1, <3>2, <4>1
    <3>3. CASE left # <<>>
      BY <2>4, <3>1, <3>3
    <3> QED BY <3>2, <3>3
  <2>9. RunningHasBoard'
    BY <1>7, <2>2 DEF Depart, Typed, Seats, RunningHasBoard
  <2> QED BY <2>5, <2>6, <2>7, <2>8, <2>9 DEF Seats
<1> QED BY <1>2, <1>4, <1>5, <1>6, <1>7 DEF Outcome

-----------------------------------------------------------------------------
(* Damage.                                                                 *)

\* A ghost, a freed session or a crash comes with a late packet.
LEMMA DamageStep ==
  ASSUME Typed, Seats, Protocol, Damage, [Next]_vars
  PROVE  Damage'
<1> USE DEF clientVars, roomVars
<1> DEFINE Ghost == \A r \in rooms : Members(r) \subseteq managed
<1>1. ASSUME UNCHANGED <<late, crashed, freed, rooms, players>>, managed \subseteq managed'
      PROVE  Damage'
  <2>1. \A r \in Rooms : Members(r)' = Members(r)
    BY <1>1 DEF Members
  <2> QED BY <1>1, <2>1 DEF Damage, SeatsManaged, Typed
<1>2. CASE UNCHANGED vars
  BY <1>1, <1>2 DEF vars
<1>3. ASSUME NEW c \in Clients, FreeSession(c) PROVE Damage'
  <2>1. late
    BY <1>3 DEF FreeSession, Damage, SeatsManaged
  <2> QED BY <1>3, <2>1 DEF FreeSession, Damage, SeatsManaged
<1>4. ASSUME NEW c \in Clients, HandlePacket(c) PROVE Damage'
  <2>1. Pop(c) /\ Outcome(c)
    BY <1>4, HandleSplit
  <2>2. (late => late') /\ freed' = freed
    BY <2>1 DEF Pop, Typed
  <2>3. CASE late'
    BY <2>3 DEF Damage, SeatsManaged
  <2>4. CASE ~late'
    <3>1. ~late /\ freed' = {} /\ ~crashed /\ (Head(up[c]) # Disc => c \in managed)
      BY <2>1, <2>2, <2>4 DEF Pop, Damage
    <3>2. \A r \in rooms : Members(r) \subseteq managed
      BY <3>1 DEF Damage, SeatsManaged
    <3>3. Disc # Msg("C_EnterRoom")
      BY Messages
    <3>4. CASE \/ SignUp(c) \/ Refuse(c)
               \/ \E r \in Rooms, m \in Placed, won \in BOOLEAN : Put(c, r, m, won)
      <4>1. UNCHANGED <<crashed, rooms, players, managed>>
        BY <3>4 DEF SignUp, Refuse, Put
      <4>2. \A r \in Rooms : Members(r)' = Members(r)
        BY <4>1 DEF Members
      <4> QED BY <3>1, <3>2, <4>1, <4>2 DEF Damage, SeatsManaged, Typed
    <3>5. ASSUME NEW r \in Rooms, Sit(c, r) PROVE Damage'
      <4>1. \A x \in Rooms : Members(x)' = IF x = r THEN {c} ELSE Members(x)
        BY <3>5, MembersSit
      <4>2. UNCHANGED <<crashed, managed>> /\ rooms' = rooms \cup {r} /\ c \in managed
        BY <3>1, <3>3, <3>5 DEF Sit
      <4> QED BY <3>1, <3>2, <4>1, <4>2 DEF Damage, SeatsManaged, Typed
    <3>6. ASSUME NEW r \in Rooms, NEW p \in Clients, Join(c, r, p) PROVE Damage'
      <4>1. /\ \A x \in Rooms : Members(x)' = IF x = r THEN {p, c} ELSE Members(x)
            /\ Members(r) = {p}
        BY <3>6, MembersJoin
      <4>2. UNCHANGED <<crashed, managed>> /\ rooms' = rooms /\ r \in rooms /\ c \in managed
        BY <3>1, <3>3, <3>6 DEF Join
      <4> QED BY <3>1, <3>2, <4>1, <4>2 DEF Damage, SeatsManaged, Typed
    <3>7. ASSUME NEW r \in Rooms, Depart(c, r, Without(players[r], c)) PROVE Damage'
      <4>1. \A x \in Rooms : Members(x)' = IF x = r THEN Members(r) \ {c} ELSE Members(x)
        BY <3>7, MembersDepart
      <4>2. \A x \in Rooms : c \in Members(x) => x = r
        BY <3>7 DEF Depart, Seats
      <4>3. UNCHANGED crashed /\ managed' = managed \ {c} /\ rooms' \subseteq rooms
        BY <3>7 DEF Depart, ForgetRoom
      <4>4. ASSUME NEW x \in rooms' PROVE Members(x)' \subseteq managed'
        <5>1. x \in rooms /\ x \in Rooms
          BY <4>3 DEF Typed
        <5>2. Members(x) \subseteq managed
          BY <3>2, <5>1
        <5>3. c \notin Members(x)'
          BY <4>1, <4>2, <5>1
        <5>4. Members(x)' \subseteq Members(x)
          BY <4>1, <5>1
        <5> QED BY <4>3, <5>2, <5>3, <5>4
      <4> QED BY <3>1, <4>3, <4>4 DEF Damage, SeatsManaged
    <3>8. CASE Vanish(c)
      <4>1. \A x \in Rooms : Members(x)' = Members(x) /\ c \notin Members(x)
        BY <3>8 DEF Vanish, Members, Seated
      <4>2. UNCHANGED <<crashed, rooms>> /\ managed' = managed \ {c}
        BY <3>8 DEF Vanish
      <4> QED BY <3>1, <3>2, <4>1, <4>2 DEF Damage, SeatsManaged, Typed
    <3>9. ~Failure(c)
      BY <2>4 DEF Failure
    <3> QED BY <2>1, <3>4, <3>5, <3>6, <3>7, <3>8, <3>9 DEF Outcome
  <2> QED BY <2>3, <2>4
<1>5. ASSUME NEW c \in Clients,
             \/ OnConnected(c) \/ OnDisconnected(c) \/ SubmitName(c)
             \/ LoginRefused(c) \/ LoginAccepted(c) \/ GameBegins(c) \/ GameLeft(c)
             \/ \E kind \in {"S_PlayStone", "S_ThrowResult", "S_CheckStone(false)"} :
                  GameNews(c, kind)
             \/ \E cell \in Cells : PlayStoneCallback(c, cell)
      PROVE  Damage'
  BY <1>1, <1>5 DEF OnConnected, OnDisconnected, SubmitName, LoginRefused,
       LoginAccepted, GameBegins,
       GameLeft, GameNews, PlayStoneCallback
<1> QED BY <1>2, <1>3, <1>4, <1>5 DEF Next

-----------------------------------------------------------------------------
(* What is under way.                                                      *)

\* Whoever is not concerned by a step stays where it was.
LEMMA Bystander ==
  ASSUME Typed, NEW x \in Clients, Stage(x) /\ Queue(x),
         up'[x] = up[x], phase'[x] = phase[x], x \in managed' <=> x \in managed,
         signed \subseteq signed', Unseated(x) => Unseated(x)', Seated(x) => Seated(x)',
         crashed => crashed',
         \/ down'[x] = down[x]
         \/ /\ Online(x) /\ Seated(x)
            /\ \E m \in GameMsgs : down'[x] = Append(down[x], m)
  PROVE  Stage(x)' /\ Queue(x)'
<1>1. Queue(x)'
  BY DEF Queue, Alone
<1>2. CASE down'[x] = down[x]
  <2>1. (Waiting(x) => Waiting(x)') /\ (Playing(x) => Playing(x)')
    BY <1>2 DEF Waiting, Playing
  <2> QED BY <1>1, <1>2, <2>1 DEF Stage
<1>3. ASSUME Online(x), Seated(x), NEW m \in GameMsgs, down'[x] = Append(down[x], m)
      PROVE  Stage(x)'
  <2>1. Playing(x) /\ phase[x] \in {"lobby", "game"} /\ x \in managed /\ x \in signed
    BY <1>3 DEF Stage, Waiting, Unseated, Online, Typed, Phases
  <2>2. down'[x] \in Seq(GameMsgs)
    BY <1>3, <2>1, Appended DEF Playing
  <2> QED BY <2>1, <2>2, <1>3 DEF Stage, Playing
<1> QED BY <1>1, <1>2, <1>3

\* Seats depend on the players' lists and pointers alone.
LEMMA Seats0 ==
  ASSUME UNCHANGED <<players, gameRoom>>
  PROVE  \A x : (Unseated(x)' <=> Unseated(x)) /\ (Seated(x)' <=> Seated(x))
BY DEF Unseated, Seated, Members

\* The rest of a queue whose head was handled.
LEMMA QueueTail ==
  ASSUME Typed, NEW c \in Clients, Queue(c), Pop(c),
         signed \subseteq signed',
         Head(up[c]) # Disc => managed' = managed,
         Head(up[c]) = Disc => managed' = managed \ {c},
         (Unseated(c) => Unseated(c)') \/ (Alone(c, 1) /\ Head(up[c]) # Disc),
         Seated(c) => Seated(c)' \/ Head(up[c]) = Disc,
         crashed => crashed'
  PROVE  Queue(c)'
<1> DEFINE n == Len(up[c])
<1>1. /\ up[c] \in Seq(UpMsgs) /\ n \in Nat \ {0} /\ Head(up[c]) = up[c][1]
      /\ up'[c] \in Seq(UpMsgs) /\ Len(up'[c]) = n - 1
      /\ \A i \in 1..n - 1 : up'[c][i] = up[c][i + 1]
  <2>1. up[c] # <<>> /\ up'[c] = Tail(up[c]) /\ up[c] \in Seq(UpMsgs)
    BY DEF Pop, Typed
  <2>2. n \in Nat /\ 1 \in 1..n
    BY <2>1, HeadOfQueue
  <2> QED BY <2>1, <2>2, HeadOfQueue
<1>2. UNCHANGED phase
  BY DEF Pop, clientVars
<1> HIDE DEF n
<1>3. ASSUME NEW i \in 1..n - 1
      PROVE  i + 1 \in 1..n /\ up'[c][i] = up[c][i + 1] /\ i + 1 # 1
  BY <1>1, <1>3
<1>4. ASSUME NEW i \in 1..n - 1, Alone(c, i + 1) PROVE Alone(c, i)'
  <2>1. ASSUME NEW j \in 1..n - 1 PROVE up'[c][j] = Disc \/ j = i
    <3>1. j + 1 \in 1..n /\ up'[c][j] = up[c][j + 1]
      BY <1>3
    <3>2. up[c][j + 1] = Disc \/ j + 1 = i + 1
      BY <3>1, <1>4 DEF Alone, n
    <3> QED BY <3>1, <3>2
  <2> QED BY <1>1, <2>1 DEF Alone
<1>5. Alone(c, 1) => \A i \in 1..n - 1 : up'[c][i] = Disc
  BY <1>3 DEF Alone, n
<1>6. \A m \in Placed : m # Disc
  BY Messages
<1>7. ASSUME NEW i \in 1..n - 1
      PROVE  /\ up'[c][i] = Msg("C_SignUp") => Unseated(c)' /\ Alone(c, i)'
             /\ up'[c][i] = Msg("C_EnterRoom") => c \in signed' /\ Unseated(c)' /\ Alone(c, i)'
             /\ up'[c][i] \in Placed =>
                  c \in signed' /\ (c \in managed' => crashed' \/ Seated(c)')
             /\ up'[c][i] = Disc =>
                  /\ phase'[c] = "gone" /\ c \in managed'
                  /\ \A j \in 1..n - 1 : up'[c][j] = Disc => j = i
  <2>1. i + 1 \in 1..Len(up[c]) /\ up'[c][i] = up[c][i + 1] /\ i + 1 # 1
    BY <1>3 DEF n
  <2>2. CASE up'[c][i] = Disc
    <3>1. /\ phase[c] = "gone" /\ c \in managed
          /\ \A j \in 1..Len(up[c]) : up[c][j] = Disc => j = i + 1
      BY <2>1, <2>2 DEF Queue
    <3>2. Head(up[c]) # Disc
      <4>1. 1 \in 1..Len(up[c]) /\ Head(up[c]) = up[c][1]
        BY <1>1 DEF n
      <4> QED BY <2>1, <3>1, <4>1
    <3>3. ASSUME NEW j \in 1..n - 1, up'[c][j] = Disc PROVE j = i
      <4>1. j + 1 \in 1..Len(up[c]) /\ up[c][j + 1] = Disc
        BY <1>3, <3>3 DEF n
      <4> QED BY <3>1, <4>1
    <3> QED BY <1>2, <1>6, <2>2, <3>1, <3>2, <3>3, Messages
  <2>3. CASE up'[c][i] # Disc
    <3>1. Unseated(c) => Unseated(c)'
      BY <1>5, <2>3
    <3>2. up'[c][i] \in Placed => c \in signed /\ (c \in managed => crashed \/ Seated(c))
      BY <2>1 DEF Queue
    <3>3. up'[c][i] = Msg("C_SignUp") => Unseated(c) /\ Alone(c, i + 1)
      BY <2>1 DEF Queue
    <3>4. up'[c][i] = Msg("C_EnterRoom") => c \in signed /\ Unseated(c) /\ Alone(c, i + 1)
      BY <2>1 DEF Queue
    <3> QED BY <1>4, <2>3, <3>1, <3>2, <3>3, <3>4
  <2> QED BY <2>2, <2>3
<1>8. ASSUME phase'[c] = "gone", c \in managed' PROVE \E i \in 1..n - 1 : up'[c][i] = Disc
  <2>1. Head(up[c]) # Disc /\ c \in managed /\ phase[c] = "gone"
    BY <1>2, <1>8
  <2>2. PICK k \in 1..n : up[c][k] = Disc
    BY <2>1 DEF Queue, n
  <2>3. k - 1 \in 1..n - 1 /\ (k - 1) + 1 = k
    BY <1>1, <2>1, <2>2
  <2> QED BY <1>1, <2>2, <2>3
<1> QED BY <1>1, <1>7, <1>8 DEF Queue

\* A handled packet, for the clients that did not send it.
LEMMA ServerOthers ==
  ASSUME Typed, Seats, Protocol, NEW c \in Clients, Pop(c), Outcome(c),
         NEW x \in Clients, x # c
  PROVE  Stage(x)' /\ Queue(x)'
<1> USE DEF clientVars, roomVars
<1>1. /\ up'[x] = up[x] /\ phase'[x] = phase[x] /\ Stage(x) /\ Queue(x) /\ ~crashed
      /\ x \in managed' <=> x \in managed
      /\ signed \subseteq signed'
  BY DEF Pop, Protocol, Typed, Outcome, SignUp, Failure, Refuse, Vanish, Sit, Join, Put, Depart
<1>2. ASSUME down'[x] = down[x], UNCHANGED <<players, gameRoom>>
      PROVE  Stage(x)' /\ Queue(x)'
  BY <1>1, <1>2, Bystander, Seats0
<1>3. ASSUME NEW k, SendTo(c, k) PROVE down'[x] = down[x]
  BY <1>3 DEF SendTo, SendAll
<1>4. CASE SignUp(c) \/ Refuse(c)
  BY <1>2, <1>3, <1>4 DEF SignUp, Refuse
<1>5. CASE Failure(c) \/ Vanish(c)
  BY <1>2, <1>5 DEF Failure, Vanish
<1>6. ASSUME NEW r \in Rooms, Sit(c, r) PROVE Stage(x)' /\ Queue(x)'
  <2>1. \A y \in Rooms : Members(y)' = IF y = r THEN {c} ELSE Members(y)
    BY <1>6, MembersSit
  <2>2. Members(r) = {}
    BY <1>6, NobodyIn DEF Sit, Members
  <2>3. gameRoom'[x] = gameRoom[x] /\ down'[x] = down[x]
    BY <1>6 DEF Sit, Typed
  <2>4. (Unseated(x) => Unseated(x)') /\ (Seated(x) => Seated(x)')
    BY <2>1, <2>2, <2>3 DEF Unseated, Seated
  <2> QED BY <1>1, <2>3, <2>4, Bystander
<1>7. ASSUME NEW r \in Rooms, NEW p \in Clients, Join(c, r, p) PROVE Stage(x)' /\ Queue(x)'
  <2>1. /\ \A y \in Rooms : Members(y)' = IF y = r THEN {p, c} ELSE Members(y)
        /\ Members(r) = {p}
    BY <1>7, MembersJoin
  <2>2. gameRoom'[x] = gameRoom[x]
    BY <1>7 DEF Join, Typed
  <2>3. (Unseated(x) => Unseated(x)') /\ (Seated(x) => Seated(x)')
    BY <2>1, <2>2 DEF Unseated, Seated
  <2>4. \/ down'[x] = down[x]
        \/ /\ Online(x) /\ Seated(x)
           /\ \E m \in GameMsgs : down'[x] = Append(down[x], m)
    <3> DEFINE m == [Msg("S_StartGame") EXCEPT !.stone = IF x = p THEN Black ELSE White,
                                               !.game = games + 1]
    <3>1. m \in GameMsgs
      <4>1. Black \in Types /\ White \in Types
        BY DEF Types
      <4>2. games + 1 \in Nat
        BY NextGame
      <4> QED BY <4>1, <4>2, SentTypes DEF GameMsgs
    <3>2. down'[x] = IF x \in {p, c} /\ Online(x) THEN Append(down[x], m) ELSE down[x]
      BY <1>7 DEF Join, StartGame, SendAll
    <3>3. x = p => Seated(x)
      BY <2>1 DEF Seated
    <3> HIDE DEF m
    <3> QED BY <3>1, <3>2, <3>3
  <2> QED BY <1>1, <2>3, <2>4, Bystander
<1>8. ASSUME NEW r \in Rooms, NEW m \in Placed, NEW won \in BOOLEAN, Put(c, r, m, won)
      PROVE  Stage(x)' /\ Queue(x)'
  <2> DEFINE n == [Msg(IF won THEN "S_ThrowResult" ELSE "S_PlayStone") EXCEPT !.stone = m.stone]
  <2>1. n \in GameMsgs
    BY Messages, SentTypes DEF GameMsgs
  <2>2. down'[x] = IF x \in Members(r) /\ Online(x) THEN Append(down[x], n) ELSE down[x]
    BY <1>8 DEF Put, SendAll
  <2>3. (Unseated(x) => Unseated(x)') /\ (Seated(x) => Seated(x)')
    BY <1>8, Seats0 DEF Put
  <2>4. x \in Members(r) => Seated(x)
    BY DEF Seated
  <2> HIDE DEF n
  <2> QED BY <1>1, <2>1, <2>2, <2>3, <2>4, Bystander
<1>9. ASSUME NEW r \in Rooms, Depart(c, r, Without(players[r], c)) PROVE Stage(x)' /\ Queue(x)'
  <2> DEFINE left == Without(players[r], c)
  <2>1. \A y \in Rooms : Members(y)' = IF y = r THEN Members(r) \ {c} ELSE Members(y)
    BY <1>9, MembersDepart
  <2>2. gameRoom[x] = NoRoom => gameRoom'[x] = NoRoom
    BY <1>9 DEF Depart, ForgetRoom, Typed
  <2>3. (Unseated(x) => Unseated(x)') /\ (Seated(x) => Seated(x)')
    BY <2>1, <2>2 DEF Unseated, Seated
  <2>4. down'[x] = IF x \in Range(left) /\ Online(x)
                   THEN Append(down[x], Msg("S_LeaveGame")) ELSE down[x]
    BY <1>9 DEF Depart, SendAll
  <2>5. x \in Range(left) => Seated(x)
    BY Remaining DEF Seated
  <2>6. Msg("S_LeaveGame") \in GameMsgs
    BY DEF GameMsgs, Leaves
  <2> QED BY <1>1, <2>3, <2>4, <2>5, <2>6, Bystander
<1> QED BY <1>4, <1>5, <1>6, <1>7, <1>8, <1>9 DEF Outcome

\* The kinds of what is under way tell how far a client has come.
LEMMA Handled ==
  ASSUME Typed, Protocol, NEW c \in Clients, Pop(c)
  PROVE  /\ Head(up[c]) = Msg("C_SignUp") =>
              \/ phase[c] = "gone"
              \/ phase[c] = "login" /\ up[c] = <<Msg("C_SignUp")>> /\ down[c] = <<>>
         /\ Head(up[c]) = Msg("C_EnterRoom") => phase[c] = "gone" \/ Waiting(c)
         /\ Head(up[c]) \in Placed =>
              phase[c] = "gone" \/ (phase[c] \in {"lobby", "game"} /\ Playing(c))
         /\ Head(up[c]) = Disc => phase[c] = "gone"
         /\ phase[c] \in {"login", "lobby", "game", "gone"}
<1>1. Stage(c) /\ Queue(c) /\ up[c] # <<>> /\ phase[c] \in Phases
  BY DEF Protocol, Pop, Typed
<1>2. /\ Head(<<Msg("C_SignUp")>>) = Msg("C_SignUp")
      /\ Head(<<Msg("C_EnterRoom")>>) = Msg("C_EnterRoom")
  OBVIOUS
<1>3. up[c] \in Seq(Placed) => Head(up[c]) \in Placed
  BY <1>1, Popped
<1>4. /\ Msg("C_SignUp") # Msg("C_EnterRoom") /\ Msg("C_SignUp") # Disc
      /\ Msg("C_EnterRoom") # Disc
      /\ Msg("C_SignUp") \notin Placed /\ Msg("C_EnterRoom") \notin Placed /\ Disc \notin Placed
  BY Messages
<1> QED BY <1>1, <1>2, <1>3, <1>4 DEF Stage, Waiting, Playing, Phases

\* A handled packet, for its own client.
LEMMA ServerOwn ==
  ASSUME Typed, Seats, Protocol, NEW c \in Clients, Pop(c), Outcome(c)
  PROVE  Stage(c)' /\ Queue(c)'
<1> USE DEF clientVars, roomVars
<1>1. /\ up[c] # <<>> /\ up'[c] = Tail(up[c]) /\ phase' = phase /\ Stage(c) /\ Queue(c) /\ ~crashed
      /\ phase[c] \in {"login", "lobby", "game", "gone"}
  BY Handled DEF Pop, Protocol, Typed
<1>2. Disc # Msg("C_SignUp") /\ Disc # Msg("C_EnterRoom") /\ Disc \notin Placed
      /\ Msg("C_SignUp") \notin Placed /\ Msg("C_EnterRoom") \notin Placed
  BY Messages
<1>3. Tail(<<Msg("C_SignUp")>>) = <<>> /\ Tail(<<Msg("C_EnterRoom")>>) = <<>>
      /\ <<>> \in Seq(Placed) /\ <<>> \in Seq(GameMsgs)
  OBVIOUS
<1>4. up[c] \in Seq(Placed) => up'[c] \in Seq(Placed)
  BY <1>1, Popped
<1>5. Head(up[c]) \in {Msg("C_SignUp"), Msg("C_EnterRoom")} => Alone(c, 1)
  BY <1>2, HeadOfQueue, <1>1 DEF Queue
<1>6. ASSUME NEW m \in GameMsgs, Playing(c) PROVE Append(down[c], m) \in Seq(GameMsgs)
  BY <1>6, Appended DEF Playing
<1>7. CASE SignUp(c)
  <2>1. UNCHANGED <<players, gameRoom, crashed, managed>> /\ signed' = signed \cup {c}
    BY <1>7 DEF SignUp
  <2>2. (Unseated(c)' <=> Unseated(c)) /\ (Seated(c)' <=> Seated(c))
    BY <2>1, Seats0
  <2>3. Queue(c)'
    BY <1>2, <1>7, <2>1, <2>2, <1>1, QueueTail DEF SignUp
  <2>4. CASE phase[c] = "gone"
    <3>1. down'[c] = down[c]
      BY <1>7, <2>4 DEF SignUp, SendTo, SendAll, Online
    <3> QED BY <1>1, <2>3, <2>4, <3>1 DEF Stage
  <2>5. CASE phase[c] = "login" /\ up[c] = <<Msg("C_SignUp")>> /\ down[c] = <<>>
    <3>1. down'[c] = Append(<<>>, Msg("S_Login(true)"))
      BY <1>7, <2>5 DEF SignUp, SendTo, SendAll, Online
    <3>2. up'[c] = <<>> /\ down'[c] = <<Msg("S_Login(true)")>>
      BY <1>1, <1>3, <2>5, <3>1, Lists
    <3> QED BY <1>1, <2>1, <2>2, <2>3, <2>5, <3>2 DEF Stage
  <2> QED BY <1>7, <2>4, <2>5, Handled DEF SignUp
<1>8. CASE Failure(c)
  <2>1. /\ UNCHANGED <<players, gameRoom, down, signed>> /\ crashed'
        /\ Head(up[c]) # Disc => managed' = managed
        /\ Head(up[c]) = Disc => managed' = managed \ {c}
    BY <1>8 DEF Failure
  <2>2. (Unseated(c)' <=> Unseated(c)) /\ (Seated(c)' <=> Seated(c))
    BY <2>1, Seats0
  <2>3. Queue(c)'
    BY <2>1, <2>2, <1>1, QueueTail
  <2>4. CASE phase[c] = "gone"
    BY <1>1, <2>1, <2>3, <2>4 DEF Stage
  <2>5. CASE phase[c] # "gone"
    <3>1. phase[c] \in {"lobby", "game"} /\ c \in managed' /\ c \in signed'
      <4>1. phase[c] # "login"
        <5>1. phase[c] = "login" => Head(up[c]) = Msg("C_SignUp")
          <6>1. phase[c] = "login" => up[c] = <<Msg("C_SignUp")>>
            BY <1>1 DEF Stage
          <6> QED BY <6>1
        <5> QED BY <1>8, <5>1 DEF Failure
      <4> QED BY <1>1, <2>1, <2>5, <4>1, Handled DEF Stage
    <3>2. up'[c] \in Seq(Placed) /\ down'[c] \in Seq(GameMsgs)
      BY <1>1, <1>3, <1>4, <2>1, <3>1 DEF Stage, Waiting, Playing
    <3> QED BY <1>1, <2>1, <2>3, <3>1, <3>2 DEF Stage, Playing
  <2> QED BY <2>4, <2>5
<1>9. ASSUME NEW m \in GameMsgs, Head(up[c]) \in Placed,
             UNCHANGED <<players, gameRoom, managed, signed, crashed>>,
             down'[c] = down[c] \/ (Online(c) /\ down'[c] = Append(down[c], m))
      PROVE  Stage(c)' /\ Queue(c)'
  <2>1. (Unseated(c)' <=> Unseated(c)) /\ (Seated(c)' <=> Seated(c))
    BY <1>9, Seats0
  <2>2. Queue(c)'
    BY <1>1, <1>2, <1>9, <2>1, QueueTail
  <2>3. CASE phase[c] = "gone"
    BY <1>1, <1>9, <2>2, <2>3 DEF Stage, Online
  <2>4. CASE phase[c] \in {"lobby", "game"} /\ Playing(c)
    <3>1. Playing(c)'
      BY <1>4, <1>6, <1>9, <2>1, <2>4 DEF Playing
    <3> QED BY <1>1, <1>9, <2>2, <2>4, <3>1 DEF Stage
  <2> QED BY <1>9, <2>3, <2>4, Handled
<1>10. CASE Refuse(c)
  <2>1. Msg("S_CheckStone(false)") \in GameMsgs
    BY DEF GameMsgs
  <2>2. down'[c] = down[c] \/ (Online(c) /\ down'[c] = Append(down[c], Msg("S_CheckStone(false)")))
    BY <1>10 DEF Refuse, SendTo, SendAll
  <2> QED BY <1>9, <1>10, <2>1, <2>2 DEF Refuse
<1>11. ASSUME NEW r \in Rooms, NEW m \in Placed, NEW won \in BOOLEAN, Put(c, r, m, won)
       PROVE  Stage(c)' /\ Queue(c)'
  <2> DEFINE n == [Msg(IF won THEN "S_ThrowResult" ELSE "S_PlayStone") EXCEPT !.stone = m.stone]
  <2>1. n \in GameMsgs
    BY Messages, SentTypes DEF GameMsgs
  <2>2. down'[c] = down[c] \/ (Online(c) /\ down'[c] = Append(down[c], n))
    BY <1>11 DEF Put, SendAll
  <2> HIDE DEF n
  <2> QED BY <1>9, <1>11, <2>1, <2>2 DEF Put
<1>12. ASSUME Head(up[c]) = Msg("C_EnterRoom"), Seated(c)', NEW m \in GameMsgs,
              UNCHANGED <<managed, signed, crashed>>, c \in signed,
              down'[c] = down[c] \/ (Online(c) /\ down'[c] = Append(down[c], m))
       PROVE  Stage(c)' /\ Queue(c)'
  <2>1. Queue(c)'
    BY <1>1, <1>2, <1>5, <1>12, QueueTail
  <2>2. CASE phase[c] = "gone"
    BY <1>1, <1>12, <2>1, <2>2 DEF Stage, Online
  <2>3. CASE Waiting(c)
    <3>1. up'[c] = <<>> /\ (down'[c] = <<>> \/ down'[c] = Append(<<>>, m))
      BY <1>1, <1>3, <1>12, <2>3 DEF Waiting
    <3>2. Append(<<>>, m) \in Seq(GameMsgs)
      BY <1>3, Appended
    <3> QED BY <1>1, <1>3, <1>12, <2>1, <2>3, <3>1, <3>2 DEF Stage, Waiting, Playing
  <2> QED BY <1>12, <2>2, <2>3, Handled
<1>13. ASSUME NEW r \in Rooms, Sit(c, r) PROVE Stage(c)' /\ Queue(c)'
  <2>1. Seated(c)'
    BY <1>13, MembersSit DEF Seated
  <2>2. Msg("S_CheckStone(false)") \in GameMsgs
    BY DEF GameMsgs
  <2> QED BY <1>12, <1>13, <2>1, <2>2 DEF Sit
<1>14. ASSUME NEW r \in Rooms, NEW p \in Clients, Join(c, r, p) PROVE Stage(c)' /\ Queue(c)'
  <2> DEFINE m == [Msg("S_StartGame") EXCEPT !.stone = IF c = p THEN Black ELSE White,
                                             !.game = games + 1]
  <2>1. m \in GameMsgs
    <3>1. Black \in Types /\ White \in Types
      BY DEF Types
    <3>2. games + 1 \in Nat
      BY NextGame
    <3> QED BY <3>1, <3>2, SentTypes DEF GameMsgs
  <2>2. down'[c] = down[c] \/ (Online(c) /\ down'[c] = Append(down[c], m))
    BY <1>14 DEF Join, StartGame, SendAll
  <2>3. Seated(c)'
    BY <1>14, MembersJoin DEF Seated
  <2> HIDE DEF m
  <2> QED BY <1>12, <1>14, <2>1, <2>2, <2>3 DEF Join
<1>15. ASSUME NEW r \in Rooms, Depart(c, r, Without(players[r], c)) PROVE Stage(c)' /\ Queue(c)'
  <2>1. /\ UNCHANGED <<signed, crashed>> /\ managed' = managed \ {c} /\ Head(up[c]) = Disc
        /\ ~Unseated(c) /\ phase[c] = "gone"
    BY <1>15, GameAssumption, Handled DEF Depart, Unseated, Typed
  <2>2. Queue(c)'
    BY <1>1, <2>1, QueueTail
  <2>3. down'[c] = down[c]
    BY <1>15, <2>1 DEF Depart, SendAll, Online
  <2> QED BY <1>1, <2>1, <2>2, <2>3 DEF Stage
<1>16. CASE Vanish(c)
  <2>1. /\ UNCHANGED <<signed, crashed, players, gameRoom, down>> /\ managed' = managed \ {c}
        /\ Head(up[c]) = Disc /\ phase[c] = "gone"
    BY <1>16, Handled DEF Vanish
  <2>2. (Unseated(c)' <=> Unseated(c)) /\ (Seated(c)' <=> Seated(c))
    BY <2>1, Seats0
  <2>3. Queue(c)'
    BY <1>1, <2>1, <2>2, QueueTail
  <2> QED BY <1>1, <2>1, <2>3 DEF Stage
<1> QED BY <1>7, <1>8, <1>10, <1>11, <1>13, <1>14, <1>15, <1>16 DEF Outcome

\* A client that reads a packet of a game is in one.
LEMMA Reading ==
  ASSUME Typed, Protocol, NEW c \in Clients, NEW k, Heard(c, k)
  PROVE  /\ k \in GameKinds => phase[c] \in {"lobby", "game"} /\ Playing(c)
         /\ k = "S_Login(false)" => phase[c] = "new"
         /\ k = "S_Login(true)" => phase[c] = "login" /\ up[c] = <<>> /\ c \in signed
         /\ Tail(down[c]) \in Seq(DownMsgs)
         /\ down[c] \in Seq(GameMsgs) => Tail(down[c]) \in Seq(GameMsgs)
<1>1. Stage(c) /\ phase[c] \in Phases /\ down[c] # <<>> /\ Head(down[c]).kind = k
      /\ down[c] \in Seq(DownMsgs)
  BY DEF Protocol, Typed, Heard
<1>2. down[c] \in Seq(GameMsgs) =>
        Head(down[c]).kind \in GameKinds /\ Tail(down[c]) \in Seq(GameMsgs)
  BY <1>1, Popped, Messages
<1>3. Tail(down[c]) \in Seq(DownMsgs)
  BY <1>1, Popped
<1>4. /\ Head(<<Msg("S_Login(false)")>>).kind = "S_Login(false)"
      /\ Head(<<Msg("S_Login(true)")>>).kind = "S_Login(true)"
  BY Messages
<1>5. "S_Login(false)" \notin GameKinds /\ "S_Login(true)" \notin GameKinds
  BY DEF GameKinds
<1> QED BY <1>1, <1>2, <1>3, <1>4, <1>5 DEF Stage, Waiting, Playing, Phases

\* A step of client c that only it and its channels notice.
LEMMA ClientOthers ==
  ASSUME Typed, Protocol, NEW c \in Clients, NEW x \in Clients, x # c, ClientStep(c)
  PROVE  Stage(x)' /\ Queue(x)'
<1> USE DEF ClientStep
<1> USE DEF clientVars, roomVars
<1>1. UNCHANGED <<players, gameRoom, signed, crashed>> /\ (x \in managed' <=> x \in managed)
  BY DEF OnConnected, OnDisconnected, SubmitName, LoginRefused,
       LoginAccepted, GameBegins,
       GameLeft, GameNews, PlayStoneCallback, FreeSession
<1>2. up'[x] = up[x]
  BY DEF Typed, ClientSends, OnConnected, OnDisconnected, SubmitName, LoginRefused, LoginAccepted,
       GameBegins, GameLeft, GameNews, PlayStoneCallback, FreeSession
<1>3. down'[x] = down[x]
  BY DEF Typed, Took, OnConnected, OnDisconnected, SubmitName, LoginRefused, LoginAccepted,
       GameBegins, GameLeft, GameNews, PlayStoneCallback, FreeSession
<1>4. phase'[x] = phase[x]
  BY DEF Typed, OnConnected, OnDisconnected, SubmitName, LoginRefused, LoginAccepted,
       GameBegins, GameLeft, GameNews, PlayStoneCallback, FreeSession
<1>5. Stage(x) /\ Queue(x)
  BY DEF Protocol
<1> QED BY <1>1, <1>2, <1>3, <1>4, <1>5, Bystander, Seats0

\* The connection breaks: what arrived, the report, and late packets.
LEMMA CutOff ==
  ASSUME Typed, NEW c \in Clients, OnDisconnected(c)
  PROVE  \E a \in 0..Len(up[c]) :
           /\ a + 1 \in 1..Len(up'[c]) /\ up'[c][a + 1] = Disc
           /\ \A i \in 1..Len(up'[c]) : i # a + 1 =>
                LET k == IF i <= a THEN i ELSE i - 1
                IN  k \in 1..Len(up[c]) /\ up'[c][i] = up[c][k]
<1>1. PICK a \in 0..Len(up[c]), b \in 0..Late :
        /\ a + b <= Len(up[c])
        /\ up' = [up EXCEPT ![c] = SubSeq(@, 1, a) \o <<Disc>> \o SubSeq(@, a + 1, a + b)]
  BY DEF OnDisconnected
<1> DEFINE pre == SubSeq(up[c], 1, a)
           post == SubSeq(up[c], a + 1, a + b)
           old(i) == IF i <= a THEN i ELSE i - 1
<1>2. a \in Nat /\ b \in Nat /\ up[c] \in Seq(UpMsgs) /\ Len(up[c]) \in Nat
  <2>1. up[c] \in Seq(UpMsgs) BY DEF Typed
  <2>2. Late \in Nat BY GameAssumption
  <2> QED BY <1>1, <2>1, <2>2
<1>3. pre \in Seq(UpMsgs) /\ Len(pre) = a /\ \A i \in 1..a : pre[i] = up[c][i]
  <2>1. 0 \in Nat /\ 0 + a <= Len(up[c]) /\ 0 + 1 = 1 /\ 0 + a = a
    BY <1>1, <1>2
  <2>2. /\ SubSeq(up[c], 0 + 1, 0 + a) \in Seq(UpMsgs) /\ Len(SubSeq(up[c], 0 + 1, 0 + a)) = a
        /\ \A i \in 1..a : SubSeq(up[c], 0 + 1, 0 + a)[i] = up[c][0 + i]
    BY <2>1, <1>2, Part
  <2> QED BY <2>1, <2>2
<1>4. post \in Seq(UpMsgs) /\ Len(post) = b /\ \A i \in 1..b : post[i] = up[c][a + i]
  BY <1>1, <1>2, Part
<1>5. up'[c] = (pre \o <<Disc>>) \o post
  BY <1>1 DEF Typed
<1> HIDE DEF pre, post
<1>6. /\ pre \o <<Disc>> \in Seq(UpMsgs) /\ Len(pre \o <<Disc>>) = a + 1
      /\ \A i \in 1..a : (pre \o <<Disc>>)[i] = up[c][i]
      /\ (pre \o <<Disc>>)[a + 1] = Disc
  <2>1. <<Disc>> \in Seq(UpMsgs) /\ Len(<<Disc>>) = 1 /\ <<Disc>>[1] = Disc
    BY DEF UpMsgs
  <2>2. /\ pre \o <<Disc>> \in Seq(UpMsgs) /\ Len(pre \o <<Disc>>) = Len(pre) + Len(<<Disc>>)
        /\ \A i \in 1..Len(pre) : (pre \o <<Disc>>)[i] = pre[i]
        /\ \A i \in 1..Len(<<Disc>>) : (pre \o <<Disc>>)[Len(pre) + i] = <<Disc>>[i]
    BY <1>3, <2>1, Joined
  <2>3. 1 \in 1..Len(<<Disc>>)
    BY <2>1
  <2> QED BY <1>3, <2>1, <2>2, <2>3
<1> DEFINE head == pre \o <<Disc>>
<1> HIDE DEF head
<1>7. /\ head \in Seq(UpMsgs) /\ Len(head) = a + 1 /\ up'[c] = head \o post
      /\ \A i \in 1..a : head[i] = up[c][i]
      /\ head[a + 1] = Disc
  BY <1>5, <1>6 DEF head
<1>8. /\ Len(up'[c]) = a + 1 + b
      /\ \A i \in 1..a : up'[c][i] = up[c][i]
      /\ up'[c][a + 1] = Disc
      /\ \A i \in 1..b : up'[c][(a + 1) + i] = up[c][a + i]
  <2>1. /\ Len(head \o post) = Len(head) + Len(post)
        /\ \A i \in 1..Len(head) : (head \o post)[i] = head[i]
        /\ \A i \in 1..Len(post) : (head \o post)[Len(head) + i] = post[i]
    <3>1. head \in Seq(UpMsgs) /\ post \in Seq(UpMsgs)
      BY <1>4, <1>7
    <3> QED BY <3>1, Joined
  <2>2. a + 1 \in 1..Len(head) /\ 1..a \subseteq 1..Len(head)
    BY <1>2, <1>7
  <2> QED BY <1>4, <1>7, <2>1, <2>2
<1>9. ASSUME NEW i \in 1..Len(up'[c]), i # a + 1
      PROVE  old(i) \in 1..Len(up[c]) /\ up'[c][i] = up[c][old(i)]
  <2>1. CASE i <= a
    <3>1. i \in 1..a /\ old(i) = i /\ i \in 1..Len(up[c])
      BY <1>1, <1>2, <2>1
    <3> QED BY <1>8, <3>1
  <2>2. CASE ~(i <= a)
    <3>1. i - (a + 1) \in 1..b /\ (a + 1) + (i - (a + 1)) = i /\ a + (i - (a + 1)) = i - 1
      BY <1>2, <1>8, <1>9, <2>2
    <3>2. old(i) = i - 1 /\ i - 1 \in 1..Len(up[c])
      BY <1>1, <1>2, <2>2, <3>1
    <3> QED BY <1>8, <3>1, <3>2
  <2> QED BY <2>1, <2>2
<1>10. a + 1 \in 1..Len(up'[c])
  BY <1>2, <1>8
<1> QED BY <1>8, <1>9, <1>10

\* What the packets left find when they are handled.
LEMMA CutQueue ==
  ASSUME Typed, Protocol, NEW c \in Clients, OnDisconnected(c)
  PROVE  Queue(c)'
<1> USE DEF clientVars, roomVars
<1>1. PICK a \in 0..Len(up[c]) :
        /\ a + 1 \in 1..Len(up'[c]) /\ up'[c][a + 1] = Disc
        /\ \A i \in 1..Len(up'[c]) : i # a + 1 =>
             LET k == IF i <= a THEN i ELSE i - 1
             IN  k \in 1..Len(up[c]) /\ up'[c][i] = up[c][k]
  BY CutOff
<1> DEFINE old(i) == IF i <= a THEN i ELSE i - 1
<1>2. a \in Nat
  <2>1. up[c] \in Seq(UpMsgs) BY DEF Typed
  <2> QED BY <2>1
<1>3. Stage(c) /\ Queue(c) /\ Online(c) /\ phase'[c] = "gone" /\ phase[c] \in Phases
      /\ UNCHANGED <<signed, managed, crashed, players, gameRoom>>
  BY DEF Protocol, OnDisconnected, Typed
<1>4. c \in managed
  BY <1>3 DEF Stage, Online, Phases
<1>5. (Unseated(c)' <=> Unseated(c)) /\ (Seated(c)' <=> Seated(c))
  BY <1>3, Seats0
<1>6. \A i \in 1..Len(up[c]) : up[c][i] # Disc
  BY <1>3 DEF Queue, Online
<1>7. ASSUME NEW i \in 1..Len(up'[c]), i # a + 1
       PROVE  old(i) \in 1..Len(up[c]) /\ up'[c][i] = up[c][old(i)] /\ up'[c][i] # Disc
  BY <1>1, <1>6, <1>7
<1>8. ASSUME NEW i \in 1..Len(up'[c]), i # a + 1, Alone(c, old(i)) PROVE Alone(c, i)'
  <2>1. ASSUME NEW j \in 1..Len(up'[c]), j # a + 1 PROVE j = i
    <3>1. old(j) \in 1..Len(up[c]) /\ up[c][old(j)] # Disc
      BY <1>7, <2>1
    <3>2. old(j) = old(i)
      BY <1>8, <3>1 DEF Alone
    <3>3. i \in Nat /\ j \in Nat
      OBVIOUS
    <3> QED BY <1>2, <1>8, <2>1, <3>2, <3>3
  <2> QED BY <1>1, <2>1 DEF Alone
<1>9. ASSUME NEW i \in 1..Len(up'[c])
       PROVE  /\ up'[c][i] = Msg("C_SignUp") => Unseated(c)' /\ Alone(c, i)'
              /\ up'[c][i] = Msg("C_EnterRoom") => c \in signed' /\ Unseated(c)' /\ Alone(c, i)'
              /\ up'[c][i] \in Placed =>
                   c \in signed' /\ (c \in managed' => crashed' \/ Seated(c)')
              /\ up'[c][i] = Disc =>
                   /\ phase'[c] = "gone" /\ c \in managed'
                   /\ \A j \in 1..Len(up'[c]) : up'[c][j] = Disc => j = i
  <2>1. CASE i = a + 1
    BY <1>1, <1>3, <1>4, <1>7, <2>1, Messages
  <2>2. CASE i # a + 1
    <3> DEFINE k == old(i)
    <3>1. k \in 1..Len(up[c]) /\ up'[c][i] = up[c][k] /\ up'[c][i] # Disc
      BY <1>7, <2>2
    <3>2. Alone(c, k) => Alone(c, i)'
      BY <1>8, <2>2
    <3> HIDE DEF k
    <3> QED BY <1>3, <1>5, <3>1, <3>2 DEF Queue
  <2> QED BY <2>1, <2>2
<1> QED BY <1>1, <1>9 DEF Queue

\* A step of client c, for itself.
LEMMA ClientOwn ==
  ASSUME Typed, Protocol, NEW c \in Clients, ClientStep(c)
  PROVE  Stage(c)' /\ Queue(c)'
<1> USE DEF ClientStep
<1>1. /\ Stage(c) /\ Queue(c) /\ phase[c] \in Phases /\ up \in [Clients -> Seq(UpMsgs)]
      /\ phase \in [Clients -> Phases] /\ down \in [Clients -> Seq(DownMsgs)]
      /\ up[c] \in Seq(UpMsgs)
  BY DEF Protocol, Typed
<1>2. UNCHANGED <<players, gameRoom, signed, crashed>>
  BY DEF OnConnected, OnDisconnected, SubmitName, LoginRefused,
       LoginAccepted, GameBegins,
       GameLeft, GameNews, PlayStoneCallback, FreeSession, roomVars
<1>3. (Unseated(c)' <=> Unseated(c)) /\ (Seated(c)' <=> Seated(c))
  BY <1>2, Seats0
<1>4. ASSUME up'[c] = <<>>, phase'[c] # "gone" PROVE Queue(c)'
  BY <1>4 DEF Queue
<1>5. ASSUME NEW m, m \in {Msg("C_SignUp"), Msg("C_EnterRoom")}, up'[c] = <<m>>, Unseated(c),
             m = Msg("C_EnterRoom") => c \in signed, phase'[c] # "gone"
      PROVE  Queue(c)'
  <2>1. Len(up'[c]) = 1 /\ up'[c][1] = m /\ 1..1 = {1}
    BY <1>5
  <2>2. m # Disc /\ m \notin Placed /\ Msg("C_SignUp") # Msg("C_EnterRoom")
    BY <1>5, Messages
  <2>3. Alone(c, 1)'
    BY <2>1 DEF Alone
  <2> QED BY <1>2, <1>3, <1>5, <2>1, <2>2, <2>3 DEF Queue
<1>6. ASSUME up'[c] = up[c], phase[c] # "gone", phase'[c] # "gone", managed' = managed
      PROVE  Queue(c)'
  <2>1. \A i : Alone(c, i)' <=> Alone(c, i)
    BY <1>6 DEF Alone
  <2> QED BY <1>1, <1>2, <1>3, <1>6, <2>1 DEF Queue
<1>7. CASE OnConnected(c)
  <2>1. /\ phase[c] = "off" /\ phase'[c] = "new" /\ c \in managed' /\ up'[c] = up[c]
        /\ down'[c] = <<Msg("S_Login(false)")>>
    BY <1>1, <1>7 DEF OnConnected
  <2>2. up'[c] = <<>> /\ Unseated(c)
    BY <1>1, <2>1 DEF Stage
  <2> QED BY <1>3, <1>4, <2>1, <2>2 DEF Stage
<1>8. CASE OnDisconnected(c)
  <2>1. phase'[c] = "gone" /\ down'[c] = <<>>
    BY <1>1, <1>8 DEF OnDisconnected
  <2>2. Stage(c)'
    BY <2>1 DEF Stage
  <2> QED BY <1>8, <2>2, CutQueue
<1>9. CASE SubmitName(c)
  <2>1. /\ phase[c] = "signup" /\ phase'[c] = "login" /\ UNCHANGED <<managed, down>>
        /\ up'[c] = Append(up[c], Msg("C_SignUp"))
    BY <1>1, <1>9 DEF SubmitName, ClientSends
  <2>2. up[c] = <<>> /\ down[c] = <<>> /\ Unseated(c) /\ c \in managed
    BY <1>1, <2>1 DEF Stage
  <2>3. up'[c] = <<Msg("C_SignUp")>>
    BY <2>1, <2>2, Lists
  <2>4. Msg("C_SignUp") # Msg("C_EnterRoom")
    BY Messages
  <2>5. Queue(c)'
    BY <1>5, <2>1, <2>2, <2>3, <2>4
  <2> QED BY <1>3, <2>1, <2>2, <2>3, <2>5 DEF Stage
<1>10. CASE LoginRefused(c)
  <2>1. /\ Heard(c, "S_Login(false)") /\ phase'[c] = "signup" /\ UNCHANGED <<managed, up>>
        /\ down'[c] = Tail(down[c])
    BY <1>1, <1>10 DEF LoginRefused, Took
  <2>2. phase[c] = "new"
    BY <2>1, Reading
  <2>3. up[c] = <<>> /\ down[c] = <<Msg("S_Login(false)")>> /\ c \in managed /\ Unseated(c)
    BY <1>1, <2>2 DEF Stage
  <2>4. down'[c] = <<>>
    BY <2>1, <2>3
  <2> QED BY <1>3, <1>4, <2>1, <2>3, <2>4 DEF Stage
<1>11. CASE LoginAccepted(c)
  <2>1. /\ Heard(c, "S_Login(true)") /\ phase'[c] = "lobby" /\ UNCHANGED managed
        /\ down'[c] = Tail(down[c]) /\ up'[c] = Append(up[c], Msg("C_EnterRoom"))
    BY <1>1, <1>11 DEF LoginAccepted, Took, ClientSends
  <2>2. phase[c] = "login" /\ up[c] = <<>> /\ c \in signed
    BY <2>1, Reading
  <2>3. <<Msg("C_SignUp")>> # <<>>
    OBVIOUS
  <2>4. down[c] = <<Msg("S_Login(true)")>> /\ c \in managed /\ Unseated(c)
    BY <1>1, <2>2, <2>3 DEF Stage
  <2>5. down'[c] = <<>>
    BY <2>1, <2>4
  <2>6. up'[c] = <<Msg("C_EnterRoom")>>
    BY <2>1, <2>2, Lists
  <2>7. Waiting(c)'
    BY <1>3, <2>1, <2>4, <2>5, <2>6 DEF Waiting
  <2>8. Queue(c)'
    BY <1>5, <2>1, <2>2, <2>4, <2>6
  <2> QED BY <1>2, <2>1, <2>2, <2>4, <2>7, <2>8 DEF Stage
<1>12. ASSUME NEW k \in GameKinds, Heard(c, k), Took(c), UNCHANGED <<up, managed>>,
              phase'[c] \in {"lobby", "game"}
       PROVE  Stage(c)' /\ Queue(c)'
  <2>1. phase[c] \in {"lobby", "game"} /\ Playing(c)
    BY <1>12, Reading
  <2>2. down'[c] = Tail(down[c]) /\ Tail(down[c]) \in Seq(GameMsgs)
    BY <1>1, <1>12, <2>1, Reading DEF Took, Playing
  <2>3. Playing(c)'
    BY <1>2, <1>3, <1>12, <2>1, <2>2 DEF Playing
  <2>4. c \in managed /\ c \in signed
    BY <1>1, <2>1 DEF Stage
  <2>5. Queue(c)'
    BY <1>6, <1>12, <2>1
  <2> QED BY <1>2, <1>12, <2>3, <2>4, <2>5 DEF Stage
<1>13. CASE GameBegins(c)
  <2>1. phase'[c] = "game" /\ "S_StartGame" \in GameKinds
    BY <1>1, <1>13 DEF GameBegins, GameKinds
  <2> QED BY <1>12, <1>13, <2>1 DEF GameBegins
<1>14. CASE GameLeft(c)
  <2>1. phase'[c] = "lobby" /\ "S_LeaveGame" \in GameKinds
    BY <1>1, <1>14 DEF GameLeft, GameKinds
  <2> QED BY <1>12, <1>14, <2>1 DEF GameLeft
<1>15. ASSUME NEW k \in {"S_PlayStone", "S_ThrowResult", "S_CheckStone(false)"}, GameNews(c, k)
       PROVE  Stage(c)' /\ Queue(c)'
  <2>1. k \in GameKinds
    BY <1>15 DEF GameKinds
  <2>2. Heard(c, k) /\ Took(c) /\ UNCHANGED <<up, managed>> /\ phase' = phase
    BY <1>15 DEF GameNews, clientVars
  <2>3. phase[c] \in {"lobby", "game"}
    BY <2>1, <2>2, Reading
  <2> QED BY <1>12, <2>1, <2>2, <2>3
<1>16. ASSUME NEW cell \in Cells, PlayStoneCallback(c, cell)
       PROVE  Stage(c)' /\ Queue(c)'
  <2> DEFINE m == [kind |-> "C_PlayStone", cell |-> cell,
                   stone |-> told[c].stone, game |-> told[c].game]
  <2>1. phase[c] = "game" /\ UNCHANGED <<phase, down, managed>> /\ up'[c] = Append(up[c], m)
    BY <1>1, <1>16 DEF PlayStoneCallback, ClientSends
  <2>2. told[c] \in Starts
    BY <2>1 DEF Typed
  <2>3. m \in Placed
    BY <2>2, Messages DEF Placed
  <2>4. c \in managed /\ c \in signed /\ Playing(c)
    BY <1>1, <2>1 DEF Stage, Waiting
  <2> HIDE DEF m
  <2>5. up'[c] \in Seq(Placed)
    BY <2>1, <2>3, <2>4, Appended DEF Playing
  <2>6. Playing(c)'
    BY <1>2, <1>3, <2>1, <2>4, <2>5 DEF Playing
  <2>7. Stage(c)'
    BY <1>2, <2>1, <2>4, <2>6 DEF Stage
  <2>8. \A i \in 1..Len(up'[c]) : up'[c][i] \in Placed
    BY <2>5
  <2>9. \A e \in Placed : e # Msg("C_SignUp") /\ e # Msg("C_EnterRoom") /\ e # Disc
    BY Messages
  <2>10. crashed \/ Seated(c)
    BY <2>4 DEF Playing
  <2>11. Queue(c)'
    BY <1>2, <1>3, <2>1, <2>4, <2>8, <2>9, <2>10 DEF Queue
  <2> QED BY <2>7, <2>11
<1>17. CASE FreeSession(c)
  <2>1. UNCHANGED <<up, down, phase, managed>>
    BY <1>17 DEF FreeSession, clientVars
  <2> QED BY <1>1, <1>2, <1>3, <2>1, Bystander
<1> QED BY <1>7, <1>8, <1>9, <1>10, <1>11, <1>13, <1>14, <1>15, <1>16, <1>17

-----------------------------------------------------------------------------
\* The inductive invariant.
GInv == Typed /\ Seats /\ Protocol /\ Damage

\* It holds at first,
LEMMA Start == Init => GInv
<1> SUFFICES ASSUME Init PROVE GInv
  OBVIOUS
<1>1. /\ Msg("") \in Starts \cup {Msg("")} /\ NoBoard \in Boards /\ 0 \in 0..0
      /\ <<>> \in Seq(UpMsgs) /\ <<>> \in Seq(DownMsgs) /\ <<>> \in Seq(Clients)
      /\ Len(<<>>) = 0 /\ "off" # "game" /\ "off" \in Phases
  BY DEF Boards, Phases
<1>2. MaxPlays \in Nat /\ 0 \in 0..MaxPlays
  BY GameAssumption
<1>3. Typed
  <2>1. /\ phase \in [Clients -> Phases] /\ plays \in [Clients -> 0..MaxPlays]
        /\ up \in [Clients -> Seq(UpMsgs)] /\ down \in [Clients -> Seq(DownMsgs)]
        /\ told \in [Clients -> Starts \cup {Msg("")}]
        /\ \A c \in Clients : phase[c] # "game"
    BY <1>1, <1>2 DEF Init
  <2>2. /\ managed \subseteq Clients /\ signed \subseteq Clients /\ freed \subseteq Clients
        /\ gameRoom \in [Clients -> Rooms \cup {NoRoom}] /\ rooms \subseteq Rooms
        /\ players \in [Rooms -> Seq(Clients)]
        /\ stones \in [Rooms -> Boards] /\ start \in [Rooms -> BOOLEAN]
    BY <1>1 DEF Init
  <2>3. \A r \in Rooms : Len(players[r]) <= 2
    <3>1. \A r \in Rooms : players[r] = <<>>
      BY DEF Init
    <3>2. Len(<<>>) <= 2
      BY <1>1
    <3> QED BY <3>1, <3>2
  <2>4. games \in Nat /\ game \in [Rooms -> 0..games] /\ late \in BOOLEAN /\ crashed \in BOOLEAN
    BY <1>1 DEF Init
  <2> QED BY <2>1, <2>2, <2>3, <2>4 DEF Typed
<1>4. \A r \in Rooms : Members(r) = {} /\ players[r] = <<>>
  BY NobodyIn DEF Init, Members
<1>5. Seats
  <2>1. \A r \in Rooms : players[r] = <<>> /\ Len(players[r]) = 0 /\ ~start[r] /\ r \notin rooms
    BY <1>1, <1>4 DEF Init
  <2>2. \A c \in Clients : gameRoom[c] = NoRoom
    BY DEF Init
  <2>3. \A r \in Rooms : 1..Len(players[r]) = {}
    BY <2>1
  <2> QED BY <1>4, <2>1, <2>2, <2>3 DEF Seats, RunningHasBoard
<1>6. \A c \in Clients : Unseated(c)
  BY <1>4 DEF Unseated, Seated, Init
<1>7. Protocol
  <2> SUFFICES ASSUME NEW c \in Clients PROVE Stage(c) /\ Queue(c)
    BY DEF Protocol
  <2>1. phase[c] = "off" /\ up[c] = <<>> /\ down[c] = <<>> /\ c \notin managed /\ Unseated(c)
    BY <1>6 DEF Init
  <2>2. 1..Len(up[c]) = {}
    BY <2>1
  <2> QED BY <2>1, <2>2 DEF Stage, Queue
<1>8. Damage
  BY DEF Init, Damage, SeatsManaged
<1> QED BY <1>3, <1>5, <1>7, <1>8 DEF GInv

\* Only HandlePacket touches the rooms.
LEMMA SameSeats ==
  ASSUME Seats, UNCHANGED <<roomVars, signed>>
  PROVE  Seats'
<1>1. UNCHANGED <<players, rooms, gameRoom, stones, start, signed>>
  BY DEF roomVars
<1>2. \A r : Members(r)' = Members(r)
  BY <1>1 DEF Members
<1> QED BY <1>1, <1>2 DEF Seats, RunningHasBoard

\* and every step keeps it.
LEMMA Step == GInv /\ [Next]_vars => GInv'
<1> USE DEF ClientStep
<1> SUFFICES ASSUME GInv, [Next]_vars PROVE GInv'
  OBVIOUS
<1>1. Typed /\ Seats /\ Protocol /\ Damage
  BY DEF GInv
<1>2. Damage'
  BY <1>1, DamageStep
<1>3. ASSUME NEW c \in Clients, ClientStep(c)
      PROVE  Typed' /\ Seats' /\ Protocol'
  <2>1. Typed'
    BY <1>1, <1>3, TypedClient
  <2>2. UNCHANGED <<roomVars, signed>>
    BY <1>3 DEF OnConnected, OnDisconnected, SubmitName, LoginRefused,
       LoginAccepted, GameBegins,
         GameLeft, GameNews, PlayStoneCallback, FreeSession
  <2>3. Seats'
    BY <1>1, <2>2, SameSeats
  <2>4. \A x \in Clients : x # c => Stage(x)' /\ Queue(x)'
    BY <1>1, <1>3, ClientOthers
  <2>5. Stage(c)' /\ Queue(c)'
    BY <1>1, <1>3, ClientOwn
  <2> QED BY <2>1, <2>3, <2>4, <2>5 DEF Protocol
<1>4. ASSUME NEW c \in Clients, HandlePacket(c)
      PROVE  Typed' /\ Seats' /\ Protocol'
  <2>1. Pop(c) /\ Outcome(c)
    BY <1>1, <1>4, HandleSplit
  <2>2. Typed'
    BY <1>1, <2>1, TypedServer
  <2>3. Seats'
    BY <1>1, <2>1, <2>2, SeatsServer
  <2>4. \A x \in Clients : x # c => Stage(x)' /\ Queue(x)'
    BY <1>1, <2>1, ServerOthers
  <2>5. Stage(c)' /\ Queue(c)'
    BY <1>1, <2>1, ServerOwn
  <2> QED BY <2>2, <2>3, <2>4, <2>5 DEF Protocol
<1>5. ASSUME UNCHANGED vars PROVE Typed' /\ Seats' /\ Protocol'
  <2>1. /\ UNCHANGED <<up, down, phase, told, plays, managed, signed, freed>>
        /\ UNCHANGED <<gameRoom, rooms, players, stones, start, game, games, late, crashed>>
    BY <1>5 DEF vars, clientVars, roomVars
  <2>2. Typed'
    BY <1>1, <2>1 DEF Typed
  <2>3. Seats'
    BY <1>1, <2>1, SameSeats DEF roomVars
  <2>4. \A c \in Clients : Stage(c)' /\ Queue(c)'
    BY <1>1, <2>1, Seats0, Bystander DEF Protocol
  <2> QED BY <2>2, <2>3, <2>4 DEF Protocol
<1> QED BY <1>1, <1>2, <1>3, <1>4, <1>5 DEF Next, GInv

\* Types, rooms, the course of every connection and what damage needs, for
\* any number of clients and rooms, any board and any lateness: the inductive
\* invariant from which the theorems below follow.
THEOREM GameInvariant == Spec => []GInv
<1>1. Init => GInv BY Start
<1>2. GInv /\ [Next]_vars => GInv' BY Step
<1> QED BY <1>1, <1>2, PTL DEF Spec

\* No handler and no client puts a value of another kind anywhere, and
\* GameManager::MatchRoom never lets a third player into a room.
THEOREM GameTypes == Spec => []TypeOK
<1>1. GInv => TypeOK
  <2> SUFFICES ASSUME Typed PROVE TypeOK
    BY DEF GInv
  <2>1. ASSUME NEW r \in Rooms PROVE players[r] \in UNION {[1..n -> Clients] : n \in 0..2}
    <3>1. players[r] \in Seq(Clients) /\ Len(players[r]) <= 2
      BY DEF Typed
    <3> QED BY <3>1, Bounded
  <2>2. players \in [Rooms -> UNION {[1..n -> Clients] : n \in 0..2}]
    BY <2>1 DEF Typed
  <2>3. \A r \in Rooms : stones[r] = NoBoard \/ stones[r] \in [Cells -> Types \cup {Blank}]
    BY DEF Typed, Boards
  <2> QED BY <2>2, <2>3 DEF Typed, TypeOK, Phases
<1> QED BY <1>1, GameInvariant, PTL

\* GameManager::_gameRooms holds exactly the rooms somebody is in, nobody
\* sits twice, and Player::gameRoom is the room its player sits in.
THEOREM GameRooms == Spec => []RoomsExact
<1>1. GInv => RoomsExact
  <2> SUFFICES ASSUME Typed, Seats PROVE RoomsExact
    BY DEF GInv
  <2>1. ASSUME NEW r \in Rooms PROVE IsInjective(players[r])
    <3>1. players[r] \in Seq(Clients)
      BY DEF Typed
    <3>2. DOMAIN players[r] = 1..Len(players[r])
      BY <3>1, Indexes
    <3> QED BY <3>2 DEF Seats, IsInjective
  <2> QED BY <2>1 DEF Typed, Seats, RoomsExact
<1> QED BY <1>1, GameInvariant, PTL

\* The index of GameRoom::PlayStone into _stones is always into a board.
THEOREM GameBoards == Spec => []RunningHasBoard
<1>1. GInv => RunningHasBoard
  BY DEF GInv, Seats
<1> QED BY <1>1, GameInvariant, PTL

\* Without a packet behind its session's own disconnection, no handler of
\* ServerPacketHandler or GameRoom follows a null pointer, and every seat
\* belongs to a session of GSessionManager.
THEOREM GameDamage == Spec => []OnlyAfterLate
<1>1. GInv => OnlyAfterLate
  BY DEF GInv, Damage, SeatsManaged, OnlyAfterLate
<1> QED BY <1>1, GameInvariant, PTL

\* Whoever asked for a room and was answered keeps its seat until it leaves.
THEOREM GameNobodyForgotten == Spec => []NobodyForgotten
<1>1. GInv => NobodyForgotten
  <2> SUFFICES ASSUME Typed, Seats, Protocol, NEW c \in Clients,
                      phase[c] \in {"lobby", "game"}, ~crashed,
                      \A i \in DOMAIN up[c] : up[c][i].kind # "C_EnterRoom"
               PROVE  \E r \in rooms : c \in Members(r)
    BY DEF GInv, NobodyForgotten
  <2>1. ~Waiting(c)
    <3>1. ASSUME up[c] = <<Msg("C_EnterRoom")>> PROVE FALSE
      <4>1. 1 \in DOMAIN up[c] /\ up[c][1] = Msg("C_EnterRoom")
        BY <3>1
      <4> QED BY <4>1, Messages
    <3> QED BY <3>1 DEF Waiting
  <2>2. Seated(c)
    BY <2>1 DEF Protocol, Stage, Playing
  <2>3. PICK r \in Rooms : c \in Members(r)
    BY <2>2 DEF Seated
  <2>4. players[r] # <<>>
    BY <2>3, NobodyIn DEF Members
  <2> QED BY <2>3, <2>4 DEF Seats
<1> QED BY <1>1, GameInvariant, PTL

-----------------------------------------------------------------------------
(***************************************************************************)
(* Both players of a running game know it, and a player left alone knows   *)
(* that too: PlayersInformed of module GameServer, for every value of the  *)
(* constants.                                                              *)
(*                                                                         *)
(* PlayersInformed looks at the last turn on its way to a client, a        *)
(* maximum.  Informed says the same with a witness, Tells, which every     *)
(* step carries on: a packet sent goes behind all others, and the client   *)
(* that reads one keeps of it what Tells wants.  With the invariant of     *)
(* GameServerProofs, which keeps players of other rooms and strangers      *)
(* apart, Informed is inductive.                                           *)
(***************************************************************************)
TurnKinds == {"S_StartGame", "S_LeaveGame"}

\* What a client knows when nothing is on its way to it.
Shown(c) == IF phase[c] = "game" THEN told[c] ELSE Msg("S_LeaveGame")

LastTurn(c, i) ==
  /\ i \in 1..Len(down[c]) /\ down[c][i].kind \in TurnKinds
  /\ \A j \in 1..Len(down[c]) : down[c][j].kind \in TurnKinds => j <= i

NoTurn(c) == \A j \in 1..Len(down[c]) : down[c][j].kind \notin TurnKinds

Tells(c, m) ==
  \/ \E i \in Nat : LastTurn(c, i) /\ down[c][i] = m
  \/ NoTurn(c) /\ Shown(c) = m

TellsGame(c, g, s) == \E m : Tells(c, m) /\ m.kind = "S_StartGame" /\ m.game = g /\ m.stone = s
TellsEnd(c) == \E m : Tells(c, m) /\ m.kind = "S_LeaveGame"

Seat(i) == IF i = 1 THEN Black ELSE White

InformedIn(r) ==
  \A i \in 1..Len(players[r]) :
     Online(players[r][i]) =>
       /\ start[r] => TellsGame(players[r][i], game[r], Seat(i))
       /\ Len(players[r]) = 1 => TellsEnd(players[r][i])

Informed == \A r \in Rooms : InformedIn(r)

\* Known is what is told.
LEMMA KnownIsTold ==
  ASSUME Typed, NEW c \in Clients, NEW m, Tells(c, m)
  PROVE  Known(c) = m
<1> DEFINE turns == {i \in DOMAIN down[c] : down[c][i].kind \in TurnKinds}
<1>1. DOMAIN down[c] = 1..Len(down[c]) /\ Len(down[c]) \in Nat
  <2>1. down[c] \in Seq(DownMsgs) BY DEF Typed
  <2>2. Len(down[c]) \in Nat BY <2>1
  <2> QED BY <2>1, <2>2, Indexes
<1>2. Known(c) = IF turns # {} THEN down[c][Max(turns)] ELSE Shown(c)
  BY DEF Known, TurnKinds, Shown
<1>3. ASSUME NEW i \in Nat, LastTurn(c, i) PROVE turns # {} /\ Max(turns) = i
  <2>1. i \in turns /\ (\A j \in turns : i >= j) /\ turns \subseteq Nat
    BY <1>1, <1>3 DEF LastTurn
  <2> HIDE DEF turns
  <2>2. \A x \in turns : (\A j \in turns : x >= j) => x = i
    BY <2>1
  <2>3. Max(turns) = CHOOSE x \in turns : \A j \in turns : x >= j
    BY DEF Max
  <2> QED BY <2>1, <2>2, <2>3
<1>4. CASE \E i \in Nat : LastTurn(c, i) /\ down[c][i] = m
  BY <1>2, <1>3, <1>4
<1>5. CASE NoTurn(c) /\ Shown(c) = m
  <2>1. turns = {}
    BY <1>1, <1>5 DEF NoTurn
  <2> QED BY <1>2, <1>5, <2>1
<1> QED BY <1>4, <1>5 DEF Tells

\* Nothing changes for a client to which nothing happens.
LEMMA ToldSame ==
  ASSUME NEW c, NEW m, Tells(c, m),
         down'[c] = down[c], phase'[c] = phase[c], told'[c] = told[c]
  PROVE  Tells(c, m)'
BY DEF Tells, LastTurn, NoTurn, Shown

\* What is sent goes behind all that is on its way.
LEMMA ToldMore ==
  ASSUME Typed, NEW c \in Clients, NEW e \in DownMsgs,
         down'[c] = Append(down[c], e), phase'[c] = phase[c], told'[c] = told[c]
  PROVE  /\ e.kind \in TurnKinds => Tells(c, e)'
         /\ e.kind \notin TurnKinds => \A m : Tells(c, m) => Tells(c, m)'
<1>1. down[c] \in Seq(DownMsgs)
  BY DEF Typed
<1>2. PICK n \in Nat : n = Len(down[c])
  BY <1>1
<1>3. /\ Len(down'[c]) = n + 1 /\ down'[c][n + 1] = e
      /\ \A i \in 1..n : down'[c][i] = down[c][i]
  BY <1>1, <1>2, Appended
<1>4. ASSUME e.kind \in TurnKinds PROVE Tells(c, e)'
  <2>1. LastTurn(c, n + 1)' /\ n + 1 \in Nat
    BY <1>2, <1>3, <1>4 DEF LastTurn
  <2> QED BY <1>3, <2>1 DEF Tells
<1>5. ASSUME e.kind \notin TurnKinds, NEW m, Tells(c, m) PROVE Tells(c, m)'
  <2>1. ASSUME NEW i \in Nat, LastTurn(c, i), down[c][i] = m PROVE Tells(c, m)'
    <3>1. LastTurn(c, i)' /\ down'[c][i] = m
      BY <1>2, <1>3, <1>5, <2>1 DEF LastTurn
    <3> QED BY <3>1 DEF Tells
  <2>2. ASSUME NoTurn(c), Shown(c) = m PROVE Tells(c, m)'
    <3>1. NoTurn(c)' /\ Shown(c)' = m
      BY <1>2, <1>3, <1>5, <2>2 DEF NoTurn, Shown
    <3> QED BY <3>1 DEF Tells
  <2> QED BY <1>5, <2>1, <2>2 DEF Tells
<1> QED BY <1>4, <1>5

\* A turn that is read is shown.
LEMMA ToldLess ==
  ASSUME Typed, NEW c \in Clients, down[c] # <<>>, down'[c] = Tail(down[c]),
         Head(down[c]).kind \in TurnKinds => Shown(c)' = Head(down[c]),
         Head(down[c]).kind \notin TurnKinds => Shown(c)' = Shown(c),
         NEW m, Tells(c, m)
  PROVE  Tells(c, m)'
<1> DEFINE n == Len(down[c])
           h == Head(down[c])
<1>1. down[c] \in Seq(DownMsgs)
  BY DEF Typed
<1>2. n \in Nat
  BY <1>1
<1>3. /\ Len(down'[c]) = n - 1 /\ h = down[c][1] /\ 1 \in 1..n
      /\ \A i \in 1..n - 1 : down'[c][i] = down[c][i + 1]
  BY <1>1, Popped
<1>4. /\ h.kind \in TurnKinds => Shown(c)' = h
      /\ h.kind \notin TurnKinds => Shown(c)' = Shown(c)
  OBVIOUS
<1> HIDE DEF h
<1>5. ASSUME NEW i \in Nat, LastTurn(c, i), down[c][i] = m PROVE Tells(c, m)'
  <2>1. CASE i = 1
    <3>1. NoTurn(c)'
      <4>1. ASSUME NEW j \in 1..n - 1 PROVE down'[c][j].kind \notin TurnKinds
        <5>1. j + 1 \in 1..n /\ ~(j + 1 <= 1) /\ down'[c][j] = down[c][j + 1]
          BY <1>2, <1>3
        <5> QED BY <1>5, <2>1, <5>1 DEF LastTurn
      <4> QED BY <1>3, <4>1 DEF NoTurn
    <3>2. Shown(c)' = m
      BY <1>3, <1>4, <1>5, <2>1 DEF LastTurn
    <3> QED BY <3>1, <3>2 DEF Tells
  <2>2. CASE i # 1
    <3>1. i \in 1..n
      BY <1>5 DEF LastTurn
    <3>2. i - 1 \in 1..n - 1 /\ (i - 1) + 1 = i /\ i - 1 \in Nat
      BY <1>2, <2>2, <3>1
    <3>3. down'[c][i - 1] = m
      BY <1>3, <1>5, <3>2
    <3>4. ASSUME NEW j \in 1..n - 1, down'[c][j].kind \in TurnKinds PROVE j <= i - 1
      <4>1. j + 1 \in 1..n /\ down'[c][j] = down[c][j + 1]
        BY <1>2, <1>3
      <4>2. j + 1 <= i
        BY <1>5, <3>4, <4>1 DEF LastTurn
      <4> QED BY <4>2, <3>2
    <3>5. LastTurn(c, i - 1)'
      BY <1>3, <1>5, <3>2, <3>3, <3>4 DEF LastTurn
    <3> QED BY <3>2, <3>3, <3>5 DEF Tells
  <2> QED BY <2>1, <2>2
<1>6. ASSUME NoTurn(c), Shown(c) = m PROVE Tells(c, m)'
  <2>1. h.kind \notin TurnKinds
    BY <1>3, <1>6 DEF NoTurn
  <2>2. NoTurn(c)'
    <3>1. ASSUME NEW j \in 1..n - 1 PROVE down'[c][j].kind \notin TurnKinds
      <4>1. j + 1 \in 1..n /\ down'[c][j] = down[c][j + 1]
        BY <1>2, <1>3
      <4> QED BY <1>6, <4>1 DEF NoTurn
    <3> QED BY <1>3, <3>1 DEF NoTurn
  <2> QED BY <1>4, <1>6, <2>1, <2>2 DEF Tells
<1> QED BY <1>5, <1>6 DEF Tells

-----------------------------------------------------------------------------
\* A room that stays as it is, apart from a game that may end, stays informed
\* when its players lose nothing of what they were told.
LEMMA RoomKept ==
  ASSUME Typed, NEW r \in Rooms, InformedIn(r),
         players'[r] = players[r], game'[r] = game[r], start'[r] => start[r],
         \A x \in Members(r) : Online(x)' =>
            Online(x) /\ \A m : Tells(x, m) => Tells(x, m)'
  PROVE  InformedIn(r)'
<1> SUFFICES ASSUME NEW i \in 1..Len(players[r]), Online(players[r][i])'
             PROVE  /\ start'[r] => TellsGame(players[r][i], game[r], Seat(i))'
                    /\ Len(players[r]) = 1 => TellsEnd(players[r][i])'
  BY DEF InformedIn, Seat, TellsGame, TellsEnd, Tells, LastTurn, NoTurn, Shown, Online
<1> DEFINE x == players[r][i]
<1>1. x \in Members(r)
  BY SomebodyIn
<1>2. Online(x) /\ \A m : Tells(x, m) => Tells(x, m)'
  BY <1>1
<1>3. /\ start[r] => TellsGame(x, game[r], Seat(i))
      /\ Len(players[r]) = 1 => TellsEnd(x)
  BY <1>2 DEF InformedIn
<1>4. start'[r] => TellsGame(x, game[r], Seat(i))'
  BY <1>2, <1>3 DEF TellsGame, Seat
<1>5. Len(players[r]) = 1 => TellsEnd(x)'
  BY <1>2, <1>3 DEF TellsEnd
<1> QED BY <1>4, <1>5

\* What a client reads or does leaves everybody as informed as before.
LEMMA ClientNews ==
  ASSUME Typed, Seats, Protocol, Informed, NEW c \in Clients, ClientStep(c)
  PROVE  Informed'
<1> USE DEF ClientStep
<1> DEFINE Keeps(x) == Online(x)' => Online(x) /\ \A m : Tells(x, m) => Tells(x, m)'
<1>1. UNCHANGED <<players, game, start>>
  BY DEF OnConnected, OnDisconnected, SubmitName, LoginRefused, LoginAccepted, GameBegins,
       GameLeft, GameNews, PlayStoneCallback, FreeSession, roomVars
<1>2. ASSUME NEW x \in Clients, x # c PROVE Keeps(x)
  <2>1. phase'[x] = phase[x] /\ down'[x] = down[x] /\ told'[x] = told[x]
    BY <1>2 DEF Typed, OnConnected, OnDisconnected, SubmitName, LoginRefused, LoginAccepted,
         GameBegins, GameLeft, GameNews, PlayStoneCallback, FreeSession, Took, clientVars
  <2>2. \A m : Tells(x, m) => Tells(x, m)'
    BY <2>1, ToldSame
  <2> QED BY <2>1, <2>2 DEF Online
<1>3. ASSUME UNCHANGED <<down, phase, told>> PROVE Keeps(c)
  BY <1>3, ToldSame DEF Online
<1>4. ASSUME NEW k \in GameKinds, Heard(c, k), Took(c),
             k \in TurnKinds => Shown(c)' = Head(down[c]),
             k \notin TurnKinds => Shown(c)' = Shown(c)
      PROVE  Keeps(c)
  <2>1. phase[c] \in {"lobby", "game"}
    BY <1>4, Reading
  <2>2. down[c] # <<>> /\ Head(down[c]).kind = k /\ down'[c] = Tail(down[c])
    BY <1>4 DEF Heard, Took, Typed
  <2>3. \A m : Tells(c, m) => Tells(c, m)'
    BY <1>4, <2>2, ToldLess
  <2> QED BY <2>1, <2>3 DEF Online
<1>5. ASSUME NEW k \in GameKinds, Heard(c, k)
      PROVE  Head(down[c]) \in GameMsgs
  <2>1. down[c] \in Seq(GameMsgs) /\ down[c] # <<>>
    BY <1>5, Reading DEF Playing, Heard
  <2> QED BY <2>1, Popped
<1>6. ~Unseated(c) => Keeps(c)
  <2> SUFFICES ASSUME ~Unseated(c) PROVE Keeps(c)
    OBVIOUS
  <2>1. CASE OnDisconnected(c)
    BY <2>1 DEF OnDisconnected, Online, Typed
  <2>2. CASE GameBegins(c)
    <3>1. "S_StartGame" \in GameKinds \cap TurnKinds
      BY DEF GameKinds, TurnKinds
    <3>2. Heard(c, "S_StartGame") /\ Took(c) /\ Shown(c)' = Head(down[c])
      BY <2>2 DEF GameBegins, Shown, Typed
    <3> QED BY <1>4, <3>1, <3>2
  <2>3. CASE GameLeft(c)
    <3>1. "S_LeaveGame" \in GameKinds \cap TurnKinds
      BY DEF GameKinds, TurnKinds
    <3>2. Heard(c, "S_LeaveGame") /\ Took(c) /\ Shown(c)' = Msg("S_LeaveGame")
      BY <2>3 DEF GameLeft, Shown, Typed
    <3>3. Head(down[c]) = Msg("S_LeaveGame")
      BY <1>5, <3>1, <3>2, Messages DEF Heard, GameMsgs, Leaves
    <3> QED BY <1>4, <3>1, <3>2, <3>3
  <2>4. ASSUME NEW k \in {"S_PlayStone", "S_ThrowResult", "S_CheckStone(false)"}, GameNews(c, k)
        PROVE  Keeps(c)
    <3>1. k \in GameKinds /\ k \notin TurnKinds
      BY <2>4 DEF GameKinds, TurnKinds
    <3>2. Heard(c, k) /\ Took(c) /\ Shown(c)' = Shown(c)
      BY <2>4 DEF GameNews, Shown, clientVars
    <3> QED BY <1>4, <3>1, <3>2
  <2>5. CASE FreeSession(c) \/ \E cell \in Cells : PlayStoneCallback(c, cell)
    <3>1. UNCHANGED <<down, phase, told>>
      BY <2>5 DEF FreeSession, PlayStoneCallback, clientVars
    <3> QED BY <1>3, <3>1
  <2>6. ~(OnConnected(c) \/ SubmitName(c) \/ LoginRefused(c) \/ LoginAccepted(c))
    <3>1. Stage(c)
      BY DEF Protocol
    <3>2. LoginRefused(c) => phase[c] = "new"
      BY Reading DEF LoginRefused
    <3>3. LoginAccepted(c) => phase[c] = "login"
      BY Reading DEF LoginAccepted
    <3> QED BY <3>1, <3>2, <3>3 DEF Stage, OnConnected, SubmitName
  <2> QED BY <2>1, <2>2, <2>3, <2>4, <2>5, <2>6
<1>7. ASSUME NEW r \in Rooms PROVE InformedIn(r)'
  <2>1. ASSUME NEW x \in Members(r) PROVE Keeps(x)
    <3>1. x \in Clients /\ ~Unseated(x)
      BY <2>1, SomebodyIn DEF Unseated, Seated
    <3> QED BY <1>2, <1>6, <3>1
  <2>2. InformedIn(r)
    BY DEF Informed
  <2> QED BY <1>1, <2>1, <2>2, RoomKept
<1> QED BY <1>7 DEF Informed

\* What SendAll tells each client.
LEMMA SentNews ==
  ASSUME Typed, NEW out, SendAll(out), \A x \in DOMAIN out : out[x] \in DownMsgs,
         UNCHANGED clientVars, NEW x \in Clients
  PROVE  /\ x \notin DOMAIN out => \A m : Tells(x, m) => Tells(x, m)'
         /\ x \in DOMAIN out /\ out[x].kind \notin TurnKinds =>
              \A m : Tells(x, m) => Tells(x, m)'
         /\ x \in DOMAIN out /\ out[x].kind \in TurnKinds /\ Online(x) => Tells(x, out[x])'
<1>1. phase' = phase /\ told' = told
  BY DEF clientVars
<1>2. down'[x] = IF x \in DOMAIN out /\ Online(x) THEN Append(down[x], out[x]) ELSE down[x]
  BY Sent
<1>3. CASE x \in DOMAIN out /\ Online(x)
  <2>1. down'[x] = Append(down[x], out[x]) /\ out[x] \in DownMsgs
    BY <1>2, <1>3
  <2> QED BY <1>1, <1>3, <2>1, ToldMore
<1>4. CASE ~(x \in DOMAIN out /\ Online(x))
  <2>1. down'[x] = down[x]
    BY <1>2, <1>4
  <2> QED BY <1>1, <1>4, <2>1, ToldSame
<1> QED BY <1>3, <1>4

\* A handled packet informs those it seats, matches or leaves alone.
LEMMA ServerNews ==
  ASSUME Typed, Seats, Protocol, Informed, NEW c \in Clients, Pop(c), Outcome(c)
  PROVE  Informed'
<1> DEFINE Keeps(x) == \A m : Tells(x, m) => Tells(x, m)'
<1>1. UNCHANGED <<phase, told>> /\ UNCHANGED clientVars
  BY DEF Pop, clientVars
<1>2. \A x : Online(x)' <=> Online(x)
  BY <1>1 DEF Online
<1>3. ASSUME NEW r \in Rooms, players'[r] = players[r], game'[r] = game[r], start'[r] => start[r],
             \A x \in Members(r) : Keeps(x)
      PROVE  InformedIn(r)'
  BY <1>2, <1>3, RoomKept DEF Informed
<1>4. ASSUME NEW r \in Rooms, NEW s \in Rooms, r # s PROVE Members(r) \cap Members(s) = {}
  BY <1>4 DEF Seats
<1>5. CASE Failure(c) \/ Vanish(c)
  <2>1. UNCHANGED <<down, players, game, start>>
    BY <1>5 DEF Failure, Vanish, roomVars
  <2>2. \A x : Keeps(x)
    BY <1>1, <2>1, ToldSame
  <2> QED BY <1>3, <2>1, <2>2 DEF Informed
<1>6. CASE SignUp(c) \/ Refuse(c)
  <2>1. PICK k \in {"S_Login(true)", "S_CheckStone(false)"} : SendTo(c, k)
    BY <1>6 DEF SignUp, Refuse
  <2>2. k \notin TurnKinds /\ Msg(k).kind = k /\ Msg(k) \in DownMsgs
    BY Messages, SentTypes DEF TurnKinds
  <2>3. \A x \in Clients : Keeps(x)
    <3> DEFINE out == [x \in {c} |-> Msg(k)]
    <3>1. SendAll(out) /\ DOMAIN out = {c} /\ out[c] = Msg(k)
      BY <2>1 DEF SendTo
    <3> HIDE DEF out
    <3> QED BY <1>1, <2>2, <3>1, SentNews
  <2>4. UNCHANGED <<players, game, start>>
    BY <1>6 DEF SignUp, Refuse, roomVars
  <2> QED BY <1>3, <2>3, <2>4, SomebodyIn DEF Informed
<1>7. ASSUME NEW r \in Rooms, Sit(c, r) PROVE Informed'
  <2>1. UNCHANGED <<down, game, start>> /\ players' = [players EXCEPT ![r] = <<c>>]
        /\ players[r] = <<>> /\ Head(up[c]) = Msg("C_EnterRoom")
    BY <1>7 DEF Sit
  <2>2. \A x : Keeps(x)
    BY <1>1, <2>1, ToldSame
  <2>3. ASSUME NEW s \in Rooms, s # r PROVE InformedIn(s)'
    BY <1>3, <2>1, <2>2, <2>3 DEF Typed
  <2>4. players'[r] = <<c>> /\ Len(<<c>>) = 1 /\ <<c>>[1] = c /\ Len(<<>>) = 0
    BY <2>1, Lists DEF Typed
  <2>5. ~start[r]
    BY <2>1, <2>4 DEF Seats, RunningHasBoard
  <2>6. Online(c) => TellsEnd(c)'
    <3> SUFFICES ASSUME Online(c) PROVE TellsEnd(c)'
      OBVIOUS
    <3>1. Waiting(c)
      BY <2>1, Handled DEF Online
    <3>2. down[c] = <<>> /\ phase[c] = "lobby"
      BY <3>1 DEF Waiting
    <3>3. NoTurn(c)' /\ Shown(c)' = Msg("S_LeaveGame")
      BY <1>1, <2>1, <3>2 DEF NoTurn, Shown
    <3> QED BY <3>3, Messages DEF TellsEnd, Tells
  <2>7. ASSUME NEW i \in 1..1, Online(<<c>>[i])' PROVE ~start'[r] /\ TellsEnd(<<c>>[i])'
    <3>1. i = 1
      OBVIOUS
    <3> QED BY <1>2, <2>1, <2>4, <2>5, <2>6, <2>7, <3>1
  <2>8. InformedIn(r)'
    BY <2>4, <2>7 DEF InformedIn
  <2> QED BY <2>3, <2>8 DEF Informed
<1>8. ASSUME NEW r \in Rooms, NEW p \in Clients, Join(c, r, p) PROVE Informed'
  <2>g. PICK g \in Nat : g = games + 1
    BY NextGame
  <2>out. PICK out :
          out = [x \in {p, c} |->
                  [Msg("S_StartGame") EXCEPT !.stone = IF x = p THEN Black ELSE White, !.game = g]]
    OBVIOUS
  <2>1. /\ players' = [players EXCEPT ![r] = <<p, c>>] /\ players[r] = <<p>>
        /\ SendAll(out) /\ start' = [start EXCEPT ![r] = TRUE]
        /\ game' = [game EXCEPT ![r] = g]
        /\ Head(up[c]) = Msg("C_EnterRoom")
    BY <1>8, <2>g, <2>out DEF Join, StartGame
  <2>2. DOMAIN out = {p, c}
    BY <2>out
  <2>3. Black \in Types /\ White \in Types
    BY DEF Types
  <2>4. \A x \in {p, c} : out[x] \in Starts
    BY <2>out, <2>3, SentTypes
  <2>5. \A x \in {p, c} : /\ out[x].kind = "S_StartGame" /\ out[x].game = g
                          /\ out[x].stone = IF x = p THEN Black ELSE White
    BY <2>out DEF Msg
  <2>6. \A x \in {p, c} : out[x] \in DownMsgs
    BY <2>4 DEF DownMsgs, GameMsgs
  <2>7. Members(r) = {p}
    BY <1>8, MembersJoin
  <2>8. \A s \in Rooms : c \notin Members(s)
    <3>1. Stage(c) /\ Queue(c)
      BY DEF Protocol
    <3>2. up[c][1] = Msg("C_EnterRoom") /\ 1 \in 1..Len(up[c])
      BY <2>1, HeadOfQueue DEF Pop
    <3> QED BY <3>1, <3>2 DEF Queue, Unseated, Seated
  <2>9. c # p
    BY <2>7, <2>8
  <2>10. ASSUME NEW s \in Rooms, s # r PROVE InformedIn(s)'
    <3>1. players'[s] = players[s] /\ game'[s] = game[s] /\ start'[s] = start[s]
      BY <2>1, <2>10 DEF Typed
    <3>2. ASSUME NEW x \in Members(s) PROVE Keeps(x)
      <4>1. x \in Clients /\ x \notin {p, c}
        BY <1>4, <2>7, <2>8, <2>10, <3>2, SomebodyIn
      <4> QED BY <1>1, <2>1, <2>2, <2>6, <4>1, SentNews
    <3> QED BY <1>3, <3>1, <3>2
  <2>11. \A x \in {p, c} : Online(x) => Tells(x, out[x])'
    BY <1>1, <2>1, <2>2, <2>5, <2>6, SentNews DEF TurnKinds
  <2>12. players'[r] = <<p, c>> /\ game'[r] = g
    BY <2>1 DEF Typed
  <2>13. Len(<<p, c>>) = 2 /\ <<p, c>>[1] = p /\ <<p, c>>[2] = c /\ 1..2 = {1, 2}
    OBVIOUS
  <2>14. ASSUME NEW i \in 1..2, Online(<<p, c>>[i])'
         PROVE  TellsGame(<<p, c>>[i], g, Seat(i))'
    <3> DEFINE x == <<p, c>>[i]
    <3>1. x \in {p, c} /\ Seat(i) = IF x = p THEN Black ELSE White
      BY <2>9, <2>13 DEF Seat
    <3>2. Tells(x, out[x])'
      BY <1>2, <2>11, <2>14, <3>1
    <3> QED BY <2>5, <3>1, <3>2 DEF TellsGame
  <2>15. InformedIn(r)'
    BY <2>12, <2>13, <2>14 DEF InformedIn
  <2> QED BY <2>10, <2>15 DEF Informed
<1>9. ASSUME NEW r \in Rooms, NEW m \in Placed, NEW won \in BOOLEAN, Put(c, r, m, won)
      PROVE  Informed'
  <2> DEFINE out == [x \in Members(r) |->
       [Msg(IF won THEN "S_ThrowResult" ELSE "S_PlayStone") EXCEPT !.stone = m.stone]]
  <2>1. /\ UNCHANGED <<players, game>> /\ start[r] /\ start' = [start EXCEPT ![r] = ~won]
        /\ SendAll(out)
    BY <1>9 DEF Put
  <2>2. DOMAIN out = Members(r) /\ m.stone \in Types
    BY Messages
  <2>3. \A x \in Members(r) : out[x] \in Notes
    BY <2>2, SentTypes
  <2> HIDE DEF out
  <2>4. \A x \in Members(r) : out[x] \in DownMsgs /\ out[x].kind \notin TurnKinds
    BY <2>3, Messages DEF DownMsgs, GameMsgs, TurnKinds
  <2>5. \A x \in Clients : Keeps(x)
    BY <1>1, <2>1, <2>2, <2>4, SentNews
  <2>6. ASSUME NEW s \in Rooms PROVE InformedIn(s)'
    <3>1. start'[s] => start[s]
      BY <2>1 DEF Typed
    <3>2. \A x \in Members(s) : Keeps(x)
      BY <2>5, SomebodyIn
    <3> QED BY <1>3, <2>1, <3>1, <3>2
  <2> QED BY <2>6 DEF Informed
<1>10. ASSUME NEW r \in Rooms, Depart(c, r, Without(players[r], c)) PROVE Informed'
  <2> DEFINE left == Without(players[r], c)
             out == [x \in Range(left) |-> Msg("S_LeaveGame")]
  <2>1. /\ UNCHANGED game /\ players' = [players EXCEPT ![r] = left]
        /\ start' = [start EXCEPT ![r] = FALSE] /\ SendAll(out)
    BY <1>10 DEF Depart
  <2>2. left \in Seq(Clients) /\ Range(left) = Members(r) \ {c}
    BY Remaining
  <2>3. /\ DOMAIN out = Range(left) /\ Msg("S_LeaveGame") \in DownMsgs
        /\ Msg("S_LeaveGame").kind = "S_LeaveGame"
        /\ \A x \in Range(left) : out[x] = Msg("S_LeaveGame")
    BY SentTypes, Messages
  <2> HIDE DEF left, out
  <2>4. ASSUME NEW s \in Rooms, s # r PROVE InformedIn(s)'
    <3>1. players'[s] = players[s] /\ game'[s] = game[s] /\ start'[s] = start[s]
      BY <2>1, <2>4 DEF Typed
    <3>2. ASSUME NEW x \in Members(s) PROVE Keeps(x)
      <4>1. x \in Clients /\ x \notin Range(left)
        BY <1>4, <2>2, <2>4, <3>2, SomebodyIn
      <4> QED BY <1>1, <2>1, <2>3, <4>1, SentNews
    <3> QED BY <1>3, <3>1, <3>2
  <2>5. ASSUME NEW x \in Range(left), Online(x) PROVE TellsEnd(x)'
    <3>1. x \in Clients
      BY <2>2, <2>5, SomebodyIn
    <3>2. Tells(x, Msg("S_LeaveGame"))'
      BY <1>1, <2>1, <2>3, <2>5, <3>1, SentNews DEF TurnKinds
    <3> QED BY <2>3, <3>2 DEF TellsEnd
  <2>6. players'[r] = left /\ ~start'[r]
    BY <2>1 DEF Typed
  <2>7. \A i \in 1..Len(left) : left[i] \in Range(left)
    BY <2>2, Indexes DEF Range
  <2>8. InformedIn(r)'
    BY <1>2, <2>5, <2>6, <2>7 DEF InformedIn
  <2> QED BY <2>4, <2>8 DEF Informed
<1> QED BY <1>5, <1>6, <1>7, <1>8, <1>9, <1>10 DEF Outcome

-----------------------------------------------------------------------------
\* Informed is inductive on top of the invariant of GameServerProofs.
LEMMA NewsStep == GInv /\ Informed /\ [Next]_vars => Informed'
<1> USE DEF ClientStep
<1> SUFFICES ASSUME GInv, Informed, [Next]_vars PROVE Informed'
  OBVIOUS
<1>1. Typed /\ Seats /\ Protocol /\ Damage
  BY DEF GInv
<1>2. ASSUME UNCHANGED vars PROVE Informed'
  <2>1. UNCHANGED <<players, game, start, down, phase, told>>
    BY <1>2 DEF vars, clientVars, roomVars
  <2>2. \A x : Online(x)' => Online(x) /\ \A m : Tells(x, m) => Tells(x, m)'
    BY <2>1, ToldSame DEF Online
  <2> QED BY <1>1, <2>1, <2>2, RoomKept DEF Informed
<1>3. ASSUME NEW c \in Clients, HandlePacket(c) PROVE Informed'
  BY <1>1, <1>3, HandleSplit, ServerNews
<1>4. ASSUME NEW c \in Clients, ClientStep(c)
      PROVE  Informed'
  BY <1>1, <1>4, ClientNews
<1> QED BY <1>2, <1>3, <1>4 DEF Next

\* What the server has told its players, read or not, is where they sit.
THEOREM NewsInvariant == Spec => []Informed
<1>1. Init => Informed
  <2> SUFFICES ASSUME Init, NEW r \in Rooms PROVE InformedIn(r)
    BY DEF Informed
  <2>1. players[r] = <<>>
    BY DEF Init
  <2>2. 1..Len(players[r]) = {}
    BY <2>1
  <2> QED BY <2>2 DEF InformedIn
<1> QED
  BY <1>1, NewsStep, GameInvariant, PTL DEF Spec

\* Whatever rooms, opponents and games came before, and whatever is still on
\* its way: when it has read everything, each player of a running game knows
\* this very game and its own colour, and a player left alone knows that.
THEOREM GameInformed == Spec => []PlayersInformed
<1>1. Informed /\ Typed => PlayersInformed
  <2> SUFFICES ASSUME Typed, Informed, NEW r \in rooms, NEW i \in DOMAIN players[r],
                      Online(players[r][i])
               PROVE  /\ start[r] => /\ Known(players[r][i]).kind = "S_StartGame"
                                     /\ Known(players[r][i]).game = game[r]
                                     /\ Known(players[r][i]).stone = Seat(i)
                      /\ Len(players[r]) = 1 => Known(players[r][i]).kind = "S_LeaveGame"
    BY DEF PlayersInformed, Seat
  <2>1. r \in Rooms /\ players[r] \in Seq(Clients)
    BY DEF Typed
  <2>2. i \in 1..Len(players[r])
    BY <2>1, Indexes
  <2>3. players[r][i] \in Clients
    BY <2>1, <2>2
  <2>4. /\ start[r] => TellsGame(players[r][i], game[r], Seat(i))
        /\ Len(players[r]) = 1 => TellsEnd(players[r][i])
    BY <2>1, <2>2 DEF Informed, InformedIn
  <2> QED BY <2>3, <2>4, KnownIsTold DEF TellsGame, TellsEnd
<1> QED BY <1>1, NewsInvariant, GameInvariant, PTL DEF GInv

-----------------------------------------------------------------------------
(* GameServer implements Match.                                            *)

\* Who is managed sits where its pointer leads, or its pointer leads nowhere.
Pointed == \A c \in managed : crashed \/ Seated(c) \/ gameRoom[c] = NoRoom

\* Room r as Match sees it.
AloneOf(s) == {c \in Clients : s = <<c>>}
AloneIn(r) == IF r \in rooms THEN AloneOf(players[r]) ELSE {}
Paired(r) == r \in rooms /\ Len(players[r]) = 2
TableIn(r) == {m \in {Table(r)} : Paired(r)}

\* The list of a player alone.
LEMMA Single ==
  /\ \A s, d : s = <<d>> => Len(s) = 1 /\ s[1] = d /\ s # <<>>
  /\ \A p, c : Len(<<p, c>>) = 2
  /\ \A c \in Clients : AloneOf(<<c>>) = {c}
  /\ \A s : Len(s) # 1 => AloneOf(s) = {}
<1>1. \A s, d : s = <<d>> => Len(s) = 1 /\ s[1] = d /\ s # <<>>
  BY Lists
<1>2. \A p, c : Len(<<p, c>>) = 2
  BY Lists
<1>3. ASSUME NEW c \in Clients PROVE AloneOf(<<c>>) = {c}
  <2>1. \A d : <<c>> = <<d>> => d = c
    BY <1>1
  <2> QED BY <2>1 DEF AloneOf
<1>4. \A s : Len(s) # 1 => AloneOf(s) = {}
  BY <1>1 DEF AloneOf
<1> QED BY <1>1, <1>2, <1>3, <1>4

\* A step of the server keeps Pointed.
LEMMA PointedServer ==
  ASSUME Typed, Seats, Pointed, NEW c \in Clients, Pop(c), Outcome(c)
  PROVE  Pointed'
<1> SUFFICES ASSUME NEW d \in managed', ~crashed'
             PROVE  Seated(d)' \/ gameRoom'[d] = NoRoom
  BY DEF Pointed
<1>1. ~crashed
  BY DEF Pop
<1>2. ASSUME d \in managed, \A r \in Rooms : Members(r)' = Members(r), UNCHANGED gameRoom
      PROVE  Seated(d)' \/ gameRoom'[d] = NoRoom
  BY <1>1, <1>2 DEF Pointed, Seated
<1>3. CASE SignUp(c) \/ Refuse(c) \/ Vanish(c) \/ Failure(c)
  <2>1. d \in managed /\ UNCHANGED <<players, gameRoom>>
    BY <1>3 DEF SignUp, Refuse, Vanish, Failure, roomVars
  <2> QED BY <1>2, <2>1 DEF Members
<1>4. ASSUME NEW r \in Rooms, Sit(c, r) PROVE Seated(d)' \/ gameRoom'[d] = NoRoom
  <2>1. \A x \in Rooms : Members(x)' = IF x = r THEN {c} ELSE Members(x)
    BY <1>4, MembersSit
  <2>2. d \in managed /\ players[r] = <<>> /\ gameRoom' = [gameRoom EXCEPT ![c] = r]
    BY <1>4 DEF Sit
  <2>3. Members(r) = {}
    BY <2>2, NobodyIn DEF Members
  <2>4. d # c => gameRoom'[d] = gameRoom[d]
    BY <2>2 DEF Typed
  <2> QED BY <1>1, <2>1, <2>2, <2>3, <2>4 DEF Pointed, Seated
<1>5. ASSUME NEW r \in Rooms, NEW p \in Clients, Join(c, r, p)
      PROVE  Seated(d)' \/ gameRoom'[d] = NoRoom
  <2>1. /\ \A x \in Rooms : Members(x)' = IF x = r THEN {p, c} ELSE Members(x)
        /\ Members(r) = {p}
    BY <1>5, MembersJoin
  <2>2. d \in managed /\ gameRoom' = [gameRoom EXCEPT ![c] = r]
    BY <1>5 DEF Join
  <2>3. d # c => gameRoom'[d] = gameRoom[d]
    BY <2>2 DEF Typed
  <2> QED BY <1>1, <2>1, <2>2, <2>3 DEF Pointed, Seated
<1>6. ASSUME NEW r \in Rooms, NEW m \in Placed, NEW won \in BOOLEAN, Put(c, r, m, won)
      PROVE  Seated(d)' \/ gameRoom'[d] = NoRoom
  BY <1>2, <1>6 DEF Put, Members
<1>7. ASSUME NEW r \in Rooms, Depart(c, r, Without(players[r], c))
      PROVE  Seated(d)' \/ gameRoom'[d] = NoRoom
  <2>1. \A x \in Rooms : Members(x)' = IF x = r THEN Members(r) \ {c} ELSE Members(x)
    BY <1>7, MembersDepart
  <2>2. d \in managed /\ d # c /\ d \in Clients
    BY <1>7 DEF Depart, Typed
  <2>3. gameRoom[d] = NoRoom => gameRoom'[d] = NoRoom
    BY <1>7, <2>2 DEF Depart, ForgetRoom
  <2> QED BY <1>1, <2>1, <2>2, <2>3 DEF Pointed, Seated
<1> QED BY <1>3, <1>4, <1>5, <1>6, <1>7 DEF Outcome

\* And so does every step.
LEMMA PointedStep == GInv /\ Pointed /\ [Next]_vars => Pointed'
<1> SUFFICES ASSUME GInv, Pointed, [Next]_vars PROVE Pointed'
  OBVIOUS
<1>1. Typed /\ Seats /\ Protocol /\ Damage
  BY DEF GInv
<1>2. ASSUME NEW c \in Clients, HandlePacket(c) PROVE Pointed'
  BY <1>1, <1>2, HandleSplit, PointedServer
<1>3. ASSUME UNCHANGED <<managed, roomVars, crashed>> PROVE Pointed'
  BY <1>3 DEF Pointed, Seated, Members, roomVars
<1>4. ASSUME NEW c \in Clients, OnConnected(c) PROVE Pointed'
  <2>1. Unseated(c)
    BY <1>1, <1>4 DEF OnConnected, Protocol, Stage
  <2> QED BY <1>4, <2>1 DEF OnConnected, Pointed, Seated, Unseated, Members, roomVars
<1>5. ASSUME NEW c \in Clients, ClientStep(c), ~OnConnected(c) PROVE Pointed'
  BY <1>3, <1>5 DEF ClientStep, OnDisconnected, SubmitName, LoginRefused, LoginAccepted,
       GameBegins, GameLeft, GameNews, PlayStoneCallback, FreeSession
<1>6. CASE UNCHANGED vars
  BY <1>3, <1>6 DEF vars
<1> QED BY <1>2, <1>4, <1>5, <1>6 DEF Next, ClientStep

-----------------------------------------------------------------------------
\* Whoever sits at a table of Match, or waits there, sits in a room.
LEMMA SidesOf ==
  ASSUME Typed
  PROVE  /\ \A r \in Rooms : Len(players[r]) = 2 => M!Sides(Table(r)) = Members(r)
         /\ \A c \in M!Seated : Seated(c)
<1>1. ASSUME NEW r \in Rooms, Len(players[r]) = 2 PROVE M!Sides(Table(r)) = Members(r)
  <2>1. players[r] \in Seq(Clients)
    BY DEF Typed
  <2>2. players[r] = <<players[r][1], players[r][2]>>
    BY <1>1, <2>1, TwoLong
  <2>3. Members(r) = {players[r][1], players[r][2]}
    BY <2>2, Ranges DEF Members
  <2> QED BY <2>3 DEF M!Sides, Table
<1>2. ASSUME NEW c \in M!Seated PROVE Seated(c)
  <2>1. CASE c \in LeftAlone
    <3>1. PICK r \in rooms : players[r] = <<c>>
      BY <2>1 DEF LeftAlone
    <3>2. r \in Rooms /\ c \in Members(r)
      BY <3>1, Ranges DEF Typed, Members
    <3> QED BY <3>2 DEF Seated
  <2>2. ASSUME NEW m \in Tables, c \in M!Sides(m) PROVE Seated(c)
    <3>1. PICK r \in rooms : Len(players[r]) = 2 /\ m = Table(r)
      BY <2>2 DEF Tables
    <3>2. r \in Rooms
      BY DEF Typed
    <3> QED BY <1>1, <2>2, <3>1, <3>2 DEF Seated
  <2> QED BY <1>2, <2>1, <2>2 DEF M!Seated
<1> QED BY <1>1, <1>2

\* When one room changes, its waiting player or its table is replaced.
LEMMA RoomChanged ==
  ASSUME Typed, Seats, NEW r \in Rooms, rooms' \subseteq Rooms,
         \A s \in Rooms : s # r =>
            /\ s \in rooms' <=> s \in rooms
            /\ players'[s] = players[s] /\ stones'[s] = stones[s] /\ start'[s] = start[s]
  PROVE  /\ LeftAlone' = (LeftAlone \ AloneIn(r)) \cup AloneIn(r)'
         /\ Tables' = (Tables \ TableIn(r)) \cup TableIn(r)'
<1>1. rooms \subseteq Rooms
  BY DEF Typed
<1>2. ASSUME NEW s \in Rooms, s # r
      PROVE  /\ AloneIn(s)' = AloneIn(s) /\ AloneIn(s) \cap AloneIn(r) = {}
             /\ TableIn(s)' = TableIn(s) /\ TableIn(s) \cap TableIn(r) = {}
  <2>1. \A c \in Members(s) : c \notin Members(r)
    BY <1>2 DEF Seats
  <2>2. ASSUME NEW c \in Clients, NEW x \in Rooms, players[x] = <<c>> PROVE c \in Members(x)
    BY <2>2, Ranges DEF Members
  <2>3. AloneIn(s) \cap AloneIn(r) = {}
    BY <1>2, <2>1, <2>2 DEF AloneIn, AloneOf
  <2>4. ASSUME NEW x \in Rooms, Paired(x) PROVE Table(x).black \in Members(x)
    <3>1. Len(players[x]) = 2
      BY <2>4 DEF Paired
    <3>2. players[x][1] \in Members(x)
      BY <3>1, SomebodyIn
    <3> QED BY <3>2 DEF Table
  <2>5. TableIn(s) \cap TableIn(r) = {}
    BY <1>2, <2>1, <2>4 DEF TableIn
  <2>6. AloneIn(s)' = AloneIn(s) /\ TableIn(s)' = TableIn(s)
    BY <1>2 DEF AloneIn, TableIn, Paired, Table
  <2> QED BY <2>3, <2>5, <2>6
<1>3. /\ \A c : c \in LeftAlone <=> \E s \in Rooms : c \in AloneIn(s)
      /\ \A m : m \in Tables <=> \E s \in Rooms : m \in TableIn(s)
  BY <1>1 DEF LeftAlone, AloneIn, AloneOf, Tables, TableIn, Paired
<1>4. /\ \A c : c \in LeftAlone' <=> \E s \in Rooms : c \in AloneIn(s)'
      /\ \A m : m \in Tables' <=> \E s \in Rooms : m \in TableIn(s)'
  BY DEF LeftAlone, AloneIn, AloneOf, Tables, TableIn, Paired
<1>5. LeftAlone' = (LeftAlone \ AloneIn(r)) \cup AloneIn(r)'
  BY <1>2, <1>3, <1>4
<1>6. Tables' = (Tables \ TableIn(r)) \cup TableIn(r)'
  BY <1>2, <1>3, <1>4
<1> QED BY <1>5, <1>6

\* An outcome of HandlePacket is a step of Match or invisible.
LEMMA MatchServer ==
  ASSUME Typed, Typed', Seats, Protocol, Pointed, NEW c \in Clients, Pop(c), Outcome(c)
  PROVE  [M!Next]_(M!vars)
<1> DEFINE Same == UNCHANGED <<LeftAlone, Tables>>
<1>1. Queue(c) /\ Head(up[c]) = up[c][1] /\ 1 \in 1..Len(up[c]) /\ ~crashed
  BY HeadOfQueue DEF Pop, Protocol
<1>2. late' \in {late, TRUE} /\ (Head(up[c]) # Disc => c \in managed \/ late')
  BY DEF Pop, Typed
<1>3. Head(up[c]) = Disc => c \in managed /\ UNCHANGED late
  BY <1>1 DEF Pop, Queue, Typed
<1>4. Head(up[c]) = Msg("C_EnterRoom") => Unseated(c) /\ c \notin M!Seated /\ Head(up[c]) # Disc
  BY <1>1, SidesOf, Messages DEF Queue, Unseated
<1>5. UNCHANGED <<rooms, players, stones, start>> => Same
  BY DEF LeftAlone, Tables, Table
<1>6. ASSUME M!Next PROVE [M!Next]_(M!vars)
  BY <1>6
<1>7. CASE SignUp(c) \/ Refuse(c)
  <2>1. UNCHANGED <<managed, rooms, players, stones, start>>
    BY <1>7 DEF SignUp, Refuse, roomVars
  <2>2. CASE UNCHANGED late
    BY <1>5, <2>1, <2>2 DEF M!vars
  <2>3. CASE late' = TRUE
    <3>1. M!Stray(c)
      BY <1>5, <2>1, <2>3 DEF M!Stray
    <3> QED BY <3>1 DEF M!Next
  <2> QED BY <1>2, <2>2, <2>3
<1>8. CASE Failure(c)
  <2>1. UNCHANGED <<rooms, players, stones, start>> /\ late' = TRUE
        /\ managed' \in {managed, managed \ {c}}
    BY <1>8 DEF Failure, roomVars
  <2>2. M!Stray(c)
    BY <1>5, <2>1 DEF M!Stray
  <2> QED BY <2>2 DEF M!Next
<1>9. CASE Vanish(c)
  <2>1. UNCHANGED <<rooms, players, stones, start>> /\ managed' = managed \ {c}
        /\ Head(up[c]) = Disc /\ ~Seated(c)
    BY <1>9 DEF Vanish, roomVars
  <2>2. M!Go(c)
    BY <1>3, <1>5, <2>1, SidesOf DEF M!Go
  <2> QED BY <2>2 DEF M!Next
<1>10. ASSUME NEW r \in Rooms, Sit(c, r) PROVE M!Next
  <2>1. /\ r \notin rooms /\ players[r] = <<>> /\ rooms' = rooms \cup {r}
        /\ \A q \in rooms : ~HasSeat(q)
        /\ Head(up[c]) = Msg("C_EnterRoom") /\ UNCHANGED <<managed, stones, start>>
    BY <1>10 DEF Sit
  <2>2. \A s \in Rooms : players'[s] = IF s = r THEN <<c>> ELSE players[s]
    BY <1>10 DEF Sit, Typed
  <2>3. /\ LeftAlone' = (LeftAlone \ AloneIn(r)) \cup AloneIn(r)'
        /\ Tables' = (Tables \ TableIn(r)) \cup TableIn(r)'
    BY <2>1, <2>2, RoomChanged DEF Typed
  <2>4. AloneIn(r) = {} /\ TableIn(r) = {} /\ TableIn(r)' = {}
    BY <2>1, <2>2, Lists DEF AloneIn, TableIn, Paired
  <2>5. AloneIn(r)' = {c}
    <3>1. r \in rooms' /\ players'[r] = <<c>>
      BY <2>1, <2>2
    <3> QED BY <3>1, Single DEF AloneIn
  <2>6. LeftAlone = {}
    <3> SUFFICES ASSUME NEW d \in Clients, NEW q \in rooms, players[q] = <<d>> PROVE FALSE
      BY DEF LeftAlone
    <3>1. Len(players[q]) = 1
      BY Single
    <3>2. ~HasSeat(q)
      BY <2>1
    <3> QED BY <3>1, <3>2 DEF HasSeat
  <2>7. M!Wait(c)
    BY <1>2, <1>4, <2>1, <2>3, <2>4, <2>5, <2>6 DEF M!Wait, M!Acts
  <2> QED BY <2>7 DEF M!Next
<1>11. ASSUME NEW r \in Rooms, NEW p \in Clients, Join(c, r, p) PROVE M!Next
  <2>1. /\ r \in rooms /\ players[r] = <<p>>
        /\ Head(up[c]) = Msg("C_EnterRoom") /\ UNCHANGED <<managed, rooms>>
        /\ stones' = [stones EXCEPT ![r] = Fresh] /\ start' = [start EXCEPT ![r] = TRUE]
    BY <1>11 DEF Join, StartGame
  <2>2. \A s \in Rooms : /\ players'[s] = IF s = r THEN <<p, c>> ELSE players[s]
                         /\ stones'[s] = IF s = r THEN Fresh ELSE stones[s]
                         /\ start'[s] = IF s = r THEN TRUE ELSE start[s]
    BY <1>11, <2>1 DEF Join, Typed
  <2>3. /\ LeftAlone' = (LeftAlone \ AloneIn(r)) \cup AloneIn(r)'
        /\ Tables' = (Tables \ TableIn(r)) \cup TableIn(r)'
    BY <2>1, <2>2, RoomChanged DEF Typed
  <2>4. AloneIn(r) = {p} /\ TableIn(r) = {} /\ AloneIn(r)' = {} /\ Paired(r)'
    <3>1. players'[r] = <<p, c>> /\ Len(players[r]) = 1 /\ Len(players'[r]) = 2
      BY <2>1, <2>2, Single
    <3>2. AloneOf(players[r]) = {p} /\ AloneOf(players'[r]) = {}
      <4>1. AloneOf(players[r]) = {p}
        BY <2>1, Single
      <4>2. AloneOf(players'[r]) = {}
        BY <3>1, Single
      <4> QED BY <4>1, <4>2
    <3> QED BY <2>1, <3>1, <3>2 DEF AloneIn, TableIn, Paired
  <2>5. TableIn(r)' = {M!Begun(p, c)}
    <3>1. Table(r)' = [black |-> p, white |-> c, board |-> Fresh, over |-> FALSE]
      <4>1. players'[r][1] = p /\ players'[r][2] = c /\ stones'[r] = Fresh /\ start'[r] = TRUE
        <5>1. players'[r] = <<p, c>> /\ stones'[r] = Fresh /\ start'[r] = TRUE
          BY <2>2
        <5> QED BY <5>1, Lists
      <4> QED BY <4>1, Zenon DEF Table
    <3> QED BY <2>4, <3>1 DEF TableIn, M!Begun, M!Game, Fresh
  <2>6. p \in LeftAlone
    BY <2>1 DEF LeftAlone
  <2>7. M!Pair(p, c)
    BY <1>2, <1>4, <2>1, <2>3, <2>4, <2>5, <2>6 DEF M!Pair, M!Acts
  <2> QED BY <2>7 DEF M!Next
<1>12. ASSUME NEW r \in Rooms, NEW m \in Placed, NEW won \in BOOLEAN, Put(c, r, m, won)
       PROVE  M!Next
  <2>1. /\ r \in rooms /\ gameRoom[c] = r /\ start[r] /\ stones[r][m.cell] = Blank
        /\ Head(up[c]) = m /\ UNCHANGED <<managed, rooms, players>>
        /\ stones' = [stones EXCEPT ![r][m.cell] = m.stone] /\ start' = [start EXCEPT ![r] = ~won]
    BY <1>12 DEF Put
  <2>2. \A s \in Rooms : /\ stones'[s] = IF s = r THEN [stones[r] EXCEPT ![m.cell] = m.stone]
                                                  ELSE stones[s]
                         /\ start'[s] = IF s = r THEN ~won ELSE start[s]
    BY <2>1 DEF Typed
  <2>3. /\ LeftAlone' = (LeftAlone \ AloneIn(r)) \cup AloneIn(r)'
        /\ Tables' = (Tables \ TableIn(r)) \cup TableIn(r)'
    BY <2>1, <2>2, RoomChanged DEF Typed
  <2>4. Len(players[r]) = 2
    BY <2>1 DEF Seats, RunningHasBoard
  <2>5. AloneIn(r) = {} /\ AloneIn(r)' = {} /\ Paired(r) /\ Paired(r)'
    <3>1. AloneOf(players[r]) = {}
      BY <2>4, Single
    <3> QED BY <2>1, <2>4, <3>1 DEF AloneIn, Paired
  <2>6. Table(r)' = M!Game(Table(r).black, Table(r).white,
                           [Table(r).board EXCEPT ![m.cell] = m.stone], won)
    <3>1. Table(r)' = [black |-> players[r][1], white |-> players[r][2],
                       board |-> [stones[r] EXCEPT ![m.cell] = m.stone], over |-> won]
      <4>1. (~start'[r]) = won
        BY <2>2
      <4> QED BY <2>1, <2>2, <4>1, Zenon DEF Table
    <3>2. Table(r).black = players[r][1] /\ Table(r).white = players[r][2]
          /\ Table(r).board = stones[r]
      BY DEF Table
    <3> QED BY <3>1, <3>2, Zenon DEF M!Game
  <2>7. Tables' = (Tables \ {Table(r)}) \cup {Table(r)'} /\ LeftAlone' = LeftAlone
    BY <2>3, <2>5 DEF TableIn
  <2>8. Table(r) \in Tables /\ ~Table(r).over /\ Table(r).board[m.cell] = Blank
    BY <2>1, <2>5 DEF Tables, Paired, Table
  <2>9. c \in managed => c \in M!Sides(Table(r))
    <3>1. SUFFICES ASSUME c \in managed PROVE c \in Members(r)
      BY <2>4, SidesOf
    <3>2. Seated(c)
      BY <1>1, <2>1, <3>1 DEF Queue
    <3> QED BY <2>1, <3>2 DEF Seated, Seats
  <2>10. m.cell \in Cells /\ m.stone \in Types /\ m # Disc
    BY Messages
  <2>11. M!Play(c, Table(r), m.cell, m.stone, won)
    BY <1>2, <2>1, <2>6, <2>7, <2>8, <2>9, <2>10 DEF M!Play, M!Acts
  <2> QED BY <2>8, <2>10, <2>11 DEF M!Next
<1>13. ASSUME NEW r \in Rooms, Depart(c, r, Without(players[r], c)) PROVE M!Next
  <2> DEFINE left == Without(players[r], c)
  <2>1. /\ Head(up[c]) = Disc /\ managed' = managed \ {c} /\ r \in rooms /\ gameRoom[c] = r
        /\ players' = [players EXCEPT ![r] = left]
        /\ stones' = [stones EXCEPT ![r] = NoBoard] /\ start' = [start EXCEPT ![r] = FALSE]
        /\ rooms' = IF left = <<>> THEN rooms \ {r} ELSE rooms
    BY <1>13 DEF Depart, ForgetRoom
  <2>2. c \in Members(r)
    <3>1. c \in managed /\ ~crashed
      BY <1>1, <1>3, <2>1
    <3>2. r # NoRoom
      BY GameAssumption
    <3>3. Seated(c)
      BY <2>1, <3>1, <3>2 DEF Pointed
    <3> QED BY <2>1, <3>3 DEF Seated, Seats
  <2>3. \A s \in Rooms : s # r =>
            /\ s \in rooms' <=> s \in rooms
            /\ players'[s] = players[s] /\ stones'[s] = stones[s] /\ start'[s] = start[s]
    BY <2>1 DEF Typed
  <2>4. /\ LeftAlone' = (LeftAlone \ AloneIn(r)) \cup AloneIn(r)'
        /\ Tables' = (Tables \ TableIn(r)) \cup TableIn(r)'
    BY <2>3, RoomChanged DEF Typed
  <2>5. players'[r] = left /\ left \in Seq(Clients) /\ Range(left) = Members(r) \ {c}
        /\ Len(left) <= 1
    BY <2>1, <2>2, Remaining DEF Typed
  <2> HIDE DEF left
  <2>6. TableIn(r)' = {}
    <3>1. Len(players'[r]) # 2
      BY <2>5
    <3> QED BY <3>1 DEF TableIn, Paired
  <2>7. AloneIn(r)' = Members(r) \ {c}
    <3>1. CASE left = <<>>
      <4>1. Members(r) \ {c} = {}
        BY <2>5, <3>1, NobodyIn
      <4> QED BY <2>5, <3>1, <4>1, Single DEF AloneIn
    <3>2. ASSUME NEW p \in Clients, left = <<p>> PROVE AloneIn(r)' = Members(r) \ {c}
      <4>1. Members(r) \ {c} = {p}
        BY <2>5, <3>2, Ranges
      <4>2. r \in rooms' /\ players'[r] = <<p>>
        BY <2>1, <2>5, <3>2, Single
      <4> QED BY <4>1, <4>2, Single DEF AloneIn
    <3> QED BY <2>5, <3>1, <3>2, Short
  <2>8. ASSUME NEW p \in Clients, players[r] = <<p>> PROVE M!Go(c)
    <3>1. Members(r) = {p}
      BY <2>8, Ranges DEF Members
    <3>2. p = c
      BY <2>2, <3>1
    <3>3. AloneIn(r) = {c} /\ TableIn(r) = {} /\ c \in LeftAlone
      <4>1. players[r] = <<c>> /\ Len(players[r]) = 1
        BY <2>8, <3>2, Single
      <4> QED BY <2>1, <4>1, Single DEF AloneIn, TableIn, Paired, LeftAlone
    <3> QED BY <1>3, <2>1, <2>4, <2>6, <2>7, <3>1, <3>2, <3>3 DEF M!Go
  <2>9. ASSUME Len(players[r]) = 2 PROVE M!Go(c)
    <3>1. Table(r) \in Tables /\ TableIn(r) = {Table(r)} /\ AloneIn(r) = {}
      BY <2>1, <2>9, Single DEF Tables, TableIn, Paired, AloneIn
    <3>2. M!Sides(Table(r)) = Members(r)
      BY <2>9, SidesOf
    <3> QED BY <1>3, <2>1, <2>2, <2>4, <2>6, <2>7, <3>1, <3>2 DEF M!Go
  <2>10. players[r] \in Seq(Clients) /\ Len(players[r]) <= 2 /\ players[r] # <<>>
    BY <2>1 DEF Typed, Seats
  <2>11. M!Go(c)
    BY <2>8, <2>9, <2>10, Short
  <2> QED BY <2>11 DEF M!Next
<1> QED BY <1>6, <1>7, <1>8, <1>9, <1>10, <1>11, <1>12, <1>13 DEF Outcome

\* Every step of the server and its clients is a step of Match or invisible.
LEMMA MatchStep == GInv /\ GInv' /\ Pointed /\ [Next]_vars => [M!Next]_(M!vars)
<1> SUFFICES ASSUME GInv, GInv', Pointed, [Next]_vars PROVE [M!Next]_(M!vars)
  OBVIOUS
<1>1. Typed /\ Seats /\ Protocol /\ Damage /\ Typed'
  BY DEF GInv
<1>2. ASSUME NEW c \in Clients, HandlePacket(c) PROVE [M!Next]_(M!vars)
  BY <1>1, <1>2, HandleSplit, MatchServer
<1>3. ASSUME UNCHANGED <<roomVars, late>> PROVE UNCHANGED <<LeftAlone, Tables, late>>
  BY <1>3 DEF roomVars, LeftAlone, Tables, Table
<1>4. ASSUME NEW c \in Clients, OnConnected(c) PROVE M!Next
  <2>1. c \notin managed
    BY <1>1, <1>4 DEF OnConnected, Protocol, Stage
  <2>2. M!Come(c)
    BY <1>3, <1>4, <2>1 DEF OnConnected, M!Come
  <2> QED BY <2>2 DEF M!Next
<1>5. ASSUME NEW c \in Clients, ClientStep(c), ~OnConnected(c) PROVE UNCHANGED M!vars
  <2>1. UNCHANGED <<managed, roomVars, late>>
    BY <1>5 DEF ClientStep, OnDisconnected, SubmitName, LoginRefused, LoginAccepted,
         GameBegins, GameLeft, GameNews, PlayStoneCallback, FreeSession
  <2> QED BY <1>3, <2>1 DEF M!vars
<1>6. CASE UNCHANGED vars
  BY <1>3, <1>6 DEF vars, M!vars
<1> QED BY <1>2, <1>4, <1>5, <1>6 DEF Next, ClientStep

\* Module GameServer, the main thread with all its rooms, implements Match.
THEOREM GameIsMatch == Spec => IsMatch
<1>1. Init => Pointed /\ M!Init
  <2> SUFFICES ASSUME Init PROVE Pointed /\ M!Init
    OBVIOUS
  <2>1. managed = {} /\ rooms = {} /\ ~late /\ late \in BOOLEAN
    BY DEF Init
  <2>2. LeftAlone = {} /\ Tables = {}
    BY <2>1 DEF LeftAlone, Tables
  <2> QED BY <2>1, <2>2 DEF Pointed, M!Init
<1>2. Spec => []Pointed
  BY <1>1, PointedStep, GameInvariant, PTL DEF Spec
<1> QED BY <1>1, <1>2, MatchStep, GameInvariant, PTL DEF Spec, IsMatch, M!Spec
===============================================================================
