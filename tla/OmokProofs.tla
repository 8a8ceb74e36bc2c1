------------------------------ MODULE OmokProofs ------------------------------
(***************************************************************************)
(* Proofs about the whole game.  A step of Omok is one of GameServer, or   *)
(* leaves the server alone, so all that is proved of GameServer holds with *)
(* the clients of Omok.                                                    *)
(*                                                                         *)
(* BoardReady then needs to know of every packet under way what the client *)
(* will show when its turn comes: Before.  Fits says that a game begins    *)
(* for a client only when the one before it was ended for it, and that     *)
(* stones and results come within a game.  That the server sends nothing   *)
(* else is what Informed of GameServerProofs says of a room: the player left*)
(* alone, to whom the next game is announced, was told of the end of the   *)
(* last, and both players of a running game of its beginning.              *)
(***************************************************************************)
EXTENDS Omok, GameServerProofs, FiniteSetTheorems

NewsKinds == {"S_PlayStone", "S_ThrowResult"}

\* What client c will know when it comes to packet i.
Before(c, i, m) ==
  \/ \E k \in 1..i - 1 :
        /\ down[c][k].kind \in TurnKinds /\ down[c][k] = m
        /\ \A j \in 1..i - 1 : down[c][j].kind \in TurnKinds => j <= k
  \/ (\A j \in 1..i - 1 : down[c][j].kind \notin TurnKinds) /\ Shown(c) = m

BeforeKind(c, i, kind) == \E m : Before(c, i, m) /\ m.kind = kind

FitsAt(c, i) ==
  /\ down[c][i].kind = "S_StartGame" => BeforeKind(c, i, "S_LeaveGame")
  /\ down[c][i].kind \in NewsKinds => BeforeKind(c, i, "S_StartGame")

Fits(c) == \A i \in 1..Len(down[c]) : FitsAt(c, i)

\* The board is there while a game is shown.
Boarded(c) ==
  /\ boards[c] \in 0..1
  /\ phase[c] # "gone" => boards[c] = IF phase[c] = "game" THEN 1 ELSE 0

\* Games under way are games that were begun.
Numbered(c) ==
  /\ told[c].game \in 0..games
  /\ \A i \in 1..Len(down[c]) : down[c][i].game \in 0..games

-----------------------------------------------------------------------------
\* Every step of the game is a step of the server's module, or none of its.
THEOREM OmokIsServer == OmokSpec => Spec
<1>1. OmokInit => Init
  BY DEF OmokInit
<1>2. [OmokNext]_allVars => [Next]_vars
  <2> SUFFICES ASSUME [OmokNext]_allVars PROVE [Next]_vars
    OBVIOUS
  <2>1. ASSUME UNCHANGED allVars PROVE UNCHANGED vars
    BY <2>1 DEF allVars
  <2>2. ASSUME NEW c \in Clients, UIStartGame(c) \/ Clear(c) PROVE Next
    BY <2>2 DEF UIStartGame, Clear, Next
  <2>3. ASSUME NEW c \in Clients, DoNextTurn(c) \/ EndGame(c) \/ CheckStone(c) PROVE Next
    BY <2>3 DEF DoNextTurn, EndGame, CheckStone, Next
  <2>4. ASSUME NEW c \in Clients, NoticeEnds(c) PROVE UNCHANGED vars
    BY <2>4 DEF NoticeEnds
  <2>5. ASSUME NEW c \in Clients, NEW cell \in Cells, Click(c, cell) PROVE Next
    BY <2>5 DEF Click, Next
  <2>6. ASSUME NEW c \in Clients, Serve(c) \/ Elsewhere(c) PROVE Next
    BY <2>6 DEF Serve, Elsewhere, Next
  <2> QED BY <2>1, <2>2, <2>3, <2>4, <2>5, <2>6 DEF OmokNext
<1> QED BY <1>1, <1>2, PTL DEF OmokSpec, Spec

-----------------------------------------------------------------------------
\* The last packet's past is all there is.
LEMMA BeforeLast ==
  ASSUME Typed, NEW c \in Clients, NEW m, NEW n, n = Len(down[c])
  PROVE  Before(c, n + 1, m) <=> Tells(c, m)
<1>1. down[c] \in Seq(DownMsgs)
  BY DEF Typed
<1>2. n \in Nat
  BY <1>1
<1>3. (n + 1) - 1 = n /\ 1..n \subseteq Nat
  BY <1>2
<1> QED BY <1>3 DEF Tells, LastTurn, NoTurn, Before

\* A packet sent leaves the past of the others alone.
LEMMA BeforeMore ==
  ASSUME Typed, NEW c \in Clients, NEW e \in DownMsgs,
         down'[c] = Append(down[c], e), phase'[c] = phase[c], told'[c] = told[c],
         NEW i \in 1..Len(down[c]) + 1, NEW m
  PROVE  Before(c, i, m)' <=> Before(c, i, m)
<1>1. down[c] \in Seq(DownMsgs)
  BY DEF Typed
<1>2. PICK n \in Nat : n = Len(down[c])
  BY <1>1
<1>3. \A k \in 1..n : down'[c][k] = down[c][k]
  BY <1>1, <1>2, Appended
<1>4. Shown(c)' = Shown(c)
  BY DEF Shown
<1>5. \A k \in 1..i - 1 : k \in 1..n
  BY <1>2
<1>6. \A k \in 1..i - 1 : down'[c][k] = down[c][k]
  BY <1>3, <1>5
<1> QED BY <1>4, <1>6 DEF Before

\* One that is read becomes what is shown.
LEMMA BeforeLess ==
  ASSUME Typed, NEW c \in Clients, down[c] # <<>>, down'[c] = Tail(down[c]),
         Head(down[c]).kind \in TurnKinds => Shown(c)' = Head(down[c]),
         Head(down[c]).kind \notin TurnKinds => Shown(c)' = Shown(c),
         NEW i \in 1..Len(down[c]) - 1, NEW m
  PROVE  Before(c, i, m)' <=> Before(c, i + 1, m)
<1>1. down[c] \in Seq(DownMsgs)
  BY DEF Typed
<1>2. PICK n \in Nat : n = Len(down[c])
  BY <1>1
<1>3. /\ Len(down'[c]) = n - 1 /\ Head(down[c]) = down[c][1] /\ 1 \in 1..n
      /\ \A j \in 1..n - 1 : down'[c][j] = down[c][j + 1]
  BY <1>1, <1>2, Popped
<1>4. (i + 1) - 1 = i /\ 1 \in 1..i /\ i \in Nat /\ i <= n - 1
  BY <1>2
<1>5. \A j \in 1..i - 1 : j + 1 \in 1..i /\ down'[c][j] = down[c][j + 1]
  BY <1>2, <1>3
<1>6. ASSUME NEW k \in 1..i, down[c][k].kind \in TurnKinds, down[c][k] = m,
             \A j \in 1..i : down[c][j].kind \in TurnKinds => j <= k
      PROVE  Before(c, i, m)'
  <2>1. CASE k = 1
    <3>1. \A j \in 1..i - 1 : ~(j + 1 <= 1)
      BY <1>2
    <3>2. \A j \in 1..i - 1 : down'[c][j].kind \notin TurnKinds
      BY <1>5, <1>6, <2>1, <3>1
    <3>3. Shown(c)' = m
      BY <1>3, <1>6, <2>1
    <3> QED BY <3>2, <3>3 DEF Before
  <2>2. CASE k # 1
    <3>1. k - 1 \in 1..i - 1 /\ (k - 1) + 1 = k
      BY <1>4, <2>2
    <3>2. down'[c][k - 1] = m
      BY <1>5, <1>6, <3>1
    <3>3. \A j \in 1..i - 1 : j + 1 <= k => j <= k - 1
      BY <1>4
    <3>4. \A j \in 1..i - 1 : down'[c][j].kind \in TurnKinds => j <= k - 1
      BY <1>5, <1>6, <3>3
    <3> QED BY <1>6, <3>1, <3>2, <3>4 DEF Before
  <2> QED BY <2>1, <2>2
<1>7. ASSUME \A j \in 1..i : down[c][j].kind \notin TurnKinds, Shown(c) = m
      PROVE  Before(c, i, m)'
  <2>1. Shown(c)' = m
    BY <1>3, <1>4, <1>7
  <2>2. \A j \in 1..i - 1 : down'[c][j].kind \notin TurnKinds
    BY <1>5, <1>7
  <2> QED BY <2>1, <2>2 DEF Before
<1>8. \A j \in 1..i : j = 1 \/ (j - 1 \in 1..i - 1 /\ (j - 1) + 1 = j)
  BY <1>4
<1>9. ASSUME NEW k \in 1..i - 1, down'[c][k].kind \in TurnKinds, down'[c][k] = m,
             \A j \in 1..i - 1 : down'[c][j].kind \in TurnKinds => j <= k
      PROVE  Before(c, i + 1, m)
  <2>1. k + 1 \in 1..i /\ down[c][k + 1] = m /\ down[c][k + 1].kind \in TurnKinds
    BY <1>5, <1>9
  <2>2. ASSUME NEW j \in 1..i, down[c][j].kind \in TurnKinds PROVE j <= k + 1
    <3>1. CASE j = 1
      BY <1>4, <3>1
    <3>2. CASE j # 1
      <4>1. j - 1 \in 1..i - 1 /\ down'[c][j - 1] = down[c][j]
        BY <1>5, <1>8, <3>2
      <4>2. j - 1 <= k
        BY <1>9, <2>2, <4>1
      <4> QED BY <1>4, <4>2
    <3> QED BY <3>1, <3>2
  <2> QED BY <1>4, <2>1, <2>2 DEF Before
<1>10. ASSUME \A j \in 1..i - 1 : down'[c][j].kind \notin TurnKinds, Shown(c)' = m
       PROVE  Before(c, i + 1, m)
  <2>1. \A j \in 1..i : down[c][j].kind \in TurnKinds => j = 1
    BY <1>5, <1>8, <1>10
  <2>2. CASE Head(down[c]).kind \in TurnKinds
    <3>1. down[c][1] = m /\ 1 \in 1..i
      BY <1>3, <1>4, <1>10, <2>2
    <3>2. \A j \in 1..i : down[c][j].kind \in TurnKinds => j <= 1
      BY <1>4, <2>1
    <3> QED BY <1>3, <1>4, <2>2, <3>1, <3>2 DEF Before
  <2>3. CASE Head(down[c]).kind \notin TurnKinds
    <3>1. \A j \in 1..i : down[c][j].kind \notin TurnKinds
      BY <1>3, <2>1, <2>3
    <3> QED BY <1>4, <1>10, <2>3, <3>1 DEF Before
  <2> QED BY <2>2, <2>3
<1>11. Before(c, i, m)' => Before(c, i + 1, m)
  BY <1>9, <1>10 DEF Before
<1> QED BY <1>4, <1>6, <1>7, <1>11 DEF Before

\* What is sent fits when it fits the last turn told.
LEMMA FitsMore ==
  ASSUME Typed, NEW c \in Clients, Fits(c), NEW e \in DownMsgs,
         down'[c] = Append(down[c], e), phase'[c] = phase[c], told'[c] = told[c],
         e.kind = "S_StartGame" => TellsEnd(c),
         e.kind \in NewsKinds => \E m : Tells(c, m) /\ m.kind = "S_StartGame"
  PROVE  Fits(c)'
<1>1. down[c] \in Seq(DownMsgs)
  BY DEF Typed
<1>2. PICK n \in Nat : n = Len(down[c])
  BY <1>1
<1>3. /\ Len(down'[c]) = n + 1 /\ down'[c][n + 1] = e
      /\ \A i \in 1..n : down'[c][i] = down[c][i]
  BY <1>1, <1>2, Appended
<1>4. ASSUME NEW i \in 1..n + 1, NEW m, Before(c, i, m) PROVE Before(c, i, m)'
  BY <1>2, <1>4, BeforeMore
<1>5. ASSUME NEW i \in 1..n + 1, NEW k, BeforeKind(c, i, k) PROVE BeforeKind(c, i, k)'
  BY <1>4, <1>5 DEF BeforeKind
<1>6. ASSUME NEW i \in 1..n PROVE FitsAt(c, i)'
  <2>1. i \in 1..n + 1
    BY <1>2
  <2> QED BY <1>2, <1>3, <1>5, <2>1 DEF Fits, FitsAt
<1>7. FitsAt(c, n + 1)'
  <2>1. n + 1 \in 1..n + 1
    BY <1>2
  <2>2. e.kind = "S_StartGame" => BeforeKind(c, n + 1, "S_LeaveGame")'
    BY <1>2, <1>5, <2>1, BeforeLast DEF TellsEnd, BeforeKind
  <2>3. e.kind \in NewsKinds => BeforeKind(c, n + 1, "S_StartGame")'
    <3> SUFFICES ASSUME e.kind \in NewsKinds PROVE BeforeKind(c, n + 1, "S_StartGame")'
      OBVIOUS
    <3>1. PICK m : Tells(c, m) /\ m.kind = "S_StartGame"
      OBVIOUS
    <3>2. BeforeKind(c, n + 1, "S_StartGame")
      BY <1>2, <3>1, BeforeLast DEF BeforeKind
    <3> QED BY <1>5, <2>1, <3>2
  <2> QED BY <1>3, <2>2, <2>3 DEF FitsAt
<1>8. \A i \in 1..n + 1 : i \in 1..n \/ i = n + 1
  BY <1>2
<1> QED BY <1>3, <1>6, <1>7, <1>8 DEF Fits

\* What waits behind a packet that is read still fits.
LEMMA FitsLess ==
  ASSUME Typed, NEW c \in Clients, Fits(c), down[c] # <<>>, down'[c] = Tail(down[c]),
         Head(down[c]).kind \in TurnKinds => Shown(c)' = Head(down[c]),
         Head(down[c]).kind \notin TurnKinds => Shown(c)' = Shown(c)
  PROVE  Fits(c)'
<1>1. down[c] \in Seq(DownMsgs)
  BY DEF Typed
<1>2. PICK n \in Nat : n = Len(down[c])
  BY <1>1
<1>3. /\ Len(down'[c]) = n - 1 /\ Head(down[c]) = down[c][1] /\ 1 \in 1..n
      /\ \A i \in 1..n - 1 : down'[c][i] = down[c][i + 1]
  BY <1>1, <1>2, Popped
<1>4. ASSUME NEW i \in 1..n - 1, NEW m, Before(c, i + 1, m) PROVE Before(c, i, m)'
  BY <1>2, <1>4, BeforeLess
<1>5. ASSUME NEW i \in 1..n - 1 PROVE FitsAt(c, i)'
  <2>1. i + 1 \in 1..n /\ down'[c][i] = down[c][i + 1]
    BY <1>2, <1>3
  <2>2. FitsAt(c, i + 1)
    BY <1>2, <2>1 DEF Fits
  <2> QED BY <1>4, <2>1, <2>2 DEF FitsAt, BeforeKind
<1> QED BY <1>3, <1>5 DEF Fits

\* What a client that comes to a packet shows.
LEMMA FitsFirst ==
  ASSUME Typed, NEW c \in Clients, Fits(c), NEW k, Heard(c, k)
  PROVE  /\ k = "S_StartGame" => phase[c] # "game"
         /\ k \in NewsKinds => phase[c] = "game"
<1>1. down[c] \in Seq(DownMsgs) /\ down[c] # <<>>
  BY DEF Typed, Heard
<1>2. Head(down[c]) = down[c][1] /\ 1 \in 1..Len(down[c])
  BY <1>1, Popped
<1>3. FitsAt(c, 1) /\ down[c][1].kind = k
  BY <1>2 DEF Fits, Heard
<1>4. \A kind : BeforeKind(c, 1, kind) => Shown(c).kind = kind
  <2>1. 1 - 1 = 0 /\ 1..0 = {}
    OBVIOUS
  <2> QED BY <2>1 DEF BeforeKind, Before
<1>5. /\ phase[c] = "game" => Shown(c).kind = "S_StartGame"
      /\ phase[c] # "game" => Shown(c).kind = "S_LeaveGame"
  BY Messages DEF Shown, Typed
<1> QED BY <1>3, <1>4, <1>5 DEF FitsAt

-----------------------------------------------------------------------------
\* What the server sends fits, and is numbered.
LEMMA FitsServer ==
  ASSUME Typed, Seats, Protocol, Informed, NEW c \in Clients, Pop(c), Outcome(c),
         \A x \in Clients : Fits(x) /\ Numbered(x)
  PROVE  \A x \in Clients : Fits(x)' /\ Numbered(x)'
<1>1. UNCHANGED <<phase, told>> /\ UNCHANGED clientVars
  BY DEF Pop, clientVars
<1>2. ASSUME NEW x \in Clients, down'[x] = down[x] PROVE Fits(x)'
  <2>1. Shown(x)' = Shown(x)
    BY <1>1 DEF Shown
  <2>2. \A i, m : Before(x, i, m) => Before(x, i, m)'
    BY <1>2, <2>1 DEF Before
  <2> QED BY <1>2, <2>2 DEF Fits, FitsAt, BeforeKind
<1>3. games' \in Nat /\ games' >= games /\ games \in Nat
  <2>1. games' = games \/ games' = games + 1
    BY DEF Outcome, SignUp, Failure, Refuse, Vanish, Sit, Join, StartGame, Put, Depart, roomVars
  <2>2. games \in Nat
    BY DEF Typed
  <2> QED BY <2>1, <2>2
<1>4. ASSUME NEW x \in Clients, down'[x] = down[x] PROVE Numbered(x)'
  BY <1>1, <1>3, <1>4 DEF Numbered
<1>5. ASSUME NEW x \in Clients, NEW e \in DownMsgs, down'[x] = Append(down[x], e),
             e.game \in 0..games'
      PROVE  Numbered(x)'
  <2>1. down[x] \in Seq(DownMsgs)
    BY DEF Typed
  <2>2. PICK n \in Nat : n = Len(down[x])
    BY <2>1
  <2>3. /\ Len(down'[x]) = n + 1 /\ down'[x][n + 1] = e
        /\ \A i \in 1..n : down'[x][i] = down[x][i]
    BY <1>5, <2>1, <2>2, Appended
  <2>4. \A i \in 1..n + 1 : i \in 1..n \/ i = n + 1
    BY <2>2
  <2> QED BY <1>1, <1>3, <1>5, <2>2, <2>3, <2>4 DEF Numbered
<1>6. ASSUME NEW out, SendAll(out), \A x \in DOMAIN out : out[x] \in DownMsgs,
             \A x \in DOMAIN out : out[x].game \in 0..games',
             \A x \in Clients : x \in DOMAIN out /\ Online(x) =>
                /\ out[x].kind = "S_StartGame" => TellsEnd(x)
                /\ out[x].kind \in NewsKinds => \E m : Tells(x, m) /\ m.kind = "S_StartGame",
             NEW x \in Clients
      PROVE  Fits(x)' /\ Numbered(x)'
  <2>1. down'[x] = IF x \in DOMAIN out /\ Online(x) THEN Append(down[x], out[x]) ELSE down[x]
    BY <1>6, Sent
  <2>2. CASE x \in DOMAIN out /\ Online(x)
    <3>1. down'[x] = Append(down[x], out[x]) /\ out[x] \in DownMsgs /\ out[x].game \in 0..games'
      BY <1>6, <2>1, <2>2
    <3>2. Numbered(x)'
      BY <1>5, <3>1
    <3>3. Fits(x)'
      BY <1>1, <1>6, <2>2, <3>1, FitsMore
    <3> QED BY <3>2, <3>3
  <2>3. CASE ~(x \in DOMAIN out /\ Online(x))
    BY <1>2, <1>4, <2>1, <2>3
  <2> QED BY <2>2, <2>3
<1>7. CASE Failure(c) \/ Vanish(c) \/ \E r \in Rooms : Sit(c, r)
  <2>1. down' = down
    BY <1>7 DEF Failure, Vanish, Sit
  <2> QED BY <1>2, <1>4, <2>1
<1>8. CASE SignUp(c) \/ Refuse(c)
  <2>1. PICK k \in {"S_Login(true)", "S_CheckStone(false)"} : SendTo(c, k)
    BY <1>8 DEF SignUp, Refuse
  <2>2. PICK out : out = [x \in {c} |-> Msg(k)]
    OBVIOUS
  <2>3. SendAll(out) /\ DOMAIN out = {c} /\ out[c] = Msg(k)
    BY <2>1, <2>2 DEF SendTo
  <2>4. k # "S_StartGame" /\ k \notin NewsKinds /\ Msg(k).kind = k /\ Msg(k) \in DownMsgs
    BY Messages, SentTypes DEF NewsKinds
  <2>5. Msg(k).game \in 0..games'
    BY <1>3 DEF Msg
  <2> QED BY <1>6, <2>3, <2>4, <2>5
<1>9. ASSUME NEW r \in Rooms, NEW p \in Clients, Join(c, r, p)
      PROVE  \A x \in Clients : Fits(x)' /\ Numbered(x)'
  <2>1. PICK g \in Nat : g = games + 1
    BY NextGame
  <2>2. PICK out :
          out = [x \in {p, c} |->
                  [Msg("S_StartGame") EXCEPT !.stone = IF x = p THEN Black ELSE White, !.game = g]]
    OBVIOUS
  <2>3. /\ players[r] = <<p>> /\ SendAll(out) /\ games' = g
        /\ Head(up[c]) = Msg("C_EnterRoom")
    BY <1>9, <2>1, <2>2 DEF Join, StartGame
  <2>4. DOMAIN out = {p, c} /\ Black \in Types /\ White \in Types
    BY <2>2 DEF Types
  <2>5. \A x \in {p, c} : out[x] \in DownMsgs
    BY <2>2, <2>4, SentTypes DEF DownMsgs, GameMsgs
  <2>6. \A x \in {p, c} : out[x].kind = "S_StartGame" /\ out[x].game = g
    BY <2>2 DEF Msg
  <2>7. g \in 0..games'
    BY <2>3
  <2>8. Online(c) => TellsEnd(c)
    <3> SUFFICES ASSUME Online(c) PROVE TellsEnd(c)
      OBVIOUS
    <3>1. Waiting(c)
      BY <2>3, Handled DEF Online
    <3>2. NoTurn(c) /\ Shown(c) = Msg("S_LeaveGame")
      BY <3>1 DEF Waiting, NoTurn, Shown
    <3> QED BY <3>2, Messages DEF TellsEnd, Tells
  <2>9. Online(p) => TellsEnd(p)
    <3>1. InformedIn(r) /\ Len(<<p>>) = 1 /\ <<p>>[1] = p /\ 1 \in 1..1
      BY DEF Informed
    <3> QED BY <2>3, <3>1 DEF InformedIn
  <2>10. "S_StartGame" \notin NewsKinds
    BY DEF NewsKinds
  <2> QED BY <1>6, <2>3, <2>4, <2>5, <2>6, <2>7, <2>8, <2>9, <2>10
<1>10. ASSUME NEW r \in Rooms, NEW m \in Placed, NEW won \in BOOLEAN, Put(c, r, m, won)
       PROVE  \A x \in Clients : Fits(x)' /\ Numbered(x)'
  <2>1. PICK out :
          out = [x \in Members(r) |->
            [Msg(IF won THEN "S_ThrowResult" ELSE "S_PlayStone") EXCEPT !.stone = m.stone]]
    OBVIOUS
  <2>2. start[r] /\ SendAll(out) /\ games' = games
    BY <1>10, <2>1 DEF Put
  <2>3. DOMAIN out = Members(r) /\ m.stone \in Types
    BY <2>1, Messages
  <2>4. \A x \in Members(r) : out[x] \in Notes /\ out[x].game = 0
    BY <2>1, <2>3, SentTypes DEF Msg
  <2>5. \A x \in Members(r) : out[x] \in DownMsgs /\ out[x].kind # "S_StartGame"
    BY <2>4, Messages DEF DownMsgs, GameMsgs
  <2>6. 0 \in 0..games'
    BY <1>3
  <2>7. ASSUME NEW x \in Members(r), Online(x)
        PROVE  \E k : Tells(x, k) /\ k.kind = "S_StartGame"
    <3>1. PICK i \in 1..Len(players[r]) : players[r][i] = x
      BY <2>7, SomebodyIn
    <3> QED BY <2>2, <2>7, <3>1 DEF Informed, InformedIn, TellsGame
  <2> QED BY <1>6, <2>2, <2>3, <2>4, <2>5, <2>6, <2>7
<1>11. ASSUME NEW r \in Rooms, Depart(c, r, Without(players[r], c))
       PROVE  \A x \in Clients : Fits(x)' /\ Numbered(x)'
  <2>1. PICK out : out = [x \in Range(Without(players[r], c)) |-> Msg("S_LeaveGame")]
    OBVIOUS
  <2>2. SendAll(out)
    BY <1>11, <2>1 DEF Depart
  <2>3. /\ Msg("S_LeaveGame") \in DownMsgs /\ Msg("S_LeaveGame").kind = "S_LeaveGame"
        /\ Msg("S_LeaveGame").game \in 0..games'
    <3>1. Msg("S_LeaveGame").game = 0
      BY DEF Msg
    <3>2. 0 \in 0..games'
      BY <1>3
    <3> QED BY <3>1, <3>2, SentTypes, Messages
  <2>4. "S_LeaveGame" # "S_StartGame" /\ "S_LeaveGame" \notin NewsKinds
    BY DEF NewsKinds
  <2>5. \A x \in DOMAIN out : out[x] = Msg("S_LeaveGame")
    BY <2>1
  <2> QED BY <1>6, <2>2, <2>3, <2>4, <2>5
<1> QED BY <1>7, <1>8, <1>9, <1>10, <1>11 DEF Outcome

-----------------------------------------------------------------------------
\* The clients' own state.
UITypes ==
  /\ state \in [Clients -> {"None", "MyTurn", "Wait"}]
  /\ boards \in [Clients -> 0..1]
  /\ notices \in [Clients -> Seq(0..games)]
  /\ strayed \in BOOLEAN

UIInv == UITypes /\ \A c \in Clients : Fits(c) /\ Numbered(c) /\ Boarded(c)

\* Channels with no packet, or one.
LEMMA Few ==
  /\ \A s : s = <<>> => 1..Len(s) = {}
  /\ \A s, d : s = <<d>> => 1..Len(s) = {1} /\ s[1] = d
<1>1. 1..Len(<<>>) = {}
  OBVIOUS
<1>2. ASSUME NEW d PROVE 1..Len(<<d>>) = {1} /\ <<d>>[1] = d
  <2>1. Len(<<d>>) = 1 /\ <<d>>[1] = d /\ 1..1 = {1}
    OBVIOUS
  <2> QED BY <2>1
<1> QED BY <1>1, <1>2

\* No game yet is a game number.
LEMMA FirstGame ==
  ASSUME Typed
  PROVE  0 \in 0..games
<1>1. games \in Nat
  BY DEF Typed
<1> QED BY <1>1

\* A list over a set is one over a larger set.
LEMMA WiderList ==
  ASSUME NEW S, NEW T, S \subseteq T, NEW s \in Seq(S)
  PROVE  s \in Seq(T)
<1> DEFINE n == Len(s)
<1>1. n \in Nat /\ s \in [1..n -> S]
  OBVIOUS
<1> HIDE DEF n
<1>2. s \in [1..n -> T]
  BY <1>1
<1> QED BY <1>1, <1>2

\* What comes to a client fits when it is read, and nobody else notices.
LEMMA FitsClient ==
  ASSUME Typed, Protocol, NEW c \in Clients, ClientStep(c),
         \A x \in Clients : Fits(x) /\ Numbered(x)
  PROVE  games' = games /\ \A x \in Clients : Fits(x)' /\ Numbered(x)'
<1> USE DEF ClientStep
<1>1. games' = games
  BY DEF OnConnected, OnDisconnected, SubmitName, LoginRefused, LoginAccepted, GameBegins,
       GameLeft, GameNews, PlayStoneCallback, FreeSession, roomVars
<1>2. games \in Nat
  BY DEF Typed
<1>3. ASSUME NEW x \in Clients, down'[x] = down[x], Shown(x)' = Shown(x), told'[x] = told[x]
      PROVE  Fits(x)' /\ Numbered(x)'
  <2>1. \A i, m : Before(x, i, m) => Before(x, i, m)'
    BY <1>3 DEF Before
  <2>2. Fits(x)'
    BY <1>3, <2>1 DEF Fits, FitsAt, BeforeKind
  <2> QED BY <1>1, <1>3, <2>2 DEF Numbered
<1>4. ASSUME NEW x \in Clients, x # c PROVE Fits(x)' /\ Numbered(x)'
  <2>1. phase'[x] = phase[x] /\ down'[x] = down[x] /\ told'[x] = told[x]
    BY <1>4 DEF Typed, OnConnected, OnDisconnected, SubmitName, LoginRefused, LoginAccepted,
         GameBegins, GameLeft, GameNews, PlayStoneCallback, FreeSession, Took, clientVars
  <2> QED BY <1>3, <2>1 DEF Shown
<1>5. ASSUME NEW d \in DownMsgs \cup {Msg("")}, told'[c] = told[c],
             down'[c] = <<>> \/ (down'[c] = <<d>> /\ d = Msg("S_Login(false)"))
      PROVE  Fits(c)' /\ Numbered(c)'
  <2>1. /\ Msg("S_Login(false)").kind = "S_Login(false)" /\ Msg("S_Login(false)").game = 0
        /\ "S_Login(false)" \notin NewsKinds
    BY DEF Msg, NewsKinds
  <2>2. 0 \in 0..games
    BY FirstGame
  <2>3. told[c].game \in 0..games
    BY DEF Numbered
  <2>4. CASE down'[c] = <<>>
    <3>1. 1..Len(down'[c]) = {}
      BY <2>4, Few
    <3> QED BY <1>1, <1>5, <2>3, <3>1 DEF Fits, Numbered
  <2>5. CASE down'[c] = <<d>> /\ d = Msg("S_Login(false)")
    <3>1. 1..Len(down'[c]) = {1} /\ down'[c][1] = d
      BY <2>5, Few
    <3>2. FitsAt(c, 1)'
      BY <2>1, <2>5, <3>1 DEF FitsAt
    <3> QED BY <1>1, <1>5, <2>1, <2>2, <2>3, <2>5, <3>1, <3>2 DEF Fits, Numbered
  <2> QED BY <1>5, <2>4, <2>5
<1>6. ASSUME NEW k, Heard(c, k), Took(c), told'[c].game \in 0..games,
             k \in TurnKinds => Shown(c)' = Head(down[c]),
             k \notin TurnKinds => Shown(c)' = Shown(c)
      PROVE  Fits(c)' /\ Numbered(c)'
  <2>1. down[c] # <<>> /\ Head(down[c]).kind = k /\ down'[c] = Tail(down[c])
        /\ down[c] \in Seq(DownMsgs)
    BY <1>6 DEF Heard, Took, Typed
  <2>2. Fits(c)'
    BY <1>6, <2>1, FitsLess
  <2>3. PICK n \in Nat : n = Len(down[c])
    BY <2>1
  <2>4. /\ Len(down'[c]) = n - 1
        /\ \A i \in 1..n - 1 : down'[c][i] = down[c][i + 1] /\ i + 1 \in 1..n
    BY <2>1, <2>3, Popped
  <2> QED BY <1>1, <1>6, <2>2, <2>3, <2>4 DEF Numbered
<1>7. Numbered(c)
  OBVIOUS
<1>8. ASSUME NEW k, Heard(c, k)
      PROVE  Head(down[c]) \in DownMsgs /\ Head(down[c]).game \in 0..games
             /\ Head(down[c]).kind = k
  <2>1. down[c] \in Seq(DownMsgs) /\ down[c] # <<>> /\ Head(down[c]).kind = k
    BY <1>8 DEF Heard, Typed
  <2> QED BY <1>7, <2>1, Popped DEF Numbered
<1>9. CASE OnConnected(c) \/ OnDisconnected(c)
  <2>1. /\ told'[c] = told[c]
        /\ down'[c] = <<>> \/ down'[c] = <<Msg("S_Login(false)")>>
    BY <1>9 DEF OnConnected, OnDisconnected, Typed
  <2>2. Msg("S_Login(false)") \in DownMsgs
    BY SentTypes
  <2>3. Fits(c)' /\ Numbered(c)'
    BY <1>5, <2>1, <2>2
  <2> QED BY <1>1, <1>4, <2>3
<1>10. CASE SubmitName(c) \/ FreeSession(c) \/ \E cell \in Cells : PlayStoneCallback(c, cell)
  <2>1. UNCHANGED <<down, told>> /\ Shown(c)' = Shown(c)
    BY <1>10 DEF SubmitName, FreeSession, PlayStoneCallback, clientVars, Shown, Typed
  <2> QED BY <1>1, <1>3, <1>4, <2>1
<1>11. CASE LoginRefused(c) \/ LoginAccepted(c)
  <2>1. PICK k \in {"S_Login(false)", "S_Login(true)"} : Heard(c, k) /\ Took(c)
    BY <1>11 DEF LoginRefused, LoginAccepted
  <2>2. k \notin TurnKinds /\ k \notin GameKinds
    BY DEF TurnKinds, GameKinds
  <2>3. phase[c] # "game" /\ phase'[c] # "game" /\ told'[c] = told[c]
    BY <1>11, Reading DEF LoginRefused, LoginAccepted, Typed
  <2>4. Shown(c)' = Shown(c)
    BY <2>3 DEF Shown
  <2>5. Fits(c)' /\ Numbered(c)'
    BY <1>6, <1>7, <2>1, <2>2, <2>3, <2>4 DEF Numbered
  <2> QED BY <1>1, <1>4, <2>5
<1>12. CASE GameBegins(c)
  <2>1. Heard(c, "S_StartGame") /\ Took(c) /\ Shown(c)' = Head(down[c])
        /\ told'[c] = Head(down[c])
    BY <1>12 DEF GameBegins, Shown, Typed
  <2>2. "S_StartGame" \in TurnKinds
    BY DEF TurnKinds
  <2>3. Fits(c)' /\ Numbered(c)'
    BY <1>6, <1>8, <2>1, <2>2
  <2> QED BY <1>1, <1>4, <2>3
<1>13. CASE GameLeft(c)
  <2>1. /\ Heard(c, "S_LeaveGame") /\ Took(c) /\ Shown(c)' = Msg("S_LeaveGame")
        /\ told'[c] = told[c]
    BY <1>13 DEF GameLeft, Shown, Typed
  <2>2. "S_LeaveGame" \in TurnKinds
    BY DEF TurnKinds
  <2>3. Head(down[c]) = Msg("S_LeaveGame")
    BY <1>8, <2>1, Messages DEF DownMsgs, GameMsgs, Leaves
  <2>4. Fits(c)' /\ Numbered(c)'
    BY <1>6, <1>7, <2>1, <2>2, <2>3 DEF Numbered
  <2> QED BY <1>1, <1>4, <2>4
<1>14. ASSUME NEW k \in {"S_PlayStone", "S_ThrowResult", "S_CheckStone(false)"}, GameNews(c, k)
       PROVE  \A x \in Clients : Fits(x)' /\ Numbered(x)'
  <2>1. Heard(c, k) /\ Took(c) /\ Shown(c)' = Shown(c) /\ told' = told /\ k \notin TurnKinds
    BY <1>14 DEF GameNews, Shown, clientVars, TurnKinds
  <2>2. Fits(c)' /\ Numbered(c)'
    BY <1>6, <1>7, <2>1 DEF Numbered
  <2> QED BY <1>4, <2>2
<1> QED BY <1>1, <1>9, <1>10, <1>11, <1>12, <1>13, <1>14

\* The state of UI_Game keeps step with the packets.
LEMMA UIStep ==
  ASSUME Typed, Seats, Protocol, Damage, Informed, UIInv, [OmokNext]_allVars
  PROVE  UIInv'
<1>1. UITypes /\ games \in Nat
  BY DEF UIInv, Typed
<1>2. ASSUME NEW c \in Clients, ClientStep(c)
      PROVE  games' = games /\ \A x \in Clients : Fits(x)' /\ Numbered(x)'
  BY <1>2, FitsClient DEF UIInv
<1>3. ASSUME NEW c \in Clients, HandlePacket(c)
      PROVE  \A x \in Clients : Fits(x)' /\ Numbered(x)'
  BY <1>3, HandleSplit, FitsServer DEF UIInv
<1>4. ASSUME NEW c \in Clients, UNCHANGED <<boards, strayed>>, strayed \in BOOLEAN,
             NEW s \in {"None", "MyTurn", "Wait"}, TakesState(c, s),
             notices' \in [Clients -> Seq(0..games')]
      PROVE  UITypes'
  BY <1>1, <1>4 DEF UITypes, TakesState
<1>5. \A c \in Clients : Boarded(c)
  BY DEF UIInv
<1>6. ASSUME UNCHANGED <<phase, boards>> PROVE \A c \in Clients : Boarded(c)'
  BY <1>5, <1>6 DEF Boarded
<1>7. ASSUME UNCHANGED vars, NEW c \in Clients
      PROVE  games' = games /\ Fits(c)' /\ Numbered(c)'
  <2>1. UNCHANGED <<down, phase, told, games>>
    BY <1>7 DEF vars, clientVars, roomVars
  <2>2. Shown(c)' = Shown(c)
    BY <2>1 DEF Shown
  <2>3. \A i, m : Before(c, i, m) => Before(c, i, m)'
    BY <2>1, <2>2 DEF Before
  <2> QED BY <2>1, <2>3 DEF UIInv, Fits, FitsAt, BeforeKind, Numbered
<1>8. ASSUME UNCHANGED allVars PROVE UIInv'
  <2>1. UNCHANGED vars /\ UNCHANGED <<state, boards, notices, strayed>>
    BY <1>8 DEF allVars, uiVars
  <2>2. phase' = phase
    BY <2>1 DEF vars, clientVars
  <2>3. games' = games
    BY <2>1 DEF vars, roomVars
  <2>4. UITypes'
    BY <1>1, <2>1, <2>3 DEF UITypes
  <2> QED BY <1>6, <1>7, <2>1, <2>2, <2>4 DEF UIInv
<1>9. ASSUME NEW c \in Clients, UIStartGame(c) PROVE UIInv'
  <2>1. ClientStep(c) /\ Heard(c, "S_StartGame") /\ phase' = [phase EXCEPT ![c] = "game"]
    BY <1>9 DEF UIStartGame, ClientStep, GameBegins
  <2>2. phase[c] \in {"lobby", "game"} /\ phase[c] # "game"
    <3>1. "S_StartGame" \in GameKinds
      BY DEF GameKinds
    <3> QED BY <2>1, <3>1, FitsFirst, Reading DEF UIInv
  <2>3. boards' = [boards EXCEPT ![c] = @ + 1] /\ boards[c] = 0
    BY <1>5, <1>9, <2>2 DEF UIStartGame, Boarded
  <2>4. boards \in [Clients -> 0..1] /\ phase \in [Clients -> Phases]
    BY <1>1 DEF UITypes, Typed
  <2>5. boards' = [boards EXCEPT ![c] = 1]
    BY <2>3
  <2>6. \A x \in Clients : Boarded(x)'
    BY <1>5, <2>1, <2>4, <2>5 DEF Boarded
  <2>7. games' = games /\ \A x \in Clients : Fits(x)' /\ Numbered(x)'
    BY <1>2, <2>1
  <2>8. /\ state' \in [Clients -> {"None", "MyTurn", "Wait"}]
        /\ UNCHANGED <<notices, strayed>>
    BY <1>1, <1>9 DEF UIStartGame, UITypes, TakesState
  <2>9. boards' \in [Clients -> 0..1]
    BY <2>4, <2>5
  <2>10. UITypes'
    BY <1>1, <2>7, <2>8, <2>9 DEF UITypes
  <2> QED BY <2>6, <2>7, <2>10 DEF UIInv
<1>10. ASSUME NEW c \in Clients, Clear(c) PROVE UIInv'
  <2>1. ClientStep(c) /\ phase' = [phase EXCEPT ![c] = "lobby"]
        /\ boards' = [boards EXCEPT ![c] = 0]
    BY <1>10 DEF Clear, ClientStep, GameLeft
  <2>2. boards \in [Clients -> 0..1] /\ phase \in [Clients -> Phases]
    BY <1>1 DEF UITypes, Typed
  <2>3. \A x \in Clients : Boarded(x)'
    BY <1>5, <2>1, <2>2 DEF Boarded
  <2>4. games' = games /\ \A x \in Clients : Fits(x)' /\ Numbered(x)'
    BY <1>2, <2>1
  <2>5. /\ state' \in [Clients -> {"None", "MyTurn", "Wait"}]
        /\ UNCHANGED <<notices, strayed>>
    BY <1>1, <1>10 DEF Clear, UITypes, TakesState
  <2>6. boards' \in [Clients -> 0..1]
    BY <2>1, <2>2
  <2>7. UITypes'
    BY <1>1, <2>4, <2>5, <2>6 DEF UITypes
  <2> QED BY <2>3, <2>4, <2>7 DEF UIInv
<1>11. ASSUME NEW c \in Clients, DoNextTurn(c) \/ EndGame(c) \/ CheckStone(c) PROVE UIInv'
  <2>1. PICK k \in {"S_PlayStone", "S_ThrowResult", "S_CheckStone(false)"} : GameNews(c, k)
    BY <1>11 DEF DoNextTurn, EndGame, CheckStone
  <2>2. ClientStep(c) /\ phase' = phase
    BY <2>1 DEF ClientStep, GameNews, clientVars
  <2>3. games' = games /\ \A x \in Clients : Fits(x)' /\ Numbered(x)'
    BY <1>2, <2>2
  <2>4. PICK s \in {"None", "MyTurn", "Wait"} : TakesState(c, s)
    BY <1>11 DEF DoNextTurn, EndGame, CheckStone, NextState
  <2>5. UNCHANGED <<boards, strayed>>
    BY <1>11 DEF DoNextTurn, EndGame, CheckStone
  <2>6. notices' \in [Clients -> Seq(0..games')]
    <3>1. notices \in [Clients -> Seq(0..games)] /\ notices[c] \in Seq(0..games)
      BY <1>1 DEF UITypes
    <3>2. told[c].game \in 0..games
      BY DEF UIInv, Numbered
    <3>3. Append(notices[c], told[c].game) \in Seq(0..games)
      BY <3>1, <3>2, Appended
    <3>4. notices' = notices \/ notices' = [notices EXCEPT ![c] = Append(@, told[c].game)]
      BY <1>11 DEF DoNextTurn, EndGame, CheckStone
    <3> QED BY <2>3, <3>1, <3>3, <3>4
  <2>7. UITypes'
    BY <1>1, <1>4, <2>4, <2>5, <2>6 DEF UITypes
  <2> QED BY <1>6, <2>2, <2>3, <2>5, <2>7 DEF UIInv
<1>12. ASSUME NEW c \in Clients, NoticeEnds(c) PROVE UIInv'
  <2>1. UNCHANGED vars /\ boards' = boards /\ notices[c] # <<>>
        /\ notices' = [notices EXCEPT ![c] = Tail(@)]
        /\ state' = [state EXCEPT ![c] = "MyTurn"]
    BY <1>12 DEF NoticeEnds, TakesState
  <2>2. phase' = phase
    BY <2>1 DEF vars, clientVars
  <2>3. games' = games
    BY <2>1 DEF vars, roomVars
  <2>4. \A x \in Clients : Fits(x)' /\ Numbered(x)'
    BY <1>7, <2>1
  <2>5. notices \in [Clients -> Seq(0..games)] /\ notices[c] \in Seq(0..games)
    BY <1>1 DEF UITypes
  <2>6. Tail(notices[c]) \in Seq(0..games)
    BY <2>1, <2>5, Popped
  <2>7. notices' \in [Clients -> Seq(0..games')]
    BY <2>1, <2>3, <2>5, <2>6
  <2>8. strayed' \in BOOLEAN
    BY <1>1, <1>12 DEF NoticeEnds, UITypes
  <2>9. state' \in [Clients -> {"None", "MyTurn", "Wait"}]
    BY <1>1, <2>1 DEF UITypes
  <2>10. UITypes'
    BY <1>1, <2>1, <2>7, <2>8, <2>9 DEF UITypes
  <2> QED BY <1>6, <2>1, <2>2, <2>4, <2>10 DEF UIInv
<1>13. ASSUME NEW c \in Clients, NEW cell \in Cells, Click(c, cell) PROVE UIInv'
  <2>1. ClientStep(c) /\ phase' = phase
    BY <1>13 DEF Click, ClientStep, PlayStoneCallback
  <2>2. games' = games /\ \A x \in Clients : Fits(x)' /\ Numbered(x)'
    BY <1>2, <2>1
  <2>3. TakesState(c, "Wait") /\ UNCHANGED <<boards, notices, strayed>>
    BY <1>13 DEF Click
  <2>4. UITypes'
    BY <1>1, <1>4, <2>2, <2>3 DEF UITypes
  <2> QED BY <1>6, <2>1, <2>2, <2>3, <2>4 DEF UIInv
<1>14. ASSUME NEW c \in Clients, Serve(c) PROVE UIInv'
  <2>1. HandlePacket(c) /\ UNCHANGED <<state, boards, notices>> /\ phase' = phase
    BY <1>14 DEF Serve, HandlePacket, clientVars
  <2>2. \A x \in Clients : Fits(x)' /\ Numbered(x)'
    BY <1>3, <2>1
  <2>3. games' = games \/ games' = games + 1
    <3>1. Outcome(c)
      BY <2>1, HandleSplit
    <3> QED BY <3>1 DEF Outcome, SignUp, Failure, Refuse, Vanish, Sit, Join, StartGame, Put,
              Depart, roomVars
  <2>4. 0..games \subseteq 0..games'
    BY <1>1, <2>3
  <2>5. \A s \in Seq(0..games) : s \in Seq(0..games')
    BY <2>4, WiderList
  <2>6. notices' \in [Clients -> Seq(0..games')]
    BY <1>1, <2>1, <2>5 DEF UITypes
  <2>7. strayed' \in BOOLEAN
    BY <1>1, <1>14 DEF Serve, Strays, UITypes
  <2>8. UITypes'
    BY <1>1, <2>1, <2>6, <2>7 DEF UITypes
  <2> QED BY <1>6, <2>1, <2>2, <2>8 DEF UIInv
<1>15. ASSUME NEW c \in Clients, Elsewhere(c) PROVE UIInv'
  <2>1. ClientStep(c) /\ UNCHANGED <<state, boards, notices, strayed>>
    BY <1>15 DEF Elsewhere, ClientStep, uiVars
  <2>2. games' = games /\ \A x \in Clients : Fits(x)' /\ Numbered(x)'
    BY <1>2, <2>1
  <2>3. UITypes'
    BY <1>1, <2>1, <2>2 DEF UITypes
  <2>4. phase'[c] # "gone" => (phase'[c] = "game" <=> phase[c] = "game") /\ phase[c] # "gone"
    BY <1>15, Reading DEF Elsewhere, OnConnected, OnDisconnected, SubmitName, LoginRefused,
       LoginAccepted, FreeSession, Typed, clientVars
  <2>5. \A x \in Clients : x # c => phase'[x] = phase[x]
    BY <1>15 DEF Elsewhere, OnConnected, OnDisconnected, SubmitName, LoginRefused,
       LoginAccepted, FreeSession, Typed, clientVars
  <2>6. \A x \in Clients : Boarded(x)'
    BY <1>5, <2>1, <2>4, <2>5 DEF Boarded
  <2> QED BY <2>2, <2>3, <2>6 DEF UIInv
<1> QED BY <1>8, <1>9, <1>10, <1>11, <1>12, <1>13, <1>14, <1>15 DEF OmokNext

-----------------------------------------------------------------------------
\* The windows before anything happened.
LEMMA UIFirst == OmokInit => UIInv
<1> SUFFICES ASSUME OmokInit PROVE UIInv
  OBVIOUS
<1>1. Init /\ InitUI
  BY DEF OmokInit
<1>2. UITypes
  <2>1. games = 0
    BY <1>1 DEF Init
  <2>2. <<>> \in Seq(0..0) /\ 0 \in 0..1
    OBVIOUS
  <2> QED BY <1>1, <2>1, <2>2 DEF InitUI, UITypes
<1>3. ASSUME NEW c \in Clients PROVE Fits(c) /\ Numbered(c) /\ Boarded(c)
  <2>1. down[c] = <<>> /\ told[c] = Msg("") /\ games = 0 /\ phase[c] = "off" /\ boards[c] = 0
    BY <1>1 DEF Init, InitUI
  <2>2. 1..Len(down[c]) = {}
    BY <2>1, Few
  <2>3. Msg("").game = 0 /\ 0 \in 0..0 /\ 0 \in 0..1
    BY DEF Msg
  <2> QED BY <2>1, <2>2, <2>3 DEF Fits, Numbered, Boarded
<1> QED BY <1>2, <1>3 DEF UIInv

\* Server, packets and windows together: what the theorems below follow from.
THEOREM OmokInvariant == OmokSpec => [](GInv /\ Informed /\ UIInv)
<1>1. OmokSpec => []GInv /\ []Informed
  BY OmokIsServer, GameInvariant, NewsInvariant, PTL
<1>2. GInv /\ Informed /\ UIInv /\ [OmokNext]_allVars => UIInv'
  BY UIStep DEF GInv
<1> QED BY <1>1, <1>2, UIFirst, PTL DEF OmokSpec

\* The window of every client keeps its types, and never has a second board.
THEOREM OmokTypes == OmokSpec => []TypeOKUI
<1>1. UIInv => TypeOKUI
  BY DEF UIInv, UITypes, TypeOKUI
<1> QED BY <1>1, OmokInvariant, PTL

\* UI_Game.DoNextTurn and UI_Game.EndGame always find a board, exactly one,
\* whatever games and opponents a client has had.
THEOREM OmokBoardReady == OmokSpec => []BoardReady
<1>1. GInv /\ UIInv => BoardReady
  <2> SUFFICES ASSUME Typed, Protocol, UIInv, NEW c \in Clients,
                      NEW k \in NewsKinds, Heard(c, k)
               PROVE  boards[c] = 1
    BY DEF GInv, BoardReady, NewsKinds
  <2>1. phase[c] = "game"
    BY FitsFirst DEF UIInv
  <2> QED BY <2>1 DEF UIInv, Boarded
<1> QED BY <1>1, OmokInvariant, PTL

\* With these clients, too, both players know the game they are in.
THEOREM OmokInformed == OmokSpec => [](PlayersInformed /\ NobodyForgotten /\ RoomsExact)
<1> QED BY OmokIsServer, GameInformed, GameNobodyForgotten, GameRooms, PTL

-----------------------------------------------------------------------------
(***************************************************************************)
(* The turns: OneMover and StonesAlternate of module Omok.                 *)
(*                                                                         *)
(* The server never asks whose turn it is; that the windows alternate is   *)
(* kept by the packets alone.  The turn of a game is a Token in one of     *)
(* four Spots: the window that shows MyTurn, a packet that will give the   *)
(* turn to the window that reads it, a stone on its way to the server, a   *)
(* notice whose end gives the turn back.  Turns says of a running game     *)
(* that only the player whose colour is next has its token, and only one;  *)
(* while no stone or notice has outlived its game (strayed) every step     *)
(* hands the token on (Kept, Calm) or, with a stone put, to the opponent.  *)
(***************************************************************************)

\* Packet e opens game g for black.
Opens(e, g) == e.kind = "S_StartGame" /\ e.game = g /\ e.stone = Black

\* Packet e gives the turn of game g to a client that was told m.
Returns(m, e, g) ==
  /\ m.kind = "S_StartGame" /\ m.game = g
  /\ \/ e.kind = "S_CheckStone(false)"
     \/ e.kind = "S_PlayStone" /\ e.stone # m.stone

Offers(c, i, g) ==
  \/ Opens(down[c][i], g)
  \/ \E m : Before(c, i, m) /\ Returns(m, down[c][i], g)

\* A packet sent now gives client c the turn of game g.
Gives(c, e, g) == Opens(e, g) \/ \E m : Tells(c, m) /\ Returns(m, e, g)

Spots == {"mine", "down", "up", "notice"}

\* The turn of game g, held by c or on its way to or from it.
Token(c, g, w, i) ==
  \/ w = "mine" /\ i = 0 /\ phase[c] = "game" /\ told[c].game = g /\ state[c] = "MyTurn"
  \/ w = "down" /\ i \in 1..Len(down[c]) /\ Offers(c, i, g)
  \/ w = "up" /\ i \in 1..Len(up[c]) /\ up[c][i].kind = "C_PlayStone" /\ up[c][i].game = g
  \/ w = "notice" /\ i \in 1..Len(notices[c]) /\ notices[c][i] = g

Sole(c, g) ==
  \A v, w \in Spots, i, j \in Nat : Token(c, g, v, i) /\ Token(c, g, w, j) => v = w /\ i = j

Has(c, g) == \E w \in Spots, i \in Nat : Token(c, g, w, i)

\* Client c plays, or will play, game g with stones s.
Tale(e, g, s) == e.kind = "S_StartGame" /\ e.game = g /\ e.stone = s

Refers(c, g, s) ==
  \/ Tale(told[c], g, s)
  \/ \E i \in 1..Len(down[c]) : Tale(down[c][i], g, s)
  \/ \E i \in 1..Len(up[c]) :
        up[c][i].kind = "C_PlayStone" /\ up[c][i].game = g /\ up[c][i].stone = s

\* Client x's part in game g is none it did not have.
Kept(x, g) ==
  /\ Sole(x, g) => Sole(x, g)'
  /\ Has(x, g)' => Has(x, g)
  /\ \A s : Refers(x, g, s)' => Refers(x, g, s)

-----------------------------------------------------------------------------
\* Where the turn can be.
LEMMA TokenSpot ==
  ASSUME NEW c, NEW g, NEW w, NEW i, Token(c, g, w, i), down[c] \in Seq(DownMsgs),
         up[c] \in Seq(UpMsgs), notices[c] \in Seq(Nat)
  PROVE  w \in Spots /\ i \in Nat /\ (w = "mine" <=> i = 0)
<1>1. Len(down[c]) \in Nat /\ Len(up[c]) \in Nat /\ Len(notices[c]) \in Nat
  OBVIOUS
<1> QED BY <1>1 DEF Token, Spots

\* What is told is referred to.
LEMMA ToldRefers ==
  ASSUME Typed, NEW c \in Clients, NEW m, m.kind = "S_StartGame",
         Tells(c, m) \/ \E i \in 1..Len(down[c]) : Before(c, i, m)
  PROVE  Refers(c, m.game, m.stone)
<1>1. CASE Shown(c) = m
  <2>1. told[c] = m
    BY <1>1, Messages DEF Shown
  <2> QED BY <2>1 DEF Refers, Tale
<1>2. CASE \E i \in 1..Len(down[c]) : down[c][i] = m
  BY <1>2 DEF Refers, Tale
<1>3. Shown(c) = m \/ \E i \in 1..Len(down[c]) : down[c][i] = m
  <2>1. PICK n \in Nat : n = Len(down[c])
    <3>1. down[c] \in Seq(DownMsgs)
      BY DEF Typed
    <3> QED BY <3>1
  <2>2. \A i \in 1..n : 1..i - 1 \subseteq 1..n
    BY <2>1
  <2> QED BY <2>1, <2>2 DEF Tells, LastTurn, Before
<1> QED BY <1>1, <1>2, <1>3

\* A packet sent to c.
LEMMA OffersMore ==
  ASSUME Typed, NEW c \in Clients, NEW e \in DownMsgs, NEW g,
         down'[c] = Append(down[c], e), phase'[c] = phase[c], told'[c] = told[c],
         NEW n, n = Len(down[c])
  PROVE  /\ \A i \in 1..n : Offers(c, i, g)' <=> Offers(c, i, g)
         /\ Offers(c, n + 1, g)' <=> Gives(c, e, g)
<1>1. down[c] \in Seq(DownMsgs)
  BY DEF Typed
<1>2. n \in Nat
  BY <1>1
<1>3. /\ Len(down'[c]) = n + 1 /\ down'[c][n + 1] = e
      /\ \A i \in 1..n : down'[c][i] = down[c][i]
  BY <1>1, Appended
<1>4. \A i \in 1..n + 1 : \A m : Before(c, i, m)' <=> Before(c, i, m)
  BY BeforeMore
<1>5. (\A i \in 1..n : i \in 1..n + 1) /\ n + 1 \in 1..n + 1
  BY <1>2
<1>6. \A i \in 1..n : Offers(c, i, g)' <=> Offers(c, i, g)
  BY <1>3, <1>4, <1>5 DEF Offers
<1>7. \A m : Before(c, n + 1, m)' <=> Tells(c, m)
  BY <1>4, <1>5, BeforeLast
<1>8. Offers(c, n + 1, g)' <=> Gives(c, e, g)
  BY <1>3, <1>7 DEF Offers, Gives
<1> QED BY <1>6, <1>8

\* A packet read by c.
LEMMA OffersLess ==
  ASSUME Typed, NEW c \in Clients, down[c] # <<>>, down'[c] = Tail(down[c]), NEW g,
         Head(down[c]).kind \in TurnKinds => Shown(c)' = Head(down[c]),
         Head(down[c]).kind \notin TurnKinds => Shown(c)' = Shown(c)
  PROVE  /\ \A i \in 1..Len(down[c]) - 1 : Offers(c, i, g)' <=> Offers(c, i + 1, g)
         /\ Offers(c, 1, g) <=> Opens(Head(down[c]), g) \/ Returns(Shown(c), Head(down[c]), g)
<1>1. down[c] \in Seq(DownMsgs)
  BY DEF Typed
<1>2. \A i \in 1..Len(down[c]) - 1 : down'[c][i] = down[c][i + 1]
  BY <1>1, Popped
<1>3. \A i \in 1..Len(down[c]) - 1 : \A m : Before(c, i, m)' <=> Before(c, i + 1, m)
  BY BeforeLess
<1>4. \A i \in 1..Len(down[c]) - 1 : Offers(c, i, g)' <=> Offers(c, i + 1, g)
  BY <1>2, <1>3 DEF Offers
<1>5. Head(down[c]) = down[c][1]
  BY <1>1, Popped
<1>6. \A m : Before(c, 1, m) <=> Shown(c) = m
  <2>1. 1..1 - 1 = {}
    OBVIOUS
  <2> QED BY <2>1 DEF Before
<1> QED BY <1>4, <1>5, <1>6 DEF Offers

\* A refused stone is announced within its game.
NoticeFits(c) ==
  \A i \in 1..Len(down[c]) :
     down[c][i].kind = "S_CheckStone(false)" => BeforeKind(c, i, "S_StartGame")

\* What a step leaves of that.
LEMMA NoticeSame ==
  ASSUME NEW x \in Clients, NoticeFits(x),
         down'[x] = down[x], phase'[x] = phase[x], told'[x] = told[x]
  PROVE  NoticeFits(x)'
<1>1. Shown(x)' = Shown(x)
  BY DEF Shown
<1>2. \A i, m : Before(x, i, m)' <=> Before(x, i, m)
  BY <1>1 DEF Before
<1> QED BY <1>2 DEF NoticeFits, BeforeKind

\* A packet sent keeps NoticeFits.
LEMMA NoticeMore ==
  ASSUME Typed, NEW x \in Clients, NoticeFits(x), NEW e \in DownMsgs,
         down'[x] = Append(down[x], e), phase'[x] = phase[x], told'[x] = told[x],
         e.kind = "S_CheckStone(false)" => \E m : Tells(x, m) /\ m.kind = "S_StartGame"
  PROVE  NoticeFits(x)'
<1>1. down[x] \in Seq(DownMsgs)
  BY DEF Typed
<1>2. PICK n \in Nat : n = Len(down[x])
  BY <1>1
<1>3. /\ Len(down'[x]) = n + 1 /\ down'[x][n + 1] = e
      /\ \A i \in 1..n : down'[x][i] = down[x][i]
  BY <1>1, <1>2, Appended
<1>4. \A i \in 1..n + 1 : \A m : Before(x, i, m)' <=> Before(x, i, m)
  BY <1>2, BeforeMore
<1>5. \A m : Before(x, n + 1, m) <=> Tells(x, m)
  BY <1>2, BeforeLast
<1>6. (\A i \in 1..n + 1 : i \in 1..n \/ i = n + 1) /\ (\A i \in 1..n : i \in 1..n + 1)
      /\ n + 1 \in 1..n + 1
  BY <1>2
<1>7. ASSUME NEW i \in 1..n, down'[x][i].kind = "S_CheckStone(false)"
      PROVE  BeforeKind(x, i, "S_StartGame")'
  BY <1>2, <1>3, <1>4, <1>6, <1>7 DEF NoticeFits, BeforeKind
<1>8. ASSUME e.kind = "S_CheckStone(false)"
      PROVE  BeforeKind(x, n + 1, "S_StartGame")'
  BY <1>4, <1>5, <1>6, <1>8 DEF BeforeKind
<1> QED BY <1>3, <1>6, <1>7, <1>8 DEF NoticeFits

\* A packet read keeps NoticeFits.
LEMMA NoticeLess ==
  ASSUME Typed, NEW x \in Clients, NoticeFits(x), down[x] # <<>>, down'[x] = Tail(down[x]),
         Head(down[x]).kind \in TurnKinds => Shown(x)' = Head(down[x]),
         Head(down[x]).kind \notin TurnKinds => Shown(x)' = Shown(x)
  PROVE  NoticeFits(x)'
<1>1. down[x] \in Seq(DownMsgs)
  BY DEF Typed
<1>2. PICK n \in Nat : n = Len(down[x])
  BY <1>1
<1>3. /\ Len(down'[x]) = n - 1
      /\ \A i \in 1..n - 1 : down'[x][i] = down[x][i + 1] /\ i + 1 \in 1..n
  BY <1>1, <1>2, Popped
<1>4. \A i \in 1..n - 1 : \A m : Before(x, i, m)' <=> Before(x, i + 1, m)
  BY <1>2, BeforeLess
<1> QED BY <1>2, <1>3, <1>4 DEF NoticeFits, BeforeKind

\* Client x's part in game g, and the order of its packets, are kept.
Calm(x, g) == Kept(x, g) /\ (NoticeFits(x) => NoticeFits(x)')

\* A client to which nothing happens.
LEMMA KeptSame ==
  ASSUME NEW x \in Clients, NEW g, down'[x] = down[x], up'[x] = up[x], phase'[x] = phase[x],
         told'[x] = told[x], state'[x] = state[x], notices'[x] = notices[x]
  PROVE  Calm(x, g)
<1>1. Shown(x)' = Shown(x)
  BY DEF Shown
<1>2. \A i, m : Before(x, i, m)' <=> Before(x, i, m)
  BY <1>1 DEF Before
<1>3. \A i : Offers(x, i, g)' <=> Offers(x, i, g)
  BY <1>2 DEF Offers
<1>4. \A w, i : Token(x, g, w, i)' <=> Token(x, g, w, i)
  BY <1>3 DEF Token
<1>5. \A s : Refers(x, g, s)' <=> Refers(x, g, s)
  BY DEF Refers
<1> QED BY <1>4, <1>5, NoticeSame DEF Calm, Kept, Sole, Has
\* A packet read by c leaves the place in which it waited to the next.
LEMMA TokenRead ==
  ASSUME Typed, NEW c \in Clients, down[c] # <<>>, down'[c] = Tail(down[c]), NEW g,
         Head(down[c]).kind \in TurnKinds => Shown(c)' = Head(down[c]),
         Head(down[c]).kind \notin TurnKinds => Shown(c)' = Shown(c)
  PROVE  /\ \A i \in Nat : Token(c, g, "down", i)' => Token(c, g, "down", i + 1) /\ i # 0
         /\ Opens(Head(down[c]), g) \/ Returns(Shown(c), Head(down[c]), g)
              => Token(c, g, "down", 1)
<1>1. PICK n \in Nat : n = Len(down[c])
  <2>1. down[c] \in Seq(DownMsgs)
    BY DEF Typed
  <2> QED BY <2>1
<1>2. Len(down'[c]) = n - 1 /\ 1 \in 1..n
  <2>1. down[c] \in Seq(DownMsgs)
    BY DEF Typed
  <2> QED BY <1>1, <2>1, Popped
<1>3. /\ \A i \in 1..n - 1 : Offers(c, i, g)' <=> Offers(c, i + 1, g)
      /\ Offers(c, 1, g) <=> Opens(Head(down[c]), g) \/ Returns(Shown(c), Head(down[c]), g)
  BY <1>1, OffersLess
<1>4. \A i \in 1..n - 1 : i + 1 \in 1..n /\ i # 0
  BY <1>1
<1> QED BY <1>1, <1>2, <1>3, <1>4 DEF Token

\* What c refers to after it read a packet.
LEMMA RefersRead ==
  ASSUME Typed, NEW c \in Clients, down[c] # <<>>, down'[c] = Tail(down[c]), NEW g, NEW s,
         up'[c] = up[c], told'[c] \in {told[c], Head(down[c])}, Refers(c, g, s)'
  PROVE  Refers(c, g, s)
<1>1. down[c] \in Seq(DownMsgs)
  BY DEF Typed
<1>2. PICK n \in Nat : n = Len(down[c])
  BY <1>1
<1>3. /\ Len(down'[c]) = n - 1 /\ Head(down[c]) = down[c][1] /\ 1 \in 1..n
      /\ \A i \in 1..n - 1 : down'[c][i] = down[c][i + 1] /\ i + 1 \in 1..n
  BY <1>1, <1>2, Popped
<1>4. CASE Tale(told'[c], g, s)
  BY <1>2, <1>3, <1>4 DEF Refers
<1>5. ASSUME NEW i \in 1..Len(down'[c]), Tale(down'[c][i], g, s) PROVE Refers(c, g, s)
  BY <1>2, <1>3, <1>5 DEF Refers
<1>6. CASE \E i \in 1..Len(up[c]) :
             up[c][i].kind = "C_PlayStone" /\ up[c][i].game = g /\ up[c][i].stone = s
  BY <1>6 DEF Refers
<1>7. \/ Tale(told'[c], g, s)
      \/ \E i \in 1..Len(down'[c]) : Tale(down'[c][i], g, s)
      \/ \E i \in 1..Len(up[c]) :
           up[c][i].kind = "C_PlayStone" /\ up[c][i].game = g /\ up[c][i].stone = s
  BY DEF Refers
<1> QED BY <1>4, <1>5, <1>6, <1>7

\* A token stays at its place, up to old positions further back, or it was at
\* position j of place v and is at position i of place w.
Moves(c, g, old, w, i, v, j) ==
  \A x \in Spots, n \in Nat : Token(c, g, x, n)' =>
     \/ x = w /\ n = i /\ Token(c, g, v, j)
     \/ Token(c, g, x, n + old[x]) /\ ~(x = v /\ n + old[x] = j)

\* If the turn moves as Moves says, it is still in one place at most, and
\* with nobody who did not have it.
LEMMA Carried ==
  ASSUME NEW c, NEW g, NEW old \in [Spots -> 0..1],
         NEW W \in Spots, NEW I \in Nat, NEW V \in Spots, NEW J \in Nat,
         Moves(c, g, old, W, I, V, J)
  PROVE  /\ Sole(c, g) => Sole(c, g)'
         /\ Has(c, g)' => Has(c, g)
<1> USE DEF Moves
<1>1. Has(c, g)' => Has(c, g)
  <2>1. \A w \in Spots, i \in Nat : i + old[w] \in Nat
    OBVIOUS
  <2> QED BY <2>1 DEF Has
<1>2. ASSUME Sole(c, g), NEW v \in Spots, NEW w \in Spots, NEW i \in Nat, NEW j \in Nat,
             Token(c, g, v, i)', Token(c, g, w, j)'
      PROVE  v = w /\ i = j
  <2>1. old[v] \in Nat /\ old[w] \in Nat /\ i + old[v] \in Nat /\ j + old[w] \in Nat
    OBVIOUS
  <2>2. \/ v = W /\ i = I /\ Token(c, g, V, J)
        \/ Token(c, g, v, i + old[v]) /\ ~(v = V /\ i + old[v] = J)
    BY <1>2
  <2>3. \/ w = W /\ j = I /\ Token(c, g, V, J)
        \/ Token(c, g, w, j + old[w]) /\ ~(w = V /\ j + old[w] = J)
    BY <1>2
  <2>4. CASE Token(c, g, v, i + old[v]) /\ ~(v = V /\ i + old[v] = J)
             /\ Token(c, g, w, j + old[w]) /\ ~(w = V /\ j + old[w] = J)
    <3>1. v = w /\ i + old[v] = j + old[w]
      BY <1>2, <2>1, <2>4 DEF Sole
    <3> QED BY <2>1, <3>1
  <2>5. CASE Token(c, g, V, J) /\ Token(c, g, v, i + old[v]) /\ ~(v = V /\ i + old[v] = J)
    BY <1>2, <2>1, <2>5 DEF Sole
  <2>6. CASE Token(c, g, V, J) /\ Token(c, g, w, j + old[w]) /\ ~(w = V /\ j + old[w] = J)
    BY <1>2, <2>1, <2>6 DEF Sole
  <2> QED BY <2>2, <2>3, <2>4, <2>5, <2>6
<1>3. Sole(c, g) => Sole(c, g)'
  BY <1>2 DEF Sole
<1> QED BY <1>1, <1>3
\* A client that reads a packet gains no turn but the one the packet offers.
LEMMA KeptRead ==
  ASSUME Typed, UITypes, NEW c \in Clients, NEW g,
         down[c] # <<>>, down'[c] = Tail(down[c]), up'[c] = up[c],
         told'[c] \in {told[c], Head(down[c])},
         Head(down[c]).kind \in TurnKinds => Shown(c)' = Head(down[c]),
         Head(down[c]).kind \notin TurnKinds => Shown(c)' = Shown(c),
         NEW offer \in BOOLEAN,
         offer => Opens(Head(down[c]), g) \/ Returns(Shown(c), Head(down[c]), g),
         phase'[c] = "game" /\ told'[c].game = g /\ state'[c] = "MyTurn" =>
            offer /\ notices'[c] = notices[c],
         \/ notices'[c] = notices[c]
         \/ notices'[c] = Append(notices[c], told[c].game) /\ (told[c].game = g => offer)
  PROVE  Calm(c, g)
<1>1. /\ \A i \in Nat : Token(c, g, "down", i)' => Token(c, g, "down", i + 1) /\ i # 0
      /\ offer => Token(c, g, "down", 1)
  BY TokenRead
<1>2. \A i \in Nat : Token(c, g, "up", i)' => Token(c, g, "up", i)
  BY DEF Token
<1>3. \A i \in Nat : Token(c, g, "mine", i)' => offer /\ i = 0 /\ notices'[c] = notices[c]
  BY DEF Token
<1>4. PICK k \in Nat : k = Len(notices[c]) /\ notices[c] \in Seq(0..games)
  <2>1. notices[c] \in Seq(0..games)
    BY DEF UITypes
  <2> QED BY <2>1
<1>5. \A i \in Nat : Token(c, g, "notice", i)' =>
        \/ Token(c, g, "notice", i)
        \/ offer /\ i = k + 1 /\ notices'[c] # notices[c]
  <2>1. CASE notices'[c] = notices[c]
    BY <2>1 DEF Token
  <2>2. CASE notices'[c] = Append(notices[c], told[c].game)
    <3>1. notices[c] \in Seq(0..games \cup {told[c].game})
      BY <1>4, WiderList
    <3>2. /\ Len(notices'[c]) = k + 1 /\ notices'[c][k + 1] = told[c].game
          /\ \A i \in 1..k : notices'[c][i] = notices[c][i]
      BY <1>4, <2>2, <3>1, Appended
    <3>3. \A i \in 1..k + 1 : i \in 1..k \/ i = k + 1
      BY <1>4
    <3>4. notices'[c] # notices[c]
      BY <1>4, <3>2
    <3> QED BY <1>4, <3>2, <3>3, <3>4 DEF Token
  <2> QED BY <2>1, <2>2
<1>6. PICK old \in [Spots -> 0..1] : \A w \in Spots : old[w] = IF w = "down" THEN 1 ELSE 0
  <2>1. [w \in Spots |-> IF w = "down" THEN 1 ELSE 0] \in [Spots -> 0..1]
    OBVIOUS
  <2> QED BY <2>1
<1>7. PICK W \in Spots, I \in Nat :
        IF notices'[c] = notices[c] THEN W = "mine" /\ I = 0 ELSE W = "notice" /\ I = k + 1
  BY <1>4 DEF Spots
<1>8. Moves(c, g, old, W, I, "down", 1)
  BY <1>1, <1>2, <1>3, <1>5, <1>6, <1>7 DEF Moves, Spots
<1>9. "down" \in Spots /\ 1 \in Nat
  BY DEF Spots
<1>10. (Sole(c, g) => Sole(c, g)') /\ (Has(c, g)' => Has(c, g))
  BY <1>8, <1>9, Carried
<1>11. \A s : Refers(c, g, s)' => Refers(c, g, s)
  BY RefersRead
<1>12. NoticeFits(c) => NoticeFits(c)'
  BY NoticeLess
<1> QED BY <1>10, <1>11, <1>12 DEF Calm, Kept

\* What the window shows when a packet comes.
LEMMA KeptNews ==
  ASSUME Typed, Protocol, UIInv, NEW c \in Clients, NEW g, NoticeFits(c),
         UIStartGame(c) \/ Clear(c) \/ DoNextTurn(c) \/ EndGame(c) \/ CheckStone(c)
  PROVE  Calm(c, g)
<1>1. UITypes /\ state[c] \in {"None", "MyTurn", "Wait"} /\ phase \in [Clients -> Phases]
  BY DEF UIInv, UITypes, Typed
<1>2. CASE UIStartGame(c)
  <2>1. /\ Heard(c, "S_StartGame") /\ Took(c) /\ phase'[c] = "game" /\ told'[c] = Head(down[c])
        /\ state'[c] = IF FirstTurn(c) THEN "MyTurn" ELSE "Wait"
        /\ notices' = notices /\ up' = up
    BY <1>1, <1>2 DEF UIStartGame, GameBegins, TakesState, Typed, UITypes
  <2>2. Shown(c)' = Head(down[c])
    BY <2>1 DEF Shown
  <2>3. Head(down[c]).kind = "S_StartGame" /\ down[c] # <<>> /\ down'[c] = Tail(down[c])
    BY <2>1 DEF Heard, Took, Typed
  <2> DEFINE offer == Opens(Head(down[c]), g)
  <2>4. /\ phase'[c] = "game" /\ told'[c].game = g /\ state'[c] = "MyTurn" =>
            offer /\ notices'[c] = notices[c]
        /\ notices'[c] = notices[c] /\ up'[c] = up[c] /\ offer \in BOOLEAN
    BY <2>1, <2>3 DEF FirstTurn, Opens
  <2> HIDE DEF offer
  <2>5. offer => Opens(Head(down[c]), g) \/ Returns(Shown(c), Head(down[c]), g)
    BY DEF offer
  <2>6. "S_StartGame" \in TurnKinds
    BY DEF TurnKinds
  <2> QED BY <1>1, <2>1, <2>2, <2>3, <2>4, <2>5, <2>6, KeptRead
<1>3. CASE Clear(c)
  <2>1. /\ Heard(c, "S_LeaveGame") /\ Took(c) /\ phase'[c] = "lobby" /\ told'[c] = told[c]
        /\ notices' = notices /\ up' = up
    BY <1>1, <1>3 DEF Clear, GameLeft, TakesState, Typed, UITypes
  <2>2. Shown(c)' = Msg("S_LeaveGame")
    BY <2>1 DEF Shown
  <2>3. Head(down[c]).kind = "S_LeaveGame" /\ down[c] # <<>> /\ down'[c] = Tail(down[c])
        /\ down[c] \in Seq(DownMsgs)
    BY <2>1 DEF Heard, Took, Typed
  <2>4. Head(down[c]) = Msg("S_LeaveGame")
    BY <2>3, Popped, Messages DEF DownMsgs, GameMsgs, Leaves
  <2>5. "S_LeaveGame" \in TurnKinds /\ "lobby" # "game" /\ FALSE \in BOOLEAN
    BY DEF TurnKinds
  <2> QED BY <1>1, <2>1, <2>2, <2>3, <2>4, <2>5, KeptRead
<1>4. ASSUME NEW k \in {"S_PlayStone", "S_ThrowResult", "S_CheckStone(false)"}, GameNews(c, k)
      PROVE  /\ down[c] # <<>> /\ down'[c] = Tail(down[c]) /\ up'[c] = up[c]
             /\ told'[c] = told[c] /\ phase'[c] = phase[c] /\ Shown(c)' = Shown(c)
             /\ Head(down[c]).kind = k /\ Head(down[c]).kind \notin TurnKinds
  BY <1>4 DEF GameNews, Heard, Took, clientVars, Shown, TurnKinds, Typed
<1>5. phase[c] = "game" => Shown(c) = told[c] /\ told[c].kind = "S_StartGame"
  BY Messages DEF Shown, Typed
<1>6. CASE DoNextTurn(c)
  <2>1. /\ GameNews(c, "S_PlayStone") /\ notices' = notices
        /\ state'[c] = "MyTurn" => Head(down[c]).stone # told[c].stone
    BY <1>1, <1>6 DEF DoNextTurn, TakesState, NextState, UITypes
  <2> DEFINE offer == phase[c] = "game" /\ told[c].game = g /\ Head(down[c]).stone # told[c].stone
  <2>2. offer => Returns(Shown(c), Head(down[c]), g)
    BY <1>4, <1>5, <2>1 DEF Returns
  <2>3. offer \in BOOLEAN /\ (phase'[c] = "game" /\ told'[c].game = g /\ state'[c] = "MyTurn" =>
            offer /\ notices'[c] = notices[c])
    BY <1>4, <2>1
  <2> HIDE DEF offer
  <2> QED BY <1>1, <1>4, <2>1, <2>2, <2>3, KeptRead
<1>7. CASE EndGame(c)
  <2>1. GameNews(c, "S_ThrowResult") /\ notices' = notices /\ state'[c] = "None"
    BY <1>1, <1>7 DEF EndGame, TakesState, UITypes
  <2>2. "None" # "MyTurn" /\ FALSE \in BOOLEAN
    OBVIOUS
  <2> QED BY <1>1, <1>4, <2>1, <2>2, KeptRead
<1>8. CASE CheckStone(c)
  <2>1. /\ GameNews(c, "S_CheckStone(false)") /\ state'[c] = "Wait"
        /\ notices'[c] = Append(notices[c], told[c].game)
    BY <1>1, <1>8 DEF CheckStone, TakesState, UITypes
  <2>2. Shown(c).kind = "S_StartGame"
    <3>1. down[c] \in Seq(DownMsgs) /\ Head(down[c]).kind = "S_CheckStone(false)" /\ down[c] # <<>>
      BY <1>4, <2>1 DEF Typed
    <3>2. down[c][1].kind = "S_CheckStone(false)" /\ 1 \in 1..Len(down[c])
      BY <3>1, Popped
    <3>3. BeforeKind(c, 1, "S_StartGame")
      BY <3>2 DEF NoticeFits
    <3>4. 1..1 - 1 = {}
      OBVIOUS
    <3> QED BY <3>3, <3>4 DEF BeforeKind, Before
  <2>3. Shown(c) = told[c]
    BY <2>2, Messages DEF Shown
  <2> DEFINE offer == told[c].game = g
  <2>4. offer => Returns(Shown(c), Head(down[c]), g)
    BY <1>4, <2>1, <2>2, <2>3 DEF Returns
  <2>5. offer \in BOOLEAN /\ (told[c].game = g => offer) /\ "Wait" # "MyTurn"
    OBVIOUS
  <2> HIDE DEF offer
  <2> QED BY <1>1, <1>4, <2>1, <2>4, <2>5, KeptRead
<1> QED BY <1>2, <1>3, <1>6, <1>7, <1>8
\* The notice of a refused stone gives the turn back in the game it began in.
LEMMA KeptNotice ==
  ASSUME Typed, UITypes, NEW c \in Clients, NEW g, NoticeEnds(c), ~strayed'
  PROVE  Calm(c, g)
<1>1. /\ notices[c] # <<>> /\ phase[c] = "game" /\ told[c].game = Head(notices[c])
      /\ notices'[c] = Tail(notices[c]) /\ UNCHANGED <<up, down, phase, told>>
      /\ notices[c] \in Seq(0..games)
  BY DEF NoticeEnds, UITypes, vars, clientVars
<1>2. PICK k \in Nat : k = Len(notices[c])
  BY <1>1
<1>3. /\ Head(notices[c]) = notices[c][1] /\ 1 \in 1..k /\ Len(notices'[c]) = k - 1
      /\ \A i \in 1..k - 1 : notices'[c][i] = notices[c][i + 1] /\ i + 1 \in 1..k /\ i # 0
  BY <1>1, <1>2, Popped
<1>4. Shown(c)' = Shown(c)
  BY <1>1 DEF Shown
<1>5. \A i, m : Before(c, i, m)' <=> Before(c, i, m)
  BY <1>1, <1>4 DEF Before
<1>6. \A i : Offers(c, i, g)' <=> Offers(c, i, g)
  BY <1>1, <1>5 DEF Offers
<1>7. \A i \in Nat : /\ Token(c, g, "down", i)' => Token(c, g, "down", i)
                     /\ Token(c, g, "up", i)' => Token(c, g, "up", i)
                     /\ Token(c, g, "mine", i)' => i = 0 /\ Token(c, g, "notice", 1)
                     /\ Token(c, g, "notice", i)' => Token(c, g, "notice", i + 1) /\ i # 0
  BY <1>1, <1>2, <1>3, <1>6 DEF Token
<1>8. PICK old \in [Spots -> 0..1] : \A w \in Spots : old[w] = IF w = "notice" THEN 1 ELSE 0
  <2>1. [w \in Spots |-> IF w = "notice" THEN 1 ELSE 0] \in [Spots -> 0..1]
    OBVIOUS
  <2> QED BY <2>1
<1>9. Moves(c, g, old, "mine", 0, "notice", 1)
  BY <1>7, <1>8 DEF Moves, Spots
<1>10. "mine" \in Spots /\ "notice" \in Spots /\ 0 \in Nat /\ 1 \in Nat
  BY DEF Spots
<1>11. (Sole(c, g) => Sole(c, g)') /\ (Has(c, g)' => Has(c, g))
  BY <1>9, <1>10, Carried
<1>12. \A s : Refers(c, g, s)' => Refers(c, g, s)
  BY <1>1 DEF Refers
<1>13. NoticeFits(c) => NoticeFits(c)'
  BY <1>1, NoticeSame
<1> QED BY <1>11, <1>12, <1>13 DEF Calm, Kept

\* A click turns the turn into a stone on its way.
LEMMA KeptClick ==
  ASSUME Typed, UITypes, NEW c \in Clients, NEW g, NEW cell \in Cells, Click(c, cell)
  PROVE  Calm(c, g)
<1> DEFINE m == [kind |-> "C_PlayStone", cell |-> cell, stone |-> told[c].stone, game |-> told[c].game]
<1>1. /\ phase[c] = "game" /\ state[c] = "MyTurn" /\ state'[c] = "Wait"
      /\ UNCHANGED <<down, phase, told, notices>> /\ up'[c] = Append(up[c], m)
      /\ up[c] \in Seq(UpMsgs) /\ told[c] \in Starts
  BY DEF Click, PlayStoneCallback, ClientSends, TakesState, UITypes, Typed
<1>2. m \in UpMsgs /\ m.kind = "C_PlayStone" /\ m.game = told[c].game /\ m.stone = told[c].stone
  <2>1. told[c].stone \in Types /\ told[c].game \in Nat
    BY <1>1, Messages
  <2>2. m \in Placed
    BY <2>1 DEF Placed
  <2> QED BY <2>2 DEF UpMsgs
<1>3. PICK k \in Nat : k = Len(up[c])
  BY <1>1
<1> HIDE DEF m
<1>4. /\ Len(up'[c]) = k + 1 /\ up'[c][k + 1] = m
      /\ \A i \in 1..k : up'[c][i] = up[c][i]
      /\ \A i \in 1..k + 1 : i \in 1..k \/ i = k + 1
  BY <1>1, <1>2, <1>3, Appended
<1>5. Shown(c)' = Shown(c)
  BY <1>1 DEF Shown
<1>6. \A i, n : Before(c, i, n)' <=> Before(c, i, n)
  BY <1>1, <1>5 DEF Before
<1>7. \A i : Offers(c, i, g)' <=> Offers(c, i, g)
  BY <1>1, <1>6 DEF Offers
<1>8. \A i \in Nat : /\ Token(c, g, "down", i)' => Token(c, g, "down", i)
                     /\ Token(c, g, "notice", i)' => Token(c, g, "notice", i)
                     /\ ~Token(c, g, "mine", i)'
                     /\ Token(c, g, "up", i)' =>
                          Token(c, g, "up", i) \/ (i = k + 1 /\ Token(c, g, "mine", 0))
  BY <1>1, <1>2, <1>3, <1>4, <1>7 DEF Token
<1>9. PICK old \in [Spots -> 0..1] : \A w \in Spots : old[w] = 0
  <2>1. [w \in Spots |-> 0] \in [Spots -> 0..1]
    OBVIOUS
  <2> QED BY <2>1
<1>10. Moves(c, g, old, "up", k + 1, "mine", 0)
  BY <1>8, <1>9 DEF Moves, Spots
<1>11. "mine" \in Spots /\ "up" \in Spots /\ 0 \in Nat /\ k + 1 \in Nat
  BY DEF Spots
<1>12. (Sole(c, g) => Sole(c, g)') /\ (Has(c, g)' => Has(c, g))
  BY <1>10, <1>11, Carried
<1>13. told[c].kind = "S_StartGame"
  BY <1>1, Messages
<1>14. \A s : Refers(c, g, s)' => Refers(c, g, s)
  BY <1>1, <1>2, <1>3, <1>4, <1>13 DEF Refers, Tale
<1>15. NoticeFits(c) => NoticeFits(c)'
  BY <1>1, NoticeSame
<1> QED BY <1>12, <1>14, <1>15 DEF Calm, Kept

\* The queue of client c holds no stone it did not hold, and none twice.
UpKept(c) ==
  \E f \in [Nat -> Nat] :
     /\ \A i \in 1..Len(up'[c]) : up'[c][i].kind = "C_PlayStone" =>
          f[i] \in 1..Len(up[c]) /\ up[c][f[i]] = up'[c][i]
     /\ \A i, j \in 1..Len(up'[c]) :
          up'[c][i].kind = "C_PlayStone" /\ up'[c][j].kind = "C_PlayStone" /\ f[i] = f[j] => i = j

\* Nor is anything of a game heard: the turn stays where it is, or is lost.
LEMMA KeptQuiet ==
  ASSUME Typed, NEW c \in Clients, NEW g, UpKept(c), phase'[c] # "game",
         told'[c] = told[c], notices'[c] = notices[c], up'[c] \in Seq(UpMsgs),
         \A i \in 1..Len(down'[c]) :
            down'[c][i].kind \notin {"S_StartGame", "S_CheckStone(false)", "S_PlayStone"}
  PROVE  Calm(c, g)
<1>1. PICK f \in [Nat -> Nat] :
        /\ \A i \in 1..Len(up'[c]) : up'[c][i].kind = "C_PlayStone" =>
             f[i] \in 1..Len(up[c]) /\ up[c][f[i]] = up'[c][i]
        /\ \A i, j \in 1..Len(up'[c]) :
             up'[c][i].kind = "C_PlayStone" /\ up'[c][j].kind = "C_PlayStone" /\ f[i] = f[j] => i = j
  BY DEF UpKept
<1>2. \A i \in Nat : /\ ~Token(c, g, "mine", i)' /\ ~Token(c, g, "down", i)'
                     /\ Token(c, g, "notice", i)' => Token(c, g, "notice", i)
                     /\ Token(c, g, "up", i)' => Token(c, g, "up", f[i])
  <2>1. \A i \in Nat : ~Token(c, g, "mine", i)'
    BY DEF Token
  <2>2. \A i \in 1..Len(down'[c]) : ~Offers(c, i, g)'
    BY DEF Offers, Opens, Returns
  <2>3. \A i \in Nat : ~Token(c, g, "down", i)'
    BY <2>2 DEF Token
  <2>4. \A i \in Nat : Token(c, g, "notice", i)' => Token(c, g, "notice", i)
    BY DEF Token
  <2>5. \A i \in Nat : Token(c, g, "up", i)' => Token(c, g, "up", f[i])
    BY <1>1 DEF Token
  <2> QED BY <2>1, <2>3, <2>4, <2>5
<1>3. \A i, j \in Nat : Token(c, g, "up", i)' /\ Token(c, g, "up", j)' /\ f[i] = f[j] => i = j
  BY <1>1 DEF Token
<1>4. "up" \in Spots /\ "notice" \in Spots /\ \A i \in Nat : f[i] \in Nat
  BY DEF Spots
<1>5. Has(c, g)' => Has(c, g)
  BY <1>2, <1>4 DEF Has, Spots
<1>6. ASSUME Sole(c, g), NEW v \in Spots, NEW w \in Spots, NEW i \in Nat, NEW j \in Nat,
             Token(c, g, v, i)', Token(c, g, w, j)'
      PROVE  v = w /\ i = j
  <2>1. v \in {"up", "notice"} /\ w \in {"up", "notice"}
    BY <1>2, <1>6 DEF Spots
  <2>2. CASE v = "up" /\ w = "up"
    <3>1. f[i] = f[j]
      BY <1>2, <1>4, <1>6, <2>2 DEF Sole
    <3> QED BY <1>3, <1>6, <2>2, <3>1
  <2>3. CASE v = "up" /\ w = "notice"
    BY <1>2, <1>4, <1>6, <2>3 DEF Sole
  <2>4. CASE v = "notice" /\ w = "up"
    BY <1>2, <1>4, <1>6, <2>4 DEF Sole
  <2>5. CASE v = "notice" /\ w = "notice"
    BY <1>2, <1>4, <1>6, <2>5 DEF Sole
  <2> QED BY <2>1, <2>2, <2>3, <2>4, <2>5
<1>7. \A s : Refers(c, g, s)' => Refers(c, g, s)
  BY <1>1 DEF Refers, Tale
<1>8. Sole(c, g) => Sole(c, g)'
  BY <1>6 DEF Sole
<1>9. NoticeFits(c)'
  BY DEF NoticeFits
<1> QED BY <1>5, <1>7, <1>8, <1>9 DEF Calm, Kept
\* The queue of c is unchanged, or has one more packet that is no stone.
LEMMA UpSame ==
  ASSUME Typed, NEW c \in Clients, up'[c] = up[c]
  PROVE  UpKept(c)
<1>1. PICK n \in Nat : n = Len(up[c])
  <2>1. up[c] \in Seq(UpMsgs)
    BY DEF Typed
  <2> QED BY <2>1
<1>2. PICK f \in [Nat -> Nat] : \A i \in Nat : f[i] = i
  <2>1. [i \in Nat |-> i] \in [Nat -> Nat]
    OBVIOUS
  <2> QED BY <2>1
<1> QED BY <1>1, <1>2 DEF UpKept

\* A packet other than a stone is sent to the server.
LEMMA UpMore ==
  ASSUME Typed, NEW c \in Clients, NEW m \in UpMsgs, up'[c] = Append(up[c], m),
         m.kind # "C_PlayStone"
  PROVE  UpKept(c)
<1>1. up[c] \in Seq(UpMsgs)
  BY DEF Typed
<1>2. PICK n \in Nat : n = Len(up[c])
  BY <1>1
<1>3. /\ Len(up'[c]) = n + 1 /\ up'[c][n + 1] = m
      /\ \A i \in 1..n : up'[c][i] = up[c][i]
  BY <1>1, <1>2, Appended
<1>4. \A i \in 1..n + 1 : i \in 1..n \/ i = n + 1
  BY <1>2
<1>5. \A i \in 1..n + 1 : up'[c][i].kind = "C_PlayStone" => i \in 1..n
  BY <1>3, <1>4
<1>6. PICK f \in [Nat -> Nat] : \A i \in Nat : f[i] = i
  <2>1. [i \in Nat |-> i] \in [Nat -> Nat]
    OBVIOUS
  <2> QED BY <2>1
<1> QED BY <1>2, <1>3, <1>5, <1>6 DEF UpKept

\* The connection breaks: stones are lost, none is new.
LEMMA UpCut ==
  ASSUME Typed, NEW c \in Clients, OnDisconnected(c)
  PROVE  UpKept(c)
<1>1. PICK a \in 0..Len(up[c]) :
        /\ up'[c][a + 1] = Disc
        /\ \A i \in 1..Len(up'[c]) : i # a + 1 =>
             LET k == IF i <= a THEN i ELSE i - 1
             IN  k \in 1..Len(up[c]) /\ up'[c][i] = up[c][k]
  BY CutOff
<1>2. a \in Nat
  <2>1. up[c] \in Seq(UpMsgs)
    BY DEF Typed
  <2> QED BY <2>1
<1>3. PICK f \in [Nat -> Nat] :
        \A i \in Nat : f[i] = IF i <= a THEN i ELSE i - 1
  <2>1. [i \in Nat |-> IF i <= a THEN i ELSE i - 1] \in [Nat -> Nat]
    BY <1>2
  <2> QED BY <2>1
<1>4. \A i \in 1..Len(up'[c]) : up'[c][i].kind = "C_PlayStone" => i # a + 1 /\ i \in Nat
  <2>1. Disc.kind # "C_PlayStone"
    BY Messages
  <2>2. up'[c][a + 1].kind # "C_PlayStone"
    BY <1>1, <2>1
  <2>3. \A i \in 1..Len(up'[c]) : i \in Nat
    OBVIOUS
  <2> QED BY <2>2, <2>3
<1>5. \A i \in 1..Len(up'[c]) : up'[c][i].kind = "C_PlayStone" =>
        f[i] \in 1..Len(up[c]) /\ up[c][f[i]] = up'[c][i]
  BY <1>1, <1>3, <1>4
<1>6. \A i, j \in Nat : i # a + 1 /\ j # a + 1 /\ f[i] = f[j] => i = j
  BY <1>2, <1>3
<1>7. \A i, j \in 1..Len(up'[c]) :
        up'[c][i].kind = "C_PlayStone" /\ up'[c][j].kind = "C_PlayStone" /\ f[i] = f[j] => i = j
  BY <1>4, <1>6
<1> QED BY <1>5, <1>7 DEF UpKept

\* Signing up, logging in and vanishing move no turn.
LEMMA KeptElsewhere ==
  ASSUME Typed, Typed', Protocol, NEW c \in Clients, NEW g, Elsewhere(c)
  PROVE  Calm(c, g)
<1>1. UNCHANGED uiVars /\ up'[c] \in Seq(UpMsgs) /\ down[c] \in Seq(DownMsgs)
  BY DEF Elsewhere, Typed
<1>2. UNCHANGED <<state, notices>>
  BY <1>1 DEF uiVars
<1> DEFINE quiet(d) == d.kind \notin {"S_StartGame", "S_CheckStone(false)", "S_PlayStone"}
<1>3. CASE OnConnected(c)
  <2>1. up' = up /\ told' = told /\ phase'[c] = "new" /\ down'[c] = <<Msg("S_Login(false)")>>
    BY <1>3 DEF OnConnected, Typed
  <2>2. \A i \in 1..Len(down'[c]) : quiet(down'[c][i])
    BY <2>1, Few, Messages
  <2>3. UpKept(c)
    BY <2>1, UpSame
  <2> QED BY <1>1, <1>2, <2>1, <2>2, <2>3, KeptQuiet
<1>4. CASE OnDisconnected(c)
  <2>1. told' = told /\ phase'[c] = "gone" /\ down'[c] = <<>>
    BY <1>4 DEF OnDisconnected, Typed
  <2>2. \A i \in 1..Len(down'[c]) : quiet(down'[c][i])
    BY <2>1, Few
  <2>3. UpKept(c)
    BY <1>4, UpCut
  <2> QED BY <1>1, <1>2, <2>1, <2>2, <2>3, KeptQuiet
<1>5. CASE SubmitName(c)
  <2>1. /\ told' = told /\ phase'[c] = "login" /\ down' = down /\ phase[c] = "signup"
        /\ up'[c] = Append(up[c], Msg("C_SignUp"))
    BY <1>5 DEF SubmitName, ClientSends, Typed
  <2>2. down[c] = <<>>
    BY <2>1 DEF Protocol, Stage
  <2>3. \A i \in 1..Len(down'[c]) : quiet(down'[c][i])
    BY <2>1, <2>2, Few
  <2>4. Msg("C_SignUp") \in UpMsgs /\ Msg("C_SignUp").kind # "C_PlayStone"
    BY Messages
  <2>5. UpKept(c)
    BY <2>1, <2>4, UpMore
  <2> QED BY <1>1, <1>2, <2>1, <2>3, <2>5, KeptQuiet
<1>6. ASSUME NEW k \in {"S_Login(false)", "S_Login(true)"}, Heard(c, k), Took(c)
      PROVE  \A i \in 1..Len(down'[c]) : quiet(down'[c][i])
  <2>1. phase[c] \in {"new", "login"} /\ down[c] # <<>>
    BY <1>6, Reading DEF Heard
  <2>2. \E d \in DownMsgs : down[c] = <<d>>
    <3>1. down[c] = <<Msg("S_Login(false)")>> \/ down[c] = <<Msg("S_Login(true)")>>
      BY <2>1 DEF Protocol, Stage
    <3> QED BY <3>1, SentTypes
  <2>3. \A d : Tail(<<d>>) = <<>>
    OBVIOUS
  <2>4. down'[c] = <<>>
    BY <1>6, <2>2, <2>3 DEF Took, Typed
  <2> QED BY <2>4, Few
<1>7. CASE LoginRefused(c)
  <2>1. up' = up /\ told' = told /\ phase'[c] = "signup" /\ Heard(c, "S_Login(false)") /\ Took(c)
    BY <1>7 DEF LoginRefused, Typed
  <2>2. \A i \in 1..Len(down'[c]) : quiet(down'[c][i])
    BY <1>6, <2>1
  <2>3. UpKept(c)
    BY <2>1, UpSame
  <2> QED BY <1>1, <1>2, <2>1, <2>2, <2>3, KeptQuiet
<1>8. CASE LoginAccepted(c)
  <2>1. /\ told' = told /\ phase'[c] = "lobby" /\ Heard(c, "S_Login(true)") /\ Took(c)
        /\ up'[c] = Append(up[c], Msg("C_EnterRoom"))
    BY <1>8 DEF LoginAccepted, ClientSends, Typed
  <2>2. \A i \in 1..Len(down'[c]) : quiet(down'[c][i])
    BY <1>6, <2>1
  <2>3. Msg("C_EnterRoom") \in UpMsgs /\ Msg("C_EnterRoom").kind # "C_PlayStone"
    BY Messages
  <2>4. UpKept(c)
    BY <2>1, <2>3, UpMore
  <2> QED BY <1>1, <1>2, <2>1, <2>2, <2>4, KeptQuiet
<1>9. CASE FreeSession(c)
  <2>1. UNCHANGED <<up, down, phase, told>>
    BY <1>9 DEF FreeSession, clientVars
  <2> QED BY <1>2, <2>1, KeptSame
<1> QED BY <1>3, <1>4, <1>5, <1>7, <1>8, <1>9 DEF Elsewhere

-----------------------------------------------------------------------------
(* The server's part.                                                      *)

\* What the server's turn leaves of a client's part.
Served(x) ==
  /\ up'[x] = up[x] \/ (up[x] # <<>> /\ up'[x] = Tail(up[x]))
  /\ UNCHANGED <<phase, told, state, notices>>

\* A stone of game g is on its way from x.
Sends(x, g, s) ==
  \E i \in 1..Len(up[x]) :
     up[x][i].kind = "C_PlayStone" /\ up[x][i].game = g /\ up[x][i].stone = s

\* The packets that wait behind the one that is handled.
LEMMA UpServed ==
  ASSUME Typed, NEW x \in Clients, Served(x), NEW g
  PROVE  \E h \in 0..1 :
           /\ h = IF up'[x] = up[x] THEN 0 ELSE 1
           /\ \A i \in Nat : Token(x, g, "up", i)' => Token(x, g, "up", i + h) /\ i # 0
           /\ \A s : Sends(x, g, s)' => Sends(x, g, s)
<1>1. up[x] \in Seq(UpMsgs)
  BY DEF Typed
<1>2. PICK n \in Nat : n = Len(up[x])
  BY <1>1
<1>3. CASE up'[x] = up[x]
  <2>1. \A i \in Nat : i + 0 = i /\ (i \in 1..n => i # 0)
    OBVIOUS
  <2>2. 0 \in 0..1
    OBVIOUS
  <2> QED BY <1>2, <1>3, <2>1, <2>2 DEF Token, Sends
<1>4. CASE up'[x] # up[x]
  <2>1. up[x] # <<>> /\ up'[x] = Tail(up[x])
    BY <1>4 DEF Served
  <2>2. /\ Len(up'[x]) = n - 1
        /\ \A i \in 1..n - 1 : up'[x][i] = up[x][i + 1] /\ i + 1 \in 1..n /\ i # 0
    BY <1>1, <1>2, <2>1, Popped
  <2>3. 1 \in 0..1
    OBVIOUS
  <2>4. \A i \in Nat : Token(x, g, "up", i)' => Token(x, g, "up", i + 1) /\ i # 0
    BY <1>2, <2>2 DEF Token
  <2>5. ASSUME NEW s, Sends(x, g, s)' PROVE Sends(x, g, s)
    BY <1>2, <2>2, <2>5 DEF Sends
  <2> QED BY <1>4, <2>3, <2>4, <2>5
<1> QED BY <1>3, <1>4

\* The server sends x packet e, or nothing.
Answers(x, e, sent) ==
  /\ Served(x)
  /\ IF sent THEN e \in DownMsgs /\ down'[x] = Append(down[x], e) ELSE down'[x] = down[x]

\* The turn stays where it is, or comes with e.
LEMMA TokenServed ==
  ASSUME Typed, NEW x \in Clients, NEW g, NEW e, NEW sent \in BOOLEAN, Answers(x, e, sent)
  PROVE  \E h \in 0..1, n \in Nat :
           /\ h = IF up'[x] = up[x] THEN 0 ELSE 1
           /\ n = Len(down[x]) + 1
           /\ \A w \in Spots, i \in Nat : Token(x, g, w, i)' =>
                \/ Token(x, g, w, IF w = "up" THEN i + h ELSE i) /\ (w = "up" => i # 0)
                \/ sent /\ Gives(x, e, g) /\ w = "down" /\ i = n
<1> USE DEF Answers
<1>1. PICK h \in 0..1 :
        /\ h = IF up'[x] = up[x] THEN 0 ELSE 1
        /\ \A i \in Nat : Token(x, g, "up", i)' => Token(x, g, "up", i + h) /\ i # 0
  BY UpServed
<1>2. down[x] \in Seq(DownMsgs)
  BY DEF Typed
<1>3. PICK k \in Nat : k = Len(down[x])
  BY <1>2
<1>4. \A i \in Nat : /\ Token(x, g, "mine", i)' => Token(x, g, "mine", i)
                     /\ Token(x, g, "notice", i)' => Token(x, g, "notice", i)
  BY DEF Token, Served
<1>5. ASSUME ~sent, NEW i \in Nat, Token(x, g, "down", i)' PROVE Token(x, g, "down", i)
  <2>1. Shown(x)' = Shown(x)
    BY <1>5 DEF Served, Shown
  <2>2. \A j, m : Before(x, j, m)' <=> Before(x, j, m)
    BY <1>5, <2>1 DEF Before
  <2>3. \A j : Offers(x, j, g)' <=> Offers(x, j, g)
    BY <1>5, <2>2 DEF Offers
  <2> QED BY <1>5, <2>3 DEF Token
<1>6. ASSUME sent, NEW i \in Nat, Token(x, g, "down", i)'
      PROVE  Token(x, g, "down", i) \/ (i = k + 1 /\ Gives(x, e, g))
  <2>1. e \in DownMsgs /\ down'[x] = Append(down[x], e) /\ phase'[x] = phase[x] /\ told'[x] = told[x]
    BY <1>6 DEF Served
  <2>2. /\ \A j \in 1..k : Offers(x, j, g)' <=> Offers(x, j, g)
        /\ Offers(x, k + 1, g)' <=> Gives(x, e, g)
    BY <1>3, <2>1, OffersMore
  <2>3. Len(down'[x]) = k + 1
    BY <1>2, <1>3, <2>1, Appended
  <2>4. \A j \in 1..k + 1 : j \in 1..k \/ j = k + 1
    BY <1>3
  <2> QED BY <1>3, <1>6, <2>2, <2>3, <2>4 DEF Token
<1>7. PICK n \in Nat : n = k + 1
  BY <1>3
<1>8. ASSUME NEW w \in Spots, NEW i \in Nat, Token(x, g, w, i)'
      PROVE  \/ Token(x, g, w, IF w = "up" THEN i + h ELSE i) /\ (w = "up" => i # 0)
             \/ sent /\ Gives(x, e, g) /\ w = "down" /\ i = n
  <2>1. CASE w = "up"
    BY <1>1, <1>8, <2>1
  <2>2. CASE w \in {"mine", "notice"}
    BY <1>4, <1>8, <2>2
  <2>3. CASE w = "down"
    BY <1>5, <1>6, <1>7, <1>8, <2>3
  <2> QED BY <2>1, <2>2, <2>3 DEF Spots
<1> QED BY <1>1, <1>3, <1>7, <1>8

\* What x refers to after the server's turn.
LEMMA SameTale ==
  ASSUME Typed, NEW x \in Clients, NEW g, NEW e, NEW sent \in BOOLEAN, Answers(x, e, sent),
         NEW s, Refers(x, g, s)'
  PROVE  Refers(x, g, s) \/ (sent /\ Tale(e, g, s))
<1>1. down[x] \in Seq(DownMsgs)
  BY DEF Typed
<1>2. PICK k \in Nat : k = Len(down[x])
  BY <1>1
<1>3. Sends(x, g, s)' => Sends(x, g, s)
  BY UpServed DEF Answers
<1>4. told'[x] = told[x]
  BY DEF Answers, Served
<1>5. Tale(told[x], g, s) \/ (\E i \in 1..Len(down'[x]) : Tale(down'[x][i], g, s)) \/ Sends(x, g, s)
  BY <1>3, <1>4 DEF Refers, Sends
<1>6. CASE ~sent
  BY <1>5, <1>6 DEF Answers, Refers, Sends
<1>7. CASE sent
  <2>1. /\ Len(down'[x]) = k + 1 /\ down'[x][k + 1] = e
        /\ \A i \in 1..k : down'[x][i] = down[x][i]
    BY <1>1, <1>2, <1>7, Appended DEF Answers
  <2>2. \A j \in 1..k + 1 : j \in 1..k \/ j = k + 1
    BY <1>2
  <2>3. (\E i \in 1..Len(down'[x]) : Tale(down'[x][i], g, s)) =>
          (\E i \in 1..Len(down[x]) : Tale(down[x][i], g, s)) \/ Tale(e, g, s)
    BY <1>2, <2>1, <2>2
  <2> QED BY <1>5, <1>7, <2>3 DEF Refers, Sends
<1> QED BY <1>6, <1>7

\* A packet that gives no turn, or the one of the refused stone.
LEMMA KeptServed ==
  ASSUME Typed, NEW x \in Clients, NEW g, NEW e, NEW sent \in BOOLEAN, Answers(x, e, sent),
         sent => \A s : ~Tale(e, g, s),
         sent /\ Gives(x, e, g) => up'[x] # up[x] /\ Token(x, g, "up", 1)
  PROVE  Kept(x, g)
<1>1. PICK h \in 0..1, n \in Nat :
        /\ h = IF up'[x] = up[x] THEN 0 ELSE 1
        /\ n = Len(down[x]) + 1
        /\ \A w \in Spots, i \in Nat : Token(x, g, w, i)' =>
             \/ Token(x, g, w, IF w = "up" THEN i + h ELSE i) /\ (w = "up" => i # 0)
             \/ sent /\ Gives(x, e, g) /\ w = "down" /\ i = n
  BY TokenServed
<1>2. PICK old \in [Spots -> 0..1] : \A w \in Spots : old[w] = IF w = "up" THEN h ELSE 0
  <2>1. [w \in Spots |-> IF w = "up" THEN h ELSE 0] \in [Spots -> 0..1]
    OBVIOUS
  <2> QED BY <2>1
<1>3. "mine" \in Spots /\ "down" \in Spots /\ "up" \in Spots /\ 1 \in Nat
  BY DEF Spots
<1>4. (Sole(x, g) => Sole(x, g)') /\ (Has(x, g)' => Has(x, g))
  <2>1. CASE sent /\ Gives(x, e, g)
    <3>1. h = 1 /\ Token(x, g, "up", 1)
      BY <1>1, <2>1
    <3>2. \A w \in Spots, i \in Nat :
            (w = "up" => i # 0) => ~(w = "up" /\ i + old[w] = 1)
      BY <1>2, <3>1
    <3>3. \A w \in Spots, i \in Nat : (IF w = "up" THEN i + h ELSE i) = i + old[w]
      BY <1>2
    <3>4. Moves(x, g, old, "down", n, "up", 1)
      BY <1>1, <3>1, <3>2, <3>3 DEF Moves
    <3> QED BY <1>1, <1>3, <3>4, Carried
  <2>2. CASE ~(sent /\ Gives(x, e, g))
    <3>1. \A i : Token(x, g, "mine", i) => i # 1
      BY DEF Token
    <3>2. \A w \in Spots, i \in Nat : (IF w = "up" THEN i + h ELSE i) = i + old[w]
      BY <1>2
    <3>3. \A w \in Spots, i \in Nat :
            Token(x, g, w, i + old[w]) => ~(w = "mine" /\ i + old[w] = 1)
      BY <3>1
    <3>4. Moves(x, g, old, "mine", 1, "mine", 1)
      BY <1>1, <2>2, <3>2, <3>3 DEF Moves
    <3> QED BY <1>3, <3>4, Carried
  <2> QED BY <2>1, <2>2
<1>5. \A s : Refers(x, g, s)' => Refers(x, g, s)
  BY SameTale
<1> QED BY <1>4, <1>5 DEF Kept

\* A client without the turn has it afterwards only if e gives it.
LEMMA Offered ==
  ASSUME Typed, NEW x \in Clients, NEW g, NEW e, NEW sent \in BOOLEAN, Answers(x, e, sent),
         ~Has(x, g)
  PROVE  Sole(x, g)' /\ (Has(x, g)' => sent /\ Gives(x, e, g))
<1>1. PICK h \in 0..1, n \in Nat :
        /\ h = IF up'[x] = up[x] THEN 0 ELSE 1
        /\ n = Len(down[x]) + 1
        /\ \A w \in Spots, i \in Nat : Token(x, g, w, i)' =>
             \/ Token(x, g, w, IF w = "up" THEN i + h ELSE i) /\ (w = "up" => i # 0)
             \/ sent /\ Gives(x, e, g) /\ w = "down" /\ i = n
  BY TokenServed
<1>2. \A w \in Spots, i \in Nat : (IF w = "up" THEN i + h ELSE i) \in Nat
  OBVIOUS
<1>3. \A w \in Spots, i \in Nat : Token(x, g, w, i)' => sent /\ Gives(x, e, g) /\ w = "down" /\ i = n
  BY <1>1, <1>2 DEF Has
<1> QED BY <1>3 DEF Has, Sole

\* A turn that was in the stone handled is gone, if e does not give it back.
LEMMA Spent ==
  ASSUME Typed, NEW x \in Clients, NEW g, NEW e, NEW sent \in BOOLEAN, Answers(x, e, sent),
         Sole(x, g), Token(x, g, "up", 1), up'[x] # up[x], sent => ~Gives(x, e, g)
  PROVE  ~Has(x, g)'
<1>1. PICK h \in 0..1, n \in Nat :
        /\ h = IF up'[x] = up[x] THEN 0 ELSE 1
        /\ \A w \in Spots, i \in Nat : Token(x, g, w, i)' =>
             \/ Token(x, g, w, IF w = "up" THEN i + h ELSE i) /\ (w = "up" => i # 0)
             \/ sent /\ Gives(x, e, g) /\ w = "down" /\ i = n
  BY TokenServed
<1>2. "up" \in Spots /\ 1 \in Nat /\ h = 1
  BY <1>1 DEF Spots
<1>3. ASSUME NEW w \in Spots, NEW i \in Nat, Token(x, g, w, i)' PROVE FALSE
  <2>1. Token(x, g, w, IF w = "up" THEN i + 1 ELSE i) /\ (w = "up" => i # 0)
    BY <1>1, <1>2, <1>3
  <2>2. (IF w = "up" THEN i + 1 ELSE i) \in Nat
    OBVIOUS
  <2>3. w = "up" /\ (IF w = "up" THEN i + 1 ELSE i) = 1
    BY <1>2, <2>1, <2>2 DEF Sole
  <2> QED BY <2>1, <2>3
<1> QED BY <1>3 DEF Has

-----------------------------------------------------------------------------
(* The rooms.                                                              *)

ToMove(r) == IF StonesOf(r, Black) = StonesOf(r, White) THEN Black ELSE White

\* Client c has stones s in room r.
Plays(r, c, s) == \E k \in 1..Len(players[r]) : players[r][k] = c /\ Seat(k) = s

\* The one turn of a running game is with the player whose stone is next,
\* and who has heard of the game, or will, plays in it as it was told.
Turns(r) ==
  \A g : start[r] /\ game[r] = g => \A c \in Clients :
    /\ Sole(c, g)
    /\ Has(c, g) => Plays(r, c, ToMove(r))
    /\ \A s : Refers(c, g, s) => Plays(r, c, s)

Alternating(r) == StonesOf(r, Black) - StonesOf(r, White) \in {0, 1}

\* Stones on their way are of games that were begun.
UpNumbered(c) == \A i \in 1..Len(up[c]) : up[c][i].game \in 0..games

Turned ==
  /\ \A c \in Clients : NoticeFits(c)
  /\ \A r \in Rooms : Turns(r) /\ Alternating(r)

TurnInv == (\A c \in Clients : UpNumbered(c)) /\ (~strayed => Turned)

\* A room of which nothing changes but that its game may end.
SameRoom(r) ==
  /\ players'[r] = players[r] /\ game'[r] = game[r] /\ stones'[r] = stones[r]
  /\ start'[r] => start[r]

\* A step that gives no client a new part in the game of r keeps Turns(r).
LEMMA TurnsKept ==
  ASSUME NEW r \in Rooms, Turns(r), SameRoom(r),
         start[r] => \A g : g = game[r] => \A x \in Clients : Kept(x, g)
  PROVE  Turns(r)'
<1>1. ToMove(r)' = ToMove(r)
  BY DEF ToMove, StonesOf, SameRoom
<1>2. \A c, s : Plays(r, c, s)' <=> Plays(r, c, s)
  BY DEF Plays, SameRoom
<1>3. ASSUME start'[r], NEW g, game'[r] = g, NEW c \in Clients
      PROVE  /\ Sole(c, g)'
             /\ Has(c, g)' => Plays(r, c, ToMove(r))
             /\ \A s : Refers(c, g, s)' => Plays(r, c, s)
  <2>1. start[r] /\ game[r] = g
    BY <1>3 DEF SameRoom
  <2>2. Kept(c, g)
    BY <2>1
  <2> QED BY <2>1, <2>2 DEF Turns, Kept
<1> QED BY <1>1, <1>2, <1>3 DEF Turns

\* A step that leaves the board of r alone keeps Alternating(r).
LEMMA AlternatingKept ==
  ASSUME NEW r, Alternating(r), stones'[r] = stones[r]
  PROVE  Alternating(r)'
BY DEF Alternating, StonesOf

\* Who plays what in a running game.
LEMMA OneSeat ==
  ASSUME Typed, Seats, NEW r \in Rooms, start[r], NEW c, NEW s, Plays(r, c, s)
  PROVE  /\ c \in Members(r) /\ c \in Clients /\ s \in Types
         /\ \A t : Plays(r, c, t) => t = s
         /\ \A d : Plays(r, d, s) => d = c
<1>1. players[r] \in Seq(Clients) /\ Len(players[r]) = 2
  BY DEF Typed, Seats, RunningHasBoard
<1>2. 1..2 = {1, 2} /\ 1 # 2
  OBVIOUS
<1>3. players[r][1] # players[r][2]
  BY <1>1, <1>2 DEF Seats
<1>4. Seat(1) = Black /\ Seat(2) = White /\ Black # White
  BY GameAssumption DEF Seat
<1>5. PICK k \in {1, 2} : players[r][k] = c /\ Seat(k) = s
  BY <1>1, <1>2 DEF Plays
<1>6. c \in Members(r) /\ c \in Clients
  BY <1>1, <1>2, <1>5, SomebodyIn
<1>7. ASSUME NEW d, NEW t, Plays(r, d, t)
      PROVE  \E j \in {1, 2} : players[r][j] = d /\ Seat(j) = t
  BY <1>1, <1>2, <1>7 DEF Plays
<1>8. \A t : Plays(r, c, t) => t = s
  BY <1>3, <1>5, <1>7
<1>9. \A d : Plays(r, d, s) => d = c
  BY <1>4, <1>5, <1>7
<1>10. s \in Types
  BY <1>4, <1>5 DEF Types
<1> QED BY <1>6, <1>8, <1>9, <1>10

-----------------------------------------------------------------------------
(* The stones on a board.                                                  *)

Count(f, t) == Cardinality({x \in DOMAIN f : f[x] = t})

\* No stone is on an empty board.
LEMMA EmptyBoards ==
  \A t \in Types : Count(NoBoard, t) = 0 /\ Count(Fresh, t) = 0
<1> SUFFICES ASSUME NEW t \in Types PROVE Count(NoBoard, t) = 0 /\ Count(Fresh, t) = 0
  OBVIOUS
<1>1. t # Blank
  BY OmokAssumption
<1>2. {x \in DOMAIN NoBoard : NoBoard[x] = t} = {}
  BY DEF NoBoard
<1>3. {x \in DOMAIN Fresh : Fresh[x] = t} = {}
  BY <1>1 DEF Fresh
<1> QED BY <1>2, <1>3, FS_EmptySet DEF Count

\* A stone put on a free cell adds one to its colour's number.
LEMMA OneMore ==
  ASSUME NEW f \in [Cells -> Types \cup {Blank}], NEW cell \in Cells, f[cell] = Blank,
         NEW s \in Types, NEW t \in Types
  PROVE  /\ Count(f, t) \in Nat
         /\ Count([f EXCEPT ![cell] = s], t) = IF t = s THEN Count(f, t) + 1 ELSE Count(f, t)
<1> DEFINE A == {x \in DOMAIN f : f[x] = t}
           h == [f EXCEPT ![cell] = s]
           B == {x \in DOMAIN h : h[x] = t}
<1>1. s # Blank /\ t # Blank
  BY OmokAssumption
<1>2. IsFiniteSet(A)
  <2>1. A \in SUBSET Cells
    OBVIOUS
  <2> QED BY <2>1, OmokAssumption, FS_Subset
<1>3. Cardinality(A) \in Nat
  BY <1>2, FS_CardinalityType
<1>4. cell \notin A
  BY <1>1
<1>5. CASE t = s
  <2>1. B = A \cup {cell}
    BY <1>5
  <2> QED BY <1>2, <1>3, <1>4, <1>5, <2>1, FS_AddElement DEF Count
<1>6. CASE t # s
  <2>1. B = A
    BY <1>1, <1>6
  <2> QED BY <1>3, <1>6, <2>1 DEF Count
<1> QED BY <1>5, <1>6

\* A stone of the player who is to move: the colours still alternate, and the
\* other one is to move.
LEMMA NextColour ==
  ASSUME Typed, Seats, NEW r \in Rooms, start[r], Alternating(r), NEW cell \in Cells,
         stones[r][cell] = Blank, NEW s, s = ToMove(r),
         stones'[r] = [stones[r] EXCEPT ![cell] = s]
  PROVE  Alternating(r)' /\ ToMove(r)' \in Types /\ ToMove(r)' # s
<1>1. stones[r] \in [Cells -> Types \cup {Blank}]
  <2>1. DOMAIN stones[r] = Cells /\ stones[r] \in Boards
    BY DEF Seats, RunningHasBoard, Typed
  <2>2. DOMAIN NoBoard = {}
    BY DEF NoBoard
  <2> QED BY <2>1, <2>2 DEF Boards
<1>2. Black \in Types /\ White \in Types /\ s \in Types /\ Black # White
  BY GameAssumption DEF ToMove, Types
<1>3. PICK b \in Nat, w \in Nat : b = Count(stones[r], Black) /\ w = Count(stones[r], White)
  BY <1>1, <1>2, OneMore
<1>4. b - w \in {0, 1} /\ s = IF b = w THEN Black ELSE White
  BY <1>3 DEF Alternating, ToMove, StonesOf, Count
<1>5. /\ Count(stones'[r], Black) = IF s = Black THEN b + 1 ELSE b
      /\ Count(stones'[r], White) = IF s = White THEN w + 1 ELSE w
  BY <1>1, <1>2, <1>3, OneMore
<1>6. StonesOf(r, Black)' = Count(stones'[r], Black) /\ StonesOf(r, White)' = Count(stones'[r], White)
  BY DEF StonesOf, Count
<1>7. CASE b = w
  <2>1. s = Black /\ StonesOf(r, Black)' = b + 1 /\ StonesOf(r, White)' = w
    BY <1>2, <1>4, <1>5, <1>6, <1>7
  <2> QED BY <1>2, <1>7, <2>1 DEF Alternating, ToMove
<1>8. CASE b = w + 1
  <2>1. s = White /\ StonesOf(r, Black)' = b /\ StonesOf(r, White)' = w + 1
    BY <1>2, <1>4, <1>5, <1>6, <1>8
  <2> QED BY <1>2, <1>8, <2>1 DEF Alternating, ToMove
<1> QED BY <1>4, <1>7, <1>8

-----------------------------------------------------------------------------
(* The server's turn.                                                      *)

\* What is told of a game, a player of that game hears of.
LEMMA GivenTo ==
  ASSUME Typed, NEW x \in Clients, NEW e, NEW g, Gives(x, e, g), ~Opens(e, g)
  PROVE  \E m : Tells(x, m) /\ m.kind = "S_StartGame" /\ Returns(m, e, g) /\ Refers(x, g, m.stone)
<1>1. PICK m : Tells(x, m) /\ Returns(m, e, g)
  BY DEF Gives
<1>2. m.kind = "S_StartGame" /\ m.game = g
  BY <1>1 DEF Returns
<1> QED BY <1>1, <1>2, ToldRefers

\* A packet that is about no turn.
LEMMA Harmless ==
  ASSUME Typed, NEW x \in Clients, NEW g, NEW e, NEW sent \in BOOLEAN, Answers(x, e, sent),
         sent => e.kind \notin {"S_StartGame", "S_PlayStone", "S_CheckStone(false)"}
  PROVE  Calm(x, g)
<1>1. sent => ~Gives(x, e, g) /\ \A s : ~Tale(e, g, s)
  BY DEF Gives, Opens, Returns, Tale
<1>2. Kept(x, g)
  BY <1>1, KeptServed
<1>3. NoticeFits(x) => NoticeFits(x)'
  <2>1. phase'[x] = phase[x] /\ told'[x] = told[x]
    BY DEF Answers, Served
  <2>2. CASE sent
    BY <2>1, <2>2, NoticeMore DEF Answers
  <2>3. CASE ~sent
    BY <2>1, <2>3, NoticeSame DEF Answers
  <2> QED BY <2>2, <2>3
<1> QED BY <1>2, <1>3 DEF Calm

\* What the server's turn is for every client.
LEMMA AnswersAll ==
  ASSUME Typed, NEW c \in Clients, Pop(c), UNCHANGED <<state, notices>>
  PROVE  /\ \A x \in Clients : Served(x) /\ (x # c => up'[x] = up[x])
         /\ up'[c] = Tail(up[c]) /\ up'[c] # up[c]
         /\ \A x \in Clients : \A e : down'[x] = down[x] => Answers(x, e, FALSE)
         /\ \A out : SendAll(out) /\ (\A x \in DOMAIN out : out[x] \in DownMsgs) =>
              \A x \in Clients : Answers(x, out[x], x \in DOMAIN out /\ Online(x))
<1>1. UNCHANGED <<phase, told, state, notices>> /\ up' = [up EXCEPT ![c] = Tail(@)] /\ up[c] # <<>>
  BY DEF Pop, clientVars
<1>2. up \in [Clients -> Seq(UpMsgs)]
  BY DEF Typed
<1>3. \A x \in Clients : Served(x) /\ (x # c => up'[x] = up[x])
  BY <1>1, <1>2 DEF Served
<1>4. up'[c] = Tail(up[c])
  BY <1>1, <1>2
<1>5. up'[c] # up[c]
  <2>1. up[c] \in Seq(UpMsgs)
    BY <1>2
  <2>2. PICK n \in Nat : n = Len(up[c])
    BY <2>1
  <2>3. Len(Tail(up[c])) = n - 1
    BY <1>1, <2>1, <2>2, Popped
  <2>4. n - 1 # n
    BY <2>2
  <2> QED BY <1>4, <2>2, <2>3, <2>4
<1>6. \A x \in Clients : \A e : down'[x] = down[x] => Answers(x, e, FALSE)
  BY <1>3 DEF Answers
<1>7. ASSUME NEW out, SendAll(out), \A x \in DOMAIN out : out[x] \in DownMsgs, NEW x \in Clients
      PROVE  Answers(x, out[x], x \in DOMAIN out /\ Online(x))
  <2>1. down'[x] = IF x \in DOMAIN out /\ Online(x) THEN Append(down[x], out[x]) ELSE down[x]
    BY <1>7, Sent
  <2> QED BY <1>3, <1>7, <2>1 DEF Answers
<1> QED BY <1>3, <1>4, <1>5, <1>6, <1>7

\* A stone that has not strayed is one of the running game of its player's
\* room, and its player is in that room with this stone.
LEMMA StoneOfGame ==
  ASSUME Typed, Seats, TurnInv, ~strayed, NEW c \in Clients, Pop(c), ~Strays(c),
         Head(up[c]) \in Placed, NEW r, r = gameRoom[c], NEW g, g = game[r]
  PROVE  /\ r \in Rooms /\ start[r] /\ Head(up[c]).game = g
         /\ Token(c, g, "up", 1)
         /\ Plays(r, c, Head(up[c]).stone) /\ Head(up[c]).stone = ToMove(r)
<1>1. Head(up[c]).kind = "C_PlayStone"
  BY Messages
<1>2. gameRoom[c] # NoRoom /\ start[r] /\ Head(up[c]).game = g
  BY <1>1 DEF Strays
<1>3. r \in Rooms
  BY <1>2 DEF Typed
<1>4. Head(up[c]) = up[c][1] /\ 1 \in 1..Len(up[c])
  BY HeadOfQueue DEF Pop
<1>5. Token(c, g, "up", 1)
  BY <1>1, <1>2, <1>4 DEF Token
<1>6. Refers(c, g, Head(up[c]).stone)
  BY <1>1, <1>2, <1>4 DEF Refers
<1>7. Has(c, g)
  <2>1. "up" \in Spots /\ 1 \in Nat
    BY DEF Spots
  <2> QED BY <1>5, <2>1 DEF Has
<1>8. Plays(r, c, ToMove(r)) /\ Plays(r, c, Head(up[c]).stone)
  BY <1>2, <1>3, <1>6, <1>7 DEF TurnInv, Turned, Turns
<1>9. Head(up[c]).stone = ToMove(r)
  BY <1>2, <1>3, <1>8, OneSeat
<1> QED BY <1>2, <1>3, <1>5, <1>8, <1>9

\* Nothing is sent that is about a turn, and no room loses or gains but c.
LEMMA TurnedQuiet ==
  ASSUME Typed, Seats, Turned, NEW c \in Clients, Pop(c), UNCHANGED <<state, notices>>,
         SignUp(c) \/ Failure(c) \/ Vanish(c) \/ \E r \in Rooms : Sit(c, r)
  PROVE  Turned'
<1>1. \A x \in Clients : NoticeFits(x)' /\ \A g : Kept(x, g)
  <2>1. CASE SignUp(c)
    <3>1. PICK out : out = [x \in {c} |-> Msg("S_Login(true)")]
      OBVIOUS
    <3>2. SendAll(out) /\ DOMAIN out = {c} /\ out[c] = Msg("S_Login(true)")
      BY <2>1, <3>1 DEF SignUp, SendTo
    <3>3. Msg("S_Login(true)") \in DownMsgs /\ Msg("S_Login(true)").kind = "S_Login(true)"
      BY SentTypes, Messages
    <3>4. \A x \in Clients : Answers(x, out[x], x \in DOMAIN out /\ Online(x))
      BY <3>2, <3>3, AnswersAll
    <3>5. \A x \in DOMAIN out :
            out[x].kind \notin {"S_StartGame", "S_PlayStone", "S_CheckStone(false)"}
      BY <3>2, <3>3
    <3> QED BY <3>4, <3>5, Harmless DEF Turned, Calm
  <2>2. CASE Failure(c) \/ Vanish(c) \/ \E r \in Rooms : Sit(c, r)
    <3>1. down' = down
      BY <2>2 DEF Failure, Vanish, Sit
    <3>2. \A x \in Clients : Answers(x, Disc, FALSE)
      BY <3>1, AnswersAll
    <3> QED BY <3>2, Harmless DEF Turned, Calm
  <2> QED BY <2>1, <2>2
<1>2. CASE SignUp(c) \/ Failure(c) \/ Vanish(c)
  <2>1. \A r \in Rooms : SameRoom(r)
    BY <1>2 DEF SignUp, Failure, Vanish, SameRoom, roomVars
  <2>2. \A r \in Rooms : Turns(r)' /\ Alternating(r)'
    BY <1>1, <2>1, TurnsKept, AlternatingKept DEF Turned, SameRoom
  <2> QED BY <1>1, <2>2 DEF Turned
<1>3. ASSUME NEW r \in Rooms, Sit(c, r) PROVE Turned'
  <2>1. start' = start /\ game' = game /\ stones' = stones /\ \A q \in Rooms : q # r => players'[q] = players[q]
    BY <1>3 DEF Sit, Typed
  <2>2. ~start'[r]
    <3>1. players[r] = <<>>
      BY <1>3 DEF Sit
    <3>2. Len(<<>>) = 0
      OBVIOUS
    <3> QED BY <2>1, <3>1, <3>2 DEF Seats, RunningHasBoard
  <2>3. Turns(r)'
    BY <2>2 DEF Turns
  <2>4. ASSUME NEW q \in Rooms, q # r PROVE Turns(q)'
    <3>1. SameRoom(q)
      BY <2>1, <2>4 DEF SameRoom
    <3> QED BY <1>1, <3>1, TurnsKept DEF Turned
  <2>5. \A q \in Rooms : Alternating(q)'
    BY <2>1, AlternatingKept DEF Turned
  <2> QED BY <1>1, <2>3, <2>4, <2>5 DEF Turned
<1> QED BY <1>2, <1>3

\* A departure ends the game of its room.
LEMMA TurnedDepart ==
  ASSUME Typed, Seats, Turned, NEW c \in Clients, Pop(c), UNCHANGED <<state, notices>>,
         NEW r \in Rooms, Depart(c, r, Without(players[r], c))
  PROVE  Turned'
<1>1. PICK out : out = [x \in Range(Without(players[r], c)) |-> Msg("S_LeaveGame")]
  OBVIOUS
<1>2. SendAll(out) /\ \A x \in DOMAIN out : out[x] = Msg("S_LeaveGame")
  BY <1>1 DEF Depart
<1>3. Msg("S_LeaveGame") \in DownMsgs /\ Msg("S_LeaveGame").kind = "S_LeaveGame"
  BY SentTypes, Messages
<1>4. \A x \in Clients : Answers(x, out[x], x \in DOMAIN out /\ Online(x))
  BY <1>2, <1>3, AnswersAll
<1>5. \A x \in DOMAIN out :
        out[x].kind \notin {"S_StartGame", "S_PlayStone", "S_CheckStone(false)"}
  BY <1>2, <1>3
<1>6. \A x \in Clients : NoticeFits(x)' /\ \A g : Kept(x, g)
  BY <1>4, <1>5, Harmless DEF Turned, Calm
<1>7. /\ ~start'[r] /\ stones'[r] = NoBoard /\ game' = game
      /\ \A q \in Rooms : q # r =>
           players'[q] = players[q] /\ start'[q] = start[q] /\ stones'[q] = stones[q]
  BY DEF Depart, Typed
<1>8. Turns(r)'
  BY <1>7 DEF Turns
<1>9. Alternating(r)'
  <2>1. Black \in Types /\ White \in Types
    BY DEF Types
  <2>2. StonesOf(r, Black)' = 0 /\ StonesOf(r, White)' = 0
    BY <1>7, <2>1, EmptyBoards DEF StonesOf, Count
  <2> QED BY <2>2 DEF Alternating
<1>10. ASSUME NEW q \in Rooms, q # r PROVE Turns(q)' /\ Alternating(q)'
  <2>1. SameRoom(q)
    BY <1>7, <1>10 DEF SameRoom
  <2> QED BY <1>6, <1>7, <1>10, <2>1, TurnsKept, AlternatingKept DEF Turned
<1> QED BY <1>6, <1>8, <1>9, <1>10 DEF Turned

\* A refusal gives the turn back to the one whose stone is refused.
LEMMA TurnedRefuse ==
  ASSUME Typed, Seats, Informed, TurnInv, ~strayed, NEW c \in Clients, Pop(c), ~Strays(c),
         UNCHANGED <<state, notices>>, Refuse(c)
  PROVE  Turned'
<1>1. PICK e : e = Msg("S_CheckStone(false)")
  OBVIOUS
<1>2. e \in DownMsgs /\ e.kind = "S_CheckStone(false)"
  BY <1>1, SentTypes, Messages
<1>3. PICK out : out = [x \in {c} |-> e]
  OBVIOUS
<1>4. SendAll(out) /\ DOMAIN out = {c} /\ out[c] = e
  BY <1>1, <1>3 DEF Refuse, SendTo
<1>5. \A x \in Clients : Answers(x, out[x], x \in DOMAIN out /\ Online(x))
  BY <1>2, <1>4, AnswersAll
<1>6. Answers(c, e, Online(c)) /\ \A x \in Clients : x # c => Answers(x, out[x], FALSE)
  BY <1>4, <1>5 DEF Answers
<1>7. Turned
  BY DEF TurnInv
<1>8. ASSUME NEW x \in Clients, x # c PROVE NoticeFits(x)' /\ \A g : Kept(x, g)
  BY <1>6, <1>7, <1>8, Harmless DEF Turned, Calm
<1>9. PICK r : r = gameRoom[c]
  OBVIOUS
<1>10. PICK g : g = game[r]
  OBVIOUS
<1>11. /\ r \in Rooms /\ start[r] /\ Token(c, g, "up", 1) /\ Plays(r, c, Head(up[c]).stone)
  BY <1>9, <1>10, StoneOfGame DEF Refuse
<1>12. NoticeFits(c)'
  <2>1. phase'[c] = phase[c] /\ told'[c] = told[c] /\ NoticeFits(c)
    BY <1>6, <1>7 DEF Answers, Served, Turned
  <2>2. CASE Online(c)
    <3>1. down'[c] = Append(down[c], e)
      BY <1>6, <2>2 DEF Answers
    <3>2. PICK k \in 1..Len(players[r]) : players[r][k] = c
      BY <1>11 DEF Plays
    <3>3. TellsGame(c, game[r], Seat(k))
      BY <1>11, <2>2, <3>2 DEF Informed, InformedIn
    <3>4. \E m : Tells(c, m) /\ m.kind = "S_StartGame"
      BY <3>3 DEF TellsGame
    <3> QED BY <1>2, <2>1, <3>1, <3>4, NoticeMore
  <2>3. CASE ~Online(c)
    <3>1. down'[c] = down[c]
      BY <1>6, <2>3 DEF Answers
    <3> QED BY <2>1, <3>1, NoticeSame
  <2> QED BY <2>2, <2>3
<1>13. up'[c] # up[c]
  BY AnswersAll
<1>14. ASSUME NEW q \in Rooms, start[q], NEW h, h = game[q] PROVE Kept(c, h)
  <2>1. \A s : ~Tale(e, h, s)
    BY <1>2 DEF Tale
  <2>2. ASSUME Gives(c, e, h) PROVE Token(c, h, "up", 1)
    <3>1. ~Opens(e, h)
      BY <1>2 DEF Opens
    <3>2. PICK m : Refers(c, h, m.stone)
      BY <2>2, <3>1, GivenTo
    <3>3. Plays(q, c, m.stone)
      BY <1>7, <1>14, <3>2 DEF Turned, Turns
    <3>4. c \in Members(q)
      BY <1>14, <3>3, OneSeat
    <3>5. q = r
      BY <1>9, <3>4 DEF Seats
    <3> QED BY <1>10, <1>11, <1>14, <3>5
  <2>3. Online(c) \in BOOLEAN
    BY DEF Online
  <2> QED BY <1>6, <1>13, <2>1, <2>2, <2>3, KeptServed
<1>15. ASSUME NEW q \in Rooms PROVE Turns(q)' /\ Alternating(q)'
  <2>1. SameRoom(q)
    BY DEF Refuse, SameRoom, roomVars
  <2>2. start[q] => \A h : h = game[q] => \A x \in Clients : Kept(x, h)
    BY <1>8, <1>14
  <2> QED BY <1>7, <2>1, <2>2, TurnsKept, AlternatingKept DEF Turned, SameRoom
<1> QED BY <1>8, <1>12, <1>15 DEF Turned

\* A stone passes the turn to the other player of its room.
LEMMA TurnedPut ==
  ASSUME Typed, Seats, TurnInv, ~strayed, NEW c \in Clients, Pop(c), ~Strays(c),
         UNCHANGED <<state, notices>>,
         NEW r \in Rooms, NEW m \in Placed, NEW won \in BOOLEAN, Put(c, r, m, won)
  PROVE  Turned'
<1>1. PICK e : e = [Msg(IF won THEN "S_ThrowResult" ELSE "S_PlayStone") EXCEPT !.stone = m.stone]
  OBVIOUS
<1>2. m.stone \in Types /\ m.cell \in Cells /\ m = Head(up[c])
  BY Messages DEF Put
<1>3. e \in DownMsgs /\ e.kind \notin {"S_StartGame", "S_CheckStone(false)"} /\ e.stone = m.stone
  <2>1. e \in Notes
    BY <1>1, <1>2, SentTypes
  <2>2. e.stone = m.stone
    BY <1>1 DEF Msg
  <2> QED BY <2>1, <2>2, Messages DEF DownMsgs, GameMsgs
<1>4. PICK out : out = [x \in Members(r) |-> e]
  OBVIOUS
<1>5. SendAll(out) /\ DOMAIN out = Members(r) /\ \A x \in DOMAIN out : out[x] = e
  BY <1>1, <1>4 DEF Put
<1>6. \A x \in Clients : Answers(x, out[x], x \in DOMAIN out /\ Online(x))
  BY <1>3, <1>5, AnswersAll
<1>7. ASSUME NEW x \in Clients
      PROVE  \E sent \in BOOLEAN : Answers(x, e, sent) /\ (sent => x \in Members(r))
  <2>1. Answers(x, out[x], x \in DOMAIN out /\ Online(x))
    BY <1>6
  <2>2. CASE x \in DOMAIN out /\ Online(x)
    <3>1. Answers(x, e, TRUE)
      BY <1>5, <2>1, <2>2 DEF Answers
    <3> QED BY <1>5, <2>2, <3>1
  <2>3. CASE ~(x \in DOMAIN out /\ Online(x))
    <3>1. Answers(x, e, FALSE)
      BY <2>1, <2>3 DEF Answers
    <3> QED BY <3>1
  <2> QED BY <2>2, <2>3
<1>8. Turned
  BY DEF TurnInv
<1>9. PICK g : g = game[r]
  OBVIOUS
<1>10. /\ start[r] /\ Token(c, g, "up", 1) /\ Plays(r, c, m.stone) /\ m.stone = ToMove(r)
  BY <1>2, <1>9, StoneOfGame DEF Put
<1>11. \A h, s : ~Tale(e, h, s) /\ ~Opens(e, h)
  BY <1>3 DEF Tale, Opens
<1>12. ASSUME NEW x \in Clients PROVE NoticeFits(x)'
  <2>1. PICK sent \in BOOLEAN : Answers(x, e, sent)
    BY <1>7
  <2>2. NoticeFits(x) /\ phase'[x] = phase[x] /\ told'[x] = told[x]
    BY <1>8, <2>1 DEF Turned, Answers, Served
  <2>3. CASE sent
    <3>1. down'[x] = Append(down[x], e)
      BY <2>1, <2>3 DEF Answers
    <3> QED BY <1>3, <2>2, <3>1, NoticeMore
  <2>4. CASE ~sent
    BY <2>1, <2>2, <2>4, NoticeSame DEF Answers
  <2> QED BY <2>3, <2>4
<1>13. /\ stones'[r] = [stones[r] EXCEPT ![m.cell] = m.stone] /\ start'[r] = ~won
       /\ players' = players /\ game' = game
       /\ \A q \in Rooms : q # r => start'[q] = start[q] /\ stones'[q] = stones[q]
  BY DEF Put, Typed
<1>14. Alternating(r)' /\ ToMove(r)' \in Types /\ ToMove(r)' # m.stone
  BY <1>2, <1>8, <1>10, <1>13, NextColour DEF Put, Turned
<1>15. ASSUME NEW q \in Rooms, q # r PROVE Turns(q)' /\ Alternating(q)'
  <2>1. SameRoom(q)
    BY <1>13, <1>15 DEF SameRoom
  <2>2. ASSUME start[q], NEW h, h = game[q], NEW x \in Clients PROVE Kept(x, h)
    <3>1. PICK sent \in BOOLEAN : Answers(x, e, sent) /\ (sent => x \in Members(r))
      BY <1>7
    <3>2. ASSUME sent, Gives(x, e, h) PROVE FALSE
      <4>1. PICK k : Refers(x, h, k.stone)
        BY <1>11, <3>2, GivenTo
      <4>2. Plays(q, x, k.stone)
        BY <1>8, <2>2, <4>1 DEF Turned, Turns
      <4>3. x \in Members(q) /\ x \in Members(r)
        BY <2>2, <3>1, <3>2, <4>2, OneSeat
      <4> QED BY <1>15, <4>3 DEF Seats
    <3> QED BY <1>11, <3>1, <3>2, KeptServed
  <2> QED BY <1>8, <1>13, <1>15, <2>1, <2>2, TurnsKept, AlternatingKept DEF Turned
<1>16. ASSUME NEW x \in Clients
       PROVE  /\ Sole(x, g)'
              /\ Has(x, g)' => Plays(r, x, ToMove(r)')
              /\ \A s : Refers(x, g, s)' => Plays(r, x, s)
  <2>1. PICK sent \in BOOLEAN : Answers(x, e, sent)
    BY <1>7
  <2>2. /\ Sole(x, g) /\ (Has(x, g) => Plays(r, x, m.stone))
        /\ \A s : Refers(x, g, s) => Plays(r, x, s)
    BY <1>8, <1>9, <1>10 DEF Turned, Turns
  <2>3. \A s : Refers(x, g, s)' => Plays(r, x, s)
    BY <1>11, <2>1, <2>2, SameTale
  <2>4. ASSUME Gives(x, e, g) PROVE \E s : Plays(r, x, s) /\ s # m.stone
    <3>1. PICK k : Returns(k, e, g) /\ Refers(x, g, k.stone)
      BY <1>11, <2>4, GivenTo
    <3>2. k.stone # m.stone
      BY <1>3, <3>1 DEF Returns
    <3> QED BY <2>2, <3>1, <3>2
  <2>5. CASE x = c
    <3>1. ~Gives(x, e, g)
      <4>1. \A s : Plays(r, c, s) => s = m.stone
        BY <1>10, OneSeat
      <4> QED BY <2>4, <2>5, <4>1
    <3>2. up'[x] # up[x]
      BY <2>5, AnswersAll
    <3>3. ~Has(x, g)'
      BY <1>10, <2>1, <2>2, <2>5, <3>1, <3>2, Spent
    <3> QED BY <2>3, <3>3 DEF Has, Sole
  <2>6. CASE x # c
    <3>1. ~Has(x, g)
      BY <1>10, <2>2, <2>6, OneSeat
    <3>2. Sole(x, g)' /\ (Has(x, g)' => Gives(x, e, g))
      BY <2>1, <3>1, Offered
    <3>3. ASSUME NEW s, Plays(r, x, s), s # m.stone PROVE s = ToMove(r)'
      <4>1. s \in Types
        BY <1>10, <3>3, OneSeat
      <4> QED BY <1>2, <1>14, <3>3, <4>1 DEF Types
    <3> QED BY <2>3, <2>4, <3>2, <3>3
  <2> QED BY <2>5, <2>6
<1>17. Turns(r)'
  <2>1. game'[r] = g /\ \A x, s : Plays(r, x, s)' <=> Plays(r, x, s)
    BY <1>9, <1>13 DEF Plays
  <2> QED BY <1>16, <2>1 DEF Turns
<1> QED BY <1>12, <1>14, <1>15, <1>17 DEF Turned

\* An element of a sequence.
LEMMA Elements ==
  ASSUME NEW S, NEW s \in Seq(S), NEW i \in 1..Len(s)
  PROVE  s[i] \in S
OBVIOUS

\* Nobody has heard of a game that has not begun.
LEMMA NotBegun ==
  ASSUME Typed, UIInv, NEW x \in Clients, UpNumbered(x), NEW g \in Nat, g > games
  PROVE  ~Has(x, g) /\ \A s : ~Refers(x, g, s)
<1>1. \A n \in 0..games : n # g
  <2>1. games \in Nat
    BY DEF Typed
  <2> QED BY <2>1
<1>2. /\ told[x].game # g
      /\ \A i \in 1..Len(down[x]) : down[x][i].game # g
      /\ \A i \in 1..Len(up[x]) : up[x][i].game # g
  BY <1>1 DEF UIInv, Numbered, UpNumbered
<1>3. \A s : ~Refers(x, g, s)
  BY <1>2 DEF Refers, Tale
<1>4. \A i \in 1..Len(down[x]) : ~Offers(x, i, g)
  <2>1. ASSUME NEW i \in 1..Len(down[x]), NEW m, Before(x, i, m), m.kind = "S_StartGame", m.game = g
        PROVE  FALSE
    BY <1>3, <2>1, ToldRefers
  <2> QED BY <1>2, <2>1 DEF Offers, Opens, Returns
<1>5. \A i \in 1..Len(notices[x]) : notices[x][i] # g
  <2>1. notices[x] \in Seq(0..games)
    BY DEF UIInv, UITypes
  <2>2. \A i \in 1..Len(notices[x]) : notices[x][i] \in 0..games
    BY <2>1, Elements
  <2> QED BY <1>1, <2>1, <2>2
<1>6. \A w \in Spots, i \in Nat : ~Token(x, g, w, i)
  BY <1>2, <1>4, <1>5 DEF Token
<1> QED BY <1>3, <1>6 DEF Has

\* A new game gives the turn to black, once.
LEMMA TurnedJoin ==
  ASSUME Typed, Seats, Protocol, UIInv, TurnInv, ~strayed, NEW c \in Clients, Pop(c),
         UNCHANGED <<state, notices>>, NEW r \in Rooms, NEW p \in Clients, Join(c, r, p)
  PROVE  Turned'
<1>1. PICK g \in Nat : g = games + 1
  BY NextGame
<1>2. PICK out :
        out = [x \in {p, c} |->
                [Msg("S_StartGame") EXCEPT !.stone = IF x = p THEN Black ELSE White, !.game = g]]
  OBVIOUS
<1>3. SendAll(out) /\ game' = [game EXCEPT ![r] = g] /\ stones' = [stones EXCEPT ![r] = Fresh]
      /\ start' = [start EXCEPT ![r] = TRUE] /\ players' = [players EXCEPT ![r] = <<p, c>>]
  BY <1>1, <1>2 DEF Join, StartGame
<1>4. Black \in Types /\ White \in Types /\ Black # White
  BY GameAssumption DEF Types
<1>5. DOMAIN out = {p, c} /\ \A x \in {p, c} : out[x] \in Starts
  BY <1>2, <1>4, SentTypes
<1>6. \A x \in {p, c} : /\ out[x].kind = "S_StartGame" /\ out[x].game = g
                        /\ out[x].stone = IF x = p THEN Black ELSE White
  BY <1>2 DEF Msg
<1>7. \A x \in Clients : Answers(x, out[x], x \in DOMAIN out /\ Online(x))
  <2>1. \A x \in DOMAIN out : out[x] \in DownMsgs
    BY <1>5 DEF DownMsgs, GameMsgs
  <2> QED BY <1>3, <2>1, AnswersAll
<1>8. ASSUME NEW x \in Clients
      PROVE  \E sent \in BOOLEAN : Answers(x, out[x], sent) /\ (sent => x \in {p, c})
  <2>1. Answers(x, out[x], x \in DOMAIN out /\ Online(x))
    BY <1>7
  <2>2. CASE x \in DOMAIN out /\ Online(x)
    <3>1. Answers(x, out[x], TRUE)
      BY <2>1, <2>2 DEF Answers
    <3> QED BY <1>5, <2>2, <3>1
  <2>3. CASE ~(x \in DOMAIN out /\ Online(x))
    <3>1. Answers(x, out[x], FALSE)
      BY <2>1, <2>3 DEF Answers
    <3> QED BY <3>1
  <2> QED BY <2>2, <2>3
<1>9. Turned /\ \A x \in Clients : UpNumbered(x)
  BY DEF TurnInv
<1>10. ASSUME NEW x \in Clients PROVE NoticeFits(x)'
  <2>1. PICK sent \in BOOLEAN : Answers(x, out[x], sent) /\ (sent => x \in {p, c})
    BY <1>8
  <2>2. NoticeFits(x) /\ phase'[x] = phase[x] /\ told'[x] = told[x]
    BY <1>9, <2>1 DEF Turned, Answers, Served
  <2>3. CASE sent
    <3>1. down'[x] = Append(down[x], out[x]) /\ out[x] \in DownMsgs /\ out[x].kind = "S_StartGame"
      BY <1>6, <2>1, <2>3 DEF Answers
    <3> QED BY <2>2, <3>1, NoticeMore
  <2>4. CASE ~sent
    BY <2>1, <2>2, <2>4, NoticeSame DEF Answers
  <2> QED BY <2>3, <2>4
<1>11. ASSUME NEW q \in Rooms, q # r PROVE Turns(q)' /\ Alternating(q)'
  <2>1. SameRoom(q)
    BY <1>3, <1>11 DEF SameRoom, Typed
  <2>2. ASSUME NEW h, h = game[q], NEW x \in Clients PROVE Kept(x, h)
    <3>1. PICK sent \in BOOLEAN : Answers(x, out[x], sent) /\ (sent => x \in {p, c})
      BY <1>8
    <3>2. h # g
      <4>1. h \in 0..games /\ games \in Nat
        BY <2>2 DEF Typed
      <4> QED BY <1>1, <4>1
    <3>3. sent => ~Gives(x, out[x], h) /\ \A s : ~Tale(out[x], h, s)
      BY <1>6, <3>1, <3>2 DEF Gives, Opens, Returns, Tale
    <3> QED BY <3>1, <3>3, KeptServed
  <2> QED BY <1>9, <2>1, <2>2, TurnsKept, AlternatingKept DEF Turned, SameRoom
<1>12. game'[r] = g /\ stones'[r] = Fresh /\ players'[r] = <<p, c>>
  BY <1>3 DEF Typed
<1>13. StonesOf(r, Black)' = 0 /\ StonesOf(r, White)' = 0
  BY <1>4, <1>12, EmptyBoards DEF StonesOf, Count
<1>14. Alternating(r)' /\ ToMove(r)' = Black
  BY <1>13 DEF Alternating, ToMove
<1>15. p # c
  <2>1. Unseated(c)
    <3>1. Head(up[c]) = up[c][1] /\ 1 \in 1..Len(up[c])
      BY HeadOfQueue DEF Pop
    <3> QED BY <3>1 DEF Join, Protocol, Queue
  <2>2. p \in Members(r)
    <3>1. Range(players[r]) = {p}
      BY Ranges DEF Join
    <3> QED BY <3>1 DEF Members
  <2> QED BY <2>1, <2>2 DEF Unseated, Seated
<1>16. Plays(r, p, Black)' /\ Plays(r, c, White)'
  <2>1. /\ Len(<<p, c>>) = 2 /\ <<p, c>>[1] = p /\ <<p, c>>[2] = c
        /\ 1 \in 1..2 /\ 2 \in 1..2 /\ Seat(1) = Black /\ Seat(2) = White
    BY DEF Seat
  <2> QED BY <1>12, <2>1 DEF Plays
<1>17. ASSUME NEW x \in Clients
       PROVE  /\ Sole(x, g)'
              /\ Has(x, g)' => Plays(r, x, Black)'
              /\ \A s : Refers(x, g, s)' => Plays(r, x, s)'
  <2>1. PICK sent \in BOOLEAN : Answers(x, out[x], sent) /\ (sent => x \in {p, c})
    BY <1>8
  <2>2. ~Has(x, g) /\ \A s : ~Refers(x, g, s)
    <3>1. g > games
      <4>1. games \in Nat
        BY DEF Typed
      <4> QED BY <1>1, <4>1
    <3> QED BY <1>9, <3>1, NotBegun
  <2>3. Sole(x, g)' /\ (Has(x, g)' => sent /\ Gives(x, out[x], g))
    BY <2>1, <2>2, Offered
  <2>4. sent /\ Gives(x, out[x], g) => x = p
    BY <1>4, <1>6, <1>15, <2>1 DEF Gives, Opens, Returns
  <2>5. \A s : Refers(x, g, s)' => sent /\ Tale(out[x], g, s)
    BY <2>1, <2>2, SameTale
  <2>6. \A s : sent /\ Tale(out[x], g, s) => x \in {p, c} /\ s = IF x = p THEN Black ELSE White
    BY <1>6, <2>1 DEF Tale
  <2>7. ASSUME NEW s, Refers(x, g, s)' PROVE Plays(r, x, s)'
    BY <1>15, <1>16, <2>5, <2>6, <2>7
  <2> QED BY <1>16, <2>3, <2>4, <2>7
<1>18. Turns(r)'
  BY <1>12, <1>14, <1>17 DEF Turns
<1> QED BY <1>10, <1>11, <1>14, <1>18 DEF Turned

-----------------------------------------------------------------------------
(* Every step.                                                             *)

\* Stones on their way stay within the games that were begun.
LEMMA UpNumberedStep ==
  ASSUME Typed, Seats, Protocol, Damage, UIInv, \A x \in Clients : UpNumbered(x),
         [OmokNext]_allVars
  PROVE  \A x \in Clients : UpNumbered(x)'
<1>1. games \in Nat /\ up \in [Clients -> Seq(UpMsgs)]
  BY DEF Typed
<1>2. ASSUME NEW x \in Clients, up'[x] = up[x], games' \in Nat, games' >= games
      PROVE  UpNumbered(x)'
  BY <1>1, <1>2 DEF UpNumbered
<1>3. ASSUME games' = games, NEW c \in Clients, NEW m \in UpMsgs, ClientSends(c, m), m.game \in 0..games
      PROVE  \A x \in Clients : UpNumbered(x)'
  <2>1. up'[c] = Append(up[c], m) /\ up[c] \in Seq(UpMsgs)
        /\ \A x \in Clients : x # c => up'[x] = up[x]
    BY <1>1, <1>3 DEF ClientSends
  <2>2. PICK n \in Nat : n = Len(up[c])
    BY <2>1
  <2>3. /\ Len(up'[c]) = n + 1 /\ up'[c][n + 1] = m
        /\ \A i \in 1..n : up'[c][i] = up[c][i]
    BY <2>1, <2>2, Appended
  <2>4. \A j \in 1..n + 1 : j \in 1..n \/ j = n + 1
    BY <2>2
  <2>5. UpNumbered(c)'
    BY <1>3, <2>2, <2>3, <2>4 DEF UpNumbered
  <2>6. games' \in Nat /\ games' >= games
    BY <1>1, <1>3
  <2> QED BY <1>2, <2>1, <2>5, <2>6
<1>4. CASE UNCHANGED up /\ games' = games
  <2>1. games' \in Nat /\ games' >= games
    BY <1>1, <1>4
  <2> QED BY <1>2, <1>4, <2>1
<1>5. ASSUME NEW c \in Clients, NEW cell \in Cells, Click(c, cell)
      PROVE  \A x \in Clients : UpNumbered(x)'
  <2> DEFINE m == [kind |-> "C_PlayStone", cell |-> cell, stone |-> told[c].stone, game |-> told[c].game]
  <2>1. ClientSends(c, m) /\ games' = games /\ told[c] \in Starts
    BY <1>5 DEF Click, PlayStoneCallback, roomVars, Typed
  <2>2. m.game \in 0..games
    BY DEF UIInv, Numbered
  <2>3. told[c].stone \in Types /\ told[c].game \in Nat
    BY <2>1, Messages
  <2>4. m \in UpMsgs
    BY <2>3 DEF UpMsgs, Placed
  <2> HIDE DEF m
  <2> QED BY <1>3, <2>1, <2>2, <2>4
<1>6. ASSUME NEW c \in Clients, Serve(c) PROVE \A x \in Clients : UpNumbered(x)'
  <2>1. HandlePacket(c)
    BY <1>6 DEF Serve
  <2>2. Pop(c) /\ Outcome(c)
    BY <2>1, HandleSplit
  <2>3. games' = games \/ games' = games + 1
    BY <2>2 DEF Outcome, SignUp, Failure, Refuse, Vanish, Sit, Join, StartGame, Put, Depart, roomVars
  <2>4. games' \in Nat /\ games' >= games
    BY <1>1, <2>3
  <2>5. up[c] # <<>> /\ up'[c] = Tail(up[c]) /\ \A x \in Clients : x # c => up'[x] = up[x]
    BY <1>1, <2>2 DEF Pop
  <2>6. PICK n \in Nat : n = Len(up[c])
    BY <1>1, HeadOfQueue, <2>5
  <2>7. /\ Len(up'[c]) = n - 1
        /\ \A i \in 1..n - 1 : up'[c][i] = up[c][i + 1] /\ i + 1 \in 1..n
    BY <2>5, <2>6, HeadOfQueue
  <2>8. \A k \in 0..games : k \in 0..games'
    BY <1>1, <2>4
  <2>9. UpNumbered(c)'
    BY <2>6, <2>7, <2>8 DEF UpNumbered
  <2> QED BY <1>2, <2>4, <2>5, <2>9
<1>7. ASSUME NEW c \in Clients, Elsewhere(c) PROVE \A x \in Clients : UpNumbered(x)'
  <2>1. games' = games /\ 0 \in 0..games
    BY <1>1, <1>7 DEF Elsewhere, OnConnected, OnDisconnected, SubmitName, LoginRefused,
       LoginAccepted, FreeSession, roomVars
  <2>2. CASE OnDisconnected(c)
    <3>1. PICK a \in 0..Len(up[c]) :
            /\ up'[c][a + 1] = Disc
            /\ \A i \in 1..Len(up'[c]) : i # a + 1 =>
                 LET k == IF i <= a THEN i ELSE i - 1
                 IN  k \in 1..Len(up[c]) /\ up'[c][i] = up[c][k]
      BY <2>2, CutOff
    <3>2. Disc.game = 0
      BY DEF Disc, Msg
    <3>3. \A i \in 1..Len(up'[c]) : up'[c][i].game \in 0..games
      BY <2>1, <3>1, <3>2 DEF UpNumbered
    <3>4. UpNumbered(c)'
      BY <2>1, <3>3 DEF UpNumbered
    <3>5. \A x \in Clients : x # c => up'[x] = up[x]
      BY <1>1, <2>2 DEF OnDisconnected
    <3>6. games' \in Nat /\ games' >= games
      BY <1>1, <2>1
    <3> QED BY <1>2, <3>4, <3>5, <3>6
  <2>3. ASSUME NEW k \in {"C_SignUp", "C_EnterRoom"}, ClientSends(c, Msg(k))
        PROVE  \A x \in Clients : UpNumbered(x)'
    <3>1. Msg(k) \in UpMsgs /\ Msg(k).game \in 0..games
      BY <2>1 DEF Msg, UpMsgs
    <3> QED BY <1>3, <2>1, <2>3, <3>1
  <2>4. CASE SubmitName(c) \/ LoginAccepted(c)
    BY <2>3, <2>4 DEF SubmitName, LoginAccepted
  <2>5. CASE OnConnected(c) \/ LoginRefused(c) \/ FreeSession(c)
    BY <1>4, <2>1, <2>5 DEF OnConnected, LoginRefused, FreeSession
  <2> QED BY <1>7, <2>2, <2>4, <2>5 DEF Elsewhere
<1>8. ASSUME NEW c \in Clients,
             UIStartGame(c) \/ Clear(c) \/ DoNextTurn(c) \/ EndGame(c) \/ CheckStone(c) \/ NoticeEnds(c)
      PROVE  UNCHANGED up /\ games' = games
  BY <1>8 DEF UIStartGame, GameBegins, Clear, GameLeft, DoNextTurn, EndGame, CheckStone, GameNews,
     NoticeEnds, vars, roomVars
<1>9. CASE UNCHANGED allVars
  BY <1>4, <1>9 DEF allVars, vars, roomVars
<1> QED BY <1>4, <1>5, <1>6, <1>7, <1>8, <1>9 DEF OmokNext

\* A step of client c moves no turn but its own.
LEMMA TurnedClient ==
  ASSUME Typed, Turned, NEW c \in Clients, UNCHANGED roomVars, \A g : Calm(c, g),
         \A x \in Clients : x # c =>
            /\ down'[x] = down[x] /\ up'[x] = up[x] /\ phase'[x] = phase[x]
            /\ told'[x] = told[x] /\ state'[x] = state[x] /\ notices'[x] = notices[x]
  PROVE  Turned'
<1>1. \A x \in Clients : \A g : Calm(x, g)
  BY KeptSame
<1>2. \A x \in Clients : NoticeFits(x)'
  BY <1>1 DEF Calm, Turned
<1>3. ASSUME NEW r \in Rooms PROVE Turns(r)' /\ Alternating(r)'
  <2>1. SameRoom(r) /\ stones'[r] = stones[r]
    BY DEF SameRoom, roomVars
  <2>2. \A g : g = game[r] => \A x \in Clients : Kept(x, g)
    BY <1>1 DEF Calm
  <2> QED BY <2>1, <2>2, TurnsKept, AlternatingKept DEF Turned
<1> QED BY <1>2, <1>3 DEF Turned

\* Every step keeps the turns.
LEMMA TurnStep ==
  ASSUME Typed, Seats, Protocol, Damage, Informed, UIInv, Typed', TurnInv, [OmokNext]_allVars
  PROVE  TurnInv'
<1>1. \A x \in Clients : UpNumbered(x)'
  BY UpNumberedStep DEF TurnInv
<1>2. SUFFICES ASSUME ~strayed' PROVE Turned'
  BY <1>1 DEF TurnInv
<1>3. ~strayed
  <2>1. strayed' = strayed \/ \E c \in Clients : NoticeEnds(c) \/ Serve(c)
    BY DEF OmokNext, UIStartGame, Clear, DoNextTurn, EndGame, CheckStone, Click, Elsewhere,
       uiVars, allVars
  <2> QED BY <1>2, <2>1 DEF NoticeEnds, Serve
<1>4. Turned /\ UITypes
  BY <1>3 DEF TurnInv, UIInv
<1>5. /\ phase \in [Clients -> Phases] /\ up \in [Clients -> Seq(UpMsgs)]
      /\ down \in [Clients -> Seq(DownMsgs)] /\ told \in [Clients -> Starts \cup {Msg("")}]
      /\ state \in [Clients -> {"None", "MyTurn", "Wait"}] /\ notices \in [Clients -> Seq(0..games)]
  BY <1>4 DEF Typed, UITypes
<1>6. ASSUME NEW c \in Clients,
             UIStartGame(c) \/ Clear(c) \/ DoNextTurn(c) \/ EndGame(c) \/ CheckStone(c)
      PROVE  Turned'
  <2>1. \A g : Calm(c, g)
    BY <1>4, <1>6, KeptNews DEF Turned
  <2>2. UNCHANGED roomVars
    BY <1>6 DEF UIStartGame, GameBegins, Clear, GameLeft, DoNextTurn, EndGame, CheckStone, GameNews
  <2>3. \A x \in Clients : x # c =>
            /\ down'[x] = down[x] /\ up'[x] = up[x] /\ phase'[x] = phase[x]
            /\ told'[x] = told[x] /\ state'[x] = state[x] /\ notices'[x] = notices[x]
    BY <1>5, <1>6 DEF UIStartGame, GameBegins, Clear, GameLeft, DoNextTurn, EndGame, CheckStone,
       GameNews, Took, TakesState, clientVars
  <2> QED BY <1>4, <2>1, <2>2, <2>3, TurnedClient
<1>7. ASSUME NEW c \in Clients, NoticeEnds(c) PROVE Turned'
  <2>1. \A g : Calm(c, g)
    BY <1>2, <1>4, <1>7, KeptNotice
  <2>2. UNCHANGED <<roomVars, up, down, phase, told>>
    BY <1>7 DEF NoticeEnds, vars, clientVars
  <2>3. \A x \in Clients : x # c => state'[x] = state[x] /\ notices'[x] = notices[x]
    BY <1>5, <1>7 DEF NoticeEnds, TakesState
  <2> QED BY <1>4, <2>1, <2>2, <2>3, TurnedClient
<1>8. ASSUME NEW c \in Clients, NEW cell \in Cells, Click(c, cell) PROVE Turned'
  <2>1. \A g : Calm(c, g)
    BY <1>4, <1>8, KeptClick
  <2>2. UNCHANGED <<roomVars, down, phase, told, notices>>
    BY <1>8 DEF Click, PlayStoneCallback
  <2>3. \A x \in Clients : x # c => state'[x] = state[x] /\ up'[x] = up[x]
    BY <1>5, <1>8 DEF Click, PlayStoneCallback, ClientSends, TakesState
  <2> QED BY <1>4, <2>1, <2>2, <2>3, TurnedClient
<1>9. ASSUME NEW c \in Clients, Elsewhere(c) PROVE Turned'
  <2>1. \A g : Calm(c, g)
    BY <1>9, KeptElsewhere
  <2>2. UNCHANGED <<roomVars, state, notices>>
    BY <1>9 DEF Elsewhere, OnConnected, OnDisconnected, SubmitName, LoginRefused, LoginAccepted,
       FreeSession, uiVars
  <2>3. \A x \in Clients : x # c =>
            /\ down'[x] = down[x] /\ up'[x] = up[x] /\ phase'[x] = phase[x] /\ told'[x] = told[x]
    BY <1>5, <1>9 DEF Elsewhere, OnConnected, OnDisconnected, SubmitName, LoginRefused,
       LoginAccepted, FreeSession, ClientSends, Took, clientVars
  <2> QED BY <1>4, <2>1, <2>2, <2>3, TurnedClient
<1>10. ASSUME NEW c \in Clients, Serve(c) PROVE Turned'
  <2>1. HandlePacket(c) /\ UNCHANGED <<state, notices>> /\ ~Strays(c)
    BY <1>2, <1>10 DEF Serve
  <2>2. Pop(c) /\ Outcome(c)
    BY <2>1, HandleSplit
  <2> QED BY <1>3, <1>4, <2>1, <2>2, TurnedQuiet, TurnedDepart, TurnedRefuse, TurnedPut, TurnedJoin
          DEF Outcome
<1>11. CASE UNCHANGED allVars
  <2>1. UNCHANGED <<down, up, phase, told, state, notices, roomVars>>
    BY <1>11 DEF allVars, uiVars, vars, clientVars
  <2>2. ASSUME NEW c \in Clients PROVE Turned'
    <3>1. \A g : Calm(c, g)
      BY <2>1, KeptSame
    <3> QED BY <1>4, <2>1, <3>1, TurnedClient
  <2>3. ASSUME Clients = {} PROVE Turned'
    <3>1. \A r \in Rooms : SameRoom(r) /\ stones'[r] = stones[r]
      BY <2>1 DEF SameRoom, roomVars
    <3> QED BY <1>4, <2>3, <3>1, TurnsKept, AlternatingKept DEF Turned
  <2> QED BY <2>2, <2>3
<1> QED BY <1>6, <1>7, <1>8, <1>9, <1>10, <1>11 DEF OmokNext

\* No game runs at first.
LEMMA TurnFirst == OmokInit => TurnInv
<1> SUFFICES ASSUME OmokInit PROVE TurnInv
  OBVIOUS
<1>1. Init
  BY DEF OmokInit
<1>2. ASSUME NEW c \in Clients PROVE UpNumbered(c) /\ NoticeFits(c)
  <2>1. 1..Len(up[c]) = {} /\ 1..Len(down[c]) = {}
    BY <1>1, Few DEF Init
  <2> QED BY <2>1 DEF UpNumbered, NoticeFits
<1>3. ASSUME NEW r \in Rooms PROVE Turns(r) /\ Alternating(r)
  <2>1. ~start[r] /\ stones[r] = NoBoard
    BY <1>1 DEF Init
  <2>2. Black \in Types /\ White \in Types
    BY DEF Types
  <2>3. StonesOf(r, Black) = 0 /\ StonesOf(r, White) = 0
    BY <2>1, <2>2, EmptyBoards DEF StonesOf, Count
  <2> QED BY <2>1, <2>3 DEF Turns, Alternating
<1> QED BY <1>2, <1>3 DEF TurnInv, Turned

\* Where the turn of every running game is.
THEOREM OmokTurn == OmokSpec => [](GInv /\ Informed /\ UIInv /\ TurnInv)
<1>1. OmokSpec => [](GInv /\ Informed /\ UIInv)
  BY OmokInvariant
<1>2. GInv /\ Informed /\ UIInv /\ GInv' /\ TurnInv /\ [OmokNext]_allVars => TurnInv'
  BY TurnStep DEF GInv
<1> QED BY <1>1, <1>2, TurnFirst, PTL DEF OmokSpec

\* Although the server never asks whose turn it is, the windows of the two
\* players of a running game never both say MyTurn, refusals and their notices
\* included, as long as no stone and no notice outlives its game.
THEOREM OmokOneMover == OmokSpec => []OneMover
<1>1. GInv /\ TurnInv => OneMover
  <2> SUFFICES ASSUME GInv, TurnInv, ~strayed, NEW r \in rooms, start[r],
                      NEW c \in Members(r), NEW d \in Members(r),
                      Shows(c, r), Shows(d, r), state[c] = "MyTurn", state[d] = "MyTurn"
               PROVE  c = d
    BY DEF OneMover
  <2>1. r \in Rooms /\ Typed /\ Seats
    BY DEF GInv, Typed
  <2>2. c \in Clients /\ d \in Clients
    BY <2>1, SomebodyIn
  <2>3. PICK g : g = game[r]
    OBVIOUS
  <2>4. Token(c, g, "mine", 0) /\ Token(d, g, "mine", 0) /\ "mine" \in Spots /\ 0 \in Nat
    BY <2>3 DEF Token, Shows, Spots
  <2>5. Has(c, g) /\ Has(d, g)
    BY <2>4 DEF Has
  <2>6. Plays(r, c, ToMove(r)) /\ Plays(r, d, ToMove(r))
    BY <2>1, <2>2, <2>3, <2>5 DEF TurnInv, Turned, Turns
  <2> QED BY <2>1, <2>6, OneSeat
<1> QED BY <1>1, OmokTurn, PTL

\* Under the same condition the stones on every board alternate, black first.
THEOREM OmokStonesAlternate == OmokSpec => []StonesAlternate
<1>1. GInv /\ TurnInv => StonesAlternate
  BY DEF GInv, Typed, TurnInv, Turned, Alternating, StonesAlternate
<1> QED BY <1>1, OmokTurn, PTL

-----------------------------------------------------------------------------
(***************************************************************************)
(* Nobody waits for ever: SomebodyMoves of module Omok, stray stones and   *)
(* notices included.  Awaited adds what is under way: a client WillMove    *)
(* when the last packet to set its state will give it the turn, or when    *)
(* nothing under way sets it and it has the turn or shows a notice.        *)
(***************************************************************************)

Setters == {"S_StartGame", "S_LeaveGame", "S_PlayStone", "S_ThrowResult"}

\* What sets the state of the window of c comes no later than packet i.
Settled(c, i) == \A j \in 1..Len(down[c]) : j > i => down[c][j].kind \notin Setters

\* Packet e gives the turn to a client that was told m, whatever the game.
HandsOver(m, e) ==
  \/ e.kind = "S_CheckStone(false)"
  \/ e.kind = "S_StartGame" /\ e.stone = Black
  \/ e.kind = "S_PlayStone" /\ m.kind = "S_StartGame" /\ m.stone # e.stone

\* Client c has the turn when it has read everything and its notices ended.
WillMove(c) ==
  \/ \E i \in 1..Len(down[c]) :
        Settled(c, i) /\ \E m : Before(c, i, m) /\ HandsOver(m, down[c][i])
  \/ Settled(c, 0) /\ (state[c] = "MyTurn" \/ notices[c] # <<>>)

Played(c) == \E i \in 1..Len(up[c]) : up[c][i].kind = "C_PlayStone"

Awaits(c) == WillMove(c) \/ Played(c)

Awaited ==
  \A r \in Rooms :
     ~crashed /\ start[r] /\ (\A c \in Members(r) : Online(c)) => \E c \in Members(r) : Awaits(c)

-----------------------------------------------------------------------------
\* A step that leaves what comes to c alone.
LEMMA WillSame ==
  ASSUME NEW c, down'[c] = down[c], phase'[c] = phase[c], told'[c] = told[c],
         state'[c] = state[c] \/ state'[c] = "MyTurn",
         notices'[c] # <<>> \/ notices'[c] = notices[c] \/ state'[c] = "MyTurn",
         WillMove(c)
  PROVE  WillMove(c)'
<1>1. Shown(c)' = Shown(c)
  BY DEF Shown
<1>2. \A i, m : Before(c, i, m)' <=> Before(c, i, m)
  BY <1>1 DEF Before
<1>3. \A i : Settled(c, i)' <=> Settled(c, i)
  BY DEF Settled
<1> QED BY <1>2, <1>3 DEF WillMove

\* A packet other than a stone is handled: the stone is still to come.
LEMMA PlayedRest ==
  ASSUME Typed, NEW c \in Clients, Played(c), up[c] # <<>>, up'[c] = Tail(up[c]),
         Head(up[c]).kind # "C_PlayStone"
  PROVE  Played(c)'
<1>1. up[c] \in Seq(UpMsgs)
  BY DEF Typed
<1>2. PICK n \in Nat : n = Len(up[c])
  BY <1>1
<1>3. /\ Len(up'[c]) = n - 1 /\ Head(up[c]) = up[c][1]
      /\ \A i \in 1..n - 1 : up'[c][i] = up[c][i + 1]
  BY <1>1, <1>2, Popped
<1>4. \A i \in 1..n : i = 1 \/ (i - 1 \in 1..n - 1 /\ i - 1 + 1 = i)
  BY <1>2
<1> QED BY <1>2, <1>3, <1>4 DEF Played

\* A packet is sent to c.
LEMMA WillMore ==
  ASSUME Typed, NEW c \in Clients, NEW e \in DownMsgs, down'[c] = Append(down[c], e),
         phase'[c] = phase[c], told'[c] = told[c]
  PROVE  /\ (\E m : Tells(c, m) /\ HandsOver(m, e)) => WillMove(c)'
         /\ e.kind \notin Setters /\ WillMove(c) /\ state'[c] = state[c] /\ notices'[c] = notices[c]
              => WillMove(c)'
<1>1. down[c] \in Seq(DownMsgs)
  BY DEF Typed
<1>2. PICK n \in Nat : n = Len(down[c])
  BY <1>1
<1>3. /\ Len(down'[c]) = n + 1 /\ down'[c][n + 1] = e
      /\ \A i \in 1..n : down'[c][i] = down[c][i]
  BY <1>1, <1>2, Appended
<1>4. \A i \in 1..n + 1 : \A m : Before(c, i, m)' <=> Before(c, i, m)
  BY <1>2, BeforeMore
<1>5. \A m : Before(c, n + 1, m) <=> Tells(c, m)
  BY <1>2, BeforeLast
<1>6. /\ \A i \in 1..n + 1 : i \in 1..n \/ i = n + 1
      /\ \A i \in 1..n : i \in 1..n + 1
      /\ n + 1 \in 1..n + 1 /\ \A i \in 1..n + 1 : ~(i > n + 1)
  BY <1>2
<1>7. ASSUME NEW m, Tells(c, m), HandsOver(m, e) PROVE WillMove(c)'
  <2>1. Settled(c, n + 1)'
    BY <1>3, <1>6 DEF Settled
  <2>2. Before(c, n + 1, m)'
    BY <1>4, <1>5, <1>6, <1>7
  <2>3. HandsOver(m, down'[c][n + 1])
    BY <1>3, <1>7
  <2> QED BY <1>3, <1>6, <2>1, <2>2, <2>3 DEF WillMove, HandsOver
<1>8. ASSUME e.kind \notin Setters, WillMove(c), state'[c] = state[c], notices'[c] = notices[c]
      PROVE  WillMove(c)'
  <2>1. \A i : Settled(c, i) => Settled(c, i)'
    BY <1>2, <1>3, <1>6, <1>8 DEF Settled
  <2>2. ASSUME NEW i \in 1..n, NEW m, Settled(c, i), Before(c, i, m), HandsOver(m, down[c][i])
        PROVE  WillMove(c)'
    <3>1. i \in 1..n + 1 /\ Before(c, i, m)' /\ Settled(c, i)' /\ HandsOver(m, down'[c][i])
      BY <1>3, <1>4, <1>6, <2>1, <2>2
    <3> QED BY <1>3, <3>1 DEF WillMove, HandsOver
  <2> QED BY <1>2, <1>8, <2>1, <2>2 DEF WillMove
<1> QED BY <1>7, <1>8

\* A packet is read by c.
LEMMA WillRead ==
  ASSUME Typed, NEW c \in Clients, down[c] # <<>>, down'[c] = Tail(down[c]),
         Head(down[c]).kind \in TurnKinds => Shown(c)' = Head(down[c]),
         Head(down[c]).kind \notin TurnKinds => Shown(c)' = Shown(c),
         HandsOver(Shown(c), Head(down[c])) => state'[c] = "MyTurn" \/ notices'[c] # <<>>,
         Head(down[c]).kind \notin Setters =>
            notices'[c] # <<>> \/ (state'[c] = state[c] /\ notices'[c] = notices[c]),
         WillMove(c)
  PROVE  WillMove(c)'
<1>1. down[c] \in Seq(DownMsgs)
  BY DEF Typed
<1>2. PICK n \in Nat : n = Len(down[c])
  BY <1>1
<1>3. /\ Len(down'[c]) = n - 1 /\ Head(down[c]) = down[c][1] /\ 1 \in 1..n
      /\ \A i \in 1..n - 1 : down'[c][i] = down[c][i + 1]
  BY <1>1, <1>2, Popped
<1>4. \A i \in 1..n - 1 : \A m : Before(c, i, m)' <=> Before(c, i + 1, m)
  BY <1>2, BeforeLess
<1>5. \A i \in 1..n : i = 1 \/ (i - 1 \in 1..n - 1 /\ i - 1 + 1 = i)
  BY <1>2
<1>6. ASSUME NEW k \in Nat, Settled(c, k + 1) PROVE Settled(c, k)'
  <2>1. \A j \in 1..n - 1 : j + 1 \in 1..n /\ (j > k => j + 1 > k + 1)
    BY <1>2
  <2> QED BY <1>2, <1>3, <1>6, <2>1 DEF Settled
<1>7. CASE Settled(c, 0) /\ (state[c] = "MyTurn" \/ notices[c] # <<>>)
  <2>1. Head(down[c]).kind \notin Setters
    <3>1. 1 > 0
      OBVIOUS
    <3> QED BY <1>2, <1>3, <1>7, <3>1 DEF Settled
  <2>2. Settled(c, 0 + 1)
    <3>1. \A j \in 1..n : j > 0 + 1 => j > 0
      BY <1>2
    <3> QED BY <1>2, <1>7, <3>1 DEF Settled
  <2>3. Settled(c, 0)'
    BY <1>6, <2>2
  <2> QED BY <1>7, <2>1, <2>3 DEF WillMove
<1>8. ASSUME NEW i \in 1..n, NEW m, Settled(c, i), Before(c, i, m), HandsOver(m, down[c][i])
      PROVE  WillMove(c)'
  <2>1. CASE i = 1
    <3>1. 1..1 - 1 = {}
      OBVIOUS
    <3>2. Shown(c) = m
      BY <1>8, <2>1, <3>1 DEF Before
    <3>3. Settled(c, 0)'
      BY <1>6, <1>8, <2>1
    <3> QED BY <1>3, <1>8, <2>1, <3>2, <3>3 DEF WillMove
  <2>2. CASE i # 1
    <3>1. PICK k \in 1..n - 1 : i = k + 1
      BY <1>5, <2>2
    <3>2. Settled(c, k)' /\ Before(c, k, m)' /\ HandsOver(m, down'[c][k])
      BY <1>3, <1>4, <1>6, <1>8, <3>1
    <3> QED BY <1>3, <3>2 DEF WillMove, HandsOver
  <2> QED BY <2>1, <2>2
<1> QED BY <1>2, <1>7, <1>8 DEF WillMove

\* The handlers of the window do what the packets promise.
LEMMA WillNews ==
  ASSUME Typed, UITypes, NEW c \in Clients, WillMove(c),
         UIStartGame(c) \/ Clear(c) \/ DoNextTurn(c) \/ EndGame(c) \/ CheckStone(c)
  PROVE  WillMove(c)'
<1>1. /\ state \in [Clients -> {"None", "MyTurn", "Wait"}]
      /\ phase \in [Clients -> Phases] /\ down \in [Clients -> Seq(DownMsgs)]
      /\ told \in [Clients -> Starts \cup {Msg("")}] /\ notices \in [Clients -> Seq(0..games)]
  BY DEF UITypes, Typed
<1>2. CASE UIStartGame(c)
  <2>1. /\ down[c] # <<>> /\ Head(down[c]).kind = "S_StartGame" /\ down'[c] = Tail(down[c])
        /\ phase'[c] = "game" /\ told'[c] = Head(down[c])
        /\ state'[c] = IF FirstTurn(c) THEN "MyTurn" ELSE "Wait"
    BY <1>1, <1>2 DEF UIStartGame, GameBegins, TakesState, Heard, Took
  <2>2. Shown(c)' = Head(down[c])
    BY <2>1 DEF Shown
  <2>3. HandsOver(Shown(c), Head(down[c])) => state'[c] = "MyTurn"
    BY <2>1 DEF HandsOver, FirstTurn
  <2>4. "S_StartGame" \in TurnKinds /\ "S_StartGame" \in Setters
    BY DEF TurnKinds, Setters
  <2> QED BY <2>1, <2>2, <2>3, <2>4, WillRead
<1>3. CASE Clear(c)
  <2>1. /\ down[c] # <<>> /\ Head(down[c]).kind = "S_LeaveGame" /\ down'[c] = Tail(down[c])
        /\ phase'[c] = "lobby"
    BY <1>1, <1>3 DEF Clear, GameLeft, Heard, Took
  <2>2. Shown(c)' = Msg("S_LeaveGame")
    BY <2>1 DEF Shown
  <2>3. Head(down[c]) = Msg("S_LeaveGame")
    <3>1. down[c] \in Seq(DownMsgs)
      BY <1>1
    <3> QED BY <2>1, <3>1, Popped, Messages DEF DownMsgs, GameMsgs, Leaves
  <2>4. ~HandsOver(Shown(c), Head(down[c]))
    BY <2>1 DEF HandsOver
  <2>5. "S_LeaveGame" \in TurnKinds /\ "S_LeaveGame" \in Setters
    BY DEF TurnKinds, Setters
  <2> QED BY <2>1, <2>2, <2>3, <2>4, <2>5, WillRead
<1>4. ASSUME NEW k \in {"S_PlayStone", "S_ThrowResult", "S_CheckStone(false)"}, GameNews(c, k)
      PROVE  /\ down[c] # <<>> /\ down'[c] = Tail(down[c])
             /\ Head(down[c]).kind = k /\ Head(down[c]).kind \notin TurnKinds
             /\ Shown(c)' = Shown(c)
  BY <1>1, <1>4 DEF GameNews, Heard, Took, clientVars, Shown, TurnKinds
<1>5. CASE DoNextTurn(c)
  <2>1. /\ GameNews(c, "S_PlayStone")
        /\ state'[c] = IF Head(down[c]).stone = told[c].stone THEN "Wait" ELSE "MyTurn"
    BY <1>1, <1>5 DEF DoNextTurn, TakesState, NextState
  <2>2. Shown(c).kind = "S_StartGame" => Shown(c) = told[c]
    BY Messages DEF Shown
  <2>3. HandsOver(Shown(c), Head(down[c])) => state'[c] = "MyTurn"
    BY <1>4, <2>1, <2>2 DEF HandsOver
  <2>4. "S_PlayStone" \in Setters
    BY DEF Setters
  <2> QED BY <1>4, <2>1, <2>3, <2>4, WillRead
<1>6. CASE EndGame(c)
  <2>1. GameNews(c, "S_ThrowResult")
    BY <1>6 DEF EndGame
  <2>2. "S_ThrowResult" \in Setters
    BY DEF Setters
  <2>3. ~HandsOver(Shown(c), Head(down[c]))
    BY <1>4, <2>1 DEF HandsOver
  <2> QED BY <1>4, <2>1, <2>2, <2>3, WillRead
<1>7. CASE CheckStone(c)
  <2>1. GameNews(c, "S_CheckStone(false)") /\ notices'[c] = Append(notices[c], told[c].game)
    BY <1>1, <1>7 DEF CheckStone
  <2>2. notices'[c] # <<>>
    <3>1. notices[c] \in Seq(0..games \cup {told[c].game})
      <4>1. notices[c] \in Seq(0..games)
        BY <1>1
      <4> QED BY <4>1, WiderList
    <3>2. PICK k \in Nat : k = Len(notices[c])
      BY <3>1
    <3>3. Len(notices'[c]) = k + 1
      BY <2>1, <3>1, <3>2, Appended
    <3>4. Len(<<>>) = 0 /\ k + 1 # 0
      BY <3>2
    <3> QED BY <3>3, <3>4
  <2> QED BY <1>4, <2>1, <2>2, WillRead
<1> QED BY <1>2, <1>3, <1>5, <1>6, <1>7

\* A player that awaits its turn still does after a step of its own.
LEMMA AwaitsOwn ==
  ASSUME Typed, Seats, Protocol, UIInv, NEW c \in Clients, Seated(c), Awaits(c), Online(c)',
         \/ UIStartGame(c) \/ Clear(c) \/ DoNextTurn(c) \/ EndGame(c) \/ CheckStone(c)
         \/ NoticeEnds(c) \/ \E cell \in Cells : Click(c, cell)
         \/ Elsewhere(c)
  PROVE  Awaits(c)'
<1>1. /\ UITypes /\ up \in [Clients -> Seq(UpMsgs)] /\ phase \in [Clients -> Phases]
      /\ state \in [Clients -> {"None", "MyTurn", "Wait"}]
  BY DEF UIInv, UITypes, Typed
<1>2. ASSUME UNCHANGED up, WillMove(c) => WillMove(c)' PROVE Awaits(c)'
  BY <1>2 DEF Awaits, Played
<1>3. CASE UIStartGame(c) \/ Clear(c) \/ DoNextTurn(c) \/ EndGame(c) \/ CheckStone(c)
  <2>1. up' = up
    BY <1>3 DEF UIStartGame, GameBegins, Clear, GameLeft, DoNextTurn, EndGame, CheckStone, GameNews
  <2> QED BY <1>1, <1>2, <1>3, <2>1, WillNews
<1>4. CASE NoticeEnds(c)
  <2>1. UNCHANGED <<up, down, phase, told>> /\ state'[c] = "MyTurn"
    BY <1>1, <1>4 DEF NoticeEnds, vars, clientVars, TakesState
  <2> QED BY <1>2, <2>1, WillSame
<1>5. ASSUME NEW cell \in Cells, Click(c, cell) PROVE Awaits(c)'
  <2> DEFINE m == [kind |-> "C_PlayStone", cell |-> cell, stone |-> told[c].stone, game |-> told[c].game]
  <2>1. up'[c] = Append(up[c], m) /\ told[c] \in Starts /\ up[c] \in Seq(UpMsgs)
    BY <1>1, <1>5 DEF Click, PlayStoneCallback, ClientSends, Typed
  <2>2. m \in UpMsgs
    <3>1. told[c].stone \in Types /\ told[c].game \in Nat
      BY <2>1, Messages
    <3> QED BY <3>1 DEF UpMsgs, Placed
  <2>3. m.kind = "C_PlayStone"
    OBVIOUS
  <2> HIDE DEF m
  <2>4. PICK n \in Nat : n = Len(up[c])
    BY <2>1
  <2>5. Len(up'[c]) = n + 1 /\ up'[c][n + 1] = m
    BY <2>1, <2>2, <2>4, Appended
  <2>6. n + 1 \in 1..n + 1
    BY <2>4
  <2> QED BY <2>3, <2>5, <2>6 DEF Awaits, Played
<1>6. CASE Elsewhere(c)
  <2>1. phase[c] \in {"lobby", "game", "gone"}
    <3>1. ~Unseated(c) /\ Stage(c)
      BY DEF Unseated, Protocol
    <3> QED BY <1>1, <3>1 DEF Stage, Phases
  <2>2. ~OnConnected(c) /\ ~SubmitName(c)
    BY <2>1 DEF OnConnected, SubmitName
  <2>3. ~OnDisconnected(c)
    BY <1>1 DEF OnDisconnected, Online
  <2>4. ~LoginRefused(c) /\ ~LoginAccepted(c)
    <3>1. \A k \in {"S_Login(false)", "S_Login(true)"} : ~Heard(c, k)
      BY <2>1, Reading
    <3> QED BY <3>1 DEF LoginRefused, LoginAccepted
  <2>5. FreeSession(c) /\ UNCHANGED <<state, notices>>
    BY <1>6, <2>2, <2>3, <2>4 DEF Elsewhere, uiVars
  <2>6. UNCHANGED <<up, down, phase, told>>
    BY <2>5 DEF FreeSession, clientVars
  <2> QED BY <1>2, <2>5, <2>6, WillSame
<1> QED BY <1>3, <1>4, <1>5, <1>6

\* The steps of a client.
LEMMA AwaitedClient ==
  ASSUME Typed, Seats, Protocol, UIInv, Awaited, NEW x \in Clients,
         \/ UIStartGame(x) \/ Clear(x) \/ DoNextTurn(x) \/ EndGame(x) \/ CheckStone(x)
         \/ NoticeEnds(x) \/ \E cell \in Cells : Click(x, cell)
         \/ Elsewhere(x)
  PROVE  Awaited'
<1>1. UNCHANGED <<roomVars, crashed>>
  BY DEF UIStartGame, GameBegins, Clear, GameLeft, DoNextTurn, EndGame, CheckStone, GameNews,
     NoticeEnds, vars, Click, PlayStoneCallback, Elsewhere, OnConnected, OnDisconnected, SubmitName,
     LoginRefused, LoginAccepted, FreeSession
<1>2. \A c \in Clients : c # x =>
        /\ down'[c] = down[c] /\ up'[c] = up[c] /\ phase'[c] = phase[c]
        /\ told'[c] = told[c] /\ state'[c] = state[c] /\ notices'[c] = notices[c]
  BY DEF UIInv, UITypes, Typed, UIStartGame, GameBegins, Clear, GameLeft, DoNextTurn, EndGame, CheckStone, GameNews,
     NoticeEnds, vars, Click, PlayStoneCallback, Elsewhere, OnConnected, OnDisconnected, SubmitName,
     LoginRefused, LoginAccepted, FreeSession, clientVars, uiVars, Took, TakesState, ClientSends
<1>3. ASSUME NEW c \in Clients, Seated(c), Online(c)' PROVE Online(c)
  <2>1. phase[c] # "off"
    BY <1>3 DEF Protocol, Stage, Unseated
  <2>2. phase[c] = "gone" => phase'[c] = "gone"
    <3>1. ASSUME phase[c] = "gone" PROVE down[c] = <<>>
      BY <3>1 DEF Protocol, Stage
    <3>2. CASE c = x
      BY <3>1, <3>2 DEF UIStartGame, GameBegins, Clear, GameLeft, DoNextTurn, EndGame, CheckStone,
         GameNews, NoticeEnds, vars, Click, PlayStoneCallback, Elsewhere, OnConnected,
         OnDisconnected, SubmitName, LoginRefused, LoginAccepted, FreeSession, clientVars, Heard,
         Online
    <3> QED BY <1>2, <3>2
  <2> QED BY <1>3, <2>1, <2>2 DEF Online
<1>4. ASSUME NEW r \in Rooms, ~crashed', start'[r], \A c \in Members(r)' : Online(c)'
      PROVE  \E c \in Members(r)' : Awaits(c)'
  <2>1. Members(r)' = Members(r) /\ start[r] /\ ~crashed
    BY <1>1, <1>4 DEF Members, roomVars
  <2>2. \A c \in Members(r) : c \in Clients /\ Seated(c)
    BY SomebodyIn DEF Seated
  <2>3. PICK c \in Members(r) : Awaits(c)
    BY <1>3, <1>4, <2>1, <2>2 DEF Awaited
  <2>4. Awaits(c)'
    <3>1. CASE c = x
      BY <1>4, <2>1, <2>2, <2>3, <3>1, AwaitsOwn
    <3>2. CASE c # x
      <4>1. /\ down'[c] = down[c] /\ up'[c] = up[c] /\ phase'[c] = phase[c]
            /\ told'[c] = told[c] /\ state'[c] = state[c] /\ notices'[c] = notices[c]
        BY <1>2, <2>2, <3>2
      <4> QED BY <2>3, <4>1, WillSame DEF Awaits, Played
    <3> QED BY <3>1, <3>2
  <2> QED BY <2>1, <2>4
<1> QED BY <1>4 DEF Awaited

\* A packet that sets nothing disappoints nobody.
LEMMA AwaitsAnswered ==
  ASSUME Typed, NEW c \in Clients, NEW e, NEW sent \in BOOLEAN, Answers(c, e, sent),
         sent => e.kind \notin Setters, Awaits(c),
         up'[c] = up[c] \/ Head(up[c]).kind # "C_PlayStone"
  PROVE  Awaits(c)'
<1>1. phase'[c] = phase[c] /\ told'[c] = told[c] /\ state'[c] = state[c] /\ notices'[c] = notices[c]
  BY DEF Answers, Served
<1>2. CASE Played(c)
  <2>1. CASE up'[c] = up[c]
    BY <1>2, <2>1 DEF Awaits, Played
  <2>2. CASE up'[c] # up[c]
    BY <1>2, <2>2, PlayedRest DEF Awaits, Answers, Served
  <2> QED BY <2>1, <2>2
<1>3. CASE WillMove(c)
  <2>1. CASE sent
    <3>1. e \in DownMsgs /\ down'[c] = Append(down[c], e) /\ e.kind \notin Setters
      BY <2>1 DEF Answers
    <3> QED BY <1>1, <1>3, <3>1, WillMore DEF Awaits
  <2>2. CASE ~sent
    <3>1. down'[c] = down[c]
      BY <2>2 DEF Answers
    <3> QED BY <1>1, <1>3, <3>1, WillSame DEF Awaits
  <2> QED BY <2>1, <2>2
<1> QED BY <1>2, <1>3 DEF Awaits

\* A room that only others' packets concern.
LEMMA AwaitedElsewhere ==
  ASSUME Typed, Seats, Awaited, NEW x \in Clients, Pop(x), UNCHANGED <<state, notices>>,
         NEW q \in Rooms, players'[q] = players[q], start'[q] => start[q], x \notin Members(q),
         \A c \in Members(q) : down'[c] = down[c],
         start'[q], \A c \in Members(q)' : Online(c)'
  PROVE  \E c \in Members(q)' : Awaits(c)'
<1>1. Members(q)' = Members(q) /\ Members(q) \subseteq Clients
  BY SomebodyIn DEF Members
<1>2. \A c \in Clients : Online(c)' <=> Online(c)
  BY DEF Pop, clientVars, Online
<1>3. PICK c \in Members(q) : Awaits(c)
  BY <1>1, <1>2 DEF Awaited, Pop
<1>4. c \in Clients /\ c # x /\ Answers(c, Disc, FALSE) /\ up'[c] = up[c]
  BY <1>1, <1>3, AnswersAll
<1>5. Awaits(c)'
  BY <1>3, <1>4, AwaitsAnswered
<1> QED BY <1>1, <1>3, <1>5

\* The server does nothing to a running game, or unseats somebody.
LEMMA AwaitedQuiet ==
  ASSUME Typed, Seats, Protocol, Awaited, NEW x \in Clients, Pop(x), UNCHANGED <<state, notices>>,
         SignUp(x) \/ Failure(x) \/ Vanish(x) \/ \E r \in Rooms : Sit(x, r)
  PROVE  Awaited'
<1>1. Failure(x) => Awaited'
  BY DEF Failure, Awaited
<1>2. SUFFICES ASSUME ~Failure(x), NEW q \in Rooms, ~crashed', start'[q], \A c \in Members(q)' : Online(c)'
               PROVE  \E c \in Members(q)' : Awaits(c)'
  BY <1>1 DEF Awaited
<1>3. ~Seated(x)
  <2>1. Head(up[x]) = up[x][1] /\ 1 \in 1..Len(up[x])
    BY HeadOfQueue DEF Pop
  <2>2. Vanish(x) \/ Unseated(x)
    BY <1>2, <2>1 DEF SignUp, Sit, Protocol, Queue
  <2> QED BY <2>2 DEF Vanish, Unseated
<1>4. \A c \in Clients : c # x => down'[c] = down[c]
  <2>1. SignUp(x) => \A c \in Clients : c # x => down'[c] = down[c]
    <3>1. PICK out : out = [y \in {x} |-> Msg("S_Login(true)")]
      OBVIOUS
    <3>2. SignUp(x) => SendAll(out)
      BY <3>1 DEF SignUp, SendTo
    <3>3. \A y \in DOMAIN out : out[y] \in DownMsgs
      BY <3>1, SentTypes
    <3>4. DOMAIN out = {x}
      BY <3>1
    <3> QED BY <3>2, <3>3, <3>4, Sent
  <2> QED BY <1>2, <2>1 DEF Vanish, Sit
<1>5. start' = start /\ start[q]
  BY <1>2 DEF SignUp, Vanish, Sit, roomVars
<1>6. players'[q] = players[q]
  <2>1. CASE SignUp(x) \/ Vanish(x)
    BY <2>1 DEF SignUp, Vanish, roomVars
  <2>2. ASSUME NEW r \in Rooms, Sit(x, r) PROVE players'[q] = players[q]
    <3>1. players[r] = <<>> /\ Len(<<>>) = 0
      BY <2>2 DEF Sit
    <3>2. q # r
      BY <1>5, <3>1 DEF Seats, RunningHasBoard
    <3> QED BY <2>2, <3>2 DEF Sit, Typed
  <2> QED BY <1>2, <2>1, <2>2
<1>7. x \notin Members(q) /\ Members(q) \subseteq Clients
  BY <1>3, SomebodyIn DEF Seated
<1> QED BY <1>2, <1>4, <1>5, <1>6, <1>7, AwaitedElsewhere

\* The server lets a player leave.
LEMMA AwaitedDepart ==
  ASSUME Typed, Seats, Awaited, NEW x \in Clients, Pop(x), UNCHANGED <<state, notices>>,
         NEW r \in Rooms, Depart(x, r, Without(players[r], x))
  PROVE  Awaited'
<1>1. SUFFICES ASSUME NEW q \in Rooms, start'[q], \A c \in Members(q)' : Online(c)'
               PROVE  \E c \in Members(q)' : Awaits(c)'
  BY DEF Awaited
<1>2. PICK out : out = [y \in Range(Without(players[r], x)) |-> Msg("S_LeaveGame")]
  OBVIOUS
<1>3. SendAll(out) /\ DOMAIN out = Members(r) \ {x} /\ \A y \in DOMAIN out : out[y] \in DownMsgs
  <2>1. SendAll(out) /\ DOMAIN out = Range(Without(players[r], x))
    BY <1>2 DEF Depart
  <2>2. Range(Without(players[r], x)) = Members(r) \ {x}
    BY Remaining
  <2> QED BY <1>2, <2>1, <2>2, SentTypes
<1>4. q # r /\ players'[q] = players[q] /\ start'[q] = start[q] /\ gameRoom[x] = r
  BY <1>1 DEF Depart, Typed
<1>5. x \notin Members(q) /\ \A c \in Members(q) : c \notin Members(r) /\ c \in Clients
  BY <1>4, SomebodyIn DEF Seats
<1>6. \A c \in Members(q) : down'[c] = down[c]
  BY <1>3, <1>5, Sent
<1> QED BY <1>1, <1>4, <1>5, <1>6, AwaitedElsewhere

\* Whoever plays a running game has been told of it.
LEMMA ToldOfGame ==
  ASSUME Informed, NEW r \in Rooms, start[r], NEW k \in 1..Len(players[r]), Online(players[r][k])
  PROVE  \E m : Tells(players[r][k], m) /\ m.kind = "S_StartGame" /\ m.stone = Seat(k)
BY DEF Informed, InformedIn, TellsGame

\* The server refuses a stone: its player gets the turn back.
LEMMA AwaitedRefuse ==
  ASSUME Typed, Seats, Informed, Awaited, NEW x \in Clients, Pop(x), UNCHANGED <<state, notices>>,
         Refuse(x)
  PROVE  Awaited'
<1>1. SUFFICES ASSUME NEW q \in Rooms, start'[q], \A c \in Members(q)' : Online(c)'
               PROVE  \E c \in Members(q)' : Awaits(c)'
  BY DEF Awaited
<1>2. PICK e : e = Msg("S_CheckStone(false)")
  OBVIOUS
<1>3. e \in DownMsgs /\ e.kind = "S_CheckStone(false)" /\ e.kind \notin Setters
  BY <1>2, SentTypes, Messages DEF Setters
<1>4. PICK out : out = [y \in {x} |-> e]
  OBVIOUS
<1>5. SendAll(out) /\ DOMAIN out = {x} /\ out[x] = e
  BY <1>2, <1>4 DEF Refuse, SendTo
<1>6. \A c \in Clients : Answers(c, out[c], c \in DOMAIN out /\ Online(c))
  BY <1>3, <1>5, AnswersAll
<1>7. /\ players' = players /\ start' = start /\ Members(q)' = Members(q)
      /\ Members(q) \subseteq Clients /\ \A c \in Clients : Online(c)' <=> Online(c)
  BY SomebodyIn DEF Refuse, roomVars, Members, Pop, clientVars, Online
<1>8. PICK c \in Members(q) : Awaits(c)
  BY <1>1, <1>7 DEF Awaited, Pop
<1>9. c \in Clients /\ Online(c)
  BY <1>1, <1>7, <1>8
<1>10. CASE c # x
  <2>1. Answers(c, e, FALSE) /\ up'[c] = up[c]
    BY <1>5, <1>6, <1>9, <1>10, AnswersAll DEF Answers
  <2>2. Awaits(c)'
    BY <1>8, <1>9, <2>1, AwaitsAnswered
  <2> QED BY <1>7, <1>8, <2>2
<1>11. CASE c = x
  <2>1. Answers(c, e, TRUE)
    BY <1>5, <1>6, <1>9, <1>11 DEF Answers
  <2>2. PICK k \in 1..Len(players[q]) : players[q][k] = c
    BY <1>8, <1>9, SomebodyIn
  <2>3. PICK m : Tells(c, m)
    BY <1>1, <1>7, <1>9, <2>2, ToldOfGame
  <2>4. HandsOver(m, e)
    BY <1>3 DEF HandsOver
  <2>5. WillMove(c)'
    BY <1>9, <2>1, <2>3, <2>4, WillMore DEF Answers, Served
  <2> QED BY <1>7, <1>8, <2>5 DEF Awaits
<1> QED BY <1>10, <1>11

\* The server puts a stone: the other player gets the turn.
LEMMA AwaitedPut ==
  ASSUME Typed, Seats, Informed, Awaited, NEW x \in Clients, Pop(x), UNCHANGED <<state, notices>>,
         NEW r \in Rooms, NEW m \in Placed, NEW won \in BOOLEAN, Put(x, r, m, won)
  PROVE  Awaited'
<1>1. SUFFICES ASSUME NEW q \in Rooms, start'[q], \A c \in Members(q)' : Online(c)'
               PROVE  \E c \in Members(q)' : Awaits(c)'
  BY DEF Awaited
<1>2. PICK e : e = [Msg(IF won THEN "S_ThrowResult" ELSE "S_PlayStone") EXCEPT !.stone = m.stone]
  OBVIOUS
<1>3. m.stone \in Types
  BY Messages
<1>4. e \in DownMsgs
  <2>1. e \in Notes
    BY <1>2, <1>3, SentTypes
  <2> QED BY <2>1 DEF DownMsgs, GameMsgs
<1>5. PICK out : out = [y \in Members(r) |-> e]
  OBVIOUS
<1>6. SendAll(out) /\ DOMAIN out = Members(r) /\ \A y \in DOMAIN out : out[y] = e
  BY <1>2, <1>5 DEF Put
<1>7. /\ players' = players /\ Members(q)' = Members(q) /\ Members(q) \subseteq Clients
      /\ \A c \in Clients : Online(c)' <=> Online(c)
  BY SomebodyIn DEF Put, Members, Pop, clientVars, Online
<1>8. CASE q = r
  <2>1. ~won /\ start[r]
    BY <1>1, <1>8 DEF Put, Typed
  <2>2. e.kind = "S_PlayStone" /\ e.stone = m.stone
    BY <1>2, <2>1 DEF Msg
  <2>3. PICK k \in 1..Len(players[r]) : Seat(k) # m.stone
    <3>1. Len(players[r]) = 2 /\ 1 \in 1..2 /\ 2 \in 1..2
      BY <2>1 DEF Seats, RunningHasBoard
    <3>2. Seat(1) # Seat(2)
      BY GameAssumption DEF Seat
    <3> QED BY <3>1, <3>2
  <2>4. PICK c : c = players[r][k]
    OBVIOUS
  <2>5. c \in Members(r) /\ c \in Clients /\ Online(c)
    BY <1>1, <1>7, <1>8, <2>4, SomebodyIn
  <2>6. PICK h : Tells(c, h) /\ h.kind = "S_StartGame" /\ h.stone = Seat(k)
    BY <2>1, <2>4, <2>5, ToldOfGame
  <2>7. HandsOver(h, e)
    BY <2>2, <2>3, <2>6 DEF HandsOver
  <2>8. down'[c] = Append(down[c], e)
    BY <1>4, <1>6, <2>5, Sent
  <2>9. phase'[c] = phase[c] /\ told'[c] = told[c]
    BY DEF Pop, clientVars
  <2>10. WillMove(c)'
    BY <1>4, <2>5, <2>6, <2>7, <2>8, <2>9, WillMore
  <2> QED BY <1>7, <1>8, <2>5, <2>10 DEF Awaits
<1>9. CASE q # r
  <2>1. start'[q] = start[q] /\ gameRoom[x] = r
    BY <1>9 DEF Put, Typed
  <2>2. x \notin Members(q) /\ \A c \in Members(q) : c \notin Members(r) /\ c \in Clients
    BY <1>7, <1>9, <2>1 DEF Seats
  <2>3. \A c \in Members(q) : down'[c] = down[c]
    BY <1>4, <1>6, <2>2, Sent
  <2> QED BY <1>1, <1>7, <2>1, <2>2, <2>3, AwaitedElsewhere
<1> QED BY <1>8, <1>9

\* The server begins a game: black gets the turn.
LEMMA AwaitedJoin ==
  ASSUME Typed, Seats, Protocol, Informed, Awaited, NEW x \in Clients, Pop(x),
         UNCHANGED <<state, notices>>, NEW r \in Rooms, NEW p \in Clients, Join(x, r, p)
  PROVE  Awaited'
<1>1. SUFFICES ASSUME NEW q \in Rooms, start'[q], \A c \in Members(q)' : Online(c)'
               PROVE  \E c \in Members(q)' : Awaits(c)'
  BY DEF Awaited
<1>2. PICK g \in Nat : g = games + 1
  BY NextGame
<1>3. PICK out :
        out = [y \in {p, x} |->
                [Msg("S_StartGame") EXCEPT !.stone = IF y = p THEN Black ELSE White, !.game = g]]
  OBVIOUS
<1>4. SendAll(out) /\ DOMAIN out = {p, x}
  BY <1>2, <1>3 DEF Join, StartGame
<1>5. \A y \in {p, x} : out[y] \in DownMsgs
  BY <1>3, SentTypes DEF DownMsgs, GameMsgs, Types
<1>6. out[p].kind = "S_StartGame" /\ out[p].stone = Black
  BY <1>3 DEF Msg
<1>7. \A c \in Clients : Online(c)' <=> Online(c)
  BY DEF Pop, clientVars, Online
<1>8. /\ Members(r) = {p} /\ Members(r)' = {p, x}
  BY MembersJoin
<1>9. CASE q = r
  <2>1. Online(p) /\ p \in Members(q)'
    BY <1>1, <1>7, <1>8, <1>9
  <2>2. PICK m : Tells(p, m)
    <3>1. players[r] = <<p>> /\ Len(<<p>>) = 1 /\ <<p>>[1] = p /\ 1 \in 1..1
      BY DEF Join
    <3> QED BY <2>1, <3>1 DEF Informed, InformedIn, TellsEnd
  <2>3. HandsOver(m, out[p])
    BY <1>6 DEF HandsOver
  <2>4. down'[p] = Append(down[p], out[p]) /\ out[p] \in DownMsgs
    BY <1>4, <1>5, <2>1, Sent
  <2>5. phase'[p] = phase[p] /\ told'[p] = told[p]
    BY DEF Pop, clientVars
  <2>6. WillMove(p)'
    BY <2>2, <2>3, <2>4, <2>5, WillMore
  <2> QED BY <2>1, <2>6 DEF Awaits
<1>10. CASE q # r
  <2>1. start'[q] = start[q] /\ players'[q] = players[q]
    BY <1>10 DEF Join, StartGame, Typed
  <2>2. x \notin Members(q)
    <3>1. Head(up[x]) = up[x][1] /\ 1 \in 1..Len(up[x])
      BY HeadOfQueue DEF Pop
    <3>2. Unseated(x)
      BY <3>1 DEF Join, Protocol, Queue
    <3> QED BY <3>2 DEF Unseated, Seated
  <2>3. \A c \in Members(q) : c # p /\ c \in Clients
    BY <1>8, <1>10, SomebodyIn DEF Seats
  <2>4. \A c \in Members(q) : down'[c] = down[c]
    BY <1>4, <1>5, <2>2, <2>3, Sent
  <2> QED BY <1>1, <2>1, <2>2, <2>4, AwaitedElsewhere
<1> QED BY <1>9, <1>10

\* Every step keeps Awaited.
LEMMA AwaitedStep ==
  ASSUME Typed, Seats, Protocol, Damage, Informed, UIInv, Awaited, [OmokNext]_allVars
  PROVE  Awaited'
<1>1. CASE UNCHANGED allVars
  <2>1. UNCHANGED <<down, up, phase, told, state, notices, players, start, crashed>>
    BY <1>1 DEF allVars, uiVars, vars, clientVars, roomVars
  <2>2. \A c : Awaits(c) => Awaits(c)'
    BY <2>1, WillSame DEF Awaits, Played
  <2> QED BY <2>1, <2>2 DEF Awaited, Members, Online
<1>2. ASSUME NEW x \in Clients, Serve(x) PROVE Awaited'
  <2>1. HandlePacket(x) /\ UNCHANGED <<state, notices>>
    BY <1>2 DEF Serve
  <2>2. Pop(x) /\ Outcome(x)
    BY <2>1, HandleSplit
  <2> QED BY <2>1, <2>2, AwaitedQuiet, AwaitedDepart, AwaitedRefuse, AwaitedPut, AwaitedJoin DEF Outcome
<1> QED BY <1>1, <1>2, AwaitedClient DEF OmokNext

\* In a running game with both players online somebody has the turn, will have
\* it when it has read everything, or has a stone on its way; stones and
\* notices that outlived their games included.
THEOREM OmokAwaited == OmokSpec => []Awaited
<1>1. OmokInit => Awaited
  BY DEF OmokInit, Init, Awaited
<1>2. GInv /\ Informed /\ UIInv /\ Awaited /\ [OmokNext]_allVars => Awaited'
  BY AwaitedStep DEF GInv
<1> QED BY <1>1, <1>2, OmokInvariant, PTL DEF OmokSpec

\* Two players never wait for one another: when all is read and handled and no
\* notice is shown, one of the players of a running game has the turn.
THEOREM OmokSomebodyMoves == OmokSpec => []SomebodyMoves
<1>1. GInv /\ Awaited => SomebodyMoves
  <2> SUFFICES ASSUME GInv, Awaited, NEW r \in rooms, start[r], ~crashed,
                      \A c \in Members(r) :
                         Online(c) /\ up[c] = <<>> /\ down[c] = <<>> /\ notices[c] = <<>>
               PROVE  \E c \in Members(r) : state[c] = "MyTurn"
    BY DEF SomebodyMoves
  <2>1. r \in Rooms
    BY DEF GInv, Typed
  <2>2. PICK c \in Members(r) : Awaits(c)
    BY <2>1 DEF Awaited
  <2>3. 1..Len(up[c]) = {} /\ 1..Len(down[c]) = {}
    BY Few
  <2> QED BY <2>2, <2>3 DEF Awaits, WillMove, Played
<1> QED BY <1>1, OmokInvariant, OmokAwaited, PTL
===============================================================================
