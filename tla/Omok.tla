-------------------------------- MODULE Omok --------------------------------
(***************************************************************************)
(* The whole game: the server of module GameServer and the Unity clients,  *)
(* each with the state of its UI_Game.  The server never asks whose turn   *)
(* it is; turns exist in the clients only, in UI_Game._state, moved by the *)
(* packets the server broadcasts and by the one-second notice that follows *)
(* a refused stone (the coroutine CoPrintForbiddenPlay).                   *)
(*                                                                         *)
(* A stone or a notice may outlive the game it belongs to: the opponent    *)
(* leaves, another takes the seat, and the stone is handled, or the notice *)
(* ends, in the new game.  strayed remembers that this has happened.       *)
(***************************************************************************)
EXTENDS GameServer

(* The board is finite, and no stone looks like a free cell. *)
ASSUME OmokAssumption == IsFiniteSet(Cells) /\ Blank \notin Types

VARIABLES
  state,        \* UI_Game._state
  boards,       \* how many boards UI_Game._stones holds
  notices,      \* running CoPrintForbiddenPlay, by the game they began in
  strayed       \* history: a stone or a notice outlived its game

uiVars  == <<state, boards, notices, strayed>>
allVars == <<vars, uiVars>>

InitUI ==
  /\ state = [c \in Clients |-> "None"]
  /\ boards = [c \in Clients |-> 0]
  /\ notices = [c \in Clients |-> <<>>]
  /\ strayed = FALSE

OmokInit == Init /\ InitUI

TakesState(c, s) == state' = [state EXCEPT ![c] = s]

-----------------------------------------------------------------------------
(* The client's handlers and the player's click *)

(* Mutant: both players begin with the turn. *)
FirstTurnToAll(c) == TRUE

FirstTurn(c) == Head(down[c]).stone = Black

(* UI_Game.StartGame adds a board to whatever _stones holds.               *)
UIStartGame(c) ==
  /\ GameBegins(c)
  /\ TakesState(c, IF FirstTurn(c) THEN "MyTurn" ELSE "Wait")
  /\ boards' = [boards EXCEPT ![c] = @ + 1]
  /\ UNCHANGED <<notices, strayed>>

(* Mutant: the old board is left in place. *)
ClearState(c) ==
  GameLeft(c) /\ TakesState(c, "None") /\ UNCHANGED <<boards, notices, strayed>>

(* UI_Game.Clear *)
Clear(c) ==
  /\ GameLeft(c)
  /\ TakesState(c, "None")
  /\ boards' = [boards EXCEPT ![c] = 0]
  /\ UNCHANGED <<notices, strayed>>

(* Mutant: a player keeps the turn after its own stone. *)
NextStateFree(c, stone) == "MyTurn"

NextState(c, stone) == IF stone = told[c].stone THEN "Wait" ELSE "MyTurn"

(* UI_Game.DoNextTurn *)
DoNextTurn(c) ==
  /\ GameNews(c, "S_PlayStone")
  /\ TakesState(c, NextState(c, Head(down[c]).stone))
  /\ UNCHANGED <<boards, notices, strayed>>

(* UI_Game.EndGame *)
EndGame(c) ==
  /\ GameNews(c, "S_ThrowResult")
  /\ TakesState(c, "None")
  /\ UNCHANGED <<boards, notices, strayed>>

(* Mutant: the notice is shown and nothing gives the turn back. *)
CheckStoneForGood(c) ==
  GameNews(c, "S_CheckStone(false)") /\ TakesState(c, "Wait") /\ UNCHANGED <<boards, notices, strayed>>

(* UI_Game.CheckStone(false): CoPrintForbiddenPlay up to its yield         *)
CheckStone(c) ==
  /\ GameNews(c, "S_CheckStone(false)")
  /\ TakesState(c, "Wait")
  /\ notices' = [notices EXCEPT ![c] = Append(@, told[c].game)]
  /\ UNCHANGED <<boards, strayed>>

(* CoPrintForbiddenPlay after its second: whatever happened meanwhile.     *)
NoticeEnds(c) ==
  /\ Online(c) /\ notices[c] # <<>>
  /\ TakesState(c, "MyTurn")
  /\ notices' = [notices EXCEPT ![c] = Tail(@)]
  /\ strayed' = (strayed \/ phase[c] # "game" \/ told[c].game # Head(notices[c]))
  /\ UNCHANGED <<vars, boards>>

(* Mutant: the click does not end the turn. *)
ClickAgain(c, cell) ==
  state[c] = "MyTurn" /\ boards[c] > 0 /\ PlayStoneCallback(c, cell) /\ UNCHANGED uiVars

(* A click on a cell, free or not: the client keeps StoneType Blank.       *)
Click(c, cell) ==
  /\ state[c] = "MyTurn" /\ boards[c] > 0
  /\ PlayStoneCallback(c, cell)
  /\ TakesState(c, "Wait")
  /\ UNCHANGED <<boards, notices, strayed>>

-----------------------------------------------------------------------------
(* The server's turn; a stone strays when its game is not the room's game. *)
Strays(c) ==
  /\ Head(up[c]).kind = "C_PlayStone"
  /\ \/ gameRoom[c] = NoRoom
     \/ ~start[gameRoom[c]]
     \/ game[gameRoom[c]] # Head(up[c]).game

Serve(c) ==
  /\ HandlePacket(c)
  /\ strayed' = (strayed \/ Strays(c))
  /\ UNCHANGED <<state, boards, notices>>

Elsewhere(c) ==
  /\ \/ OnConnected(c) \/ OnDisconnected(c) \/ SubmitName(c)
     \/ LoginRefused(c) \/ LoginAccepted(c) \/ FreeSession(c)
  /\ UNCHANGED uiVars

OmokNext ==
  \E c \in Clients :
     \/ UIStartGame(c) \/ Clear(c) \/ DoNextTurn(c) \/ EndGame(c) \/ CheckStone(c)
     \/ NoticeEnds(c) \/ \E cell \in Cells : Click(c, cell)
     \/ Serve(c) \/ Elsewhere(c)

OmokSpec == OmokInit /\ [][OmokNext]_allVars

(* The main thread polls, the network delivers, Unity's frames go on.      *)
Fairness ==
  \A c \in Clients :
     /\ WF_allVars(Serve(c))
     /\ WF_allVars(UIStartGame(c) \/ Clear(c) \/ DoNextTurn(c) \/ EndGame(c) \/ CheckStone(c))
     /\ WF_allVars(NoticeEnds(c))

FairOmok == OmokSpec /\ Fairness

-----------------------------------------------------------------------------
(* The clients' state has its type.                                        *)
TypeOKUI ==
  /\ state \in [Clients -> {"None", "MyTurn", "Wait"}]
  /\ boards \in [Clients -> 0..1]
  /\ notices \in [Clients -> Seq(0..games)]
  /\ strayed \in BOOLEAN

(* S_PlayStone and S_ThrowResult index _stones without a test: a client    *)
(* that has one of them next has exactly one board, because the server     *)
(* says S_LeaveGame between two games and nothing overtakes.               *)
BoardReady ==
  \A c \in Clients : Heard(c, "S_PlayStone") \/ Heard(c, "S_ThrowResult") => boards[c] = 1

(* Client c shows the running game of room r.                              *)
Shows(c, r) == phase[c] = "game" /\ told[c].game = game[r]

(* The two players of a running game never have the turn together, unless  *)
(* a stone or a notice has outlived its game.                              *)
OneMover ==
  strayed \/
  \A r \in rooms : start[r] =>
     ~\E c, d \in Members(r) :
        c # d /\ Shows(c, r) /\ Shows(d, r) /\ state[c] = "MyTurn" /\ state[d] = "MyTurn"

(* The stones on the server's board alternate, black first, although the   *)
(* server does not check turns: the clients' states alone see to it,       *)
(* refused stones and notices included, unless one outlived its game.      *)
StonesOf(r, t) == Cardinality({x \in DOMAIN stones[r] : stones[r][x] = t})
StonesAlternate ==
  strayed \/ \A r \in rooms : StonesOf(r, Black) - StonesOf(r, White) \in {0, 1}

(* Two players are never left waiting for one another: in a running game   *)
(* with nothing in flight and no notice shown somebody has the turn, even  *)
(* after strayed stones and notices.                                       *)
SomebodyMoves ==
  \A r \in rooms :
     (start[r] /\ ~crashed
      /\ \A c \in Members(r) :
            Online(c) /\ up[c] = <<>> /\ down[c] = <<>> /\ notices[c] = <<>>)
     => \E c \in Members(r) : state[c] = "MyTurn"

(* While a game runs the turn comes to somebody: it never gets lost in a   *)
(* stone on its way, a refusal or a notice.  The ways out are the game's   *)
(* end and the players' (or the server's) disappearance.                   *)
TurnComes ==
  \A r \in Rooms :
     start[r] ~> \/ ~start[r] \/ crashed
                 \/ \E c \in Members(r) : ~Online(c) \/ state[c] = "MyTurn"
=============================================================================
