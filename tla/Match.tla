-------------------------------- MODULE Match --------------------------------
(***************************************************************************)
(* What the game server promises its players, without rooms, pointers,     *)
(* sessions or packets.  A player who asks for a game gets the partner who *)
(* waits, or waits if nobody does; a match of two begins on an empty       *)
(* board; stones come on free cells only, and none when it is over; when a *)
(* player goes, the match is given up and the other waits again.  All of   *)
(* this is done by players who are present, and stones are put by the two  *)
(* at the board, until one acts who has already gone: stray.               *)
(*                                                                         *)
(* Module GameServer implements it.                                        *)
(***************************************************************************)

CONSTANTS
  Players,
  Cells,        \* cells of the board
  Stones,       \* the types of stones
  Blank         \* a free cell

VARIABLES
  present,      \* players who have come and not gone
  waiting,      \* players who wait for a partner
  matches,      \* matches of two players at a board
  stray         \* somebody acted after having gone

vars == <<present, waiting, matches, stray>>

Game(p, c, board, over) == [black |-> p, white |-> c, board |-> board, over |-> over]

Sides(m) == {m.black, m.white}
Seated == waiting \cup UNION {Sides(m) : m \in matches}

Begun(p, c) == Game(p, c, [cell \in Cells |-> Blank], FALSE)

Init == present = {} /\ waiting = {} /\ matches = {} /\ stray = FALSE

Come(c) ==
  /\ c \notin present
  /\ present' = present \cup {c}
  /\ UNCHANGED <<waiting, matches, stray>>

\* c acts; ok says that it may.
Acts(c, ok) == stray' \in {stray, TRUE} /\ ((c \in present /\ ok) \/ stray')

Wait(c) ==
  /\ Acts(c, TRUE) /\ c \notin Seated
  /\ waiting = {} /\ waiting' = {c}
  /\ UNCHANGED <<present, matches>>

Pair(p, c) ==
  /\ Acts(c, TRUE) /\ c \notin Seated
  /\ p \in waiting /\ waiting' = waiting \ {p}
  /\ matches' = matches \cup {Begun(p, c)}
  /\ UNCHANGED present

Play(c, m, cell, stone, won) ==
  /\ Acts(c, c \in Sides(m))
  /\ ~m.over /\ m.board[cell] = Blank
  /\ matches' = (matches \ {m})
                  \cup {Game(m.black, m.white, [m.board EXCEPT ![cell] = stone], won)}
  /\ UNCHANGED <<present, waiting>>

Go(c) ==
  /\ c \in present /\ present' = present \ {c}
  /\ \/ c \notin Seated /\ UNCHANGED <<waiting, matches>>
     \/ c \in waiting /\ waiting' = waiting \ {c} /\ UNCHANGED matches
     \/ \E m \in matches :
           /\ c \in Sides(m)
           /\ matches' = matches \ {m} /\ waiting' = waiting \cup (Sides(m) \ {c})
  /\ UNCHANGED stray

\* Somebody who has gone acts in vain; the server may stop, and then forgets
\* to give up the seat of a player who goes.
Stray(c) ==
  /\ stray' = TRUE
  /\ present' \in {present, present \ {c}}
  /\ UNCHANGED <<waiting, matches>>

Next ==
  \E c \in Players :
     \/ Come(c) \/ Go(c) \/ Wait(c) \/ Stray(c)
     \/ \E p \in Players : Pair(p, c)
     \/ \E m \in matches, cell \in Cells, stone \in Stones, won \in BOOLEAN :
           Play(c, m, cell, stone, won)

Spec == Init /\ [][Next]_vars
=============================================================================
