------------------------------ MODULE CheckWin ------------------------------
(***************************************************************************)
(* The board of one game: GameRoom::PlayStone puts a stone, CheckWin looks *)
(* for a line of exactly WinCount + 1 stones through it, walking the flat  *)
(* vector _stones from the new stone with unsigned 16-bit coordinates.     *)
(*                                                                         *)
(* The reference definition, Line, knows nothing of the walk: it is a set  *)
(* of collinear cells of one colour that cannot be extended at either end. *)
(* Rooms, players and the way a game begins and ends are in GameServer.    *)
(***************************************************************************)
EXTENDS Integers, FiniteSets

CONSTANTS
  MaxLine,    \* MAX_LINE, 19 in the code
  WinCount,   \* the stones CheckWin wants beside the new one, 4 in the code
  MaxStones,  \* bound on the stones put in one game
  Black, White, Blank   \* Protocol::STONE_TYPE_*

ASSUME BoardAssumption ==
  /\ MaxLine \in 1..255 /\ WinCount \in Nat \ {0} /\ MaxStones \in Nat
  /\ Cardinality({Black, White, Blank}) = 3

VARIABLES
  stones,     \* _stones, the flat board
  moves,      \* history: stones put so far
  start,      \* _start
  result      \* the cell S_ThrowResult was sent about, none before

vars == <<stones, moves, start, result>>

Cells == 0 .. MaxLine * MaxLine - 1
Lines == 0 .. MaxLine - 1
Cell(y, x) == y * MaxLine + x

NoCell == -1

(* uint16: the offset -1 is passed as 65535 and the sum wraps *)
UInt16(n) == n % 65536

-----------------------------------------------------------------------------
(* Mutant: the edge is looked for on the flat index only. *)
CheckWinFlat(b, c, dy, dx) ==
  LET walk[i \in Cells] ==
        LET next == i + Cell(dy, dx)
        IN  IF next \notin Cells \/ b[next] # b[i] THEN 0 ELSE 1 + walk[next]
  IN  walk[c]

(* The walk of CheckWinRecursive from cell c of board b: how many cells of  *)
(* c's type follow it in one direction before another type or the edge.     *)

CheckWinRecursive(b, c, dy, dx) ==
  LET oy == UInt16(dy)
      ox == UInt16(dx)
      walk[i \in Cells] ==
        LET nextY == UInt16((i \div MaxLine) + oy)
            nextX == UInt16((i % MaxLine) + ox)
        IN  IF nextY >= MaxLine \/ nextX >= MaxLine \/ b[Cell(nextY, nextX)] # b[i]
            THEN 0
            ELSE 1 + walk[Cell(nextY, nextX)]
  IN  walk[c]

(* Mutant: a line at least as long as wanted counts. *)
CheckWinAtLeast(b, c) ==
  \E d \in {<<0, 1>>, <<1, 0>>, <<1, 1>>, <<-1, 1>>} :
     CheckWinRecursive(b, c, d[1], d[2]) + CheckWinRecursive(b, c, -d[1], -d[2]) >= WinCount

(* row, column, the diagonal down and the diagonal up *)
CheckWin(b, c) ==
  \E d \in {<<0, 1>>, <<1, 0>>, <<1, 1>>, <<-1, 1>>} :
     CheckWinRecursive(b, c, d[1], d[2]) + CheckWinRecursive(b, c, -d[1], -d[2]) = WinCount

-----------------------------------------------------------------------------
(* The type in a client's packet, by UI_Game.PlayStoneCallback.  PlayStone  *)
(* stores it without a look at the sender or the turn, and a stone that is  *)
(* late from one game can fall into the next: here any order of the types.  *)
Types == {Black, White}

(* StartGame: a fresh board *)
Init ==
  /\ stones = [c \in Cells |-> Blank]
  /\ moves = 0
  /\ start = TRUE
  /\ result = NoCell

OnBoard(y, x) == y < MaxLine /\ x < MaxLine

(* Mutant: a stone may be put on another. *)
AnyCell(y, x) == OnBoard(y, x)

Free(y, x) == OnBoard(y, x) /\ stones[Cell(y, x)] = Blank

(* S_CheckStone(false): the game is not running, or the cell is not free. *)
Refuse(y, x) ==
  /\ ~start \/ ~Free(y, x)
  /\ UNCHANGED vars

(* The stone is put; a win stops the game and goes out as S_ThrowResult,   *)
(* another move as S_PlayStone.                                            *)
Put(y, x, type) ==
  /\ start /\ moves < MaxStones /\ Free(y, x)
  /\ LET c == Cell(y, x)
         put == [stones EXCEPT ![c] = type]
         won == CheckWin(put, c)
     IN  /\ stones' = put
         /\ moves' = moves + 1
         /\ start' = ~won
         /\ result' = IF won THEN c ELSE NoCell

PlayStone(y, x) == Refuse(y, x) \/ \E type \in Types : Put(y, x, type)

Next == \E y, x \in 0..MaxLine : PlayStone(y, x)

Spec == Init /\ [][Next]_vars

-----------------------------------------------------------------------------
(* Reference: the cells of a straight line of n cells from (y, x) in one of *)
(* the four directions, as pairs; and a line of exactly WinCount + 1 stones *)
(* of one colour, with another type or the edge at both ends.               *)

Directions == {<<0, 1>>, <<1, 0>>, <<1, 1>>, <<1, -1>>}
At(y, x, d, i) == <<y + i * d[1], x + i * d[2]>>
Inside(p) == p[1] \in Lines /\ p[2] \in Lines
TypeAt(p) == stones[Cell(p[1], p[2])]

Line(y, x, d) ==
  /\ stones[Cell(y, x)] # Blank
  /\ \A i \in 0..WinCount :
        Inside(At(y, x, d, i)) /\ TypeAt(At(y, x, d, i)) = stones[Cell(y, x)]
  /\ \A i \in {-1, WinCount + 1} :
        Inside(At(y, x, d, i)) => TypeAt(At(y, x, d, i)) # stones[Cell(y, x)]

LineThrough(c) ==
  \E y, x \in Lines, d \in Directions :
     Line(y, x, d) /\ \E i \in 0..WinCount : At(y, x, d, i) = <<c \div MaxLine, c % MaxLine>>

(* The board, the flag and the result have the shape of the code's, and as  *)
(* no stone replaces another the board holds as many as were put.           *)
TypeOK ==
  /\ stones \in [Cells -> {Black, White, Blank}]
  /\ start \in BOOLEAN
  /\ result \in Cells \cup {NoCell}
  /\ moves = Cardinality({c \in Cells : stones[c] # Blank})

(* While the game runs no line of the winning length stands anywhere on the *)
(* board: whatever the moves and the order of their colours, CheckWin has   *)
(* missed none that any earlier stone completed, in any direction, at any   *)
(* edge.                                                                    *)
NoMissedWin == start => ~\E y, x \in Lines, d \in Directions : Line(y, x, d)

(* A result is thrown only for a line of exactly the winning length through *)
(* the stone just put: a longer line, a line broken by the edge of the      *)
(* board, or two half lines that do not meet in one direction, is no win.   *)
WinJustified == result # NoCell => ~start /\ LineThrough(result)

(* CheckWin ends a game exactly when it should (GameRoom.cpp:137-183): the  *)
(* game goes on over no line of the winning length, and stops only at one.  *)
WinExact == NoMissedWin /\ WinJustified
=============================================================================
