SPECIFICATION OmokSpec
CONSTANTS
  Clients = {a, b, c}
  Rooms = {r1, r2, r3}
  Cells = {"x", "y"}
  MaxPlays = 3
  Late = 1
  Black = "black"
  White = "white"
  NoRoom = NoRoom
SYMMETRY Symmetry
\* the clients may all be gone, and a server that followed a null pointer stops
CHECK_DEADLOCK FALSE
INVARIANTS
  TypeOKUI
  BoardReady
  OneMover
  StonesAlternate
  SomebodyMoves
