SPECIFICATION Spec
CONSTANTS
  Clients = {a, b, c}
  Rooms = {r1, r2, r3}
  Cells = {"x"}
  MaxPlays = 2
  Late = 2
  Black = "black"
  White = "white"
  NoRoom = NoRoom
SYMMETRY Symmetry
\* the clients may all be gone, and a server that followed a null pointer stops
CHECK_DEADLOCK FALSE
PROPERTY
  IsMatch
INVARIANTS
  TypeOK
  RoomsExact
  RunningHasBoard
  OnlyAfterLate
  NobodyForgotten
  PlayersInformed
