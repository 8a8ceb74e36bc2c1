SPECIFICATION FairOmok
CONSTANTS
  Clients = {a, b, c}
  Rooms = {r1, r2, r3}
  Cells = {"x"}
  MaxPlays = 1
  Late = 1
  Black = "black"
  White = "white"
  NoRoom = NoRoom
\* the clients may all be gone, and a server that followed a null pointer stops
CHECK_DEADLOCK FALSE
PROPERTIES
  TurnComes
