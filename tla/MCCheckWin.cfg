SPECIFICATION Spec
CONSTANTS
  MaxLine = 4
  WinCount = 2
  MaxStones = 6
  Black = Black
  White = White
  Blank = Blank
SYMMETRY Symmetry
INVARIANTS
  TypeOK
  WinExact
