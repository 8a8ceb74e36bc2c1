---------------------------- MODULE CheckWinProofs ----------------------------
(***************************************************************************)
(* CheckWin ends a game exactly when it should, on a board of any size and *)
(* for any line length: TypeOK and WinExact of module CheckWin.            *)
(*                                                                         *)
(* Run says without recursion what the walk of CheckWinRecursive counts.   *)
(* There is one Run from every cell in every direction (RunExists), so the *)
(* equations of walk have a solution (WalkExists); and whatever solves     *)
(* them counts the Run (Walked): the cell next to the end counts 0 and     *)
(* each before it one more, so there is no least number of cells from the  *)
(* end where the count could be wrong.  Two runs of WinCount stones in all *)
(* are then a Line of the reference definition, and the other way round.   *)
(***************************************************************************)
EXTENDS CheckWin, TLAPS, FiniteSetTheorems, WellFoundedInduction

Eight == {d \in {-1, 0, 1} \X {-1, 0, 1} : d # <<0, 0>>}
Opposite(d) == <<-d[1], -d[2]>>

\* i cells from (y, x) in direction d there is a cell of the type of (y, x).
Same(b, y, x, d, i) ==
  LET p == At(y, x, d, i)
  IN  Inside(p) /\ b[Cell(p[1], p[2])] = b[Cell(y, x)]

\* Exactly k cells follow (y, x) in direction d before another type or the edge.
Run(b, y, x, d, k) == (\A i \in 0..k : Same(b, y, x, d, i)) /\ ~Same(b, y, x, d, k + 1)

\* Line of module CheckWin, of any board.
LineOn(b, y, x, d) ==
  /\ b[Cell(y, x)] # Blank
  /\ \A i \in 0..WinCount : Same(b, y, x, d, i)
  /\ ~Same(b, y, x, d, -1) /\ ~Same(b, y, x, d, WinCount + 1)

-----------------------------------------------------------------------------
\* A set of numbers has a least one.
LEMMA Least ==
  ASSUME NEW S, S \subseteq Nat, S # {}
  PROVE  \E n \in S : \A m \in S : n <= m
<1>1. IsWellFoundedOn(OpToRel(<, Nat), Nat)
  BY NatLessThanWellFounded
<1>2. PICK n \in S : \A m \in S : ~(<<m, n>> \in OpToRel(<, Nat))
  BY <1>1, WFMin
<1>3. \A m \in S : ~(m < n)
  BY <1>2 DEF OpToRel
<1> QED BY <1>3

\* The sum of a coordinate and an offset, as uint16: -1 wraps past every board.
LEMMA Wrap ==
  ASSUME NEW a \in 0..254, NEW e \in {-1, 0, 1}
  PROVE  UInt16(a + UInt16(e)) = IF a + e >= 0 THEN a + e ELSE 65535
BY DEF UInt16

\* The coordinates of a cell of the flat board.
LEMMA Coordinates ==
  ASSUME NEW M \in 1..255, NEW i \in 0..M * M - 1
  PROVE  i \div M \in 0..M - 1 /\ i % M \in 0..M - 1 /\ (i \div M) * M + (i % M) = i
<1>1. i \div M \in Int /\ i % M \in 0..M - 1
  OBVIOUS
<1>2. (i \div M) * M + (i % M) = i
  OBVIOUS
<1>3. i \div M >= 0
  OBVIOUS
<1>4. i \div M < M
  BY <1>1, <1>2, <1>3
<1> QED BY <1>1, <1>2, <1>3, <1>4

\* The cell at given coordinates.
LEMMA Place ==
  ASSUME NEW M \in 1..255, NEW y \in 0..M - 1, NEW x \in 0..M - 1
  PROVE  y * M + x \in 0..M * M - 1 /\ (y * M + x) \div M = y /\ (y * M + x) % M = x
<1>1. y * M + x \in 0..M * M - 1
  OBVIOUS
<1>2. (y * M + x) \div M = y
  OBVIOUS
<1>3. PICK i \in 0..M * M - 1 : i = y * M + x
  BY <1>1
<1>4. i % M \in 0..M - 1 /\ (i \div M) * M + (i % M) = i
  BY Coordinates
<1>5. y * M + (i % M) = y * M + x
  BY <1>2, <1>3, <1>4
<1>6. i % M = x
  <2>1. y * M \in Int
    OBVIOUS
  <2> QED BY <1>4, <1>5, <2>1
<1> QED BY <1>1, <1>2, <1>3, <1>6

\* The same, of the board.
LEMMA Placed ==
  ASSUME NEW y \in Lines, NEW x \in Lines
  PROVE  Cell(y, x) \in Cells /\ Cell(y, x) \div MaxLine = y /\ Cell(y, x) % MaxLine = x
BY BoardAssumption, Place DEF Cells, Cell, Lines

\* And back: the coordinates of a cell of the board.
LEMMA Coordinated ==
  ASSUME NEW c \in Cells
  PROVE  /\ c \div MaxLine \in Lines /\ c % MaxLine \in Lines
         /\ Cell(c \div MaxLine, c % MaxLine) = c
BY BoardAssumption, Coordinates DEF Cells, Cell, Lines

-----------------------------------------------------------------------------
\* Coordinates and offsets are numbers.
LEMMA Whole ==
  Lines \subseteq Int /\ \A d \in Eight : d[1] \in {-1, 0, 1} /\ d[2] \in {-1, 0, 1}
BY BoardAssumption DEF Lines, Eight

\* Going i cells and then j is going i + j cells.
LEMMA AtShift ==
  ASSUME NEW y \in Int, NEW x \in Int, NEW d \in Eight, NEW i \in Int, NEW j \in Int,
         NEW v, NEW u, <<v, u>> = At(y, x, d, i)
  PROVE  At(v, u, d, j) = At(y, x, d, i + j)
<1>1. v = y + i * d[1] /\ u = x + i * d[2]
  BY DEF At
<1>2. \A e \in {-1, 0, 1} : \A z \in Int : (z + i * e) + j * e = z + (i + j) * e
  OBVIOUS
<1> QED BY <1>1, <1>2, Whole DEF At

\* No step leads nowhere.
LEMMA AtZero ==
  ASSUME NEW y \in Int, NEW x \in Int, NEW d \in Eight
  PROVE  At(y, x, d, 0) = <<y, x>>
<1>1. \A e \in {-1, 0, 1} : \A z \in Int : z + 0 * e = z
  OBVIOUS
<1> QED BY <1>1, Whole DEF At

\* The other way is the way back.
LEMMA AtOpposite ==
  ASSUME NEW y \in Int, NEW x \in Int, NEW d \in Eight, NEW i \in Int
  PROVE  Opposite(d) \in Eight /\ At(y, x, Opposite(d), i) = At(y, x, d, -i)
<1>1. \A e \in {-1, 0, 1} : -e \in {-1, 0, 1} /\ \A z \in Int : z + i * (-e) = z + (-i) * e
  OBVIOUS
<1>2. d = <<d[1], d[2]>> /\ d[1] \in {-1, 0, 1} /\ d[2] \in {-1, 0, 1}
  BY DEF Eight
<1>3. /\ -d[1] \in {-1, 0, 1} /\ -d[2] \in {-1, 0, 1}
      /\ (-d[1] = 0 => d[1] = 0) /\ (-d[2] = 0 => d[2] = 0)
  BY <1>2
<1>4. Opposite(d) \in Eight
  BY <1>2, <1>3 DEF Opposite, Eight
<1>5. At(y, x, Opposite(d), i) = At(y, x, d, -i)
  BY <1>1, <1>2 DEF At, Opposite
<1> QED BY <1>4, <1>5

\* What lies the other way lies behind.
LEMMA SameOpposite ==
  ASSUME NEW b, NEW y \in Lines, NEW x \in Lines, NEW d \in Eight, NEW i \in Int
  PROVE  Same(b, y, x, Opposite(d), i) <=> Same(b, y, x, d, -i)
BY AtOpposite, Whole DEF Same

\* A cell is of its own type.
LEMMA SameZero ==
  ASSUME NEW b, NEW y \in Lines, NEW x \in Lines, NEW d \in Eight
  PROVE  Same(b, y, x, d, 0)
BY AtZero, Whole DEF Same, Inside

\* Seen from a cell of the same type, the line is the same.
LEMMA SameShift ==
  ASSUME NEW b, NEW y \in Lines, NEW x \in Lines, NEW d \in Eight, NEW i \in Int,
         Same(b, y, x, d, i), NEW v, NEW u, <<v, u>> = At(y, x, d, i), NEW j \in Int
  PROVE  /\ v \in Lines /\ u \in Lines /\ b[Cell(v, u)] = b[Cell(y, x)]
         /\ Same(b, v, u, d, j) <=> Same(b, y, x, d, i + j)
<1>1. v \in Lines /\ u \in Lines /\ b[Cell(v, u)] = b[Cell(y, x)]
  <2>1. At(y, x, d, i)[1] = v /\ At(y, x, d, i)[2] = u
    OBVIOUS
  <2> QED BY <2>1 DEF Same, Inside
<1>2. At(v, u, d, j) = At(y, x, d, i + j)
  BY AtShift, Whole
<1> QED BY <1>1, <1>2 DEF Same

-----------------------------------------------------------------------------
\* The board is finite: some cell in every direction is not the same.
LEMMA Edge ==
  ASSUME NEW b, NEW y \in Lines, NEW x \in Lines, NEW d \in Eight
  PROVE  ~Same(b, y, x, d, MaxLine)
<1>1. \A z \in Lines : \A e \in {-1, 1} : z + MaxLine * e \notin Lines
  BY BoardAssumption DEF Lines
<1>2. d = <<d[1], d[2]>> /\ (d[1] \in {-1, 1} \/ d[2] \in {-1, 1})
  BY DEF Eight
<1> QED BY <1>1, <1>2 DEF Same, At, Inside

\* There is a run in every direction: the least number of cells after which
\* the type is not the same.
LEMMA RunExists ==
  ASSUME NEW b, NEW y \in Lines, NEW x \in Lines, NEW d \in Eight
  PROVE  \E k \in Nat : Run(b, y, x, d, k)
<1> DEFINE S == {k \in Nat : ~Same(b, y, x, d, k + 1)}
<1>1. MaxLine - 1 \in Nat /\ MaxLine - 1 + 1 = MaxLine
  BY BoardAssumption
<1>2. MaxLine - 1 \in S
  BY <1>1, Edge
<1>3. PICK k \in S : \A m \in S : k <= m
  BY <1>2, Least
<1>4. ASSUME NEW i \in 0..k PROVE Same(b, y, x, d, i)
  <2>1. CASE i = 0
    BY <2>1, SameZero
  <2>2. CASE i # 0
    <3>1. i - 1 \in Nat /\ i - 1 < k /\ i - 1 + 1 = i
      BY <1>3, <2>2
    <3>2. i - 1 \notin S
      BY <1>3, <3>1
    <3> QED BY <3>1, <3>2
  <2> QED BY <2>1, <2>2
<1> QED BY <1>3, <1>4 DEF Run

\* And only one.
LEMMA RunUnique ==
  ASSUME NEW b, NEW y, NEW x, NEW d, NEW k \in Nat, NEW l \in Nat,
         Run(b, y, x, d, k), Run(b, y, x, d, l)
  PROVE  k = l
<1>1. k + 1 \notin 0..l /\ l + 1 \notin 0..k
  BY DEF Run
<1> QED BY <1>1

\* The run from the next cell is one shorter.
LEMMA RunNext ==
  ASSUME NEW b, NEW y \in Lines, NEW x \in Lines, NEW d \in Eight,
         Same(b, y, x, d, 1), NEW v, NEW u, <<v, u>> = At(y, x, d, 1), NEW k \in Nat,
         Run(b, v, u, d, k)
  PROVE  Run(b, y, x, d, k + 1)
<1>1. \A j \in Int : Same(b, v, u, d, j) <=> Same(b, y, x, d, 1 + j)
  BY SameShift
<1>2. ASSUME NEW i \in 0..k + 1 PROVE Same(b, y, x, d, i)
  <2>1. CASE i = 0
    BY <2>1, SameZero
  <2>2. CASE i # 0
    <3>1. i - 1 \in 0..k /\ 1 + (i - 1) = i
      BY <2>2
    <3> QED BY <1>1, <3>1 DEF Run
  <2> QED BY <2>1, <2>2
<1>3. k + 1 \in Int /\ 1 + (k + 1) = k + 1 + 1
  OBVIOUS
<1>4. ~Same(b, y, x, d, k + 1 + 1)
  BY <1>1, <1>3 DEF Run
<1> QED BY <1>2, <1>4 DEF Run

\* Where the next cell is not the same, the run is empty.
LEMMA RunStops ==
  ASSUME NEW b, NEW y \in Lines, NEW x \in Lines, NEW d \in Eight, ~Same(b, y, x, d, 1)
  PROVE  Run(b, y, x, d, 0)
<1>1. \A i \in 0..0 : i = 0
  OBVIOUS
<1> QED BY <1>1, SameZero DEF Run

-----------------------------------------------------------------------------
\* One equation of walk, the recursive function of CheckWinRecursive.
Hop(b, dy, dx, w) ==
  [i \in Cells |->
     LET nextY == UInt16((i \div MaxLine) + UInt16(dy))
         nextX == UInt16((i % MaxLine) + UInt16(dx))
     IN  IF nextY >= MaxLine \/ nextX >= MaxLine \/ b[Cell(nextY, nextX)] # b[i]
         THEN 0
         ELSE 1 + w[Cell(nextY, nextX)]]

\* The walk goes on where there is a cell of the same type, to that cell.
LEMMA HopStep ==
  ASSUME NEW b, NEW y \in Lines, NEW x \in Lines, NEW d \in Eight, NEW w,
         NEW v, NEW u, <<v, u>> = At(y, x, d, 1)
  PROVE  Hop(b, d[1], d[2], w)[Cell(y, x)] =
           IF Same(b, y, x, d, 1) THEN 1 + w[Cell(v, u)] ELSE 0
<1> DEFINE nextY == UInt16(y + UInt16(d[1]))
           nextX == UInt16(x + UInt16(d[2]))
<1>1. Cell(y, x) \in Cells /\ Cell(y, x) \div MaxLine = y /\ Cell(y, x) % MaxLine = x
  BY Placed
<1>2. Hop(b, d[1], d[2], w)[Cell(y, x)] =
        IF nextY >= MaxLine \/ nextX >= MaxLine \/ b[Cell(nextY, nextX)] # b[Cell(y, x)]
        THEN 0
        ELSE 1 + w[Cell(nextY, nextX)]
  BY <1>1 DEF Hop
<1>3. d[1] \in {-1, 0, 1} /\ d[2] \in {-1, 0, 1}
  BY Whole
<1>4. y \in 0..254 /\ x \in 0..254
  BY BoardAssumption DEF Lines
<1>5. v = y + d[1] /\ u = x + d[2]
  <2>1. \A e \in {-1, 0, 1} : 1 * e = e
    OBVIOUS
  <2> QED BY <1>3, <2>1 DEF At
<1>6. /\ nextY = IF v >= 0 THEN v ELSE 65535
      /\ nextX = IF u >= 0 THEN u ELSE 65535
  BY <1>3, <1>4, <1>5, Wrap
<1> HIDE DEF nextY, nextX
<1>7. (~(nextY >= MaxLine) <=> v \in Lines) /\ (v \in Lines => nextY = v)
  BY <1>3, <1>4, <1>5, <1>6, BoardAssumption DEF Lines
<1>8. (~(nextX >= MaxLine) <=> u \in Lines) /\ (u \in Lines => nextX = u)
  BY <1>3, <1>4, <1>5, <1>6, BoardAssumption DEF Lines
<1>9. Same(b, y, x, d, 1) <=> v \in Lines /\ u \in Lines /\ b[Cell(v, u)] = b[Cell(y, x)]
  <2>1. At(y, x, d, 1)[1] = v /\ At(y, x, d, 1)[2] = u
    OBVIOUS
  <2> QED BY <2>1 DEF Same, Inside
<1> QED BY <1>2, <1>7, <1>8, <1>9

\* The equations of walk have a solution.
LEMMA WalkExists ==
  ASSUME NEW b, NEW d \in Eight
  PROVE  \E w : w = Hop(b, d[1], d[2], w)
<1> DEFINE Length(i) == CHOOSE k \in Nat : Run(b, i \div MaxLine, i % MaxLine, d, k)
           w == [i \in Cells |-> Length(i)]
<1>1. ASSUME NEW y \in Lines, NEW x \in Lines
      PROVE  w[Cell(y, x)] \in Nat /\ Run(b, y, x, d, w[Cell(y, x)])
  <2>1. w[Cell(y, x)] = CHOOSE k \in Nat : Run(b, y, x, d, k)
    BY Placed
  <2> QED BY <2>1, RunExists
<1>2. ASSUME NEW i \in Cells PROVE w[i] = Hop(b, d[1], d[2], w)[i]
  <2>1. PICK y \in Lines, x \in Lines : i = Cell(y, x)
    BY Coordinated
  <2>2. PICK v, u : <<v, u>> = At(y, x, d, 1)
    BY DEF At
  <2>3. Hop(b, d[1], d[2], w)[i] = IF Same(b, y, x, d, 1) THEN 1 + w[Cell(v, u)] ELSE 0
    BY <2>1, <2>2, HopStep
  <2>4. w[i] \in Nat /\ Run(b, y, x, d, w[i])
    BY <1>1, <2>1
  <2> HIDE DEF w
  <2>5. CASE Same(b, y, x, d, 1)
    <3>1. v \in Lines /\ u \in Lines
      <4>1. At(y, x, d, 1)[1] = v /\ At(y, x, d, 1)[2] = u
        BY <2>2
      <4> QED BY <2>5, <4>1 DEF Same, Inside
    <3>2. w[Cell(v, u)] \in Nat /\ Run(b, v, u, d, w[Cell(v, u)])
      BY <1>1, <3>1
    <3>3. Run(b, y, x, d, w[Cell(v, u)] + 1)
      BY <2>2, <2>5, <3>2, RunNext
    <3>4. w[i] = w[Cell(v, u)] + 1
      BY <2>4, <3>2, <3>3, RunUnique
    <3> QED BY <2>3, <2>5, <3>2, <3>4
  <2>6. CASE ~Same(b, y, x, d, 1)
    BY <2>3, <2>4, <2>6, RunStops, RunUnique
  <2> QED BY <2>5, <2>6
<1>3. w = Hop(b, d[1], d[2], w)
  <2>1. Hop(b, d[1], d[2], w) = [i \in Cells |-> Hop(b, d[1], d[2], w)[i]]
    BY DEF Hop
  <2> QED BY <1>2, <2>1
<1> QED BY <1>3

\* What CheckWinRecursive counts (GameRoom.cpp:166-183) is the length of the run,
\* the wrapped sums of its uint16 coordinates included.
THEOREM Walked ==
  ASSUME NEW b, NEW y \in Lines, NEW x \in Lines, NEW d \in Eight
  PROVE  /\ CheckWinRecursive(b, Cell(y, x), d[1], d[2]) \in Nat
         /\ Run(b, y, x, d, CheckWinRecursive(b, Cell(y, x), d[1], d[2]))
<1>1. PICK w : /\ w = Hop(b, d[1], d[2], w)
               /\ CheckWinRecursive(b, Cell(y, x), d[1], d[2]) = w[Cell(y, x)]
  <2>1. \E w : w = Hop(b, d[1], d[2], w)
    BY WalkExists
  <2> QED BY <2>1 DEF CheckWinRecursive, Hop
<1>2. PICK k \in Nat : Run(b, y, x, d, k)
  BY RunExists
<1> DEFINE Pos(i) == At(y, x, d, i)
           S == {j \in Nat : j <= k /\ w[Cell(Pos(k - j)[1], Pos(k - j)[2])] # j}
<1>3. S = {}
  <2> SUFFICES ASSUME S # {} PROVE FALSE
    OBVIOUS
  <2>1. PICK j \in S : \A m \in S : j <= m
    BY Least
  <2>2. PICK v, u : <<v, u>> = Pos(k - j)
    BY DEF At
  <2>3. j \in Nat /\ j <= k /\ w[Cell(v, u)] # j
    BY <2>1, <2>2
  <2>4. PICK n \in Int : n = k - j /\ n \in 0..k
    BY <1>2, <2>3
  <2>5. Same(b, y, x, d, n) /\ <<v, u>> = At(y, x, d, n)
    BY <1>2, <2>2, <2>4 DEF Run
  <2>6. v \in Lines /\ u \in Lines /\ (Same(b, v, u, d, 1) <=> Same(b, y, x, d, n + 1))
    BY <2>5, SameShift
  <2>7. PICK v1, u1 : <<v1, u1>> = At(v, u, d, 1)
    BY DEF At
  <2>8. w[Cell(v, u)] = IF Same(b, v, u, d, 1) THEN 1 + w[Cell(v1, u1)] ELSE 0
    <3>1. v \in Lines /\ u \in Lines
      BY <2>6
    <3>2. Hop(b, d[1], d[2], w)[Cell(v, u)] =
            IF Same(b, v, u, d, 1) THEN 1 + w[Cell(v1, u1)] ELSE 0
      BY <2>7, <3>1, HopStep
    <3>3. w[Cell(v, u)] = Hop(b, d[1], d[2], w)[Cell(v, u)]
      BY <1>1, Zenon
    <3> QED BY <3>2, <3>3
  <2>9. CASE j = 0
    <3>1. n + 1 = k + 1
      BY <1>2, <2>4, <2>9
    <3>2. ~Same(b, v, u, d, 1)
      BY <1>2, <2>6, <3>1 DEF Run
    <3> QED BY <2>3, <2>8, <2>9, <3>2
  <2>10. CASE j # 0
    <3>1. n + 1 \in 0..k /\ j - 1 \in Nat /\ j - 1 < j /\ k - (j - 1) = n + 1 /\ j - 1 <= k
      BY <1>2, <2>3, <2>4, <2>10
    <3>2. Same(b, v, u, d, 1)
      BY <1>2, <2>6, <3>1 DEF Run
    <3>3. At(v, u, d, 1) = Pos(k - (j - 1))
      BY <2>5, <3>1, AtShift, Whole
    <3>4. j - 1 \notin S
      BY <2>1, <2>3, <3>1
    <3>5. Pos(k - (j - 1))[1] = v1 /\ Pos(k - (j - 1))[2] = u1
      BY <2>7, <3>3
    <3>6. w[Cell(v1, u1)] = j - 1
      BY <3>1, <3>4, <3>5
    <3> QED BY <2>3, <2>8, <3>2, <3>6
  <2> QED BY <2>9, <2>10
<1>4. Pos(k - k) = <<y, x>>
  <2>1. k - k = 0
    BY <1>2
  <2> QED BY <2>1, AtZero, Whole
<1>5. w[Cell(y, x)] = k
  <2>1. k \notin S
    BY <1>3
  <2>2. Pos(k - k)[1] = y /\ Pos(k - k)[2] = x
    BY <1>4
  <2> QED BY <1>2, <2>1, <2>2
<1> QED BY <1>1, <1>2, <1>5

-----------------------------------------------------------------------------
\* The offsets -0 and -(-1) of CheckWin.
LEMMA Negated == -0 = 0 /\ -(-1) = 1
<1>1. \A e, f \in Int : e + f = 0 => -e = f
  OBVIOUS
<1>2. 0 + 0 = 0 /\ 0 \in Int /\ -1 + 1 = 0 /\ -1 \in Int /\ 1 \in Int
  OBVIOUS
<1>3. -0 = 0
  BY <1>1, <1>2, Zenon
<1>4. -(-1) = 1
  BY <1>1, <1>2, Zenon
<1> QED BY <1>3, <1>4

\* The other way of each of the four directions.
LEMMA Ways ==
  /\ Opposite(<<0, 1>>) = <<0, -1>> /\ Opposite(<<1, 0>>) = <<-1, 0>>
  /\ Opposite(<<1, 1>>) = <<-1, -1>> /\ Opposite(<<1, -1>>) = <<-1, 1>>
  /\ Directions \subseteq Eight
  /\ \A d \in Directions : Opposite(d) \in Eight
<1>1. ASSUME NEW e, NEW f PROVE Opposite(<<e, f>>) = <<-e, -f>>
  BY DEF Opposite
<1>2. /\ Opposite(<<0, 1>>) = <<0, -1>> /\ Opposite(<<1, 0>>) = <<-1, 0>>
      /\ Opposite(<<1, 1>>) = <<-1, -1>> /\ Opposite(<<1, -1>>) = <<-1, 1>>
  BY <1>1, Negated
<1>3. Directions \subseteq Eight
  BY DEF Directions, Eight
<1>4. \A d \in Directions : Opposite(d) \in Eight
  BY <1>2 DEF Directions, Eight
<1> QED BY <1>2, <1>3, <1>4

\* The runs on both sides of c make up WinCount stones.
Wins(b, y, x, d) ==
  \E k, l \in Nat : Run(b, y, x, d, k) /\ Run(b, y, x, Opposite(d), l) /\ k + l = WinCount

\* CheckWin asks for the four directions what Wins says.
LEMMA CheckWinRuns ==
  ASSUME NEW b, NEW y \in Lines, NEW x \in Lines
  PROVE  CheckWin(b, Cell(y, x)) <=> \E d \in Directions : Wins(b, y, x, d)
<1> DEFINE R(d) == CheckWinRecursive(b, Cell(y, x), d[1], d[2])
<1>1. ASSUME NEW d \in Eight, Opposite(d) \in Eight
      PROVE  /\ R(d) \in Nat /\ R(Opposite(d)) \in Nat
             /\ R(d) + R(Opposite(d)) = WinCount <=> Wins(b, y, x, d)
  <2>1. R(d) \in Nat /\ Run(b, y, x, d, R(d))
    BY Walked
  <2>2. R(Opposite(d)) \in Nat /\ Run(b, y, x, Opposite(d), R(Opposite(d)))
    BY <1>1, Walked
  <2> HIDE DEF R
  <2>3. Wins(b, y, x, d) => R(d) + R(Opposite(d)) = WinCount
    BY <2>1, <2>2, RunUnique DEF Wins
  <2>4. R(d) + R(Opposite(d)) = WinCount => Wins(b, y, x, d)
    BY <2>1, <2>2 DEF Wins
  <2> QED BY <2>1, <2>2, <2>3, <2>4
<1>2. /\ R(<<0, 1>>) = CheckWinRecursive(b, Cell(y, x), 0, 1)
      /\ R(<<1, 0>>) = CheckWinRecursive(b, Cell(y, x), 1, 0)
      /\ R(<<1, 1>>) = CheckWinRecursive(b, Cell(y, x), 1, 1)
      /\ R(<<1, -1>>) = CheckWinRecursive(b, Cell(y, x), 1, -1)
  OBVIOUS
<1>3. /\ R(Opposite(<<0, 1>>)) = CheckWinRecursive(b, Cell(y, x), 0, -1)
      /\ R(Opposite(<<1, 0>>)) = CheckWinRecursive(b, Cell(y, x), -1, 0)
      /\ R(Opposite(<<1, 1>>)) = CheckWinRecursive(b, Cell(y, x), -1, -1)
      /\ R(Opposite(<<1, -1>>)) = CheckWinRecursive(b, Cell(y, x), -1, 1)
  BY Ways
<1> HIDE DEF R
<1>4. \A d \in Directions : /\ R(d) \in Nat /\ R(Opposite(d)) \in Nat
                            /\ R(d) + R(Opposite(d)) = WinCount <=> Wins(b, y, x, d)
  BY <1>1, Ways
<1>5. CheckWin(b, Cell(y, x)) <=>
        \/ R(<<0, 1>>) + R(Opposite(<<0, 1>>)) = WinCount
        \/ R(<<1, 0>>) + R(Opposite(<<1, 0>>)) = WinCount
        \/ R(<<1, 1>>) + R(Opposite(<<1, 1>>)) = WinCount
        \/ R(Opposite(<<1, -1>>)) + R(<<1, -1>>) = WinCount
  <2> DEFINE C(e, f) == CheckWinRecursive(b, Cell(y, x), e, f)
  <2>1. CheckWin(b, Cell(y, x)) <=>
          \/ C(0, 1) + C(-0, -1) = WinCount
          \/ C(1, 0) + C(-1, -0) = WinCount
          \/ C(1, 1) + C(-1, -1) = WinCount
          \/ C(-1, 1) + C(-(-1), -1) = WinCount
    BY DEF CheckWin
  <2> HIDE DEF C
  <2>2. CheckWin(b, Cell(y, x)) <=>
          \/ C(0, 1) + C(0, -1) = WinCount
          \/ C(1, 0) + C(-1, 0) = WinCount
          \/ C(1, 1) + C(-1, -1) = WinCount
          \/ C(-1, 1) + C(1, -1) = WinCount
    BY <2>1, Negated
  <2> QED BY <1>2, <1>3, <2>2 DEF C
<1>6. Directions = {<<0, 1>>, <<1, 0>>, <<1, 1>>, <<1, -1>>}
  BY DEF Directions
<1>7. R(Opposite(<<1, -1>>)) + R(<<1, -1>>) = R(<<1, -1>>) + R(Opposite(<<1, -1>>))
  BY <1>4, <1>6
<1> QED BY <1>4, <1>5, <1>6, <1>7

\* The reference definition is LineOn of the board.
LEMMA LineIsOn ==
  ASSUME NEW y \in Lines, NEW x \in Lines, NEW d \in Directions
  PROVE  /\ Line(y, x, d) <=> LineOn(stones, y, x, d)
         /\ Line(y, x, d)' <=> LineOn(stones', y, x, d)
BY DEF Line, LineOn, Same, TypeAt

\* Lines seen from one of their cells.
LEMMA Through ==
  ASSUME NEW b, NEW y \in Lines, NEW x \in Lines, NEW d \in Eight, NEW i \in Int,
         Same(b, y, x, d, i), NEW v, NEW u, <<v, u>> = At(y, x, d, i)
  PROVE  /\ v \in Lines /\ u \in Lines /\ b[Cell(v, u)] = b[Cell(y, x)]
         /\ \A j \in Int : Same(b, v, u, d, j) <=> Same(b, y, x, d, i + j)
         /\ \A n \in Int : i + n = 0 => At(v, u, d, n) = <<y, x>>
<1>1. v \in Lines /\ u \in Lines /\ b[Cell(v, u)] = b[Cell(y, x)]
  <2>1. At(y, x, d, i)[1] = v /\ At(y, x, d, i)[2] = u
    OBVIOUS
  <2> QED BY <2>1 DEF Same, Inside
<1>2. \A j \in Int : Same(b, v, u, d, j) <=> Same(b, y, x, d, i + j)
  BY SameShift
<1>3. \A n \in Int : i + n = 0 => At(v, u, d, n) = <<y, x>>
  <2>1. \A n \in Int : At(v, u, d, n) = At(y, x, d, i + n)
    BY AtShift, Whole
  <2> QED BY <2>1, AtZero, Whole
<1> QED BY <1>1, <1>2, <1>3

\* Two runs of WinCount stones in all are a line through the cell.
LEMMA RunsLine ==
  ASSUME NEW b, NEW y \in Lines, NEW x \in Lines, NEW d \in Directions,
         b[Cell(y, x)] # Blank, Wins(b, y, x, d)
  PROVE  \E v, u \in Lines :
            LineOn(b, v, u, d) /\ \E i \in 0..WinCount : At(v, u, d, i) = <<y, x>>
<1>1. PICK k \in Nat, l \in Nat :
         Run(b, y, x, d, k) /\ Run(b, y, x, Opposite(d), l) /\ k + l = WinCount
  BY DEF Wins
<1>2. d \in Eight
  BY Ways
<1>3. PICK n \in Int : n = -l
  BY <1>1
<1>4. \A i \in Int : Same(b, y, x, Opposite(d), i) <=> Same(b, y, x, d, -i)
  BY <1>2, SameOpposite
<1>5. \A i \in n..k : Same(b, y, x, d, i)
  <2> SUFFICES ASSUME NEW i \in n..k PROVE Same(b, y, x, d, i)
    OBVIOUS
  <2>1. CASE i >= 0
    <3>1. i \in 0..k
      BY <1>1, <1>3, <2>1
    <3> QED BY <1>1, <3>1 DEF Run
  <2>2. CASE ~(i >= 0)
    <3>1. PICK m \in Int : m = -i /\ -m = i /\ m \in 0..l
      BY <1>1, <1>3, <2>2
    <3> QED BY <1>1, <1>4, <3>1 DEF Run
  <2> QED BY <2>1, <2>2
<1>6. ~Same(b, y, x, d, k + 1) /\ ~Same(b, y, x, d, n - 1)
  <2>1. PICK m \in Int : m = l + 1 /\ -m = n - 1
    BY <1>1, <1>3
  <2> QED BY <1>1, <1>4, <2>1 DEF Run
<1>7. Same(b, y, x, d, n)
  <2>1. n \in n..k
    BY <1>1, <1>3
  <2> QED BY <1>5, <2>1
<1>8. PICK v, u : <<v, u>> = At(y, x, d, n)
  BY DEF At
<1>9. /\ v \in Lines /\ u \in Lines /\ b[Cell(v, u)] = b[Cell(y, x)]
      /\ \A j \in Int : Same(b, v, u, d, j) <=> Same(b, y, x, d, n + j)
      /\ \A m \in Int : n + m = 0 => At(v, u, d, m) = <<y, x>>
  BY <1>2, <1>7, <1>8, Through
<1>10. LineOn(b, v, u, d)
  <2>1. \A j \in 0..WinCount : j \in Int /\ n + j \in n..k
    BY <1>1, <1>3, BoardAssumption
  <2>2. n + (-1) = n - 1 /\ n + (WinCount + 1) = k + 1 /\ -1 \in Int /\ WinCount + 1 \in Int
    BY <1>1, <1>3, BoardAssumption
  <2>3. ~Same(b, v, u, d, -1) /\ ~Same(b, v, u, d, WinCount + 1)
    BY <1>6, <1>9, <2>2
  <2>4. \A j \in 0..WinCount : Same(b, v, u, d, j)
    BY <1>5, <1>9, <2>1
  <2> QED BY <1>9, <2>3, <2>4 DEF LineOn
<1>11. l \in 0..WinCount /\ At(v, u, d, l) = <<y, x>>
  <2>1. l \in 0..WinCount /\ l \in Int /\ n + l = 0
    BY <1>1, <1>3
  <2> QED BY <1>9, <2>1
<1> QED BY <1>9, <1>10, <1>11

\* A line through the cell is two runs of WinCount stones in all.
LEMMA LineRuns ==
  ASSUME NEW b, NEW y \in Lines, NEW x \in Lines, NEW d \in Directions,
         NEW v \in Lines, NEW u \in Lines, LineOn(b, v, u, d),
         NEW i \in 0..WinCount, At(v, u, d, i) = <<y, x>>
  PROVE  Wins(b, y, x, d)
<1>1. d \in Eight
  BY Ways
<1>2. i \in Int /\ i \in Nat /\ WinCount - i \in Nat /\ i + (WinCount - i) = WinCount
  BY BoardAssumption
<1>3. Same(b, v, u, d, i)
  BY DEF LineOn
<1>4. \A j \in Int : Same(b, y, x, d, j) <=> Same(b, v, u, d, i + j)
  BY <1>1, <1>2, <1>3, Through
<1>5. Run(b, y, x, d, WinCount - i)
  <2>1. \A j \in 0..WinCount - i : j \in Int /\ i + j \in 0..WinCount
    BY <1>2
  <2>2. PICK m \in Int : m = WinCount - i + 1 /\ i + m = WinCount + 1
    BY <1>2
  <2>3. ~Same(b, y, x, d, m)
    BY <1>4, <2>2 DEF LineOn
  <2> QED BY <1>4, <2>1, <2>2, <2>3 DEF LineOn, Run
<1>6. \A j \in Int : Same(b, y, x, Opposite(d), j) <=> Same(b, y, x, d, -j)
  BY <1>1, SameOpposite
<1>7. Run(b, y, x, Opposite(d), i)
  <2>1. ASSUME NEW j \in 0..i PROVE Same(b, y, x, Opposite(d), j)
    <3>1. PICK n \in Int : n = -j /\ i + n \in 0..WinCount
      BY <1>2
    <3>2. Same(b, y, x, d, n)
      BY <1>4, <3>1 DEF LineOn
    <3>3. j \in Int
      BY <1>2
    <3> QED BY <1>6, <3>1, <3>2, <3>3
  <2>2. ~Same(b, y, x, Opposite(d), i + 1)
    <3>1. PICK n \in Int : n = -(i + 1) /\ i + n = -1
      BY <1>2
    <3>2. ~Same(b, y, x, d, n)
      BY <1>4, <3>1 DEF LineOn
    <3>3. i + 1 \in Int
      BY <1>2
    <3> QED BY <1>6, <3>1, <3>2, <3>3
  <2> QED BY <2>1, <2>2 DEF Run
<1> QED BY <1>2, <1>5, <1>7 DEF Wins

-----------------------------------------------------------------------------
\* The three types of a cell differ.
LEMMA Distinct == Black # White /\ Black # Blank /\ White # Blank
<1>1. ASSUME NEW p, NEW q PROVE Cardinality({p, q}) <= 2
  <2>1. IsFiniteSet({q}) /\ Cardinality({q}) = 1
    BY FS_Singleton
  <2>2. Cardinality({q} \cup {p}) = IF p \in {q} THEN 1 ELSE 1 + 1
    BY <2>1, FS_AddElement
  <2>3. {q} \cup {p} = {p, q}
    OBVIOUS
  <2> QED BY <2>2, <2>3
<1>2. Cardinality({Black, White, Blank}) = 3
  BY BoardAssumption
<1>3. \A p, q : {Black, White, Blank} # {p, q}
  BY <1>1, <1>2
<1> QED BY <1>3

\* The board is finite.
LEMMA CellsFinite == IsFiniteSet(Cells)
<1>1. MaxLine * MaxLine - 1 \in Int
  BY BoardAssumption
<1> QED BY <1>1, FS_Interval DEF Cells

Stones == {c \in Cells : stones[c] # Blank}

\* A stone of either colour is put on a free cell of the board.
LEMMA PutStep ==
  ASSUME TypeOK, NEW y \in 0..MaxLine, NEW x \in 0..MaxLine, NEW type \in Types, Put(y, x, type)
  PROVE  /\ y \in Lines /\ x \in Lines /\ type # Blank
         /\ stones[Cell(y, x)] = Blank
         /\ stones' = [stones EXCEPT ![Cell(y, x)] = type]
         /\ start /\ start' = ~CheckWin(stones', Cell(y, x))
         /\ result' = IF CheckWin(stones', Cell(y, x)) THEN Cell(y, x) ELSE NoCell
<1>1. y \in Lines /\ x \in Lines
  BY BoardAssumption DEF Put, Free, OnBoard, Lines
<1>2. type # Blank
  BY Distinct DEF Types
<1> QED BY <1>1, <1>2 DEF Put, Free

\* Every step keeps the types and the count of the stones.
LEMMA TypeStep ==
  ASSUME TypeOK, [Next]_vars
  PROVE  TypeOK'
<1>1. CASE UNCHANGED vars
  BY <1>1 DEF vars, TypeOK
<1>2. ASSUME NEW y \in 0..MaxLine, NEW x \in 0..MaxLine, Refuse(y, x) PROVE TypeOK'
  BY <1>2 DEF Refuse, vars, TypeOK
<1>3. ASSUME NEW y \in 0..MaxLine, NEW x \in 0..MaxLine, NEW type \in Types, Put(y, x, type)
      PROVE  TypeOK'
  <2> DEFINE c == Cell(y, x)
  <2>1. c \in Cells
    BY <1>3, PutStep, Placed
  <2>2. /\ stones[c] = Blank /\ stones' = [stones EXCEPT ![c] = type]
        /\ start' \in BOOLEAN /\ result' \in {c, NoCell}
    BY <1>3, PutStep
  <2>3. type \in {Black, White} /\ type # Blank
    BY Distinct DEF Types
  <2>4. stones' \in [Cells -> {Black, White, Blank}]
    BY <2>2, <2>3 DEF TypeOK
  <2>5. Stones' = Stones \cup {c} /\ c \notin Stones
    BY <2>1, <2>2, <2>3 DEF Stones, TypeOK
  <2>6. IsFiniteSet(Stones)
    BY CellsFinite, FS_Subset DEF Stones
  <2>7. Cardinality(Stones') = Cardinality(Stones) + 1
    BY <2>5, <2>6, FS_AddElement
  <2>8. moves' = Cardinality(Stones')
    BY <1>3, <2>7 DEF TypeOK, Stones, Put
  <2> QED BY <2>1, <2>2, <2>4, <2>8 DEF TypeOK, Stones
<1> QED BY <1>1, <1>2, <1>3 DEF Next, PlayStone

\* The board holds as many stones as were put, whatever the size of the board
\* and the number of stones that win.
THEOREM BoardTypes == Spec => []TypeOK
<1>1. Init => TypeOK
  <2> SUFFICES ASSUME Init PROVE TypeOK
    OBVIOUS
  <2>1. Stones = {}
    BY DEF Init, Stones
  <2>2. moves = Cardinality(Stones)
    BY <2>1, FS_EmptySet DEF Init
  <2> QED BY <2>2 DEF Init, TypeOK, Stones
<1> QED BY <1>1, TypeStep, PTL DEF Spec

\* A stone elsewhere neither makes a line nor breaks its ends.
LEMMA LineBefore ==
  ASSUME TypeOK, NEW c \in Cells, NEW s, stones[c] = Blank,
         NEW b, b = [stones EXCEPT ![c] = s],
         NEW y \in Lines, NEW x \in Lines, NEW d \in Directions, LineOn(b, y, x, d),
         \A i \in 0..WinCount : At(y, x, d, i) # <<c \div MaxLine, c % MaxLine>>
  PROVE  LineOn(stones, y, x, d)
<1>1. \A p : Inside(p) /\ p # <<c \div MaxLine, c % MaxLine>> /\ p = <<p[1], p[2]>>
               => b[Cell(p[1], p[2])] = stones[Cell(p[1], p[2])]
  <2> SUFFICES ASSUME NEW p, Inside(p), p # <<c \div MaxLine, c % MaxLine>>, p = <<p[1], p[2]>>
               PROVE  b[Cell(p[1], p[2])] = stones[Cell(p[1], p[2])]
    OBVIOUS
  <2>1. Cell(p[1], p[2]) \in Cells
    BY Placed DEF Inside
  <2>2. Cell(p[1], p[2]) # c
    BY Placed DEF Inside
  <2> QED BY <2>1, <2>2 DEF TypeOK
<1>2. /\ At(y, x, d, 0) = <<y, x>> /\ 0 \in 0..WinCount
      /\ \A i : At(y, x, d, i) = <<At(y, x, d, i)[1], At(y, x, d, i)[2]>>
  BY AtZero, Ways, Whole, BoardAssumption DEF At
<1>3. b[Cell(y, x)] = stones[Cell(y, x)]
  <2>1. <<y, x>> # <<c \div MaxLine, c % MaxLine>> /\ Inside(<<y, x>>)
    BY <1>2 DEF Inside
  <2> QED BY <1>1, <2>1
<1>4. \A i \in 0..WinCount : Same(stones, y, x, d, i)
  BY <1>1, <1>2, <1>3 DEF LineOn, Same
<1>5. ASSUME NEW i, ~Same(b, y, x, d, i) PROVE ~Same(stones, y, x, d, i)
  <2>1. CASE At(y, x, d, i) = <<c \div MaxLine, c % MaxLine>>
    <3>1. stones[Cell(At(y, x, d, i)[1], At(y, x, d, i)[2])] = Blank
      BY <2>1, Coordinated
    <3> QED BY <1>3, <3>1 DEF LineOn, Same
  <2>2. CASE At(y, x, d, i) # <<c \div MaxLine, c % MaxLine>>
    BY <1>1, <1>2, <1>3, <1>5, <2>2 DEF Same
  <2> QED BY <2>1, <2>2
<1> QED BY <1>3, <1>4, <1>5 DEF LineOn

\* A stone is put: CheckWin sees every line it completes, and no other.
LEMMA WinStep ==
  ASSUME TypeOK, WinExact, NEW y \in 0..MaxLine, NEW x \in 0..MaxLine, NEW type \in Types,
         Put(y, x, type)
  PROVE  WinExact'
<1> DEFINE c == Cell(y, x)
<1>1. /\ y \in Lines /\ x \in Lines /\ stones[c] = Blank /\ type # Blank
      /\ stones' = [stones EXCEPT ![c] = type]
      /\ start /\ start' = ~CheckWin(stones', c)
      /\ result' = IF CheckWin(stones', c) THEN c ELSE NoCell
  BY PutStep
<1>2. c = Cell(y, x) /\ c \in Cells /\ <<c \div MaxLine, c % MaxLine>> = <<y, x>>
  BY <1>1, Placed
<1>3. stones'[c] = type /\ stones'[c] # Blank
  BY <1>1, <1>2 DEF TypeOK
<1>4. CheckWin(stones', c) <=> \E d \in Directions : Wins(stones', y, x, d)
  BY <1>1, CheckWinRuns
<1>5. \A v, u \in Lines, d \in Directions : Line(v, u, d)' <=> LineOn(stones', v, u, d)
  BY LineIsOn
<1> HIDE DEF c
<1>6. ASSUME ~CheckWin(stones', c), NEW v \in Lines, NEW u \in Lines, NEW d \in Directions,
             Line(v, u, d)'
      PROVE  FALSE
  <2>1. LineOn(stones', v, u, d)
    BY <1>5, <1>6
  <2>2. ASSUME NEW i \in 0..WinCount PROVE At(v, u, d, i) # <<y, x>>
    BY <1>1, <1>4, <1>6, <2>1, LineRuns
  <2>3. LineOn(stones, v, u, d)
    BY <1>1, <1>2, <2>1, <2>2, LineBefore
  <2> QED BY <1>1, <2>3, LineIsOn DEF WinExact, NoMissedWin
<1>7. NoMissedWin'
  BY <1>1, <1>6 DEF NoMissedWin
<1>8. ASSUME CheckWin(stones', c) PROVE LineThrough(c)'
  <2>1. PICK d \in Directions : Wins(stones', y, x, d)
    BY <1>4, <1>8
  <2>2. y \in Lines /\ x \in Lines /\ stones'[Cell(y, x)] # Blank
    BY <1>1, <1>2, <1>3
  <2>3. PICK v \in Lines, u \in Lines :
           LineOn(stones', v, u, d) /\ \E i \in 0..WinCount : At(v, u, d, i) = <<y, x>>
    BY <2>1, <2>2, RunsLine
  <2> QED BY <1>2, <1>5, <2>2, <2>3 DEF LineThrough
<1>9. WinJustified'
  <2>1. CASE CheckWin(stones', c)
    BY <1>1, <1>8, <2>1 DEF WinJustified
  <2>2. CASE ~CheckWin(stones', c)
    BY <1>1, <2>2 DEF WinJustified
  <2> QED BY <2>1, <2>2
<1> QED BY <1>7, <1>9 DEF WinExact

\* A game ends exactly when a line of WinCount + 1 stones, and no more, stands:
\* the walk of CheckWin, its uint16 coordinates included, misses none and
\* invents none, on any board, for any line length, and whatever colours are put
\* in whatever order.
THEOREM CheckWinExact == Spec => []WinExact
<1>1. Init => WinExact
  <2> SUFFICES ASSUME Init PROVE WinExact
    OBVIOUS
  <2>1. \A y, x \in Lines : stones[Cell(y, x)] = Blank
    BY Placed DEF Init
  <2> QED BY <2>1 DEF Init, WinExact, NoMissedWin, WinJustified, Line
<1>2. TypeOK /\ WinExact /\ [Next]_vars => WinExact'
  <2> SUFFICES ASSUME TypeOK, WinExact, [Next]_vars PROVE WinExact'
    OBVIOUS
  <2>1. ASSUME UNCHANGED vars PROVE WinExact'
    BY <2>1 DEF vars, WinExact, NoMissedWin, WinJustified, LineThrough, Line, TypeAt
  <2>2. ASSUME NEW y \in 0..MaxLine, NEW x \in 0..MaxLine, Refuse(y, x) PROVE WinExact'
    BY <2>1, <2>2 DEF Refuse
  <2> QED BY <2>1, <2>2, WinStep DEF Next, PlayStone
<1> QED BY <1>1, <1>2, BoardTypes, PTL DEF Spec
=============================================================================
