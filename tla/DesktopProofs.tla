---------------------------- MODULE DesktopProofs ---------------------------
(***************************************************************************)
(* The small desktop programs: the game of sdl_tetris on every board, with *)
(* every set of shapes that fits it at the top and every table of levels;  *)
(* the month sheet of the calendar for every year of our era; the keypad   *)
(* of the calculator for every width of its display.                       *)
(***************************************************************************)
EXTENDS Tetris, Calendar, Calculator, FiniteSetTheorems, SequenceTheorems,
        Iteration

-----------------------------------------------------------------------------
(* sdl_tetris *)

Cells == Columns \X Rows

\* A shape is compact and has a block at its centre, also when it is turned.
IsShape(shape) ==
  /\ shape \in Seq(Int \X Int)
  /\ Compact(shape)
  /\ \E i \in 1..Len(shape) : shape[i] = <<0, 0>>

TopFree(g) == \A x \in Columns : <<x, 0>> \notin g

\* The numbers the constants stand for.
LEMMA Numbers ==
  /\ GRID_WIDTH \in Nat /\ GRID_WIDTH > 0 /\ GRID_HEIGHT \in Nat /\ GRID_HEIGHT > 2
  /\ 0 \in Columns /\ 0 \in Rows /\ GRID_WIDTH \div 2 \in Int
  /\ \A n \in Int : n \in Rows <=> 0 <= n /\ n < GRID_HEIGHT
  /\ ByteRange \in Nat /\ ByteRange > 0
BY TAssumption DEF Columns, Rows

\* A shape that fits has its centre between the walls and above the floor.
LEMMA CentreFits ==
  ASSUME NEW g, NEW shape, IsShape(shape), NEW x \in Int, NEW y \in Int,
         Fits(g, shape, x, y)
  PROVE  x \in Columns /\ y < GRID_HEIGHT
<1>1. PICK i \in 1..Len(shape) : shape[i] = <<0, 0>>
  BY DEF IsShape
<1>2. Blocks(shape, x, y)[i] = <<x, y>>
  BY <1>1 DEF Blocks
<1>3. ~detect_collision(g, <<x, y>>)
  BY <1>2 DEF Fits
<1> QED
  BY <1>3, Numbers DEF detect_collision

\* A new shape is one of SHAPES, in the middle and at the top ...
LEMMA SpawnTypes ==
  ASSUME NEW g, NEW s \in 1..Len(SHAPES)
  PROVE  /\ IsShape(SHAPES[s]) /\ GRID_WIDTH \div 2 \in Columns
         /\ SpawnRow(g, SHAPES[s]) \in -2..0
<1>1. IsShape(SHAPES[s])
  <2>1. SHAPES \in Seq(Seq(Int \X Int))
    BY TAssumption
  <2>2. SHAPES[s] \in Seq(Int \X Int)
    BY <2>1
  <2>3. Compact(SHAPES[s]) /\ \E i \in 1..Len(SHAPES[s]) : SHAPES[s][i] = <<0, 0>>
    BY TAssumption
  <2> QED
    BY <2>2, <2>3 DEF IsShape
<1>2. PICK i \in 1..Len(SHAPES[s]) : SHAPES[s][i] = <<0, 0>>
  BY <1>1 DEF IsShape
<1>3. GRID_WIDTH \div 2 + SHAPES[s][i][1] \in Columns
  BY TAssumption DEF Columns
<1>4. GRID_WIDTH \div 2 \in Columns
  BY <1>2, <1>3, Numbers
<1>5. SpawnRow(g, SHAPES[s]) \in {-2, -1, 0}
  BY DEF SpawnRow
<1> QED
  BY <1>1, <1>4, <1>5

\* ... where spawn_shape finds it a free place, although it only looks for the
\* blocks below it: the top row is free while the game is on.
LEMMA SpawnFits ==
  ASSUME NEW g, TopFree(g), NEW s \in 1..Len(SHAPES)
  PROVE  Fits(g, SHAPES[s], GRID_WIDTH \div 2, SpawnRow(g, SHAPES[s]))
<1> DEFINE shape == SHAPES[s]
           m == GRID_WIDTH \div 2
           Hit(y) == \E i \in 1..Len(shape) : LET c == Blocks(shape, m, y + 1)[i]
                                              IN  c[2] >= 0 /\ c \in g
           y == SpawnRow(g, shape)
<1>1. y = IF Hit(-2) THEN -2 ELSE IF Hit(-1) THEN -1 ELSE 0
  BY DEF SpawnRow
<1>2. ASSUME NEW i \in 1..Len(shape)
      PROVE  ~detect_collision(g, Blocks(shape, m, y)[i])
  <2> DEFINE dx == shape[i][1]
             dy == shape[i][2]
  <2>1. dx \in Int /\ dy \in Int /\ m \in Int
    <3>1. shape \in Seq(Int \X Int)
      BY SpawnTypes DEF IsShape
    <3>2. shape[i] \in Int \X Int
      BY <3>1
    <3> QED
      BY <3>2, Numbers
  <2>2. m + dx \in Columns /\ dy \in -1..2
    BY TAssumption DEF Columns
  <2>3. y \in Int /\ y \in -2..0
    <3>1. y \in -2..0
      BY SpawnTypes
    <3>2. \A r \in -2..0 : r \in Int
      OBVIOUS
    <3> HIDE DEF y
    <3> QED
      BY <3>1, <3>2
  <2>4. \A r \in Int : Blocks(shape, m, r)[i] = <<dx + m, dy + r>>
    BY DEF Blocks
  <2>5. y = -2 => dy + y < 0 \/ (dy + y = 0 /\ <<dx + m, dy + y>> \notin g)
    <3>1. dx + m \in Columns
      BY <2>1, <2>2
    <3> QED
      BY <2>1, <2>2, <3>1 DEF TopFree
  <2>6. y = -1 => dy + y < 0 \/ <<dx + m, dy + y>> \notin g
    <3> DEFINE c == Blocks(shape, m, -2 + 1)[i]
    <3>1. y = -1 => ~(c[2] >= 0 /\ c \in g)
      BY <1>1
    <3>2. c = <<dx + m, dy + (-1)>>
      BY <2>4
    <3> HIDE DEF c, dx, dy, m, shape
    <3>3. dy + (-1) < 0 \/ dy + (-1) >= 0
      BY <2>1
    <3> QED
      BY <3>1, <3>2, <3>3
  <2>7. y = 0 => dy + y < 0 \/ <<dx + m, dy + y>> \notin g
    <3> DEFINE c == Blocks(shape, m, -1 + 1)[i]
    <3>1. y = 0 => ~(c[2] >= 0 /\ c \in g)
      BY <1>1
    <3>2. c = <<dx + m, dy + (0)>>
      BY <2>4
    <3> HIDE DEF c, dx, dy, m, shape
    <3>3. dy + (0) < 0 \/ dy + (0) >= 0
      BY <2>1
    <3> QED
      BY <3>1, <3>2, <3>3
  <2> HIDE DEF dx, dy, m, y, shape
  <2>8. dx + m \in Columns /\ dy + y < GRID_HEIGHT
    BY <2>1, <2>2, <2>3, Numbers
  <2>9. ~(dy + y >= 0 /\ <<dx + m, dy + y>> \in g)
    BY <2>1, <2>3, <2>5, <2>6, <2>7
  <2>10. ~(dy + y >= GRID_HEIGHT)
    BY <2>1, <2>3, <2>8, Numbers
  <2> QED
    BY <2>3, <2>4, <2>8, <2>9, <2>10 DEF detect_collision
<1> QED
  BY <1>2 DEF Fits

-----------------------------------------------------------------------------
(* Rows *)

\* destroy_row() cell by cell.
LEMMA DestroyedCells ==
  ASSUME NEW g, g \subseteq Cells, NEW row \in Rows
  PROVE  /\ destroy_row(g, row) \subseteq Cells
         /\ \A x \in Columns, y \in Rows :
              <<x, y>> \in destroy_row(g, row) <=>
                 IF y > row THEN <<x, y>> \in g
                 ELSE IF y = 0 THEN row > 0 /\ <<x, 0>> \in g
                 ELSE <<x, y - 1>> \in g
<1>1. row \in Int /\ \A y \in Rows : y \in Int
  BY DEF Rows
<1>2. ASSUME NEW c \in g
      PROVE  /\ c = <<c[1], c[2]>> /\ c[1] \in Columns /\ c[2] \in Rows
  BY DEF Cells
<1>3. ASSUME NEW c \in g, c[2] < row
      PROVE  <<c[1], c[2] + 1>> \in Cells
  <2>1. c[2] + 1 \in Rows
    BY <1>1, <1>2, <1>3, Numbers
  <2> QED
    BY <1>2, <2>1 DEF Cells
<1>4. destroy_row(g, row) \subseteq Cells
  BY <1>3 DEF destroy_row
<1>5. ASSUME NEW x \in Columns, NEW y \in Rows
      PROVE  <<x, y>> \in destroy_row(g, row) <=>
                 IF y > row THEN <<x, y>> \in g
                 ELSE IF y = 0 THEN row > 0 /\ <<x, 0>> \in g
                 ELSE <<x, y - 1>> \in g
  <2>1. <<x, y>> \in {c \in g : c[2] > row \/ (c[2] = 0 /\ row > 0)}
          <=> <<x, y>> \in g /\ (y > row \/ (y = 0 /\ row > 0))
    OBVIOUS
  <2>2. <<x, y>> \in {<<c[1], c[2] + 1>> : c \in {d \in g : d[2] < row}}
          <=> <<x, y - 1>> \in g /\ y - 1 < row
    <3>1. ASSUME NEW c \in g, c[2] < row, <<x, y>> = <<c[1], c[2] + 1>>
          PROVE  <<x, y - 1>> \in g /\ y - 1 < row
      <4>1. c[1] = x /\ c[2] = y - 1
        BY <1>1, <1>2, <3>1
      <4> QED
        BY <1>2, <3>1, <4>1
    <3>2. ASSUME <<x, y - 1>> \in g, y - 1 < row
          PROVE  \E c \in g : c[2] < row /\ <<x, y>> = <<c[1], c[2] + 1>>
      BY <1>1, <3>2
    <3> QED
      BY <3>1, <3>2
  <2>3. <<x, y - 1>> \in g => y - 1 >= 0
    BY <1>1, <1>2, Numbers
  <2>4. y \in Int /\ y >= 0
    BY <1>1, Numbers
  <2>5. <<x, y>> \in destroy_row(g, row) <=>
          \/ <<x, y>> \in g /\ (y > row \/ (y = 0 /\ row > 0))
          \/ <<x, y - 1>> \in g /\ y - 1 < row
    BY <2>1, <2>2 DEF destroy_row
  <2>6. CASE y > row
    BY <1>1, <2>4, <2>5, <2>6, Numbers
  <2>7. CASE ~(y > row) /\ y = 0
    BY <1>1, <2>3, <2>5, <2>7
  <2>8. CASE ~(y > row) /\ y # 0
    BY <1>1, <2>4, <2>5, <2>8
  <2> QED
    BY <2>6, <2>7, <2>8
<1> QED
  BY <1>4, <1>5

\* What is left full: what was full below the row, and above it one row up.
LEMMA DestroyedRows ==
  ASSUME NEW g, g \subseteq Cells, NEW row \in Rows, NEW y \in Rows,
         RowFull(destroy_row(g, row), y)
  PROVE  \/ y > row /\ RowFull(g, y)
         \/ y = 0 /\ row > 0 /\ RowFull(g, 0)
         \/ y > 0 /\ y <= row /\ y - 1 \in Rows /\ RowFull(g, y - 1)
<1>1. row \in Int /\ y \in Int /\ y >= 0
  BY Numbers DEF Rows
<1>2. CASE y > row
  BY <1>2, DestroyedCells DEF RowFull
<1>3. CASE ~(y > row) /\ y = 0
  BY <1>3, DestroyedCells, Numbers DEF RowFull
<1>4. CASE ~(y > row) /\ y # 0
  <2>1. y - 1 \in Rows /\ y > 0 /\ y <= row
    BY <1>1, <1>4, Numbers
  <2> QED
    BY <1>4, <2>1, DestroyedCells DEF RowFull
<1> QED
  BY <1>2, <1>3, <1>4

\* What clean_destroyed_blocks() has reached with k rows behind it: no full row
\* is left above, and every full row below is marked.
Swept(g, rows, k, h) ==
  /\ h \subseteq Cells
  /\ \A y \in Rows : RowFull(h, y) => y >= k /\ y \in rows
  /\ TopFree(g) \/ (0 \in rows /\ k > 0) => TopFree(h)

\* One row more, marked or not.
LEMMA SweptMore ==
  ASSUME NEW g, NEW rows, NEW k \in Rows, NEW h, Swept(g, rows, k, h)
  PROVE  Swept(g, rows, k + 1, IF k \in rows THEN destroy_row(h, k) ELSE h)
<1>1. k \in Int /\ k >= 0 /\ \A y \in Rows : y \in Int
  BY Numbers DEF Rows
<1>2. CASE k \notin rows
  <2>1. ASSUME NEW y \in Rows, RowFull(h, y)
        PROVE  y >= k + 1 /\ y \in rows
    BY <1>1, <1>2, <2>1 DEF Swept
  <2>2. 0 \in rows /\ k + 1 > 0 => k > 0
    BY <1>1, <1>2
  <2> QED
    BY <1>2, <2>1, <2>2 DEF Swept
<1>3. CASE k \in rows
  <2> DEFINE d == destroy_row(h, k)
  <2>1. h \subseteq Cells /\ d \subseteq Cells
    BY DestroyedCells DEF Swept
  <2>2. ASSUME NEW y \in Rows, RowFull(d, y)
        PROVE  y >= k + 1 /\ y \in rows
    <3>1. \/ y > k /\ RowFull(h, y)
          \/ y = 0 /\ k > 0 /\ RowFull(h, 0)
          \/ y > 0 /\ y <= k /\ y - 1 \in Rows /\ RowFull(h, y - 1)
      BY <2>1, <2>2, DestroyedRows
    <3>2. CASE y > k /\ RowFull(h, y)
      BY <1>1, <3>2 DEF Swept
    <3>3. CASE y = 0 /\ k > 0 /\ RowFull(h, 0)
      BY <1>1, <3>3, Numbers DEF Swept
    <3>4. CASE y > 0 /\ y <= k /\ y - 1 \in Rows /\ RowFull(h, y - 1)
      <4>1. y - 1 >= k
        BY <3>4 DEF Swept
      <4> QED
        BY <1>1, <3>4, <4>1
    <3> QED
      BY <3>1, <3>2, <3>3, <3>4
  <2>3. ASSUME TopFree(g) \/ (0 \in rows /\ k + 1 > 0)
        PROVE  TopFree(d)
    <3>1. \A x \in Columns : <<x, 0>> \in d <=> k > 0 /\ <<x, 0>> \in h
      <4>1. ~(0 > k)
        BY <1>1
      <4> QED
        BY <2>1, <4>1, DestroyedCells, Numbers
    <3>2. k > 0 => TopFree(h)
      BY <2>3 DEF Swept
    <3> QED
      BY <3>1, <3>2 DEF TopFree
  <2> HIDE DEF d
  <2>4. Swept(g, rows, k + 1, d)
    BY <2>1, <2>2, <2>3 DEF Swept
  <2> QED
    BY <1>3, <2>4 DEF d
<1> QED
  BY <1>2, <1>3

\* The sweep, row by row.
LEMMA CleanSteps ==
  ASSUME NEW g, g \subseteq Cells, NEW rows
  PROVE  \E f : /\ f[0] = g
                /\ \A k \in 1..GRID_HEIGHT :
                      f[k] = IF k - 1 \in rows THEN destroy_row(f[k - 1], k - 1) ELSE f[k - 1]
                /\ clean_destroyed_blocks(g, rows) = f[GRID_HEIGHT]
<1> DEFINE n == GRID_HEIGHT
           S == SUBSET Cells
           Step(h, k) == IF k - 1 \in rows THEN destroy_row(h, k - 1) ELSE h
           st == [k \in 1..n |-> [h \in S |-> Step(h, k)]]
           Body(f) == [k \in 0..n |-> IF k = 0 THEN g ELSE Step(f[k - 1], k)]
<1>1. n \in Nat /\ g \in S
  BY Numbers
<1>2. ASSUME NEW k \in 1..n, NEW h \in S
      PROVE  Step(h, k) \in S
  <2>1. k - 1 \in Rows
    BY <1>1, Numbers
  <2> QED
    BY <2>1, DestroyedCells
<1>3. st \in [1..n -> [S -> S]]
  <2> HIDE DEF Step, S
  <2> QED
    BY <1>2
<1>4. \E f : IsRun(f, S, g, n, st)
  <2> HIDE DEF st, S, n
  <2> QED
    BY <1>1, <1>3, RunExists, Zenon
<1>5. PICK f : /\ f \in [0..n -> S] /\ f[0] = g
               /\ \A k \in 1..n : f[k] = st[k][f[k - 1]]
  BY <1>4 DEF IsRun
<1>6. f = Body(f)
  <2>1. ASSUME NEW k \in 0..n, k # 0
        PROVE  f[k] = Step(f[k - 1], k)
    <3>1. k \in 1..n /\ k - 1 \in 0..n
      BY <1>1, <2>1
    <3>2. f[k - 1] \in S
      BY <1>5, <3>1
    <3> HIDE DEF Step, S
    <3> QED
      BY <1>5, <3>1, <3>2
  <2> HIDE DEF Step, S
  <2> QED
    BY <1>5, <2>1
<1> DEFINE u == CHOOSE h : h = Body(h)
<1>7. u = Body(u)
  <2> HIDE DEF Body
  <2> QED
    BY <1>6
<1>8. clean_destroyed_blocks(g, rows) = u[n]
  BY DEF clean_destroyed_blocks
<1> HIDE DEF u
<1>9. u[0] = g
  BY <1>1, <1>7
<1>10. ASSUME NEW k \in 1..n
       PROVE  u[k] = Step(u[k - 1], k)
  <2>1. k \in 0..n /\ k # 0
    BY <1>1
  <2> HIDE DEF Step
  <2> QED
    BY <1>7, <2>1
<1> QED
  BY <1>8, <1>9, <1>10

\* When every full row is marked, none is left.
LEMMA Cleaned ==
  ASSUME NEW g, g \subseteq Cells, NEW rows,
         \A y \in Rows : RowFull(g, y) => y \in rows
  PROVE  /\ clean_destroyed_blocks(g, rows) \subseteq Cells
         /\ \A y \in Rows : ~RowFull(clean_destroyed_blocks(g, rows), y)
         /\ TopFree(g) \/ 0 \in rows => TopFree(clean_destroyed_blocks(g, rows))
<1>1. PICK f : /\ f[0] = g
               /\ \A k \in 1..GRID_HEIGHT :
                     f[k] = IF k - 1 \in rows THEN destroy_row(f[k - 1], k - 1) ELSE f[k - 1]
               /\ clean_destroyed_blocks(g, rows) = f[GRID_HEIGHT]
  BY CleanSteps
<1> DEFINE G == {k \in 0..GRID_HEIGHT : Swept(g, rows, k, f[k])}
<1>2. GRID_HEIGHT \in Nat /\ GRID_HEIGHT > 0 /\ 0 \in 0..GRID_HEIGHT
      /\ GRID_HEIGHT \in 0..GRID_HEIGHT /\ \A y \in Rows : y \in Int /\ y >= 0
  BY Numbers DEF Rows
<1>3. 0 \in G
  <2>1. Swept(g, rows, 0, g)
    BY <1>2 DEF Swept
  <2> QED
    BY <1>1, <1>2, <2>1
<1>4. ASSUME NEW k \in 1..GRID_HEIGHT, k - 1 \in G
      PROVE  k \in G
  <2>1. k - 1 \in Rows /\ k - 1 + 1 = k /\ k \in 0..GRID_HEIGHT
    BY <1>2, Numbers
  <2>2. Swept(g, rows, k - 1, f[k - 1])
    BY <1>4
  <2>3. Swept(g, rows, k - 1 + 1, f[k])
    BY <1>1, <2>1, <2>2, SweptMore
  <2> QED
    BY <2>1, <2>3
<1>5. GRID_HEIGHT \in G
  <2> HIDE DEF G
  <2> QED
    BY <1>2, <1>3, <1>4, Induction
<1>6. Swept(g, rows, GRID_HEIGHT, clean_destroyed_blocks(g, rows))
  BY <1>1, <1>5
<1>7. \A y \in Rows : ~(y >= GRID_HEIGHT)
  BY <1>2, Numbers
<1> QED
  BY <1>2, <1>6, <1>7 DEF Swept

-----------------------------------------------------------------------------
(* The invariant *)

\* Inductive: the shape is one, and the top row is free while the game is on.
TInv ==
  /\ TTypeOK
  /\ IsShape(current_shape)
  /\ NoFullRows
  /\ ~game_over => TopFree(grid)
  /\ ShapeFits
  /\ ScreenFresh

\* The table of levels gives a positive delay for every level.
LEMMA FallFreqType ==
  ASSUME NEW level \in Nat
  PROVE  FallFreq(level) \in Nat \ {0}
<1>1. LEVEL_FREQS \in Seq(Nat \ {0}) /\ Len(LEVEL_FREQS) \in Nat /\ Len(LEVEL_FREQS) > 0
  BY TAssumption
<1> DEFINE l == IF level >= Len(LEVEL_FREQS) THEN Len(LEVEL_FREQS) ELSE level + 1
<1>2. l \in 1..Len(LEVEL_FREQS)
  BY <1>1
<1>3. LEVEL_FREQS[l] \in Nat \ {0}
  BY <1>1, <1>2
<1> QED
  BY <1>3 DEF FallFreq

\* What an input leaves for the rest of the frame.
Steers(p) ==
  /\ IsShape(p.shape) /\ p.x \in Int
  /\ Fits(grid, p.shape, p.x, current_y)
  /\ p.iteration = iteration /\ p.freq \in Nat \ {0}
  /\ p.redraw \in BOOLEAN
  /\ ~p.redraw => p.shape = current_shape /\ p.x = current_x

\* A turned shape is a shape.
LEMMA RotatedShape ==
  ASSUME IsShape(current_shape)
  PROVE  IsShape(Rotated)
<1> DEFINE n == Len(current_shape)
<1>1. n \in Nat /\ \A i \in 1..n : current_shape[i] \in Int \X Int
  BY DEF IsShape
<1>2. \A i \in 1..n : <<current_shape[i][2], -current_shape[i][1]>> \in Int \X Int
  BY <1>1
<1>3. Rotated \in [1..n -> Int \X Int]
  BY <1>2 DEF Rotated
<1>4. Rotated \in Seq(Int \X Int) /\ Len(Rotated) = n
  BY <1>1, <1>3
<1>5. PICK i \in 1..n : current_shape[i] = <<0, 0>>
  BY DEF IsShape
<1>6. Rotated[i] = <<0, 0>>
  BY <1>5 DEF Rotated
<1>7. \A k \in 1..n : /\ Rotated[k][1] = current_shape[k][2]
                      /\ Rotated[k][2] = -current_shape[k][1]
                      /\ current_shape[k][1] \in Int /\ current_shape[k][2] \in Int
                      /\ current_shape[k] = <<current_shape[k][1], current_shape[k][2]>>
  BY <1>1 DEF Rotated
<1>8. Compact(current_shape)
  BY DEF IsShape
<1>9. IsInjective(Rotated)
  <2> SUFFICES ASSUME NEW a \in 1..n, NEW b \in 1..n, Rotated[a] = Rotated[b]
               PROVE  a = b
    <3>1. DOMAIN Rotated = 1..n
      BY <1>3
    <3> HIDE DEF n
    <3> QED
      BY <3>1 DEF IsInjective
  <2>1. current_shape[a] = current_shape[b]
    <3>1. \A u, v \in Int : -u = -v => u = v
      OBVIOUS
    <3>2. current_shape[a][2] = current_shape[b][2]
      <4>1. Rotated[a][1] = Rotated[b][1]
        OBVIOUS
      <4> QED
        BY <1>7, <4>1, Zenon
    <3>3. current_shape[a][1] = current_shape[b][1]
      <4>1. -current_shape[a][1] = -current_shape[b][1]
        BY <1>7
      <4> QED
        BY <1>7, <3>1, <4>1
    <3> QED
      BY <1>7, <3>2, <3>3
  <2>2. DOMAIN current_shape = 1..n
    BY DEF IsShape
  <2> QED
    BY <1>8, <2>1, <2>2 DEF Compact, IsInjective
<1>10. ASSUME NEW a \in 1..n, NEW b \in 1..n, NEW m \in Rotated[a][1]..Rotated[b][1]
       PROVE  \E k \in 1..n : Rotated[k][1] = m
  <2>1. m \in current_shape[a][2]..current_shape[b][2]
    BY <1>7
  <2>2. PICK k \in 1..n : current_shape[k][2] = m
    BY <1>8, <2>1 DEF Compact
  <2> QED
    BY <1>7, <2>2
<1>11. ASSUME NEW a \in 1..n, NEW b \in 1..n, NEW m \in Rotated[a][2]..Rotated[b][2]
       PROVE  \E k \in 1..n : Rotated[k][2] = m
  <2>1. -m \in current_shape[b][1]..current_shape[a][1] /\ m \in Int
    <3> DEFINE u == current_shape[a][1]
               v == current_shape[b][1]
    <3>1. u \in Int /\ v \in Int /\ m \in (-u)..(-v)
      BY <1>7
    <3> HIDE DEF u, v
    <3>2. -m \in v..u /\ m \in Int
      BY <3>1
    <3> QED
      BY <3>2 DEF u, v
  <2>2. PICK k \in 1..n : current_shape[k][1] = -m
    BY <1>8, <2>1 DEF Compact
  <2>3. Rotated[k][2] = -(-m) /\ -(-m) = m
    BY <1>7, <2>1, <2>2
  <2> QED
    BY <2>3
<1>12. Compact(Rotated)
  <2>1. \A axis \in 1..2 : axis = 1 \/ axis = 2
    OBVIOUS
  <2>2. ASSUME NEW a \in 1..n, NEW b \in 1..n, NEW axis \in 1..2,
               NEW m \in Rotated[a][axis]..Rotated[b][axis]
        PROVE  \E k \in 1..n : Rotated[k][axis] = m
    <3>1. CASE axis = 1
      BY <1>10, <3>1
    <3>2. CASE axis = 2
      BY <1>11, <3>2
    <3> QED
      BY <2>1, <3>1, <3>2
  <2> HIDE DEF n
  <2> QED
    BY <1>4, <1>9, <2>2 DEF Compact
<1> QED
  BY <1>4, <1>5, <1>6, <1>12 DEF IsShape

\* Every input leaves a shape that fits, and asks for a redraw if it moved it.
LEMMA InputSteers ==
  ASSUME TInv, ~game_over, NEW event
  PROVE  Steers(handle_input_event(event))
<1>1. /\ IsShape(current_shape) /\ Fits(grid, current_shape, current_x, current_y)
      /\ current_x \in Int /\ iteration \in Nat /\ fall_freq \in Nat \ {0}
      /\ current_level \in Nat
  BY Numbers DEF TInv, TTypeOK, ShapeFits, Columns
<1>2. FallFreq(current_level) \in Nat \ {0}
  BY <1>1, FallFreqType
<1>3. Steers(NoInput)
  BY <1>1 DEF Steers, NoInput
<1> DEFINE delay == FallFreq(current_level)
<1>4. /\ Steered = [shape |-> current_shape, x |-> current_x, iteration |-> iteration,
                    freq |-> delay, redraw |-> FALSE]
      /\ Steers(Steered)
  <2>1. Steered = [shape |-> current_shape, x |-> current_x, iteration |-> iteration,
                   freq |-> delay, redraw |-> FALSE]
    <3>1. Steered = [NoInput EXCEPT !.freq = delay]
      BY DEF Steered
    <3> HIDE DEF delay
    <3> QED
      BY <3>1 DEF NoInput
  <2> HIDE DEF delay
  <2> QED
    BY <1>1, <1>2, <2>1 DEF Steers, delay
<1>5. ASSUME NEW dir \in {-1, 1}
      PROVE  Steers(move_side(dir))
  <2> DEFINE ok == Fits(grid, current_shape, current_x + dir, current_y)
             x == IF ok THEN current_x + dir ELSE current_x
  <2>1. move_side(dir) = [shape |-> current_shape, x |-> x, iteration |-> iteration,
                          freq |-> delay, redraw |-> ok]
    <3>1. move_side(dir) = [Steered EXCEPT !.redraw = ok, !.x = IF ok THEN @ + dir ELSE @]
      BY DEF move_side
    <3> HIDE DEF ok, delay
    <3> QED
      BY <1>4, <3>1
  <2>2. ok \in BOOLEAN /\ x \in Int /\ Fits(grid, current_shape, x, current_y)
    BY <1>1 DEF Fits
  <2>3. ~ok => x = current_x
    OBVIOUS
  <2> HIDE DEF ok, x, delay
  <2> QED
    BY <1>1, <1>2, <2>1, <2>2, <2>3 DEF Steers, delay
<1>6. Steers(rotate_shape)
  <2> DEFINE ok == Fits(grid, Rotated, current_x, current_y)
             turned == IF ok THEN Rotated ELSE current_shape
  <2>1. IsShape(turned) /\ Fits(grid, turned, current_x, current_y)
    BY <1>1, RotatedShape
  <2>2. CASE current_shape_type # 1
    <3>1. rotate_shape = [Steered EXCEPT !.redraw = TRUE,
                                         !.shape = IF ok THEN Rotated ELSE @]
      BY <2>2 DEF rotate_shape
    <3> HIDE DEF ok, delay
    <3>2. rotate_shape = [shape |-> turned, x |-> current_x, iteration |-> iteration,
                          freq |-> delay, redraw |-> TRUE]
      BY <1>4, <3>1
    <3> HIDE DEF turned
    <3> QED
      BY <1>1, <1>2, <2>1, <3>2 DEF Steers, delay
  <2> QED
    BY <1>4, <2>2 DEF rotate_shape
<1>7. ASSUME NEW new \in Nat \ {0}
      PROVE  Steers(update_fall_freq(new))
  <2> DEFINE least == IF FallFreq(current_level) < new THEN FallFreq(current_level) ELSE new
  <2>1. update_fall_freq(new) = [NoInput EXCEPT !.freq = least]
    BY DEF update_fall_freq
  <2>2. least \in Nat \ {0}
    BY <1>2
  <2> HIDE DEF least
  <2> QED
    BY <1>1, <2>1, <2>2 DEF Steers, NoInput
<1>8. SOFT_FREQ \in Nat \ {0} /\ HARD_FREQ \in Nat \ {0}
  BY TAssumption
<1>9. Steers(move_side(-1)) /\ Steers(move_side(1))
  BY <1>5
<1>10. Steers(update_fall_freq(SOFT_FREQ)) /\ Steers(update_fall_freq(HARD_FREQ))
  BY <1>7, <1>8
<1>11. handle_input_event(event) \in
         {move_side(-1), move_side(1), rotate_shape, update_fall_freq(HARD_FREQ),
          update_fall_freq(SOFT_FREQ), NoInput}
  BY DEF handle_input_event
<1> QED
  BY <1>3, <1>6, <1>9, <1>10, <1>11

\* update_frame draws what changed, or keeps the request for it.
LEMMA FrameDrawn ==
  ASSUME ScreenFresh, ~game_over, state_changed \in BOOLEAN, NEW changed \in BOOLEAN,
         update_frame(changed), ~changed => Picture' = Picture
  PROVE  ScreenFresh' /\ state_changed' \in BOOLEAN
<1>1. CASE ~game_over' /\ (state_changed \/ changed)
  BY <1>1 DEF update_frame, ScreenFresh
<1>2. CASE ~(~game_over' /\ (state_changed \/ changed))
  <2>1. shown' = shown /\ state_changed' = (state_changed \/ changed)
    BY <1>2 DEF update_frame
  <2> QED
    BY <1>2, <2>1 DEF ScreenFresh
<1> QED
  BY <1>1, <1>2

\* A spawned shape, on a grid whose top row is free unless the game is over.
LEMMA SpawnKeeps ==
  ASSUME spawn_shape(grid'), ~game_over' => TopFree(grid')
  PROVE  /\ IsShape(current_shape') /\ ShapeFits'
         /\ current_shape_type' \in 1..Len(SHAPES)
         /\ current_x' \in Columns /\ current_y' \in -2..(GRID_HEIGHT - 1)
<1>1. PICK s \in 1..Len(SHAPES) :
         /\ current_shape_type' = s
         /\ current_shape' = SHAPES[s]
         /\ current_x' = GRID_WIDTH \div 2
         /\ current_y' = SpawnRow(grid', SHAPES[s])
  BY DEF spawn_shape
<1>2. IsShape(current_shape') /\ current_x' \in Columns /\ current_y' \in -2..0
  BY <1>1, SpawnTypes
<1>3. current_y' \in -2..(GRID_HEIGHT - 1)
  BY <1>2, Numbers
<1>4. ~game_over' => Fits(grid', SHAPES[s], GRID_WIDTH \div 2, SpawnRow(grid', SHAPES[s]))
  BY SpawnFits
<1> QED
  BY <1>1, <1>2, <1>3, <1>4 DEF ShapeFits

\* The lines and the level stay bytes.
LEMMA LevelTypes ==
  ASSUME NEW n \in Nat, lines_cleared \in Nat, current_level \in Nat
  PROVE  /\ LevelAfter(n) \in 0..(ByteRange - 1)
         /\ (lines_cleared + n) % ByteRange \in 0..(ByteRange - 1)
<1> DEFINE K == {k \in 1..n : ((lines_cleared + k) % ByteRange) % LinesPerLevel = 0}
<1>1. IsFiniteSet(1..n)
  BY FS_Interval
<1>2. IsFiniteSet(K)
  BY <1>1, FS_Subset
<1>3. Cardinality(K) \in Nat
  BY <1>2, FS_CardinalityType
<1>4. \A m \in Nat : m % ByteRange \in 0..(ByteRange - 1)
  BY Numbers
<1>5. LevelAfter(n) = (current_level + Cardinality(K)) % ByteRange
  BY DEF LevelAfter
<1> HIDE DEF K
<1>6. current_level + Cardinality(K) \in Nat /\ lines_cleared + n \in Nat
  BY <1>3
<1> QED
  BY <1>4, <1>5, <1>6

\* Locking a shape keeps the invariant.
LEMMA LockKeeps ==
  ASSUME TInv, ~game_over, NEW p, Steers(p), lock_shape(p), update_frame(TRUE)
  PROVE  TInv'
<1> DEFINE cells == Blocks(p.shape, p.x, current_y)
           n == Len(cells)
           writtenUpTo(i) == grid \cup {cells[k] : k \in {j \in 1..i : cells[j] \in Columns \X Rows}}
           locked == writtenUpTo(n)
           to_destroy == {y \in Rows : RowFull(locked, y) /\ \E c \in Range(cells) : c[2] = y}
           atTop == \E i \in 1..n : cells[i][2] = 0 /\ ~RowFull(writtenUpTo(i), 0)
           count == Cardinality(to_destroy)
<1>1. /\ grid' = clean_destroyed_blocks(locked, to_destroy)
      /\ game_over' = (game_over \/ atTop)
      /\ current_level' = LevelAfter(count)
      /\ lines_cleared' = (lines_cleared + count) % ByteRange
      /\ iteration' = 0 /\ fall_freq' = FallFreq(current_level')
      /\ spawn_shape(grid')
  BY DEF lock_shape
<1>2. n \in Nat /\ DOMAIN cells = 1..n
  <2>1. Len(p.shape) \in Nat
    <3>1. p.shape \in Seq(Int \X Int)
      BY DEF Steers, IsShape
    <3> DEFINE shape == p.shape
    <3> HIDE DEF shape
    <3>2. shape \in Seq(Int \X Int) => Len(shape) \in Nat
      OBVIOUS
    <3> QED
      BY <3>1, <3>2 DEF shape
  <2>2. cells = [i \in 1..Len(p.shape) |-> <<p.shape[i][1] + p.x, p.shape[i][2] + current_y>>]
    BY DEF Blocks
  <2>3. n = Len(p.shape)
    BY <2>1, <2>2
  <2> QED
    BY <2>1, <2>2, <2>3
<1>3. Range(cells) = {cells[k] : k \in 1..n}
  BY <1>2 DEF Range
<1> HIDE DEF cells, n
<1>4. locked \subseteq Cells
  BY DEF TInv, TTypeOK, Cells
<1>5. \A y \in Rows : RowFull(locked, y) => y \in to_destroy
  <2> SUFFICES ASSUME NEW y \in Rows, RowFull(locked, y)
               PROVE  \E c \in Range(cells) : c[2] = y
    OBVIOUS
  <2>1. PICK x \in Columns : <<x, y>> \notin grid
    BY DEF TInv, NoFullRows, RowFull
  <2>2. <<x, y>> \in locked
    BY DEF RowFull
  <2>3. PICK k \in 1..n : cells[k] = <<x, y>>
    BY <2>1, <2>2
  <2> QED
    BY <1>3, <2>3
<1>6. ~atTop => TopFree(locked) \/ 0 \in to_destroy
  <2> SUFFICES ASSUME ~atTop, ~TopFree(locked)
               PROVE  0 \in to_destroy
    OBVIOUS
  <2>1. PICK x \in Columns : <<x, 0>> \in locked
    BY DEF TopFree
  <2>2. <<x, 0>> \notin grid
    BY DEF TInv, TopFree
  <2>3. PICK i \in 1..n : cells[i] = <<x, 0>>
    BY <2>1, <2>2
  <2>4. RowFull(writtenUpTo(i), 0)
    <3>1. cells[i][2] = 0
      BY <2>3
    <3> QED
      BY <3>1 DEF atTop
  <2>5. \A k \in 1..i : k \in 1..n
    BY <1>2
  <2>6. writtenUpTo(i) \subseteq locked
    BY <2>5
  <2>7. RowFull(locked, 0)
    BY <2>4, <2>6 DEF RowFull
  <2> QED
    BY <1>5, <2>7, Numbers
<1>7. count \in Nat
  <2>1. IsFiniteSet(Rows)
    BY Numbers, FS_Interval DEF Rows
  <2>2. IsFiniteSet(to_destroy)
    BY <2>1, FS_Subset
  <2> QED
    BY <2>2, FS_CardinalityType
<1> HIDE DEF locked, to_destroy, atTop, count
<1>8. /\ grid' \subseteq Cells /\ \A y \in Rows : ~RowFull(grid', y)
      /\ ~game_over' => TopFree(grid')
  BY <1>1, <1>4, <1>5, <1>6, Cleaned
<1>9. game_over' \in BOOLEAN
  BY <1>1
<1>10. /\ current_level' \in 0..(ByteRange - 1) /\ lines_cleared' \in 0..(ByteRange - 1)
       /\ current_level' \in Nat
  <2>1. lines_cleared \in Nat /\ current_level \in Nat
    BY Numbers DEF TInv, TTypeOK
  <2>2. current_level' \in 0..(ByteRange - 1) /\ lines_cleared' \in 0..(ByteRange - 1)
    BY <1>1, <1>7, <2>1, LevelTypes
  <2> QED
    BY <2>2, Numbers
<1>11. fall_freq' \in Nat \ {0} /\ iteration' \in Nat
  BY <1>1, <1>10, FallFreqType
<1>12. /\ IsShape(current_shape') /\ ShapeFits'
       /\ current_shape_type' \in 1..Len(SHAPES)
       /\ current_x' \in Columns /\ current_y' \in -2..(GRID_HEIGHT - 1)
  BY <1>1, <1>8, SpawnKeeps
<1>13. ScreenFresh' /\ state_changed' \in BOOLEAN
  BY FrameDrawn DEF TInv, TTypeOK
<1>14. TTypeOK'
  BY <1>8, <1>9, <1>10, <1>11, <1>12, <1>13 DEF TTypeOK, Cells
<1> QED
  BY <1>8, <1>12, <1>13, <1>14 DEF TInv, NoFullRows

\* A frame that does not lock keeps the grid, and the shape where it fits.
LEMMA PlaceKeeps ==
  ASSUME TInv, ~game_over, NEW p, Steers(p), Place(p), iteration' \in Nat,
         current_y' \in Int, current_y' >= current_y, Fits(grid, p.shape, p.x, current_y'),
         NEW changed \in BOOLEAN, update_frame(changed),
         ~changed => ~p.redraw /\ current_y' = current_y
  PROVE  TInv'
<1>1. /\ current_shape' = p.shape /\ current_x' = p.x /\ fall_freq' = p.freq
      /\ UNCHANGED <<grid, game_over, lines_cleared, current_level, current_shape_type>>
  BY DEF Place
<1>2. p.x \in Columns /\ current_y' < GRID_HEIGHT
  BY CentreFits DEF Steers
<1>3. current_y' \in -2..(GRID_HEIGHT - 1)
  BY <1>2, Numbers DEF TInv, TTypeOK
<1>4. ~changed => Picture' = Picture
  <2>1. ASSUME ~changed
        PROVE  UNCHANGED <<grid, current_shape, current_x, current_y>>
    BY <1>1, <2>1 DEF Steers
  <2> QED
    BY <2>1 DEF Picture
<1>5. ScreenFresh' /\ state_changed' \in BOOLEAN
  BY <1>4, FrameDrawn DEF TInv, TTypeOK
<1>6. TTypeOK'
  BY <1>1, <1>2, <1>3, <1>5 DEF TInv, TTypeOK, Steers
<1>7. IsShape(current_shape') /\ ShapeFits'
  BY <1>1 DEF Steers, ShapeFits
<1> QED
  BY <1>1, <1>5, <1>6, <1>7 DEF TInv, NoFullRows, RowFull, TopFree

\* Every step of game_loop keeps the invariant.
LEMMA GameInductive == TInv /\ [TNext]_tVars => TInv'
<1> SUFFICES ASSUME TInv, [TNext]_tVars
             PROVE  TInv'
  OBVIOUS
<1>1. iteration \in Nat /\ current_y \in Int
  BY Numbers DEF TInv, TTypeOK
<1>2. ASSUME NEW event, FrameWait(event)
      PROVE  TInv'
  <2> DEFINE p == handle_input_event(event)
  <2>1. /\ ~game_over /\ iteration' = p.iteration + 1 /\ Place(p) /\ current_y' = current_y
        /\ update_frame(p.redraw)
    BY <1>2 DEF FrameWait
  <2>2. Steers(p)
    BY <2>1, InputSteers
  <2> HIDE DEF p
  <2>3. /\ iteration' \in Nat /\ current_y' \in Int /\ current_y' >= current_y
        /\ Fits(grid, p.shape, p.x, current_y') /\ p.redraw \in BOOLEAN
    BY <1>1, <2>1, <2>2 DEF Steers
  <2> QED
    BY <2>1, <2>2, <2>3, PlaceKeeps
<1>3. ASSUME NEW event, FrameFall(event)
      PROVE  TInv'
  <2> DEFINE p == handle_input_event(event)
  <2>1. /\ ~game_over /\ iteration' = 0 /\ Place(p) /\ current_y' = current_y + 1
        /\ Fits(grid, p.shape, p.x, current_y + 1) /\ update_frame(TRUE)
    BY <1>3 DEF FrameFall
  <2>2. Steers(p)
    BY <2>1, InputSteers
  <2> HIDE DEF p
  <2>3. /\ iteration' \in Nat /\ current_y' \in Int /\ current_y' >= current_y
        /\ Fits(grid, p.shape, p.x, current_y')
    BY <1>1, <2>1
  <2> QED
    BY <2>1, <2>2, <2>3, PlaceKeeps
<1>4. ASSUME NEW event, FrameLock(event)
      PROVE  TInv'
  <2> DEFINE p == handle_input_event(event)
  <2>1. ~game_over /\ lock_shape(p) /\ update_frame(TRUE)
    BY <1>4 DEF FrameLock
  <2>2. Steers(p)
    BY <2>1, InputSteers
  <2> HIDE DEF p
  <2> QED
    BY <2>1, <2>2, LockKeeps
<1>5. CASE restart_game
  <2>1. grid' = {} /\ TopFree(grid')
    BY <1>5 DEF restart_game, TopFree
  <2>2. /\ IsShape(current_shape') /\ ShapeFits'
        /\ current_shape_type' \in 1..Len(SHAPES)
        /\ current_x' \in Columns /\ current_y' \in -2..(GRID_HEIGHT - 1)
    BY <1>5, <2>1, SpawnKeeps DEF restart_game
  <2>3. TTypeOK'
    <3>1. 0 \in 0..(ByteRange - 1)
      BY Numbers
    <3> QED
      BY <1>5, <2>1, <2>2, <3>1 DEF restart_game, TInv, TTypeOK
  <2>4. NoFullRows'
    BY <2>1, Numbers DEF NoFullRows, RowFull
  <2>5. ScreenFresh'
    BY <1>5 DEF restart_game, ScreenFresh
  <2> QED
    BY <2>1, <2>2, <2>3, <2>4, <2>5 DEF TInv
<1>6. CASE UNCHANGED tVars
  BY <1>6 DEF tVars, TInv, TTypeOK, NoFullRows, RowFull, TopFree, ShapeFits, ScreenFresh, Picture
<1> QED
  BY <1>2, <1>3, <1>4, <1>5, <1>6 DEF TNext, Frame

\* The invariant holds from the start of the program.
THEOREM GameInvariant == TSpec => []TInv
<1>1. TInit => TInv
  <2> SUFFICES ASSUME TInit
               PROVE  TInv
    OBVIOUS
  <2> DEFINE s == current_shape_type
  <2>1. /\ IsShape(SHAPES[s]) /\ GRID_WIDTH \div 2 \in Columns
        /\ SpawnRow({}, SHAPES[s]) = 0
    <3>1. s \in 1..Len(SHAPES)
      BY DEF TInit
    <3> QED
      BY <3>1, SpawnTypes DEF SpawnRow
  <2>2. TopFree({})
    BY DEF TopFree
  <2>3. Fits({}, SHAPES[s], GRID_WIDTH \div 2, 0)
    BY <2>1, <2>2, SpawnFits DEF TInit
  <2>4. LEVEL_FREQS[1] \in Nat \ {0}
    <3>1. 1 \in 1..Len(LEVEL_FREQS) /\ LEVEL_FREQS \in Seq(Nat \ {0})
      BY TAssumption
    <3> QED
      BY <3>1
  <2>5. TTypeOK
    <3>1. 0 \in 0..(ByteRange - 1) /\ 0 \in -2..(GRID_HEIGHT - 1)
      BY Numbers
    <3> QED
      BY <2>1, <2>4, <3>1 DEF TInit, TTypeOK
  <2>6. NoFullRows
    BY Numbers DEF TInit, NoFullRows, RowFull
  <2> QED
    BY <2>1, <2>2, <2>3, <2>5, <2>6 DEF TInit, TInv, ShapeFits, ScreenFresh
<1> QED
  BY <1>1, GameInductive, PTL DEF TSpec

\* lock_shape() never writes outside the array, the counters stay bytes, and the
\* centre of the shape stays on the board or, right after a spawn, above it.
THEOREM GameTypes == TSpec => []TTypeOK
<1>1. TInv => TTypeOK
  BY DEF TInv
<1> QED
  BY <1>1, GameInvariant, PTL

\* While the game is on the falling shape never overlaps the walls, the floor or
\* a block, although spawn_shape() does not ask detect_collision().
THEOREM GameShapeFits == TSpec => []ShapeFits
<1>1. TInv => ShapeFits
  BY DEF TInv
<1> QED
  BY <1>1, GameInvariant, PTL

\* clean_destroyed_blocks() leaves no full row, however many were marked.
THEOREM GameNoFullRows == TSpec => []NoFullRows
<1>1. TInv => NoFullRows
  BY DEF TInv
<1> QED
  BY <1>1, GameInvariant, PTL

\* What changes the picture asks for a redraw (state_changed, update_frame).
THEOREM GameScreenFresh == TSpec => []ScreenFresh
<1>1. TInv => ScreenFresh
  BY DEF TInv
<1> QED
  BY <1>1, GameInvariant, PTL

-----------------------------------------------------------------------------
(* Counting blocks *)

\* Sets whose elements correspond have the same size.
LEMMA SameSize ==
  ASSUME NEW S, NEW T, IsFiniteSet(S), NEW f \in [S -> T],
         \A a, b \in S : f[a] = f[b] => a = b,
         \A t \in T : \E a \in S : f[a] = t
  PROVE  IsFiniteSet(T) /\ Cardinality(T) = Cardinality(S)
<1>1. f \in Surjection(S, T)
  BY DEF Surjection
<1>2. f \in Injection(S, T)
  BY DEF Injection, IsInjective
<1> QED
  BY <1>1, <1>2, FS_Surjection

\* The board is finite, and its rows are as wide as it is.
LEMMA RowSize ==
  /\ \A g \in SUBSET Cells : IsFiniteSet(g) /\ Cardinality(g) \in Nat
  /\ \A y : Cardinality(Columns \X {y}) = GRID_WIDTH
<1>1. IsFiniteSet(Columns) /\ Cardinality(Columns) = GRID_WIDTH
  BY Numbers, FS_Interval DEF Columns
<1>2. IsFiniteSet(Rows)
  BY Numbers, FS_Interval DEF Rows
<1>3. IsFiniteSet(Cells)
  BY <1>1, <1>2, FS_Product DEF Cells
<1>4. ASSUME NEW g \in SUBSET Cells
      PROVE  IsFiniteSet(g) /\ Cardinality(g) \in Nat
  BY <1>3, FS_Subset, FS_CardinalityType
<1>5. ASSUME NEW y
      PROVE  Cardinality(Columns \X {y}) = GRID_WIDTH
  <2>1. IsFiniteSet({y}) /\ Cardinality({y}) = 1
    BY FS_Singleton
  <2>2. Cardinality(Columns \X {y}) = GRID_WIDTH * 1
    BY <1>1, <2>1, FS_Product
  <2> QED
    BY <2>2, Numbers
<1> QED
  BY <1>4, <1>5

\* destroy_row() of a full row takes that row away and nothing else, as long as
\* the top row, which it copies instead of clearing, is free.
LEMMA RowRemoved ==
  ASSUME NEW g, g \subseteq Cells, NEW row \in Rows, RowFull(g, row), TopFree(g)
  PROVE  /\ destroy_row(g, row) \subseteq Cells /\ TopFree(destroy_row(g, row))
         /\ Cardinality(destroy_row(g, row)) = Cardinality(g) - GRID_WIDTH
         /\ \A y \in Rows : y > row /\ RowFull(g, y) => RowFull(destroy_row(g, row), y)
<1> DEFINE d == destroy_row(g, row)
           line == Columns \X {row}
           rest == g \ line
           f == [c \in rest |-> IF c[2] > row THEN c ELSE <<c[1], c[2] + 1>>]
<1>1. row \in Int /\ row > 0 /\ \A y \in Rows : y \in Int /\ y >= 0
  <2>1. row # 0
    BY Numbers DEF RowFull, TopFree
  <2> QED
    BY <2>1, Numbers DEF Rows
<1>2. d \subseteq Cells
  BY DestroyedCells
<1>3. \A x \in Columns, y \in Rows :
         <<x, y>> \in d <=> IF y > row THEN <<x, y>> \in g
                            ELSE y # 0 /\ <<x, y - 1>> \in g
  <2>1. \A x \in Columns, y \in Rows :
          <<x, y>> \in d <=> IF y > row THEN <<x, y>> \in g
                             ELSE IF y = 0 THEN row > 0 /\ <<x, 0>> \in g
                             ELSE <<x, y - 1>> \in g
    BY DestroyedCells
  <2> HIDE DEF d
  <2> QED
    BY <2>1 DEF TopFree
<1>4. ASSUME NEW c \in g
      PROVE  c = <<c[1], c[2]>> /\ c[1] \in Columns /\ c[2] \in Rows /\ c[2] \in Int
  <2>1. c = <<c[1], c[2]>> /\ c[1] \in Columns /\ c[2] \in Rows
    BY DEF Cells
  <2> QED
    BY <1>1, <2>1
<1> HIDE DEF d
<1>5. ASSUME NEW c \in d
      PROVE  c = <<c[1], c[2]>> /\ c[1] \in Columns /\ c[2] \in Rows /\ c[2] \in Int
  <2>1. c = <<c[1], c[2]>> /\ c[1] \in Columns /\ c[2] \in Rows
    BY <1>2 DEF Cells
  <2> QED
    BY <1>1, <2>1
<1>6. ASSUME NEW c \in rest
      PROVE  c \in g /\ c[2] # row
  <2>1. c \in g /\ c \notin line
    OBVIOUS
  <2> QED
    BY <1>4, <2>1
<1>7. f \in [rest -> d]
  <2> SUFFICES ASSUME NEW c \in rest
               PROVE  (IF c[2] > row THEN c ELSE <<c[1], c[2] + 1>>) \in d
    OBVIOUS
  <2>1. CASE c[2] > row
    BY <1>3, <1>4, <1>6, <2>1
  <2>2. CASE ~(c[2] > row)
    <3>1. c[1] \in Columns /\ <<c[1], c[2]>> \in g /\ c[2] \in Rows /\ c[2] \in Int /\ c[2] # row
      BY <1>4, <1>6
    <3>2. /\ c[2] + 1 \in Rows /\ ~(c[2] + 1 > row) /\ c[2] + 1 # 0 /\ c[2] + 1 - 1 = c[2]
      BY <1>1, <2>2, <3>1, Numbers
    <3>3. <<c[1], c[2] + 1>> \in d <=> <<c[1], c[2] + 1 - 1>> \in g
      BY <1>3, <3>1, <3>2
    <3>4. <<c[1], c[2] + 1>> \in d
      BY <3>1, <3>2, <3>3
    <3> QED
      BY <2>2, <3>4
  <2> QED
    BY <2>1, <2>2
<1>8. ASSUME NEW a \in rest, NEW b \in rest, f[a] = f[b]
      PROVE  a = b
  <2>1. /\ a = <<a[1], a[2]>> /\ b = <<b[1], b[2]>> /\ a[2] \in Int /\ b[2] \in Int
        /\ a[2] # row /\ b[2] # row
    BY <1>4, <1>6
  <2> DEFINE v(c) == IF c[2] > row THEN c[2] ELSE c[2] + 1
  <2>2. f[a][1] = a[1] /\ f[b][1] = b[1] /\ f[a][2] = v(a) /\ f[b][2] = v(b)
    BY <2>1
  <2>3. a[2] = b[2]
    BY <1>1, <1>8, <2>1, <2>2
  <2> QED
    BY <1>8, <2>1, <2>2, <2>3
<1>9. ASSUME NEW c \in d
      PROVE  \E a \in rest : f[a] = c
  <2>1. CASE c[2] > row
    <3>1. c \in g
      BY <1>3, <1>5, <2>1
    <3>2. c[2] # row
      BY <1>1, <1>5, <2>1
    <3>3. c \notin line
      BY <3>2
    <3> QED
      BY <2>1, <3>1, <3>3
  <2>2. CASE ~(c[2] > row)
    <3> DEFINE a == <<c[1], c[2] - 1>>
    <3>1. a \in g /\ ~(c[2] - 1 > row) /\ c[2] - 1 # row /\ c[2] - 1 + 1 = c[2]
      BY <1>1, <1>3, <1>5, <2>2
    <3>2. a \in rest /\ a[1] = c[1] /\ a[2] = c[2] - 1
      BY <3>1
    <3>3. f[a] = <<c[1], c[2] - 1 + 1>>
      BY <3>1, <3>2
    <3> QED
      BY <1>5, <3>1, <3>2, <3>3
  <2> QED
    BY <2>1, <2>2
<1>10. IsFiniteSet(g) /\ Cardinality(g) \in Nat /\ Cardinality(line) = GRID_WIDTH
  BY RowSize
<1>11. line \subseteq g
  BY DEF RowFull
<1>12. IsFiniteSet(rest) /\ Cardinality(rest) = Cardinality(g) - GRID_WIDTH
  <2>1. g \cap line = line
    BY <1>11
  <2> HIDE DEF line
  <2>2. IsFiniteSet(g \ line) /\ Cardinality(g \ line) = Cardinality(g) - Cardinality(g \cap line)
    BY <1>10, FS_Difference, Zenon
  <2> QED
    BY <1>10, <2>1, <2>2
<1>13. Cardinality(d) = Cardinality(rest)
  <2> HIDE DEF f, rest
  <2> QED
    BY <1>7, <1>8, <1>9, <1>12, SameSize
<1>14. TopFree(d)
  <2>1. ~(0 > row)
    BY <1>1
  <2> QED
    BY <1>3, <2>1, Numbers DEF TopFree
<1>15. \A y \in Rows : y > row /\ RowFull(g, y) => RowFull(d, y)
  BY <1>3 DEF RowFull
<1> QED
  BY <1>2, <1>12, <1>13, <1>14, <1>15 DEF d

\* What is left with k rows behind it when all marked rows are full.
Removed(g, rows, k, h) ==
  /\ h \subseteq Cells /\ TopFree(h)
  /\ \A y \in rows : y >= k => RowFull(h, y)
  /\ Cardinality(h) = Cardinality(g) - Cardinality({y \in rows : y < k}) * GRID_WIDTH

\* One row more, marked or not.
LEMMA RemovedMore ==
  ASSUME NEW g, g \subseteq Cells, NEW rows, rows \subseteq Rows, NEW k \in Rows, NEW h,
         Removed(g, rows, k, h)
  PROVE  Removed(g, rows, k + 1, IF k \in rows THEN destroy_row(h, k) ELSE h)
<1> DEFINE below == {y \in rows : y < k}
<1>1. k \in Int /\ \A y \in rows : y \in Int /\ y \in Rows
  BY Numbers DEF Rows
<1>2. IsFiniteSet(below) /\ Cardinality(below) \in Nat
  <2>1. IsFiniteSet(Rows)
    BY Numbers, FS_Interval DEF Rows
  <2>2. below \in SUBSET Rows
    OBVIOUS
  <2> HIDE DEF below
  <2> QED
    BY <2>1, <2>2, FS_Subset, FS_CardinalityType
<1> DEFINE upto == {y \in rows : y < k + 1}
<1>3. \A y \in rows : y < k + 1 <=> y < k \/ y = k
  BY <1>1
<1>4. CASE k \notin rows
  <2>1. upto = below
    BY <1>3, <1>4
  <2>2. \A y \in rows : y >= k + 1 => y >= k
    BY <1>1
  <2> QED
    BY <1>4, <2>1, <2>2 DEF Removed
<1>5. CASE k \in rows
  <2> DEFINE d == destroy_row(h, k)
  <2>1. k \notin below /\ RowFull(h, k)
    BY <1>1, <1>5 DEF Removed
  <2>2. upto = below \cup {k}
    BY <1>3, <1>5
  <2>3. Cardinality(below \cup {k}) = Cardinality(below) + 1
    <3> HIDE DEF below
    <3> QED
      BY <1>2, <2>1, FS_AddElement
  <2>4. /\ d \subseteq Cells /\ TopFree(d)
        /\ Cardinality(d) = Cardinality(h) - GRID_WIDTH
        /\ \A y \in Rows : y > k /\ RowFull(h, y) => RowFull(d, y)
    BY <2>1, RowRemoved DEF Removed
  <2> HIDE DEF d
  <2>5. ASSUME NEW y \in rows, y >= k + 1
        PROVE  RowFull(d, y)
    <3>1. y > k /\ y >= k
      BY <1>1, <2>5
    <3> QED
      BY <1>1, <2>4, <3>1 DEF Removed
  <2>6. Cardinality(d) = Cardinality(g) - (Cardinality(below) + 1) * GRID_WIDTH
    <3>1. /\ Cardinality(h) = Cardinality(g) - Cardinality(below) * GRID_WIDTH
          /\ Cardinality(d) = Cardinality(h) - GRID_WIDTH
      BY <2>4 DEF Removed
    <3>2. Cardinality(g) \in Int /\ GRID_WIDTH \in Int
      BY Numbers, RowSize
    <3>3. \A a, b, w \in Int : a - b * w - w = a - (b + 1) * w
      OBVIOUS
    <3> HIDE DEF below
    <3>4. Cardinality(below) \in Int
      BY <1>2
    <3>5. Cardinality(d) = Cardinality(g) - Cardinality(below) * GRID_WIDTH - GRID_WIDTH
      BY <3>1
    <3> QED
      BY <3>2, <3>3, <3>4, <3>5
  <2>7. Removed(g, rows, k + 1, d)
    BY <2>2, <2>3, <2>4, <2>5, <2>6 DEF Removed
  <2> QED
    BY <1>5, <2>7 DEF d
<1> QED
  BY <1>4, <1>5

\* clean_destroyed_blocks() takes away the marked rows, however many there are
\* and although each moves the rows above it.
LEMMA RowsRemoved ==
  ASSUME NEW g, g \subseteq Cells, TopFree(g), NEW rows, rows \subseteq Rows,
         \A y \in rows : RowFull(g, y)
  PROVE  Cardinality(clean_destroyed_blocks(g, rows)) =
           Cardinality(g) - Cardinality(rows) * GRID_WIDTH
<1>1. PICK f : /\ f[0] = g
               /\ \A k \in 1..GRID_HEIGHT :
                     f[k] = IF k - 1 \in rows THEN destroy_row(f[k - 1], k - 1) ELSE f[k - 1]
               /\ clean_destroyed_blocks(g, rows) = f[GRID_HEIGHT]
  BY CleanSteps
<1> DEFINE G == {k \in 0..GRID_HEIGHT : Removed(g, rows, k, f[k])}
<1>2. GRID_HEIGHT \in Nat /\ GRID_HEIGHT > 0 /\ 0 \in 0..GRID_HEIGHT
      /\ GRID_HEIGHT \in 0..GRID_HEIGHT
      /\ \A y \in Rows : y \in Int /\ y >= 0 /\ y < GRID_HEIGHT
  BY Numbers DEF Rows
<1>3. 0 \in G
  <2>1. {y \in rows : y < 0} = {}
    BY <1>2
  <2>2. Cardinality({}) = 0 /\ Cardinality(g) \in Nat /\ GRID_WIDTH \in Nat
    BY FS_EmptySet, RowSize, Numbers
  <2>3. Cardinality(g) = Cardinality(g) - Cardinality({}) * GRID_WIDTH
    BY <2>2
  <2>4. Removed(g, rows, 0, g)
    BY <2>1, <2>3 DEF Removed
  <2> QED
    BY <1>1, <1>2, <2>4
<1>4. ASSUME NEW k \in 1..GRID_HEIGHT, k - 1 \in G
      PROVE  k \in G
  <2>1. k - 1 \in Rows /\ k - 1 + 1 = k /\ k \in 0..GRID_HEIGHT
    BY <1>2, Numbers
  <2>2. Removed(g, rows, k - 1, f[k - 1])
    BY <1>4
  <2>3. Removed(g, rows, k - 1 + 1, f[k])
    BY <1>1, <2>1, <2>2, RemovedMore
  <2> QED
    BY <2>1, <2>3
<1>5. GRID_HEIGHT \in G
  <2> HIDE DEF G
  <2> QED
    BY <1>2, <1>3, <1>4, Induction
<1>6. Removed(g, rows, GRID_HEIGHT, clean_destroyed_blocks(g, rows))
  BY <1>1, <1>5
<1>7. {y \in rows : y < GRID_HEIGHT} = rows
  BY <1>2
<1> QED
  BY <1>6, <1>7 DEF Removed

\* Nothing marked, nothing changed.
LEMMA NothingMarked ==
  ASSUME NEW g, g \subseteq Cells
  PROVE  clean_destroyed_blocks(g, {}) = g
<1> DEFINE none == {}
<1>1. \A k : k \notin none
  OBVIOUS
<1> HIDE DEF none
<1>2. PICK f : /\ f[0] = g
               /\ \A k \in 1..GRID_HEIGHT :
                     f[k] = IF k - 1 \in none THEN destroy_row(f[k - 1], k - 1) ELSE f[k - 1]
               /\ clean_destroyed_blocks(g, none) = f[GRID_HEIGHT]
  BY CleanSteps
<1> DEFINE G == {k \in 0..GRID_HEIGHT : f[k] = g}
<1>3. GRID_HEIGHT \in Nat /\ 0 \in G /\ GRID_HEIGHT \in 0..GRID_HEIGHT
  BY <1>2, Numbers
<1>4. \A k \in 1..GRID_HEIGHT : k - 1 \in G => k \in G
  BY <1>2, <1>3, <1>1
<1>5. GRID_HEIGHT \in G
  <2> HIDE DEF G
  <2> QED
    BY <1>3, <1>4, Induction
<1> QED
  BY <1>2, <1>5 DEF none

\* On a board of one column every block fills its row, so none is ever left.
LEMMA OneColumn ==
  ASSUME GRID_WIDTH = 1, NEW g, g \subseteq Cells, \A y \in Rows : ~RowFull(g, y)
  PROVE  g = {}
<1> SUFFICES ASSUME NEW c \in g
             PROVE  FALSE
  OBVIOUS
<1>1. c = <<c[1], c[2]>> /\ c[1] \in Columns /\ c[2] \in Rows
  BY DEF Cells
<1>2. \A x \in Columns : x = 0
  BY DEF Columns
<1>3. RowFull(g, c[2])
  BY <1>1, <1>2 DEF RowFull
<1> QED
  BY <1>1, <1>3

\* The cells of n blocks are on the board or above it, free, all different, and in
\* rows without a gap.
Placed(g, cells, n) ==
  /\ n \in Nat /\ n = Len(cells) /\ DOMAIN cells = 1..n
  /\ \A i \in 1..n :
       /\ cells[i] = <<cells[i][1], cells[i][2]>> /\ cells[i][1] \in Columns
       /\ cells[i][2] \in Int /\ cells[i][2] < GRID_HEIGHT
       /\ cells[i][2] >= 0 => cells[i] \notin g
  /\ \A i, j \in 1..n : cells[i] = cells[j] => i = j
  /\ \A i, j \in 1..n : cells[i][2] < 0 /\ 0 < cells[j][2] =>
       \E k \in 1..n : cells[k][2] = 0

\* So are the blocks of a shape that fits.
LEMMA BlocksPlaced ==
  ASSUME NEW g, NEW shape, IsShape(shape), NEW x \in Int, NEW y \in Int,
         Fits(g, shape, x, y)
  PROVE  Placed(g, Blocks(shape, x, y), Len(shape))
<1> DEFINE cells == Blocks(shape, x, y)
           n == Len(shape)
<1>1. n \in Nat /\ DOMAIN shape = 1..n /\ \A i \in 1..n : shape[i] \in Int \X Int
  BY DEF IsShape
<1>2. Compact(shape)
  BY DEF IsShape
<1> HIDE DEF n, cells
<1>3. cells = [i \in 1..n |-> <<shape[i][1] + x, shape[i][2] + y>>]
  BY DEF Blocks, n, cells
<1>4. Len(cells) = n /\ DOMAIN cells = 1..n
  BY <1>1, <1>3
<1>5. ASSUME NEW i \in 1..n
      PROVE  /\ shape[i] = <<shape[i][1], shape[i][2]>> /\ shape[i][1] \in Int /\ shape[i][2] \in Int
             /\ cells[i] = <<shape[i][1] + x, shape[i][2] + y>>
             /\ cells[i][1] = shape[i][1] + x /\ cells[i][2] = shape[i][2] + y
             /\ cells[i] = <<cells[i][1], cells[i][2]>> /\ cells[i][2] \in Int
  <2>1. shape[i] = <<shape[i][1], shape[i][2]>> /\ shape[i][1] \in Int /\ shape[i][2] \in Int
    BY <1>1
  <2>2. cells[i] = <<shape[i][1] + x, shape[i][2] + y>>
    BY <1>3
  <2> QED
    BY <2>1, <2>2
<1>6. ASSUME NEW i \in 1..n
      PROVE  /\ cells[i][1] \in Columns /\ cells[i][2] < GRID_HEIGHT
             /\ cells[i][2] >= 0 => cells[i] \notin g
  <2>1. ~detect_collision(g, cells[i])
    BY DEF Fits, n, cells
  <2> QED
    BY <1>5, <2>1, Numbers DEF detect_collision
<1>7. ASSUME NEW i \in 1..n, NEW j \in 1..n, cells[i] = cells[j]
      PROVE  i = j
  <2>1. shape[i][1] = shape[j][1]
    BY <1>5, <1>7
  <2>2. shape[i][2] = shape[j][2]
    BY <1>5, <1>7
  <2>3. shape[i] = shape[j]
    BY <1>5, <2>1, <2>2
  <2> QED
    BY <1>1, <1>2, <2>3 DEF Compact, IsInjective
<1>8. ASSUME NEW i \in 1..n, NEW j \in 1..n, cells[i][2] < 0, 0 < cells[j][2]
      PROVE  \E k \in 1..n : cells[k][2] = 0
  <2>1. -y \in shape[i][2]..shape[j][2]
    BY <1>5, <1>8
  <2>2. PICK k \in 1..n : shape[k][2] = -y
    BY <1>2, <2>1 DEF Compact, n
  <2>3. cells[k][2] = -y + y /\ -y + y = 0
    BY <1>5, <2>2
  <2> QED
    BY <2>3
<1>9. Placed(g, cells, n)
  BY <1>1, <1>4, <1>5, <1>6, <1>7, <1>8 DEF Placed
<1> QED
  BY <1>9 DEF n, cells

\* Locking a shape while the game goes on: either all its blocks are above the
\* grid, which stays as it is, or all are below the top row and are counted.
LEMMA LockCounts ==
  ASSUME TInv, TInv', ~game_over, ~game_over', NEW p, Steers(p), lock_shape(p), grid' # grid
  PROVE  \E rows \in 0..Len(p.shape) :
            Cardinality(grid') = Cardinality(grid) + Len(p.shape) - rows * GRID_WIDTH
<1> DEFINE cells == Blocks(p.shape, p.x, current_y)
           n == Len(cells)
           writtenUpTo(i) == grid \cup {cells[k] : k \in {j \in 1..i : cells[j] \in Columns \X Rows}}
           locked == writtenUpTo(n)
           to_destroy == {y \in Rows : RowFull(locked, y) /\ \E c \in Range(cells) : c[2] = y}
           atTop == \E i \in 1..n : cells[i][2] = 0 /\ ~RowFull(writtenUpTo(i), 0)
<1>1. grid' = clean_destroyed_blocks(locked, to_destroy) /\ ~atTop
  BY DEF lock_shape
<1>2. /\ grid \subseteq Cells /\ grid' \subseteq Cells /\ TopFree(grid) /\ current_y \in Int
      /\ \A y \in Rows : ~RowFull(grid, y) /\ ~RowFull(grid', y)
  BY Numbers DEF TInv, TTypeOK, NoFullRows, Cells
<1>3. Placed(grid, cells, n) /\ n = Len(p.shape)
  <2>1. IsShape(p.shape) /\ p.x \in Int /\ Fits(grid, p.shape, p.x, current_y)
    BY DEF Steers
  <2>2. Placed(grid, cells, Len(p.shape))
    BY <1>2, <2>1, BlocksPlaced
  <2> QED
    BY <2>2 DEF Placed
<1>4. Range(cells) = {cells[k] : k \in 1..n}
  BY <1>3 DEF Placed, Range
<1> HIDE DEF cells, n
<1>5. n \in Nat
  BY <1>3 DEF Placed
<1>6. GRID_WIDTH > 1
  <2> SUFFICES ASSUME GRID_WIDTH = 1
               PROVE  FALSE
    BY Numbers
  <2>1. grid = {}
    BY <1>2, OneColumn
  <2>2. grid' = {}
    BY <1>2, OneColumn
  <2> QED
    BY <2>1, <2>2
<1>7. ASSUME NEW j \in 1..n
      PROVE  cells[j][2] # 0
  <2> DEFINE S == {i \in 1..n : cells[i][2] = 0}
  <2> SUFFICES ASSUME S # {}
               PROVE  FALSE
    OBVIOUS
  <2>1. S \subseteq Nat
    BY <1>5
  <2>2. PICK i \in S : \A k \in S : i <= k
    <3> HIDE DEF S
    <3> QED
      BY <2>1, LeastElement
  <2>3. i \in 1..n /\ cells[i][2] = 0 /\ RowFull(writtenUpTo(i), 0)
    BY <1>1, <2>2
  <2>4. ASSUME NEW x \in Columns
        PROVE  cells[i] = <<x, 0>>
    <3>1. <<x, 0>> \in writtenUpTo(i) /\ <<x, 0>> \notin grid
      BY <1>2, <2>3 DEF RowFull, TopFree
    <3>2. PICK k \in 1..i : cells[k] = <<x, 0>>
      BY <3>1
    <3>3. k \in 1..n /\ cells[k][2] = 0
      BY <1>5, <2>3, <3>2
    <3>4. i <= k /\ k <= i
      BY <2>2, <3>2, <3>3
    <3>5. k = i
      BY <1>5, <2>3, <3>3, <3>4
    <3> QED
      BY <3>2, <3>5
  <2>5. 0 \in Columns /\ 1 \in Columns
    BY <1>6, Numbers DEF Columns
  <2>6. <<0, 0>> = <<1, 0>>
    BY <2>4, <2>5
  <2> QED
    BY <2>6
<1>8. CASE \E i \in 1..n : cells[i][2] < 0
  <2>1. \A j \in 1..n : cells[j][2] < 0
    BY <1>3, <1>7, <1>8 DEF Placed
  <2>2. \A j \in 1..n : cells[j] \notin Columns \X Rows
    BY <1>3, <2>1, Numbers DEF Placed
  <2>3. locked = grid
    BY <2>2
  <2>4. to_destroy = {}
    BY <1>2, <2>3
  <2> HIDE DEF locked, to_destroy
  <2> QED
    BY <1>1, <1>2, <2>3, <2>4, NothingMarked
<1>9. CASE \A i \in 1..n : ~(cells[i][2] < 0)
  <2> DEFINE new == {cells[k] : k \in 1..n}
             hit == {cells[k][2] : k \in 1..n}
  <2>1. ASSUME NEW k \in 1..n
        PROVE  /\ cells[k] \in Cells /\ cells[k] \notin grid /\ cells[k][2] # 0
               /\ cells[k] = <<cells[k][1], cells[k][2]>>
    <3>1. cells[k][1] \in Columns /\ cells[k][2] \in Rows /\ cells[k][2] >= 0
      BY <1>3, <1>9, Numbers DEF Placed
    <3>2. cells[k] = <<cells[k][1], cells[k][2]>> /\ cells[k] \notin grid
      BY <1>3, <3>1 DEF Placed
    <3>3. <<cells[k][1], cells[k][2]>> \in Cells
      BY <3>1 DEF Cells
    <3> QED
      BY <1>7, <3>2, <3>3
  <2>2. locked = grid \cup new
    BY <2>1 DEF Cells
  <2>3. IsFiniteSet(new) /\ Cardinality(new) = n
    <3> DEFINE f == [k \in 1..n |-> cells[k]]
    <3>1. f \in [1..n -> new]
      OBVIOUS
    <3>2. \A a, b \in 1..n : f[a] = f[b] => a = b
      BY <1>3 DEF Placed
    <3>3. \A t \in new : \E a \in 1..n : f[a] = t
      OBVIOUS
    <3>4. IsFiniteSet(1..n) /\ Cardinality(1..n) = n
      BY <1>5, FS_Interval
    <3> HIDE DEF f, new
    <3> QED
      BY <3>1, <3>2, <3>3, <3>4, SameSize
  <2>4. IsFiniteSet(grid) /\ Cardinality(grid) \in Nat
    BY <1>2, RowSize
  <2>5. Cardinality(locked) = Cardinality(grid) + n
    <3>1. grid \cap new = {}
      BY <2>1
    <3>2. Cardinality(grid \cup new) = Cardinality(grid) + Cardinality(new) - Cardinality(grid \cap new)
      <4> HIDE DEF new
      <4> QED
        BY <2>3, <2>4, FS_Union
    <3>3. Cardinality({}) = 0
      BY FS_EmptySet
    <3> HIDE DEF new, locked
    <3>4. Cardinality(locked) = Cardinality(grid) + n - 0
      BY <2>2, <2>3, <3>1, <3>2, <3>3
    <3> QED
      BY <1>5, <2>4, <3>4
  <2>6. locked \subseteq Cells /\ TopFree(locked)
    <3>1. locked \subseteq Cells
      BY <1>2, <2>1, <2>2
    <3>2. \A x \in Columns : <<x, 0>> \notin new
      BY <2>1
    <3> QED
      BY <1>2, <2>2, <3>1, <3>2 DEF TopFree
  <2>7. Cardinality(grid') = Cardinality(locked) - Cardinality(to_destroy) * GRID_WIDTH
    <3>1. to_destroy \subseteq Rows /\ \A y \in to_destroy : RowFull(locked, y)
      OBVIOUS
    <3> HIDE DEF locked, to_destroy
    <3> QED
      BY <1>1, <2>6, <3>1, RowsRemoved
  <2>8. Cardinality(to_destroy) \in 0..n
    <3> DEFINE f == [k \in 1..n |-> cells[k][2]]
    <3>1. f \in Surjection(1..n, hit)
      BY DEF Surjection
    <3>2. IsFiniteSet(1..n) /\ Cardinality(1..n) = n
      BY <1>5, FS_Interval
    <3>3. IsFiniteSet(hit) /\ Cardinality(hit) <= n
      <4> HIDE DEF f, hit
      <4> QED
        BY <3>1, <3>2, FS_Surjection
    <3>4. to_destroy \in SUBSET hit
      BY <1>4
    <3>5. /\ IsFiniteSet(to_destroy) /\ Cardinality(to_destroy) <= Cardinality(hit)
          /\ Cardinality(to_destroy) \in Nat /\ Cardinality(hit) \in Nat
      <4> HIDE DEF to_destroy, hit
      <4> QED
        BY <3>3, <3>4, FS_Subset, FS_CardinalityType
    <3> HIDE DEF to_destroy, hit
    <3> QED
      BY <1>5, <3>3, <3>5
  <2> DEFINE rows == Cardinality(to_destroy)
  <2> HIDE DEF locked, to_destroy
  <2>9. rows \in 0..Len(p.shape)
    BY <1>3, <2>8
  <2>10. Cardinality(grid') = Cardinality(grid) + Len(p.shape) - rows * GRID_WIDTH
    <3>1. Cardinality(grid') = (Cardinality(grid) + n) - rows * GRID_WIDTH
      BY <2>5, <2>7
    <3>2. n = Len(p.shape)
      BY <1>3
    <3>3. \A a, b, c, w \in Int : (a + b) - c * w = a + (b - c * w)
      OBVIOUS
    <3>4. Cardinality(grid) \in Int /\ n \in Int /\ rows \in Int /\ GRID_WIDTH \in Int
      BY <1>5, <2>4, <2>8, Numbers
    <3> HIDE DEF rows
    <3>5. (Cardinality(grid) + n) - rows * GRID_WIDTH = Cardinality(grid) + (n - rows * GRID_WIDTH)
      BY <3>3, <3>4
    <3> QED
      BY <3>1, <3>2, <3>5
  <2> HIDE DEF rows
  <2> QED
    BY <2>9, <2>10
<1> QED
  BY <1>8, <1>9

\* An input turns or moves the shape; the number of its blocks stays.
LEMMA InputKeepsLength ==
  ASSUME NEW event, IsShape(current_shape)
  PROVE  Len(handle_input_event(event).shape) = Len(current_shape)
<1>1. Len(Rotated) = Len(current_shape)
  <2>1. Len(current_shape) \in Nat
    BY DEF IsShape
  <2> QED
    BY <2>1 DEF Rotated
<1>2. NoInput.shape = current_shape /\ Steered.shape = current_shape
  BY DEF NoInput, Steered
<1>3. \A dir : move_side(dir).shape = current_shape
  BY DEF NoInput, Steered, move_side
<1>4. \A new : update_fall_freq(new).shape = current_shape
  BY DEF NoInput, update_fall_freq
<1>5. rotate_shape.shape \in {current_shape, Rotated}
  BY DEF NoInput, Steered, rotate_shape
<1>6. handle_input_event(event) \in
         {move_side(-1), move_side(1), rotate_shape, update_fall_freq(HARD_FREQ),
          update_fall_freq(SOFT_FREQ), NoInput}
  BY DEF handle_input_event
<1>7. handle_input_event(event).shape \in {current_shape, Rotated}
  BY <1>2, <1>3, <1>4, <1>5, <1>6
<1> QED
  BY <1>1, <1>7

\* A lock adds the blocks of the shape and takes away whole rows, nothing else:
\* moving rows down neither loses nor doubles a block while the game goes on
\* (lock_shape, clean_destroyed_blocks, destroy_row).
THEOREM GameBlocksConserved == TSpec => BlocksConserved
<1> DEFINE Counted == grid' # grid /\ ~game_over' /\ ~game_over =>
             \E rows \in 0..Len(current_shape) :
                Cardinality(grid') = Cardinality(grid) + Len(current_shape) - rows * GRID_WIDTH
<1>1. TInv /\ TInv' /\ [TNext]_tVars => [Counted]_tVars
  <2> SUFFICES ASSUME TInv, TInv', TNext, grid' # grid, ~game_over', ~game_over
               PROVE  \E rows \in 0..Len(current_shape) :
                         Cardinality(grid') = Cardinality(grid) + Len(current_shape) - rows * GRID_WIDTH
    OBVIOUS
  <2>1. PICK event : FrameLock(event)
    BY DEF TNext, Frame, restart_game, FrameWait, FrameFall, Place
  <2> DEFINE p == handle_input_event(event)
  <2>2. lock_shape(p)
    BY <2>1 DEF FrameLock
  <2>3. Steers(p)
    BY InputSteers
  <2>4. Len(p.shape) = Len(current_shape)
    BY InputKeepsLength DEF TInv
  <2> HIDE DEF p
  <2>5. \E rows \in 0..Len(p.shape) :
           Cardinality(grid') = Cardinality(grid) + Len(p.shape) - rows * GRID_WIDTH
    BY <2>2, <2>3, LockCounts
  <2> QED
    BY <2>4, <2>5
<1>2. [][Counted]_tVars <=> BlocksConserved
  BY PTL DEF BlocksConserved
<1> QED
  BY <1>1, <1>2, GameInvariant, PTL DEF TSpec

-----------------------------------------------------------------------------
(* The calendar *)

\* The days of the months, and how many of them precede each month.
LEMMA Months ==
    \A m \in 1 .. 12 : \A y :
        /\ getDaysInMonth(y, m) =
              CASE m = 2 -> (IF isLeapYear(y) THEN 29 ELSE 28)
                [] m \in {4, 6, 9, 11} -> 30
                [] OTHER -> 31
        /\ RefBefore[m] =
              CASE m = 1 -> 0 [] m = 2 -> 31 [] m = 3 -> 59 [] m = 4 -> 90
                [] m = 5 -> 120 [] m = 6 -> 151 [] m = 7 -> 181 [] m = 8 -> 212
                [] m = 9 -> 243 [] m = 10 -> 273 [] m = 11 -> 304 [] m = 12 -> 334
BY DEF getDaysInMonth, RefBefore

\* Counting leap years: the century y \div 100 and the year in it.
LEMMA Centuries ==
    ASSUME NEW y \in Nat
    PROVE  /\ y = 100 * (y \div 100) + (y % 100)
           /\ y \div 4 = 25 * (y \div 100) + (y % 100) \div 4
           /\ y \div 400 = (y \div 100) \div 4
<1> DEFINE c == y \div 100
           d == y % 100
<1>1. c \in Nat /\ d \in 0 .. 99 /\ y = 100 * c + d
  OBVIOUS
<1> HIDE DEF c, d
<1>2. y \div 4 = 25 * c + d \div 4
  <2> DEFINE q == d \div 4
             e == d % 4
  <2>1. q \in Nat /\ e \in 0 .. 3 /\ d = 4 * q + e
    BY <1>1
  <2> HIDE DEF q, e
  <2>2. y = 4 * (25 * c + q) + e
    BY <1>1, <2>1
  <2>3. y \div 4 = 25 * c + q
    BY <1>1, <2>1, <2>2
  <2> QED
    BY <2>3 DEF q
<1>3. y \div 400 = c \div 4
  <2> DEFINE q == c \div 4
             e == c % 4
  <2>1. q \in Nat /\ e \in 0 .. 3 /\ c = 4 * q + e
    BY <1>1
  <2> HIDE DEF q, e
  <2>2. y = 400 * q + (100 * e + d) /\ 100 * e + d \in 0 .. 399
    BY <1>1, <2>1
  <2>3. y \div 400 = q
    BY <1>1, <2>1, <2>2
  <2> QED
    BY <2>3 DEF q
<1>4. c = y \div 100 /\ d = y % 100
  BY DEF c, d
<1> QED
  BY <1>1, <1>2, <1>3, <1>4

\* A year is a leap year if it adds to the leap years counted.
LEMMA LeapCounted ==
    ASSUME NEW y \in Nat
    PROVE  y \div 4 - y \div 100 + y \div 400 =
             (y - 1) \div 4 - (y - 1) \div 100 + (y - 1) \div 400
               + (IF RefLeap(y) THEN 1 ELSE 0)
BY DEF RefLeap

\* Zeller's term for the months is the number of days before them, from March
\* on, up to whole weeks.
LEMMA MonthTerm ==
    ASSUME NEW m \in 1 .. 12
    PROVE  LET n == IF m < 3 THEN m + 12 ELSE m
               b == IF m < 3 THEN RefBefore[m] ELSE RefBefore[m] - 365
           IN  (b + 1 - (26 * (n + 1)) \div 10) % 7 = 0
<1>1. CASE m = 1
  <2>1. (0 + 1 - (26 * (13 + 1)) \div 10) % 7 = 0
    OBVIOUS
  <2> QED
    BY <1>1, <2>1, Months
<1>2. CASE m = 2
  <2>1. (31 + 1 - (26 * (14 + 1)) \div 10) % 7 = 0
    OBVIOUS
  <2> QED
    BY <1>2, <2>1, Months
<1>3. CASE m = 3
  <2>1. (59 - 365 + 1 - (26 * (3 + 1)) \div 10) % 7 = 0
    OBVIOUS
  <2> QED
    BY <1>3, <2>1, Months
<1>4. CASE m = 4
  <2>1. (90 - 365 + 1 - (26 * (4 + 1)) \div 10) % 7 = 0
    OBVIOUS
  <2> QED
    BY <1>4, <2>1, Months
<1>5. CASE m = 5
  <2>1. (120 - 365 + 1 - (26 * (5 + 1)) \div 10) % 7 = 0
    OBVIOUS
  <2> QED
    BY <1>5, <2>1, Months
<1>6. CASE m = 6
  <2>1. (151 - 365 + 1 - (26 * (6 + 1)) \div 10) % 7 = 0
    OBVIOUS
  <2> QED
    BY <1>6, <2>1, Months
<1>7. CASE m = 7
  <2>1. (181 - 365 + 1 - (26 * (7 + 1)) \div 10) % 7 = 0
    OBVIOUS
  <2> QED
    BY <1>7, <2>1, Months
<1>8. CASE m = 8
  <2>1. (212 - 365 + 1 - (26 * (8 + 1)) \div 10) % 7 = 0
    OBVIOUS
  <2> QED
    BY <1>8, <2>1, Months
<1>9. CASE m = 9
  <2>1. (243 - 365 + 1 - (26 * (9 + 1)) \div 10) % 7 = 0
    OBVIOUS
  <2> QED
    BY <1>9, <2>1, Months
<1>10. CASE m = 10
  <2>1. (273 - 365 + 1 - (26 * (10 + 1)) \div 10) % 7 = 0
    OBVIOUS
  <2> QED
    BY <1>10, <2>1, Months
<1>11. CASE m = 11
  <2>1. (304 - 365 + 1 - (26 * (11 + 1)) \div 10) % 7 = 0
    OBVIOUS
  <2> QED
    BY <1>11, <2>1, Months
<1>12. CASE m = 12
  <2>1. (334 - 365 + 1 - (26 * (12 + 1)) \div 10) % 7 = 0
    OBVIOUS
  <2> QED
    BY <1>12, <2>1, Months
<1> QED
  BY <1>1, <1>2, <1>3, <1>4, <1>5, <1>6, <1>7, <1>8, <1>9, <1>10, <1>11, <1>12

\* Whole weeks do not change the weekday.
LEMMA WholeWeeks ==
    ASSUME NEW a \in Int, NEW k \in Int
    PROVE  (a + 7 * k) % 7 = a % 7
OBVIOUS

\* "Simplified Zeller formula": the weekday of the first of a month.
LEMMA Zeller ==
    ASSUME NEW y \in Nat \ {0}, NEW m \in 1 .. 12
    PROVE  getFirstDayOfMonth(y, m) = DayNumber(y, m, 1) % 7
<1> DEFINE z == IF m < 3 THEN y - 1 ELSE y
           n == IF m < 3 THEN m + 12 ELSE m
           b == IF m < 3 THEN RefBefore[m] ELSE RefBefore[m] - 365
           c == z \div 100
           d == z % 100
           p == d \div 4
           q == c \div 4
           t == (26 * (n + 1)) \div 10
<1>1. getFirstDayOfMonth(y, m) = (d + p + q - 2 * c + t + 1 - 1) % 7
  BY DEF getFirstDayOfMonth
<1>2. /\ z \in Nat
      /\ DayNumber(y, m, 1) = 365 * z + z \div 4 - z \div 100 + z \div 400 + b + 1
  <2>1. RefBefore[m] \in Nat
    BY Months
  <2>2. CASE m < 3
    BY <2>1, <2>2 DEF DayNumber
  <2>3. CASE ~ (m < 3)
    <3>1. /\ y - 1 \in Nat /\ y \in Nat /\ (y - 1) \div 4 \in Int /\ (y - 1) \div 100 \in Int
          /\ (y - 1) \div 400 \in Int /\ y \div 4 \in Int /\ y \div 100 \in Int
          /\ y \div 400 \in Int
      OBVIOUS
    <3>2. m > 2
      BY <2>3
    <3> QED
      BY <2>1, <2>3, <3>1, <3>2, LeapCounted DEF DayNumber
  <2> QED
    BY <2>2, <2>3
<1>3. (b + 1 - t) % 7 = 0 /\ b \in Int /\ t \in Int
  <2>1. n \in Nat /\ RefBefore[m] \in Nat
    BY Months
  <2> QED
    BY <2>1, MonthTerm
<1> HIDE DEF t, b, n, z
<1>4. z = 100 * c + d /\ z \div 4 = 25 * c + p /\ z \div 400 = q /\ z \div 100 = c
      /\ c \in Nat /\ d \in Nat /\ p \in Nat /\ q \in Nat
  BY <1>2, Centuries
<1> HIDE DEF c, d, p, q
<1>5. PICK k \in Int : b + 1 - t = 7 * k
  <2>1. b + 1 - t \in Int
    BY <1>3
  <2>2. b + 1 - t = 7 * ((b + 1 - t) \div 7) /\ (b + 1 - t) \div 7 \in Int
    BY <1>3, <2>1
  <2> QED
    BY <2>2
<1>6. DayNumber(y, m, 1) = (d + p + q - 2 * c + t + 1 - 1) + 7 * (5218 * c + 52 * d + k)
  BY <1>2, <1>3, <1>4, <1>5
<1> DEFINE a == d + p + q - 2 * c + t + 1 - 1
           w == 5218 * c + 52 * d + k
<1>7. a \in Int /\ w \in Int
  BY <1>3, <1>4, <1>5
<1>8. getFirstDayOfMonth(y, m) = a % 7 /\ DayNumber(y, m, 1) = a + 7 * w
  BY <1>1, <1>6
<1> HIDE DEF a, w
<1> QED
  BY <1>7, <1>8, WholeWeeks

\* A day of a month, counted from its first.
LEMMA DaysFollow ==
    ASSUME NEW y \in Nat, NEW m \in 1 .. 12
    PROVE  /\ DayNumber(y, m, 1) \in Int
           /\ \A d \in Int : DayNumber(y, m, d) = DayNumber(y, m, 1) + d - 1
<1> DEFINE a == 365 * (y - 1) + (y - 1) \div 4 - (y - 1) \div 100 + (y - 1) \div 400
                  + RefBefore[m] + (IF m > 2 /\ RefLeap(y) THEN 1 ELSE 0)
<1>1. RefBefore[m] \in Nat
  BY Months
<1>2. a \in Int
  BY <1>1
<1>3. \A d : DayNumber(y, m, d) = a + d
  BY DEF DayNumber
<1> HIDE DEF a
<1> QED
  BY <1>2, <1>3

\* A month begins where the month before ends.
LEMMA MonthsFollow ==
    ASSUME NEW y \in Nat, NEW m \in 1 .. 12
    PROVE  /\ DayNumber(NextYear(y, m), NextMonth(m), 1) = DayNumber(y, m, 1) + getDaysInMonth(y, m)
           /\ NextYear(y, m) \in Nat /\ NextMonth(m) \in 1 .. 12
           /\ getDaysInMonth(y, m) \in 28 .. 31
<1> DEFINE u == (y - 1) \div 4 - (y - 1) \div 100 + (y - 1) \div 400
           v == y \div 4 - y \div 100 + y \div 400
           l == IF RefLeap(y) THEN 1 ELSE 0
<1>1. u \in Int /\ v \in Int /\ l \in {0, 1} /\ v = u + l
  BY LeapCounted
<1>2. isLeapYear(y) <=> RefLeap(y)
  BY DEF isLeapYear, RefLeap
<1>3. getDaysInMonth(y, m) \in 28 .. 31
  BY Months
<1>4. NextYear(y, m) \in Nat /\ NextMonth(m) \in 1 .. 12
  BY DEF NextYear, NextMonth
<1>5. DayNumber(y, m, 1) = 365 * (y - 1) + u + RefBefore[m] + (IF m > 2 THEN l ELSE 0) + 1
  <2>1. RefBefore[m] \in Nat
    BY Months
  <2> QED
    BY <1>1, <2>1 DEF DayNumber
<1>6. CASE m = 12
  <2>1. NextYear(y, m) = y + 1 /\ NextMonth(m) = 1 /\ RefBefore[1] = 0 /\ (y + 1) - 1 = y
    BY <1>6, Months DEF NextYear, NextMonth
  <2>2. DayNumber(y + 1, 1, 1) = 365 * y + v + 1
    BY <2>1 DEF DayNumber
  <2>3. RefBefore[m] = 334 /\ getDaysInMonth(y, m) = 31
    BY <1>6, Months
  <2> HIDE DEF u, v, l
  <2> QED
    BY <1>1, <1>3, <1>4, <1>5, <1>6, <2>1, <2>2, <2>3
<1>7. CASE m # 12
  <2>1. NextYear(y, m) = y /\ NextMonth(m) = m + 1 /\ m + 1 \in 1 .. 12
    BY <1>7 DEF NextYear, NextMonth
  <2>2. DayNumber(y, m + 1, 1) =
          365 * (y - 1) + u + RefBefore[m + 1] + (IF m + 1 > 2 THEN l ELSE 0) + 1
    <3>1. RefBefore[m + 1] \in Nat
      BY <2>1, Months
    <3> QED
      BY <1>1, <3>1 DEF DayNumber
  <2>3. RefBefore[m + 1] = RefBefore[m] + (IF m = 2 THEN 28 ELSE getDaysInMonth(y, m))
    BY <1>7, <2>1, Months
  <2>4. m = 2 => getDaysInMonth(y, m) = 28 + l
    BY <1>2, Months
  <2>5. RefBefore[m] \in Nat
    BY Months
  <2> HIDE DEF u, v, l
  <2> QED
    BY <1>1, <1>3, <1>4, <1>5, <1>7, <2>1, <2>2, <2>3, <2>4, <2>5
<1> QED
  BY <1>6, <1>7

\* The cells of a sheet are consecutive days from a Sunday on, and they show
\* the whole month.
LEMMA Sheet ==
    ASSUME NEW y \in Nat \ {0}, NEW m \in 1 .. 12, NEW i \in 0 .. 41
    PROVE  LET first == DayNumber(y, m, 1)
               f == first % 7
               days == getDaysInMonth(y, m)
               cell == Cell(y, m, i)
           IN  /\ first \in Int /\ f \in 0 .. 6 /\ days \in 28 .. 31
               /\ DateOf(y, m, cell) = (first - f) + i
               /\ cell.of = (IF i < f THEN -1 ELSE IF i < f + days THEN 0 ELSE 1)
               /\ i >= f /\ i < f + days => cell = [day |-> i - f + 1, of |-> 0]
<1> DEFINE first == DayNumber(y, m, 1)
           f == first % 7
           days == getDaysInMonth(y, m)
           py == PrevYear(y, m)
           pm == PrevMonth(m)
           before == getDaysInMonth(py, pm)
           cell == Cell(y, m, i)
<1> SUFFICES /\ first \in Int /\ f \in 0 .. 6 /\ days \in 28 .. 31
             /\ DateOf(y, m, cell) = (first - f) + i
             /\ cell.of = (IF i < f THEN -1 ELSE IF i < f + days THEN 0 ELSE 1)
             /\ i >= f /\ i < f + days => cell = [day |-> i - f + 1, of |-> 0]
  OBVIOUS
<1>1. first \in Int /\ days \in 28 .. 31
  BY DaysFollow, MonthsFollow
<1>2. f \in 0 .. 6
  BY <1>1
<1>3. py \in Nat /\ pm \in 1 .. 12 /\ NextYear(py, pm) = y /\ NextMonth(pm) = m
  BY DEF PrevYear, PrevMonth, NextYear, NextMonth
<1>4. before \in 28 .. 31 /\ first = DayNumber(py, pm, 1) + before
  <2> HIDE DEF py, pm
  <2> QED
    BY <1>3, MonthsFollow
<1>5. getFirstDayOfMonth(y, m) = f
  BY Zeller
<1>6. cell = CASE i < f -> [day |-> before - f + 1 + i, of |-> -1]
               [] i >= f /\ i < f + days -> [day |-> i - f + 1, of |-> 0]
               [] OTHER -> [day |-> i - f - days + 1, of |-> 1]
  BY <1>5 DEF Cell
<1>7. /\ py = PrevYear(y, m) /\ pm = PrevMonth(m)
      /\ DayNumber(py, pm, 1) \in Int
      /\ \A d \in Int : /\ DayNumber(py, pm, d) = DayNumber(py, pm, 1) + d - 1
                        /\ DayNumber(y, m, d) = first + d - 1
                        /\ DayNumber(NextYear(y, m), NextMonth(m), d) = first + days + d - 1
  <2> HIDE DEF py, pm
  <2>1. DayNumber(NextYear(y, m), NextMonth(m), 1) = first + days
        /\ NextYear(y, m) \in Nat /\ NextMonth(m) \in 1 .. 12
    BY MonthsFollow
  <2>2. /\ DayNumber(py, pm, 1) \in Int
        /\ \A d \in Int : DayNumber(py, pm, d) = DayNumber(py, pm, 1) + d - 1
    BY <1>3, DaysFollow
  <2>3. \A d \in Int : DayNumber(y, m, d) = first + d - 1
    BY DaysFollow
  <2>4. \A d \in Int : DayNumber(NextYear(y, m), NextMonth(m), d) = first + days + d - 1
    <3> DEFINE ny == NextYear(y, m)
               nm == NextMonth(m)
    <3>1. ny \in Nat /\ nm \in 1 .. 12 /\ DayNumber(ny, nm, 1) = first + days
      BY <2>1
    <3> HIDE DEF ny, nm
    <3>2. \A d \in Int : DayNumber(ny, nm, d) = DayNumber(ny, nm, 1) + d - 1
      BY <3>1, DaysFollow
    <3>3. \A d \in Int : DayNumber(ny, nm, d) = first + days + d - 1
      BY <3>1, <3>2
    <3> QED
      BY <3>3 DEF ny, nm
  <2>5. py = PrevYear(y, m) /\ pm = PrevMonth(m)
    BY DEF py, pm
  <2> QED
    BY <2>2, <2>3, <2>4, <2>5
<1> HIDE DEF py, pm, before, days, cell, f, first
<1>8. CASE i < f
  <2>1. cell.of = -1 /\ cell.day = before - f + 1 + i
    BY <1>1, <1>2, <1>6, <1>8
  <2>2. DateOf(y, m, cell) = DayNumber(py, pm, cell.day)
    BY <1>7, <2>1 DEF DateOf
  <2>3. cell.day \in Int
    BY <1>2, <1>4, <2>1
  <2>4. DayNumber(py, pm, cell.day) = DayNumber(py, pm, 1) + cell.day - 1
    BY <1>7, <2>3
  <2> QED
    BY <1>1, <1>2, <1>4, <1>7, <1>8, <2>1, <2>2, <2>3, <2>4
<1>9. CASE i >= f /\ i < f + days
  <2>1. cell.of = 0 /\ cell.day = i - f + 1 /\ ~ (i < f) /\ cell = [day |-> i - f + 1, of |-> 0]
    BY <1>1, <1>2, <1>6, <1>9
  <2>2. DateOf(y, m, cell) = DayNumber(y, m, cell.day)
    BY <2>1 DEF DateOf
  <2> QED
    BY <1>1, <1>2, <1>7, <1>9, <2>1, <2>2
<1>10. CASE i >= f + days
  <2>1. cell.of = 1 /\ cell.day = i - f - days + 1 /\ ~ (i < f) /\ ~ (i < f + days)
    BY <1>1, <1>2, <1>6, <1>10
  <2>2. DateOf(y, m, cell) = DayNumber(NextYear(y, m), NextMonth(m), cell.day)
    BY <2>1 DEF DateOf
  <2> QED
    BY <1>1, <1>2, <1>7, <1>10, <2>1, <2>2
<1> QED
  BY <1>1, <1>2, <1>8, <1>9, <1>10

\* The calendar shows a month, and today is a date.
CalInv ==
    /\ year \in MinYear .. MaxYear /\ month \in 1 .. 12
    /\ today \in Dates /\ clock \in Dates

\* What a date is made of.
LEMMA DateParts ==
    ASSUME NEW t \in Dates
    PROVE  /\ t[1] \in MinYear .. MaxYear /\ t[2] \in 1 .. 12
           /\ t[3] \in 1 .. 31 /\ t[3] <= getDaysInMonth(t[1], t[2])
BY DEF Dates

\* Paging stays among the years, and a clock shows a date.
LEMMA CalStep ==
    ASSUME CalInv, [CalNext]_calVars
    PROVE  CalInv'
<1>1. MinYear \in Nat /\ MaxYear \in Nat /\ RealDate \in Dates
  BY CalendarAssumption DEF CalendarAssumption
<1>2. CASE LeftButton
  BY <1>1, <1>2 DEF CalInv, LeftButton, PrevMonth, PrevYear
<1>3. CASE RightButton
  BY <1>1, <1>3 DEF CalInv, RightButton, NextMonth, NextYear
<1>4. CASE onTimer
  BY <1>1, <1>4, DateParts DEF CalInv, onTimer
<1>5. CASE ClockSet
  BY <1>1, <1>5 DEF CalInv, ClockSet
<1>6. CASE UNCHANGED calVars
  BY <1>6 DEF CalInv, calVars
<1> QED
  BY <1>2, <1>3, <1>4, <1>5, <1>6 DEF CalNext

\* The sheet is right for every month of every year: Zeller's formula, the
\* days carried over from the neighbours and the mark on today
\* (getFirstDayOfMonth(), getDaysInMonth(), onRepaint()).
THEOREM CalendarSheet == CalSpec => []SheetIsCalendar
<1>1. CalInit => CalInv
  BY CalendarAssumption, DateParts DEF CalendarAssumption, CalInit, CalInv
<1>2. CalInv /\ [CalNext]_calVars => CalInv'
  BY CalStep
<1>3. ASSUME CalInv PROVE SheetIsCalendar
  <2> DEFINE first == DayNumber(year, month, 1)
             f == first % 7
             days == getDaysInMonth(year, month)
  <2>1. year \in Nat \ {0} /\ month \in 1 .. 12
    BY <1>3, CalendarAssumption DEF CalInv, CalendarAssumption
  <2>2. ASSUME NEW i \in 0 .. 41
        PROVE  /\ first \in Int /\ f \in 0 .. 6 /\ days \in 28 .. 31
               /\ DateOf(year, month, Cell(year, month, i)) = (first - f) + i
               /\ Cell(year, month, i).of = (IF i < f THEN -1 ELSE IF i < f + days THEN 0 ELSE 1)
               /\ i >= f /\ i < f + days => Cell(year, month, i) = [day |-> i - f + 1, of |-> 0]
    BY <2>1, Sheet
  <2>3. 41 \in 0 .. 41 /\ first \in Int /\ f \in 0 .. 6 /\ days \in 28 .. 31
    BY <2>2
  <2>4. today[1] \in Int /\ today[2] \in Int /\ today[3] \in 1 .. 31
        /\ (year = today[1] /\ month = today[2] => today[3] <= days)
    BY <1>3, DateParts, CalendarAssumption DEF CalInv, CalendarAssumption
  <2>5. year = today[1] /\ month = today[2] =>
          DayNumber(today[1], today[2], today[3]) = first + today[3] - 1
    <3>1. today[3] \in Int
      BY <2>4
    <3>2. DayNumber(year, month, today[3]) = first + today[3] - 1
      BY <2>1, <3>1, DaysFollow
    <3> QED
      BY <3>2
  <2> HIDE DEF first, f, days
  <2>6. Cell(year, month, 41).of = 1
    BY <2>2, <2>3
  <2>7. ASSUME NEW i \in 0 .. 41
        PROVE  isToday(year, month, i) <=>
                 /\ <<year, month>> = <<today[1], today[2]>>
                 /\ (first - f) + i = DayNumber(today[1], today[2], today[3])
    <3>1. CASE ~ (year = today[1] /\ month = today[2])
      BY <3>1 DEF isToday
    <3>2. CASE year = today[1] /\ month = today[2]
      <4>1. isToday(year, month, i) <=> Cell(year, month, i) = [day |-> today[3], of |-> 0]
        BY <3>2 DEF isToday
      <4>2. CASE i >= f /\ i < f + days
        <5>1. Cell(year, month, i) = [day |-> i - f + 1, of |-> 0]
          BY <2>2, <4>2
        <5>2. Cell(year, month, i) = [day |-> today[3], of |-> 0] <=> i - f + 1 = today[3]
          BY <5>1
        <5> QED
          BY <2>3, <2>4, <2>5, <3>2, <4>1, <5>2
      <4>3. CASE ~ (i >= f /\ i < f + days)
        <5>1. Cell(year, month, i).of # 0
          BY <2>2, <2>3, <4>3
        <5>2. Cell(year, month, i) # [day |-> today[3], of |-> 0]
          BY <5>1
        <5>3. (first - f) + i # first + today[3] - 1
          BY <2>3, <2>4, <3>2, <4>3
        <5> QED
          BY <2>5, <3>2, <4>1, <5>2, <5>3
      <4> QED
        BY <4>2, <4>3
    <3> QED
      BY <3>1, <3>2
  <2> QED
    BY <2>2, <2>6, <2>7 DEF SheetIsCalendar, first, f
<1> QED
  BY <1>1, <1>2, <1>3, PTL DEF CalSpec

-----------------------------------------------------------------------------
(* The calculator *)

\* No outcome of a computation is the empty text, which calculate() and
\* setOperator() read as "no operand".
LEMMA OutcomesAreTexts ==
    ASSUME NEW op, NEW result \in ResultsOf(op)
    PROVE  result # Empty /\ Shown(result) = result
BY DEF ResultsOf, Results, Error, Empty, Shown, Zero

\* Operator and first operand come and go together (calculate, setOperator,
\* clear): the keypad never computes without an operator.
THEOREM CalcOperatorPending == CalcSpec => []OperatorPending
<1>1. CalcInit => OperatorPending
  BY DEF CalcInit, OperatorPending
<1>2. OperatorPending /\ [CalcNext]_calcVars => OperatorPending'
  <2> SUFFICES ASSUME OperatorPending, [CalcNext]_calcVars
               PROVE  OperatorPending'
    OBVIOUS
  <2>1. ASSUME NEW num \in Digits, appendNumber(num)
        PROVE  OperatorPending'
    BY <2>1 DEF appendNumber, OperatorPending
  <2>2. CASE appendDecimal
    BY <2>2 DEF appendDecimal, OperatorPending
  <2>3. ASSUME NEW op \in Operators, ReplaceOperator(op)
        PROVE  OperatorPending'
    BY <2>3 DEF ReplaceOperator, OperatorPending, Operators, NoOp
  <2>4. ASSUME NEW op \in Operators, ChainOperator(op)
        PROVE  OperatorPending'
    <3>1. PICK result \in ResultsOf(currentOperator) : previousInput' = result
      BY <2>4 DEF ChainOperator
    <3>2. previousInput' # Empty
      BY <3>1, OutcomesAreTexts
    <3>3. currentOperator' = op /\ op # NoOp
      BY <2>4 DEF ChainOperator, Operators, NoOp
    <3> QED BY <3>2, <3>3 DEF OperatorPending
  <2>5. CASE calculate
    BY <2>5 DEF calculate, OperatorPending
  <2>6. CASE clear
    BY <2>6 DEF clear, OperatorPending
  <2>7. CASE clearEntry
    BY <2>7 DEF clearEntry, OperatorPending
  <2>8. CASE backspace
    BY <2>8 DEF backspace, OperatorPending
  <2>9. CASE UNCHANGED calcVars
    BY <2>9 DEF calcVars, OperatorPending
  <2> QED
    BY <2>1, <2>2, <2>3, <2>4, <2>5, <2>6, <2>7, <2>8, <2>9 DEF CalcNext, setOperator
<1> QED
  BY <1>1, <1>2, PTL DEF CalcSpec

\* The display differs from the current input in one case only, the point
\* that appendDecimal() refuses for a fresh operand.
THEOREM CalcDisplayLags == CalcSpec => []DisplayLagsOnlyAtZero
<1>1. CalcInit => DisplayLagsOnlyAtZero
  BY DEF CalcInit, DisplayLagsOnlyAtZero, Shown
<1>2. DisplayLagsOnlyAtZero /\ [CalcNext]_calcVars => DisplayLagsOnlyAtZero'
  <2> SUFFICES ASSUME DisplayLagsOnlyAtZero, [CalcNext]_calcVars
               PROVE  DisplayLagsOnlyAtZero'
    OBVIOUS
  <2>0. Len(Empty) < MaxTyped /\ Len(Zero) < MaxTyped /\ Len(Zero) < MaxTyped - 1
    BY MaxTypedAssumption DEF Empty, Zero
  <2>1. ASSUME NEW num \in Digits, appendNumber(num)
        PROVE  DisplayLagsOnlyAtZero'
    <3>1. CASE shouldResetDisplay
      BY <2>0, <2>1, <3>1, MaxTypedAssumption DEF appendNumber, DisplayLagsOnlyAtZero, Shown
    <3>2. CASE ~shouldResetDisplay
      BY <2>0, <2>1, <3>2, MaxTypedAssumption DEF appendNumber, DisplayLagsOnlyAtZero, Shown
    <3> QED BY <3>1, <3>2
  <2>2. CASE appendDecimal
    <3>1. CASE shouldResetDisplay /\ hasDecimal
      BY <2>2, <3>1, Zenon DEF appendDecimal, DisplayLagsOnlyAtZero
    <3>2. CASE shouldResetDisplay /\ ~hasDecimal
      BY <2>0, <2>2, <3>2, Zenon DEF appendDecimal, DisplayLagsOnlyAtZero
    <3>3. CASE ~shouldResetDisplay
      BY <2>2, <3>3, Zenon DEF appendDecimal, DisplayLagsOnlyAtZero
    <3> QED BY <3>1, <3>2, <3>3, Zenon
  <2>3. ASSUME NEW op \in Operators, ReplaceOperator(op)
        PROVE  DisplayLagsOnlyAtZero'
    BY <2>3 DEF ReplaceOperator, DisplayLagsOnlyAtZero, Shown
  <2>4. ASSUME NEW op \in Operators, ChainOperator(op)
        PROVE  DisplayLagsOnlyAtZero'
    BY <2>4 DEF ChainOperator, Computed, DisplayLagsOnlyAtZero, Shown
  <2>5. CASE calculate
    BY <2>5 DEF calculate, Computed, DisplayLagsOnlyAtZero, Shown
  <2>6. CASE clear
    BY <2>6 DEF clear, DisplayLagsOnlyAtZero, Shown
  <2>7. CASE clearEntry
    BY <2>7 DEF clearEntry, DisplayLagsOnlyAtZero, Shown
  <2>8. CASE backspace
    BY <2>8 DEF backspace, DisplayLagsOnlyAtZero, Shown
  <2>9. CASE UNCHANGED calcVars
    BY <2>9 DEF calcVars, DisplayLagsOnlyAtZero, Shown
  <2> QED
    BY <2>1, <2>2, <2>3, <2>4, <2>5, <2>6, <2>7, <2>8, <2>9 DEF CalcNext, setOperator
<1> QED
  BY <1>1, <1>2, PTL DEF CalcSpec

-----------------------------------------------------------------------------

Chars == Digits \cup {Point, "-", "Error"}

\* A text the display or an operand may hold.
Text(text) == text \in Seq(Chars) /\ (Typed(text) \/ text \in Results \cup {Error})

\* The inductive invariant: CalcTypeOK, and that texts are sequences.
CalcInv ==
    /\ Text(currentInput) /\ Text(previousInput) /\ Text(display)
    /\ currentOperator \in Operators \cup {NoOp}
    /\ shouldResetDisplay \in BOOLEAN /\ hasDecimal \in BOOLEAN
    /\ ~shouldResetDisplay => /\ Typed(currentInput)
                              /\ HasPoint(currentInput) => hasDecimal

\* The empty text and 0 can be typed, and have no point.
LEMMA SmallTexts ==
    /\ Text(Empty) /\ Typed(Empty) /\ ~HasPoint(Empty)
    /\ Text(Zero) /\ Typed(Zero) /\ ~HasPoint(Zero)
<1>1. Empty \in Seq(Chars) /\ Len(Empty) = 0
  BY DEF Empty
<1>2. Zero \in Seq(Chars) /\ Len(Zero) = 1 /\ Zero[1] = "0"
  BY DEF Zero, Chars, Digits
<1>3. Typed(Empty) /\ ~HasPoint(Empty)
  BY <1>1, MaxTypedAssumption DEF Typed, HasPoint
<1>4. Typed(Zero) /\ ~HasPoint(Zero)
  BY <1>2, MaxTypedAssumption DEF Typed, HasPoint, Digits, Point
<1> QED
  BY <1>1, <1>2, <1>3, <1>4 DEF Text

\* The outcomes of a computation are texts.
LEMMA OutcomeTexts ==
    ASSUME NEW op, NEW result \in ResultsOf(op)
    PROVE  Text(result)
<1>1. result \in Results \cup {Error}
  BY DEF ResultsOf
<1>2. /\ "0" \in Chars /\ "d" \in Chars /\ "-" \in Chars /\ "." \in Chars
      /\ "Error" \in Chars
  BY DEF Chars, Digits, Point
<1>3. /\ <<"0">> \in Seq(Chars) /\ <<"d">> \in Seq(Chars)
      /\ <<"Error">> \in Seq(Chars)
  BY <1>2
<1>4. <<"-", "d">> \in Seq(Chars)
  BY <1>2
<1>5. <<"d", ".", "d">> \in Seq(Chars)
  BY <1>2
<1>6. result \in Seq(Chars)
  BY <1>1, <1>3, <1>4, <1>5 DEF Results, Error, Point
<1> QED
  BY <1>1, <1>6 DEF Text

\* What is displayed of a text is a text.
LEMMA ShownText ==
    ASSUME NEW text, Text(text)
    PROVE  Text(Shown(text)) /\ (Typed(text) => Typed(Shown(text)))
           /\ (HasPoint(Shown(text)) <=> HasPoint(text))
BY SmallTexts DEF Shown

\* Typing a digit, or the only point, keeps a text typed.
LEMMA AppendTyped ==
    ASSUME NEW text \in Seq(Chars), Typed(text), Len(text) < MaxTyped,
           NEW c \in Digits \cup {Point}, c = Point => ~HasPoint(text)
    PROVE  /\ Text(Append(text, c)) /\ Typed(Append(text, c))
           /\ HasPoint(Append(text, c)) => HasPoint(text) \/ c = Point
<1> DEFINE t == Append(text, c)
<1>1. Len(text) \in Nat /\ MaxTyped \in Nat /\ c \in Chars
  BY MaxTypedAssumption DEF Chars
<1>2. /\ t \in Seq(Chars) /\ Len(t) = Len(text) + 1
      /\ \A i \in 1 .. Len(t) : t[i] = IF i = Len(text) + 1 THEN c ELSE text[i]
  BY <1>1
<1> HIDE DEF t
<1>3. \A i \in 1 .. Len(t) : i # Len(text) + 1 => i \in 1 .. Len(text)
  BY <1>1, <1>2
<1>4. Len(t) <= MaxTyped
  BY <1>1, <1>2
<1>5. \A i \in 1 .. Len(t) : t[i] \in Digits \cup {Point}
  BY <1>2, <1>3 DEF Typed
<1>6. \A i, j \in 1 .. Len(t) : t[i] = Point /\ t[j] = Point => i = j
  BY <1>2, <1>3 DEF Typed, HasPoint
<1>7. Typed(t)
  BY <1>4, <1>5, <1>6 DEF Typed
<1>8. HasPoint(t) => HasPoint(text) \/ c = Point
  BY <1>2, <1>3 DEF HasPoint
<1> QED
  BY <1>2, <1>7, <1>8 DEF Text, t

\* Rubbing out the last character keeps a text typed, and takes a point away
\* only with the point itself.
LEMMA FrontTyped ==
    ASSUME NEW text \in Seq(Chars), Typed(text), text # Empty
    PROVE  LET t == SubSeq(text, 1, Len(text) - 1)
           IN  /\ Text(t) /\ Typed(t)
               /\ HasPoint(t) => HasPoint(text) /\ text[Len(text)] # Point
<1> DEFINE t == SubSeq(text, 1, Len(text) - 1)
<1>1. Len(text) \in Nat /\ Len(text) > 0 /\ MaxTyped \in Nat
  BY MaxTypedAssumption DEF Empty
<1>2. /\ t \in Seq(Chars) /\ Len(t) = Len(text) - 1
      /\ \A i \in 1 .. Len(t) : t[i] = text[i]
  <2> DEFINE n == Len(text) - 1
  <2>1. n \in Nat /\ 1 \in Int /\ n \in Int
    BY <1>1
  <2>2. \A i \in 1 .. n : text[i] \in Chars
    BY <1>1
  <2> HIDE DEF n
  <2>3. /\ SubSeq(text, 1, n) \in Seq(Chars)
        /\ Len(SubSeq(text, 1, n)) = (IF 1 <= n THEN n - 1 + 1 ELSE 0)
        /\ \A i \in 1 .. n - 1 + 1 : SubSeq(text, 1, n)[i] = text[1 + i - 1]
    BY <2>1, <2>2, SubSeqProperties
  <2>4. Len(SubSeq(text, 1, n)) = n
    BY <2>1, <2>3
  <2>5. \A i \in 1 .. n : SubSeq(text, 1, n)[i] = text[i]
    BY <2>1, <2>3
  <2> QED
    BY <2>3, <2>4, <2>5 DEF n
<1> HIDE DEF t
<1>3. \A i \in 1 .. Len(t) : i \in 1 .. Len(text) /\ i # Len(text)
  BY <1>1, <1>2
<1>4. Len(t) <= MaxTyped
  BY <1>1, <1>2 DEF Typed
<1>5. Typed(t)
  BY <1>2, <1>3, <1>4 DEF Typed
<1>6. Len(text) \in 1 .. Len(text)
  BY <1>1
<1>7. HasPoint(t) => HasPoint(text) /\ text[Len(text)] # Point
  BY <1>2, <1>3, <1>6 DEF HasPoint, Typed
<1> QED
  BY <1>2, <1>5, <1>7 DEF Text, t

\* The texts are numbers as typed, within the keypad's width and with one
\* point at most, or outcomes of a computation (calculator.cc).
THEOREM CalcTypes == CalcSpec => []CalcTypeOK
<1>1. CalcInit => CalcInv
  BY SmallTexts DEF CalcInit, CalcInv, Operators, NoOp
<1>2. CalcInv /\ [CalcNext]_calcVars => CalcInv'
  <2> SUFFICES ASSUME CalcInv, [CalcNext]_calcVars
               PROVE  CalcInv'
    OBVIOUS
  <2>0. MaxTyped \in Nat /\ MaxTyped >= 3
    BY MaxTypedAssumption
  <2>1. ASSUME NEW num \in Digits, appendNumber(num)
        PROVE  CalcInv'
    <3> DEFINE base == IF shouldResetDisplay THEN Empty ELSE currentInput
    <3>1. /\ Text(base) /\ Typed(base) /\ base \in Seq(Chars)
          /\ HasPoint(base) => hasDecimal /\ ~shouldResetDisplay
      BY SmallTexts DEF CalcInv, Text
    <3> HIDE DEF base
    <3>2. /\ currentInput' = IF Len(base) < MaxTyped THEN Append(base, num) ELSE base
          /\ display' = IF Len(base) < MaxTyped THEN Shown(currentInput') ELSE display
          /\ hasDecimal' = (hasDecimal /\ ~shouldResetDisplay)
          /\ shouldResetDisplay' = FALSE
          /\ previousInput' = previousInput /\ currentOperator' = currentOperator
      BY <2>1 DEF appendNumber, base
    <3>3. num # Point
      BY DEF Digits, Point
    <3>4. /\ Text(currentInput') /\ Typed(currentInput')
          /\ HasPoint(currentInput') => HasPoint(base)
      BY <3>1, <3>2, <3>3, AppendTyped
    <3>5. Text(display')
      BY <3>2, <3>4, ShownText DEF CalcInv
    <3> QED
      BY <3>1, <3>2, <3>4, <3>5 DEF CalcInv
  <2>2. CASE appendDecimal
    <3> DEFINE base == IF shouldResetDisplay THEN Zero ELSE currentInput
               taken == ~hasDecimal /\ Len(base) < MaxTyped - 1
    <3>1. /\ Text(base) /\ Typed(base) /\ base \in Seq(Chars)
          /\ HasPoint(base) => hasDecimal
      BY SmallTexts DEF CalcInv, Text
    <3>2. /\ currentInput' = IF taken THEN Append(Shown(base), Point) ELSE base
          /\ display' = IF taken THEN Shown(currentInput') ELSE display
          /\ hasDecimal' = (hasDecimal \/ taken)
          /\ shouldResetDisplay' = FALSE
          /\ previousInput' = previousInput /\ currentOperator' = currentOperator
      BY <2>2 DEF appendDecimal
    <3>3. taken => /\ Shown(base) \in Seq(Chars) /\ Typed(Shown(base))
                   /\ Len(Shown(base)) < MaxTyped /\ ~HasPoint(Shown(base))
      <4>1. Len(base) \in Nat /\ Len(Zero) = 1
        BY <3>1 DEF Zero
      <4> HIDE DEF base
      <4>2. Shown(base) \in {base, Zero}
        BY DEF Shown
      <4> HIDE DEF taken
      <4>3. Len(Shown(base)) = Len(base) \/ Len(Shown(base)) = 1
        BY <4>1, <4>2
      <4>4. \A k \in Nat : k < MaxTyped - 1 => k < MaxTyped /\ 1 < MaxTyped
        BY <2>0
      <4>5. Len(base) < MaxTyped - 1 => Len(Shown(base)) < MaxTyped
        BY <4>1, <4>3, <4>4, Zenon
      <4> QED
        BY <3>1, <4>5, ShownText DEF Text, taken
    <3> HIDE DEF base, taken
    <3>4. /\ Text(currentInput') /\ Typed(currentInput')
          /\ HasPoint(currentInput') => hasDecimal \/ taken
      BY <3>1, <3>2, <3>3, AppendTyped
    <3>5. Text(display')
      BY <3>2, <3>4, ShownText DEF CalcInv
    <3>6. hasDecimal' \in BOOLEAN
      BY <3>2
    <3> QED
      BY <3>1, <3>2, <3>4, <3>5, <3>6 DEF CalcInv
  <2>3. ASSUME NEW op \in Operators, ReplaceOperator(op)
        PROVE  CalcInv'
    BY <2>3 DEF ReplaceOperator, CalcInv
  <2>4. ASSUME NEW result \in ResultsOf(currentOperator), Computed(result)
        PROVE  /\ Text(currentInput') /\ Text(display') /\ shouldResetDisplay' = TRUE
               /\ hasDecimal' \in BOOLEAN /\ Text(result)
    <3>1. Text(result) /\ Text(Shown(result))
      BY OutcomeTexts, ShownText
    <3> QED
      BY <2>4, <3>1 DEF Computed, CalcInv, HasPoint
  <2>5. ASSUME NEW op \in Operators, ChainOperator(op)
        PROVE  CalcInv'
    BY <2>4, <2>5 DEF ChainOperator, CalcInv
  <2>6. CASE calculate
    BY <2>4, <2>6, SmallTexts DEF calculate, CalcInv
  <2>7. CASE clear
    BY <2>7, SmallTexts DEF clear, CalcInv
  <2>8. CASE clearEntry
    BY <2>8, SmallTexts DEF clearEntry, CalcInv
  <2>9. CASE backspace
    <3> DEFINE t == SubSeq(currentInput, 1, Len(currentInput) - 1)
    <3>1. /\ currentInput \in Seq(Chars) /\ Typed(currentInput) /\ currentInput # Empty
          /\ HasPoint(currentInput) => hasDecimal
      BY <2>9 DEF backspace, CalcInv, Text
    <3>2. /\ Text(t) /\ Typed(t)
          /\ HasPoint(t) => HasPoint(currentInput) /\ currentInput[Len(currentInput)] # Point
      BY <3>1, FrontTyped
    <3>3. /\ hasDecimal' = (hasDecimal /\ currentInput[Len(currentInput)] # Point)
          /\ currentInput' = t /\ display' = Shown(t)
          /\ UNCHANGED <<previousInput, currentOperator, shouldResetDisplay>>
      BY <2>9 DEF backspace
    <3> HIDE DEF t
    <3>4. Text(Shown(t))
      BY <3>2, ShownText
    <3>5. hasDecimal' \in BOOLEAN
      BY <3>3
    <3> QED
      BY <3>1, <3>2, <3>3, <3>4, <3>5 DEF CalcInv
  <2>10. CASE UNCHANGED calcVars
    BY <2>10 DEF calcVars, CalcInv
  <2> QED
    BY <2>1, <2>2, <2>3, <2>5, <2>6, <2>7, <2>8, <2>9, <2>10 DEF CalcNext, setOperator
<1>3. CalcInv => CalcTypeOK
  BY DEF CalcInv, CalcTypeOK, Text
<1> QED
  BY <1>1, <1>2, <1>3, PTL DEF CalcSpec
=============================================================================
