------------------------------- MODULE Tetris -------------------------------
(***************************************************************************)
(* The game logic of apps/sdl_tetris (game.c).  The grid is the set of its *)
(* occupied cells <<x, y>>, row 0 on top; colours and the score, which no  *)
(* branch reads, are left out.  One step is one iteration of game_loop.    *)
(***************************************************************************)
EXTENDS Integers, Sequences, FiniteSets, Functions

CONSTANTS
  GRID_WIDTH, GRID_HEIGHT,
  SHAPES,           \* sequence of shapes, each a sequence of four <<dx, dy>>
  LEVEL_FREQS,      \* frames per fall, by level
  SOFT_FREQ, HARD_FREQ,
  LinesPerLevel,    \* 10 in destroy_row
  ByteRange         \* 256: lines_cleared and current_level are uint8_t

\* The blocks of a shape are distinct and leave out no row or column between two
\* of them.
Compact(shape) ==
  /\ IsInjective(shape)
  /\ \A i, j \in 1..Len(shape), axis \in 1..2 : \A n \in shape[i][axis]..shape[j][axis] :
        \E k \in 1..Len(shape) : shape[k][axis] = n

ASSUME TAssumption ==
  /\ GRID_WIDTH \in Nat \ {0} /\ GRID_HEIGHT \in Nat /\ GRID_HEIGHT > 2
  /\ SHAPES \in Seq(Seq(Int \X Int))
  /\ \A s \in 1..Len(SHAPES) :
        /\ Compact(SHAPES[s])
        /\ \E i \in 1..Len(SHAPES[s]) : SHAPES[s][i] = <<0, 0>>
        /\ \A i \in 1..Len(SHAPES[s]) :
              /\ GRID_WIDTH \div 2 + SHAPES[s][i][1] \in 0..(GRID_WIDTH - 1)
              /\ SHAPES[s][i][2] \in -1..2
  /\ LEVEL_FREQS \in Seq(Nat \ {0}) /\ LEVEL_FREQS # <<>>
  /\ {SOFT_FREQ, HARD_FREQ} \subseteq Nat \ {0}
  /\ ByteRange \in Nat \ {0}

VARIABLES
  grid,                \* occupied cells
  game_over,
  iteration, fall_freq,
  lines_cleared, current_level,
  current_shape,       \* offsets of the four blocks
  current_shape_type, current_x, current_y,
  state_changed,
  shown                \* what update_frame last drew: grid and shape
  
shapeVars == <<current_shape, current_shape_type, current_x, current_y>>
tVars == <<grid, game_over, iteration, fall_freq, lines_cleared, current_level,
           current_shape, current_shape_type, current_x, current_y, state_changed, shown>>

Columns == 0..(GRID_WIDTH - 1)
Rows == 0..(GRID_HEIGHT - 1)

-----------------------------------------------------------------------------
\* get_curr_fall_freq
FallFreq(level) == LEVEL_FREQS[IF level >= Len(LEVEL_FREQS) THEN Len(LEVEL_FREQS) ELSE level + 1]

\* The cells of a shape at a position, in the order of its blocks.
Blocks(shape, x, y) == [i \in 1..Len(shape) |-> <<shape[i][1] + x, shape[i][2] + y>>]

\* [mutant] the floor is one row too low
CollisionOffByOne(g, c) ==
  \/ c[1] \notin Columns
  \/ c[2] > GRID_HEIGHT
  \/ c[2] >= 0 /\ c \in g

detect_collision(g, c) ==
  \/ c[1] \notin Columns
  \/ c[2] >= GRID_HEIGHT
  \/ c[2] >= 0 /\ c \in g

Fits(g, shape, x, y) ==
  \A i \in 1..Len(shape) : ~detect_collision(g, Blocks(shape, x, y)[i])

\* The row spawn_shape starts a shape in: the first of -2 and -1 below which a
\* block would hit the grid, 0 when there is none.
SpawnRow(g, shape) ==
  LET blocked == {y \in {-2, -1} : \E i \in 1..Len(shape) :
                     LET c == Blocks(shape, GRID_WIDTH \div 2, y + 1)[i]
                     IN  c[2] >= 0 /\ c \in g}
  IN  IF -2 \in blocked THEN -2 ELSE IF -1 \in blocked THEN -1 ELSE 0

spawn_shape(g) ==
  \E s \in 1..Len(SHAPES) :
    /\ current_shape_type' = s
    /\ current_shape' = SHAPES[s]
    /\ current_x' = GRID_WIDTH \div 2
    /\ current_y' = SpawnRow(g, SHAPES[s])

-----------------------------------------------------------------------------
RowFull(g, y) == \A x \in Columns : <<x, y>> \in g

\* [mutant] the loop of destroy_row stops one row early
DestroyAboveOnly(g, row) ==
  {c \in g : c[2] > row \/ (c[2] \in {0, 1} /\ row > c[2])}
    \cup {<<c[1], c[2] + 1>> : c \in {d \in g : d[2] < row /\ d[2] > 0}}

\* clean_destroyed_blocks empties the row; destroy_row then moves the rows above
\* it down by one.  Row 0 is copied, not cleared.
destroy_row(g, row) ==
  {c \in g : c[2] > row \/ (c[2] = 0 /\ row > 0)}
    \cup {<<c[1], c[2] + 1>> : c \in {d \in g : d[2] < row}}

\* [mutant] the marked rows are cleaned from the bottom up
CleanBottomUp(g, rows) ==
  LET upTo[k \in 0..GRID_HEIGHT] ==
        LET j == GRID_HEIGHT - k
        IN  IF k = 0 THEN g ELSE IF j \in rows THEN destroy_row(upTo[k - 1], j) ELSE upTo[k - 1]
  IN  upTo[GRID_HEIGHT]

\* clean_destroyed_blocks: from the top down, the k rows above row k are done.
clean_destroyed_blocks(g, rows) ==
  LET upTo[k \in 0..GRID_HEIGHT] ==
        IF k = 0 THEN g
        ELSE IF k - 1 \in rows THEN destroy_row(upTo[k - 1], k - 1) ELSE upTo[k - 1]
  IN  upTo[GRID_HEIGHT]

\* current_level after n more lines, counted in a byte.
LevelAfter(n) ==
  (current_level + Cardinality({k \in 1..n : ((lines_cleared + k) % ByteRange) % LinesPerLevel = 0}))
    % ByteRange

\* lock_shape: the blocks are written one by one.  A row that is full after one
\* of its blocks is marked; a block that ends in row 0 without filling it ends
\* the game, a block above the grid does not.  Marked rows are cleaned, and the
\* next shape is spawned even when the game is over.
lock_shape(p) ==
  LET cells == Blocks(p.shape, p.x, current_y)
      writtenUpTo(i) == grid \cup {cells[k] : k \in {j \in 1..i : cells[j] \in Columns \X Rows}}
      locked == writtenUpTo(Len(cells))
      to_destroy == {y \in Rows : RowFull(locked, y) /\ \E c \in Range(cells) : c[2] = y}
      atTop == \E i \in 1..Len(cells) : cells[i][2] = 0 /\ ~RowFull(writtenUpTo(i), 0)
      count == Cardinality(to_destroy)
  IN  /\ grid' = clean_destroyed_blocks(locked, to_destroy)
      /\ game_over' = (game_over \/ atTop)
      /\ current_level' = LevelAfter(count)
      /\ lines_cleared' = (lines_cleared + count) % ByteRange
      /\ iteration' = 0 /\ fall_freq' = FallFreq(current_level')
      /\ spawn_shape(grid')

-----------------------------------------------------------------------------
\* What one input leaves for the rest of the frame: the offsets and the column
\* of the shape, the fall counter and its limit, and whether to redraw.
NoInput == [shape |-> current_shape, x |-> current_x, iteration |-> iteration,
            freq |-> fall_freq, redraw |-> FALSE]

\* reset_fall_freq, the first thing a move does.
Steered == [NoInput EXCEPT !.freq = FallFreq(current_level)]

move_side(dir) ==
  LET ok == Fits(grid, current_shape, current_x + dir, current_y)
  IN  [Steered EXCEPT !.redraw = ok, !.x = IF ok THEN @ + dir ELSE @]

Rotated == [i \in 1..Len(current_shape) |-> <<current_shape[i][2], -current_shape[i][1]>>]

\* [mutant] a rotation is not checked against the blocks in the grid
RotateThrough ==
  IF current_shape_type = 1 THEN Steered
  ELSE [Steered EXCEPT !.redraw = TRUE,
          !.shape = IF Fits({}, Rotated, current_x, current_y) THEN Rotated ELSE @]

\* [mutant] a rotation restarts the wait for the next fall
RotateHovers ==
  IF current_shape_type = 1 THEN Steered
  ELSE [Steered EXCEPT !.redraw = TRUE, !.iteration = 0,
          !.shape = IF Fits(grid, Rotated, current_x, current_y) THEN Rotated ELSE @]

\* The first of SHAPES is the O-shape, which is not rotated.
rotate_shape ==
  IF current_shape_type = 1 THEN Steered
  ELSE [Steered EXCEPT !.redraw = TRUE,
          !.shape = IF Fits(grid, Rotated, current_x, current_y) THEN Rotated ELSE @]

update_fall_freq(new) ==
  [NoInput EXCEPT !.freq = IF FallFreq(current_level) < new THEN FallFreq(current_level) ELSE new]

handle_input_event(event) ==
  CASE event = "LEFT" -> move_side(-1)
    [] event = "RIGHT" -> move_side(1)
    [] event = "ROTATE" -> rotate_shape
    [] event = "HARD_DROP" -> update_fall_freq(HARD_FREQ)
    [] event = "SOFT_DROP" -> update_fall_freq(SOFT_FREQ)
    [] OTHER -> NoInput

\* What listen_for_input returns for a key; QUIT ends the program.
Keys == {"ANY_INPUT", "LEFT", "RIGHT", "ROTATE", "HARD_DROP", "SOFT_DROP"}

-----------------------------------------------------------------------------
\* What the screen should show.
Picture == [grid |-> grid,
            shape |-> {c \in Range(Blocks(current_shape, current_x, current_y)) : c[2] >= 0}]

\* update_frame, after the frame has changed something or not.
update_frame(changed) ==
  IF ~game_over' /\ (state_changed \/ changed)
    THEN shown' = Picture' /\ state_changed' = FALSE
    ELSE shown' = shown /\ state_changed' = (state_changed \/ changed)

Place(p) ==
  /\ current_shape' = p.shape /\ current_x' = p.x /\ fall_freq' = p.freq
  /\ UNCHANGED <<grid, game_over, lines_cleared, current_level, current_shape_type>>

\* game_loop while the game is on: the input, then fall, then update_frame.
\* fall waits for its turn ...
FrameWait(event) ==
  LET p == handle_input_event(event)
  IN  /\ ~game_over /\ p.iteration + 1 < p.freq
      /\ iteration' = p.iteration + 1
      /\ Place(p) /\ UNCHANGED current_y
      /\ update_frame(p.redraw)

\* ... moves the shape down by a row ...
FrameFall(event) ==
  LET p == handle_input_event(event)
  IN  /\ ~game_over /\ p.iteration + 1 >= p.freq
      /\ Fits(grid, p.shape, p.x, current_y + 1)
      /\ iteration' = 0
      /\ Place(p) /\ current_y' = current_y + 1
      /\ update_frame(TRUE)

\* ... or locks it where it is.
FrameLock(event) ==
  LET p == handle_input_event(event)
  IN  /\ ~game_over /\ p.iteration + 1 >= p.freq
      /\ ~Fits(grid, p.shape, p.x, current_y + 1)
      /\ lock_shape(p)
      /\ update_frame(TRUE)

\* game_loop after the end: any key restarts.  The fall counter and its limit
\* are not reset.
restart_game ==
  /\ game_over
  /\ grid' = {} /\ game_over' = FALSE /\ current_level' = 0 /\ lines_cleared' = 0
  /\ spawn_shape({})
  /\ state_changed' = TRUE
  /\ UNCHANGED <<iteration, fall_freq, shown>>

TInit ==
  /\ grid = {} /\ game_over = FALSE /\ iteration = 0
  /\ fall_freq = LEVEL_FREQS[1] /\ lines_cleared = 0 /\ current_level = 0
  /\ current_shape_type \in 1..Len(SHAPES) /\ current_shape = SHAPES[current_shape_type]
  /\ current_x = GRID_WIDTH \div 2 /\ current_y = 0
  /\ state_changed = TRUE /\ shown = [grid |-> {}, shape |-> {}]

Frame == \E event \in Keys \cup {"NO_INPUT"} :
           FrameWait(event) \/ FrameFall(event) \/ FrameLock(event)

TNext == Frame \/ restart_game

TSpec == TInit /\ [][TNext]_tVars

\* game_loop runs a frame every FRAME_DELAY milliseconds whatever the player does.
\* A frame is enabled exactly while the game is on, so this is WF_tVars(Frame)
\* with its ENABLED spelled out.
FramesGoOn == []<>game_over \/ []<><<Frame>>_tVars

TFairSpec == TSpec /\ FramesGoOn

-----------------------------------------------------------------------------
\* The types; lock_shape never writes a block outside the array, and the shape's
\* centre stays on the board (or above it, right after the spawn).
TTypeOK ==
  /\ grid \subseteq Columns \X Rows
  /\ game_over \in BOOLEAN /\ state_changed \in BOOLEAN
  /\ fall_freq \in Nat \ {0} /\ iteration \in Nat
  /\ lines_cleared \in 0..(ByteRange - 1) /\ current_level \in 0..(ByteRange - 1)
  /\ current_shape_type \in 1..Len(SHAPES)
  /\ current_x \in Columns /\ current_y \in -2..(GRID_HEIGHT - 1)

\* While the game is on, no block of the falling shape is outside the walls,
\* below the floor or on an occupied cell: detect_collision is asked before every
\* move, and spawn_shape, which does not ask it, finds a free place.
ShapeFits == ~game_over => Fits(grid, current_shape, current_x, current_y)

\* No full row survives the frame that filled it.
NoFullRows == \A y \in Rows : ~RowFull(grid, y)

\* Locking a shape adds its blocks and removes whole rows, nothing else: blocks
\* are neither lost nor doubled when rows move down, as long as the game goes on.
BlocksConserved ==
  [][grid' # grid /\ ~game_over' /\ ~game_over =>
       \E rows \in 0..Len(current_shape) :
          Cardinality(grid') = Cardinality(grid) + Len(current_shape) - rows * GRID_WIDTH]_tVars

\* The screen shows the grid and the shape unless a redraw is due.
ScreenFresh == ~game_over /\ ~state_changed => shown = Picture

\* A shape cannot be kept in the air: whatever keys are pressed, it leaves every
\* row it enters, or the game ends.
KeepsFalling ==
  \A y \in 1..(GRID_HEIGHT - 1) : (current_y = y) ~> (current_y # y \/ game_over)
=============================================================================
