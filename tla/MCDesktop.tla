------------------------------ MODULE MCDesktop -----------------------------
(***************************************************************************)
(* The small desktop programs, each on its own: they share no state, so a  *)
(* behaviour runs one of them and leaves the others as they start.         *)
(***************************************************************************)
EXTENDS Tetris, Calendar, Calculator

VARIABLE program   \* the one that runs

deskVars == <<program, tVars, calVars, calcVars>>

\* Tetris: three of the shapes of game.c
O == << <<0, 0>>, <<1, 0>>, <<0, 1>>, <<1, 1>> >>
T == << <<0, 0>>, <<-1, 0>>, <<1, 0>>, <<0, 1>> >>
I == << <<0, 0>>, <<0, -1>>, <<0, 1>>, <<0, 2>> >>
ShapesOTI == <<O, T, I>>
Freqs == <<2, 1>>

\* The calendar: a clock that starts at the epoch and is set later
Epoch == <<1970, 1, 1>>
LeapDay == <<2024, 2, 29>>

DeskInit ==
    /\ program \in {"tetris", "calendar", "calculator"}
    /\ TInit /\ CalInit /\ CalcInit
    /\ program # "tetris" => current_shape_type = 1

RunTetris(A) == program = "tetris" /\ A /\ UNCHANGED <<program, calVars, calcVars>>
RunCalendar(A) == program = "calendar" /\ A /\ UNCHANGED <<program, tVars, calcVars>>
RunCalculator(A) == program = "calculator" /\ A /\ UNCHANGED <<program, tVars, calVars>>

DeskNext == RunTetris(TNext) \/ RunCalendar(CalNext) \/ RunCalculator(CalcNext)

\* The fairness of TFairSpec and CalFairSpec, for the program that runs.
DeskSpec ==
    /\ DeskInit /\ [][DeskNext]_deskVars
    /\ []<>(program # "tetris" \/ game_over) \/ []<><<RunTetris(Frame)>>_deskVars
    /\ WF_deskVars(RunCalendar(onTimer))
=============================================================================
