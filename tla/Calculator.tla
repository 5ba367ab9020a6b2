----------------------------- MODULE Calculator -----------------------------
(***************************************************************************)
(* The keypad of the calculator (src/apps/calculator/calculator.cc): two   *)
(* texts, a pending operator and two flags, changed by one handler per     *)
(* button, and the text on the display, which the handlers refresh on      *)
(* some of their paths only.                                               *)
(*                                                                         *)
(* A text is a sequence of characters; all digits but 0 are "d".  The      *)
(* value a computation yields is abstracted to the shape of its text: an   *)
(* integer, a negative number or a number with a point, and "Error" where  *)
(* the operator divides.                                                   *)
(***************************************************************************)
EXTENDS Naturals, Sequences

CONSTANT MaxTyped    \* 12 in the code: digits stop here, the point one earlier

ASSUME MaxTypedAssumption == MaxTyped \in Nat /\ MaxTyped >= 3

VARIABLES currentInput, previousInput, currentOperator, shouldResetDisplay,
          hasDecimal, display

calcVars == <<currentInput, previousInput, currentOperator, shouldResetDisplay,
              hasDecimal, display>>

Digits    == {"0", "d"}
Operators == {"+", "-", "*", "/"}
NoOp      == "none"
Empty     == << >>
Zero      == <<"0">>
Error     == <<"Error">>
Point     == "."

\* The shapes snprintf gives a result: "%d" or "%.6g"
Results == {<<"0">>, <<"d">>, <<"-", "d">>, <<"d", Point, "d">>}

HasPoint(text) == \E i \in 1 .. Len(text) : text[i] = Point

Shown(text) == IF text = Empty THEN Zero ELSE text

CalcInit ==
    /\ currentInput = Empty /\ previousInput = Empty
    /\ currentOperator = NoOp
    /\ shouldResetDisplay = FALSE /\ hasDecimal = FALSE
    /\ display = Zero

-----------------------------------------------------------------------------
(* The buttons *)

appendNumber(num) ==
    LET base == IF shouldResetDisplay THEN Empty ELSE currentInput
        room == Len(base) < MaxTyped
    IN /\ currentInput' = IF room THEN Append(base, num) ELSE base
       /\ display' = IF room THEN Shown(currentInput') ELSE display
       /\ hasDecimal' = (hasDecimal /\ ~shouldResetDisplay)
       /\ shouldResetDisplay' = FALSE
       /\ UNCHANGED <<previousInput, currentOperator>>

\* A fresh operand starts with 0, but hasDecimal is still the old operand's:
\* when it is set the point is refused and the display is not refreshed.
appendDecimal ==
    LET base == IF shouldResetDisplay THEN Zero ELSE currentInput
        taken == ~hasDecimal /\ Len(base) < MaxTyped - 1
    IN /\ currentInput' = IF taken THEN Append(Shown(base), Point) ELSE base
       /\ display' = IF taken THEN Shown(currentInput') ELSE display
       /\ hasDecimal' = (hasDecimal \/ taken)
       /\ shouldResetDisplay' = FALSE
       /\ UNCHANGED <<previousInput, currentOperator>>

\* calculate() with result as the text of its value; the "Error" path returns
\* early and keeps the operator and the first operand
Computed(result) ==
    /\ currentInput' = result
    /\ display' = Shown(result)
    /\ shouldResetDisplay' = TRUE
    /\ hasDecimal' = IF result = Error THEN hasDecimal ELSE HasPoint(result)

ResultsOf(op) == Results \cup (IF op = "/" THEN {Error} ELSE {})

\* [mutant] a result leaves the first operand behind
EqualKeepsOperand ==
    /\ previousInput # Empty /\ currentInput # Empty
    /\ \E result \in ResultsOf(currentOperator) :
         /\ Computed(result)
         /\ currentOperator' = IF result = Error THEN currentOperator ELSE NoOp
         /\ UNCHANGED previousInput

\* "="
calculate ==
    /\ previousInput # Empty /\ currentInput # Empty
    /\ \E result \in ResultsOf(currentOperator) :
         /\ Computed(result)
         /\ IF result = Error
            THEN UNCHANGED <<previousInput, currentOperator>>
            ELSE previousInput' = Empty /\ currentOperator' = NoOp

\* An operator right after another one replaces it.
ReplaceOperator(op) ==
    /\ currentInput # Empty
    /\ previousInput = Empty \/ shouldResetDisplay
    /\ previousInput' = currentInput
    /\ currentOperator' = op
    /\ shouldResetDisplay' = TRUE
    /\ UNCHANGED <<currentInput, hasDecimal, display>>

\* An operator after a second operand computes first; "Error" becomes the
\* first operand like any other result.
ChainOperator(op) ==
    /\ currentInput # Empty
    /\ previousInput # Empty /\ ~shouldResetDisplay
    /\ \E result \in ResultsOf(currentOperator) :
         Computed(result) /\ previousInput' = result
    /\ currentOperator' = op

setOperator(op) == ReplaceOperator(op) \/ ChainOperator(op)

clear ==
    /\ currentInput' = Empty /\ previousInput' = Empty
    /\ currentOperator' = NoOp
    /\ shouldResetDisplay' = FALSE /\ hasDecimal' = FALSE
    /\ display' = Zero

\* [mutant] the entry is cleared, the display is not told
ClearEntryQuietly ==
    /\ currentInput' = Empty
    /\ hasDecimal' = FALSE
    /\ UNCHANGED <<previousInput, currentOperator, shouldResetDisplay, display>>

clearEntry ==
    /\ currentInput' = Empty
    /\ hasDecimal' = FALSE
    /\ display' = Zero
    /\ UNCHANGED <<previousInput, currentOperator, shouldResetDisplay>>

\* [mutant] rubbing out any character allows a new point
BackspaceFreesPoint ==
    /\ currentInput # Empty /\ ~shouldResetDisplay
    /\ hasDecimal' = FALSE
    /\ currentInput' = SubSeq(currentInput, 1, Len(currentInput) - 1)
    /\ display' = Shown(currentInput')
    /\ UNCHANGED <<previousInput, currentOperator, shouldResetDisplay>>

backspace ==
    /\ currentInput # Empty /\ ~shouldResetDisplay
    /\ hasDecimal' = (hasDecimal /\ currentInput[Len(currentInput)] # Point)
    /\ currentInput' = SubSeq(currentInput, 1, Len(currentInput) - 1)
    /\ display' = Shown(currentInput')
    /\ UNCHANGED <<previousInput, currentOperator, shouldResetDisplay>>

CalcNext ==
    \/ \E num \in Digits : appendNumber(num)
    \/ appendDecimal
    \/ \E op \in Operators : setOperator(op)
    \/ calculate
    \/ clear
    \/ clearEntry
    \/ backspace

CalcSpec == CalcInit /\ [][CalcNext]_calcVars

-----------------------------------------------------------------------------
(* Properties *)

Typed(text) ==
    /\ Len(text) <= MaxTyped
    /\ \A i \in 1 .. Len(text) : text[i] \in Digits \cup {Point}
    /\ \A i, j \in 1 .. Len(text) : text[i] = Point /\ text[j] = Point => i = j

\* The texts are numbers as typed - never longer than the keypad admits, and
\* with one point at most, whatever was rubbed out, cleared or refused in
\* between - or the outcome of a computation.
CalcTypeOK ==
    /\ \A text \in {currentInput, previousInput, display} :
          Typed(text) \/ text \in Results \cup {Error}
    /\ currentOperator \in Operators \cup {NoOp}
    /\ shouldResetDisplay \in BOOLEAN /\ hasDecimal \in BOOLEAN
    /\ ~shouldResetDisplay => /\ Typed(currentInput)
                              /\ HasPoint(currentInput) => hasDecimal

\* A first operand waits exactly while an operator does: calculate() never
\* runs its switch without an operator, which would answer 0.
OperatorPending == previousInput # Empty <=> currentOperator # NoOp

\* The display shows the current input, but for one case: the refused point of
\* a fresh operand, which leaves 0 in the input and the old number on display.
DisplayLagsOnlyAtZero ==
    display # Shown(currentInput) => currentInput = Zero /\ hasDecimal

=============================================================================
