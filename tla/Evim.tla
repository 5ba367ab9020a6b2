-------------------------------- MODULE Evim --------------------------------
(***************************************************************************)
(* evim, one file being edited: the keys do_cmd() dispatches on            *)
(* (src/bin/evim/vim_dcmd.c), the colon commands that write and leave      *)
(* (vim_cmd.c), and the file on disk. The buffer operations are those of   *)
(* EvimText.                                                               *)
(*                                                                         *)
(* Two variables are not the program's: "original" remembers the text as   *)
(* it was read, and "prev" the text before the newest command, as long as  *)
(* "u" should give it back.                                                *)
(***************************************************************************)
EXTENDS EvimText

CONSTANTS
    Texts,        \* the file contents an edit may start from
    Inputs,       \* <<key, count>>: the keys pressed and their count prefix
    ShortWrites,  \* how many bytes a write() that falls short may write (none: {})
    InitialSize,  \* text_size after init_text_buffer(): 10240
    TextCap,      \* bound: texts this long are given no more editing commands
    UndoCap       \* bound: nor are stacks with this many undo objects

VARIABLES
    buf,        \* the buffer record of EvimText
    cmd_mode,   \* 0 = command, 1 = insert, 2 = replace
    file,       \* what the disk holds
    editing,    \* "yes", "no" (left) or "forced" (left with !)
    original, prev

evVars == <<buf, cmd_mode, file, editing, original, prev>>

None == <<"none">>

\* init_text_buffer() and edit_file() on an existing file
EvInit ==
    /\ file \in Texts
    /\ buf = [text |-> file, dot |-> 0, text_size |-> InitialSize,
              undo_stack |-> <<>>, undo_q |-> 0, undo_queue |-> <<>>,
              undo_queue_state |-> "EMPTY", undo_queue_spos |-> 0, spos_stale |-> FALSE,
              modified_count |-> 0, reg |-> <<>>, regtype |-> "PARTIAL", wild |-> FALSE]
    /\ cmd_mode = 0
    /\ editing = "yes"
    /\ original = file
    /\ prev = None

-----------------------------------------------------------------------------
(* What do_cmd() does after every key *)

\* [mutant] an emptied text stays empty
FinishEmpty(b, mode) == [b EXCEPT !.dot = bound_dot(b, @)]

\* An emptied text gets its line back, dot is kept inside, and off the newline
\* in command mode.
Refilled(b) ==
    IF b.text # <<>> THEN b
    ELSE [char_insert([b EXCEPT !.dot = 0], NL, "NO") EXCEPT !.dot = 0]

Bounded(b) == IF b.dot = Len(b.text) THEN b ELSE [b EXCEPT !.dot = bound_dot(b, @)]

OffNewline(b) ==
    IF At(b.text, b.dot) = NL /\ b.dot > begin_line(b.text, b.dot)
    THEN [b EXCEPT !.dot = @ - 1] ELSE b

Finish(b, mode) ==
    IF mode = 0 THEN OffNewline(Bounded(Refilled(b))) ELSE Bounded(Refilled(b))

Pressed(key, n) == <<key, n>> \in Inputs

Repeat(Op(_), b, n) == FoldLeft(LAMBDA x, i : Op(x), b, [i \in 1 .. n |-> i])

\* A key handled: the buffer becomes b, and the mode m.
Handled(b, m) ==
    /\ buf' = Finish(b, m)
    /\ cmd_mode' = m
    /\ UNCHANGED <<file, editing, original>>

Ready == editing = "yes"
InBounds == Len(buf.text) < TextCap /\ Len(buf.undo_stack) < UndoCap

-----------------------------------------------------------------------------
(* Command mode: moving *)

Target(key, b, n) ==
    CASE key = "left"  -> Repeat(dot_left, b, n)
      [] key = "right" -> Repeat(dot_right, b, n)
      [] key = "home"  -> dot_begin(b)
      [] key = "end"   -> [b EXCEPT !.dot = end_line(b.text, b.dot)]

\* The cursor keys are commands in every mode; h, l, 0 and $ are the same ones.
CursorKey(key, n) ==
    /\ Ready
    /\ key \in {"left", "right", "home", "end"}
    /\ Pressed(key, n)
    /\ Handled(Target(key, buf, n), cmd_mode)
    /\ prev' = IF cmd_mode = 0 THEN prev ELSE None

\* + and -: to the first non-blank of the next or previous line, if there is one
LineMove(key) ==
    /\ Ready /\ cmd_mode = 0
    /\ Pressed(key, 1)
    /\ LET t == buf.text
           p == IF key = "+" THEN next_line(t, buf.dot) ELSE prev_line(t, buf.dot)
           stuck == p = (IF key = "+" THEN end_line(t, buf.dot) ELSE begin_line(t, buf.dot))
       IN /\ key \in {"+", "-"}
          /\ Handled(IF stuck THEN buf ELSE dot_skip_over_ws([buf EXCEPT !.dot = p]), 0)
    /\ UNCHANGED prev

-----------------------------------------------------------------------------
(* Command mode: editing *)

\* The flag for the i-th of the edits one command makes.
Link(i) == IF i = 1 THEN "ALLOW" ELSE "CHAIN"

\* [mutant] every deletion starts a new undo operation
XUnchained(b, n) ==
    Repeat(LAMBDA x : IF At(x.text, x.dot) = NL THEN x
                      ELSE yank_delete(x, x.dot, x.dot, "PARTIAL", TRUE, "ALLOW"), b, n)

\* x: delete n characters, none of them a newline.
cmd_x(b, n) ==
    LET One(s, i) ==
          IF At(s.b.text, s.b.dot) = NL THEN s
          ELSE [b |-> yank_delete(s.b, s.b.dot, s.b.dot, "PARTIAL", TRUE, s.undo),
                undo |-> "CHAIN"]
    IN FoldLeft(One, [b |-> b, undo |-> "ALLOW"], [i \in 1 .. n |-> i]).b

\* ~: flip the case of n letters, each a deletion and an insertion in place
Flip(c) == IF c = "a" THEN "A" ELSE "a"

cmd_tilde(b, n) ==
    LET One(s, i) ==
          IF At(s.b.text, s.b.dot) \notin Letters THEN [s EXCEPT !.b = dot_right(@)]
          ELSE LET d == s.b.dot
                   x == undo_push(s.b, d, 1, s.undo_del)
                   y == [x EXCEPT !.text = [@ EXCEPT ![d + 1] = Flip(@)]]
               IN [b |-> dot_right(undo_push(y, d, 1, "INS_CHAIN")), undo_del |-> "DEL_CHAIN"]
    IN FoldLeft(One, [b |-> b, undo_del |-> "DEL"], [i \in 1 .. n |-> i]).b

\* J: the newline becomes a space, and the blanks that led the next line go.
SpaceForNewline(b) ==
    LET spaced == [undo_push(b, b.dot, 1, "DEL")
                   EXCEPT !.text = [@ EXCEPT ![b.dot + 1] = SP], !.dot = @ + 1]
    IN undo_push(spaced, b.dot, 1, "INS_CHAIN")

StripBlanks(b) ==
    Repeat(LAMBDA x : text_hole_delete(x, x.dot, x.dot, "CHAIN"), b,
           SkipBlanks(Append(b.text, NL), b.dot) - b.dot)

JoinAt(b) == IF b.dot >= Len(b.text) - 1 THEN b ELSE StripBlanks(SpaceForNewline(b))

JoinOne(b) == JoinAt(dot_end(b))

\* p, P: put the register n times at one place, after or before dot.
cmd_put(b, key, n) ==
    LET whole == b.regtype = "WHOLE"
        at == CASE whole /\ key = "P" -> dot_begin(b)
                [] whole /\ key = "p" ->
                     IF end_line(b.text, b.dot) = Len(b.text) - 1
                     THEN [b EXCEPT !.dot = Len(b.text)] ELSE dot_next(b)
                [] ~whole /\ key = "p" -> dot_right(b)
                [] OTHER -> b
        put == FoldLeft(LAMBDA x, i : string_insert(x, x.dot, b.reg, Link(i)),
                        at, [i \in 1 .. n |-> i])
        ahead == IF whole \/ NL \in Range(b.reg) THEN 0 ELSE n * Len(b.reg) - 1
    IN IF b.reg = <<>> THEN b
       ELSE dot_skip_over_ws([put EXCEPT !.dot = @ + ahead])

\* dd, yy, cc: the whole line, to the register, and away unless only yanked
BackToOpened(b) == IF b.dot = Len(b.text) - 1 THEN b ELSE dot_prev(b)

cmd_line(b, key) ==
    LET line == yank_delete(b, begin_line(b.text, b.dot), end_line(b.text, b.dot),
                            "WHOLE", key # "yy", "ALLOW")
    IN CASE key = "dd" -> dot_skip_over_ws(dot_begin(line))
         [] key = "yy" -> [line EXCEPT !.dot = b.dot]
         [] key = "cc" -> undo_queue_commit(BackToOpened(char_insert(line, NL, "CHAIN")))

\* D: delete to the end of the line.
cmd_D(b) == yank_delete(b, b.dot, dollar_line(b.text, b.dot), "PARTIAL", TRUE, "ALLOW")

\* r: replace n characters of the line by "a" (the provided character).
cmd_r(b, n) ==
    LET One(x, i) ==
          char_insert(DeleteMoving(x, x.dot, x.dot, Link(i)), "a", "CHAIN")
    IN IF end_line(b.text, b.dot) - b.dot < n THEN b
       ELSE dot_left(FoldLeft(One, b, [i \in 1 .. n |-> i]))

Edited(key, b, n) ==
    CASE key = "x"  -> cmd_x(b, n)
      [] key = "~"  -> cmd_tilde(b, n)
      [] key = "J"  -> Repeat(JoinOne, b, n)
      [] key \in {"p", "P"} -> cmd_put(b, key, n)
      [] key \in {"dd", "yy"} -> cmd_line(b, key)
      [] key = "D"  -> cmd_D(b)
      [] key = "r"  -> cmd_r(b, n)

\* One editing command of command mode.
Command(key, n) ==
    /\ Ready /\ InBounds /\ cmd_mode = 0
    /\ key \in {"x", "~", "J", "p", "P", "dd", "yy", "D", "r"}
    /\ Pressed(key, n)
    /\ Handled(Edited(key, buf, n), 0)
    /\ prev' = IF buf'.undo_stack # buf.undo_stack THEN buf.text ELSE prev

\* u: undo the last operation
Undo ==
    /\ Ready /\ cmd_mode = 0
    /\ Pressed("u", 1)
    /\ Handled(undo_pop(buf), 0)
    /\ prev' = None

\* Delete, in every mode: the character at dot, unless it is the last one
DeleteKey ==
    /\ Ready /\ InBounds
    /\ Pressed("del", 1)
    /\ Handled(IF buf.dot < Len(buf.text) - 1
               THEN yank_delete(buf, buf.dot, buf.dot, "PARTIAL", TRUE, "ALLOW") ELSE buf,
               cmd_mode)
    /\ prev' = None

-----------------------------------------------------------------------------
(* Insert and replace mode *)

\* [mutant] appending steps over the newline as over any character
AppendAnywhere(key, b) ==
    CASE key = "append" -> [b EXCEPT !.dot = @ + 1]
      [] OTHER -> b

\* i, a (named append: "a" is also a character), A, I, o, O, C, s, cc, R: where
\* typing starts
StartOf(key, b) ==
    CASE key \in {"i", "R"} -> b
      [] key = "append" -> IF At(b.text, b.dot) = NL THEN b ELSE [b EXCEPT !.dot = @ + 1]
      [] key = "A" ->
           LET e == dot_end(b)
           IN IF At(e.text, e.dot) = NL THEN e ELSE [e EXCEPT !.dot = @ + 1]
      [] key = "o" -> char_insert(dot_end(b), NL, "ALLOW")
      [] key = "O" -> dot_prev(char_insert(dot_begin(b), NL, "ALLOW"))
      [] key = "I" -> dot_skip_over_ws(dot_begin(b))
      [] key = "C" -> cmd_D(b)
      [] key = "s" -> cmd_x(b, 1)
      [] key = "cc" -> cmd_line(b, "cc")

StartTyping(key) ==
    /\ Ready /\ InBounds /\ cmd_mode = 0
    /\ key \in {"i", "R", "append", "A", "I", "o", "O", "C", "s", "cc"}
    /\ Pressed(key, 1)
    /\ Handled(undo_queue_commit(StartOf(key, buf)), IF key = "R" THEN 2 ELSE 1)
    /\ prev' = None

\* A character typed. Replacing deletes the one under dot first; on a newline
\* replace mode turns into insert mode.
TypeChar(c) ==
    /\ Ready /\ InBounds /\ cmd_mode # 0
    /\ c \in {"a", SP, NL, "bs", "tab"}
    /\ Pressed(c, 1)
    /\ LET eol == At(buf.text, buf.dot) = NL
           replaces == cmd_mode = 2 /\ ~eol
           b == CASE cmd_mode = 1 -> buf
                  [] replaces -> yank_delete(buf, buf.dot, buf.dot, "PARTIAL", TRUE, "ALLOW")
                  [] OTHER -> undo_queue_commit(buf)
       IN Handled(char_insert(b, c, IF replaces THEN "CHAIN" ELSE "QUEUED"),
                  IF replaces THEN 2 ELSE 1)
    /\ prev' = None

\* Escape, the branch of char_insert() that ends typing
Escape ==
    /\ Ready /\ cmd_mode # 0
    /\ LET b == undo_queue_commit(buf)
           back == b.dot > 0 /\ At(b.text, b.dot - 1) # NL
       IN Handled([b EXCEPT !.dot = IF back THEN @ - 1 ELSE @], 0)
    /\ prev' = None

-----------------------------------------------------------------------------
(* Writing and leaving: :w, :x, ZZ, :q, :q! *)

\* A command that writes: :x and ZZ do only when modified_count says so.
Writes(key) ==
    /\ Ready /\ cmd_mode = 0
    /\ key \in {":w", ":x", "ZZ"}
    /\ Pressed(key, 1)
    /\ key = ":w" \/ buf.modified_count # 0

\* The whole text went out: colon() resets modified_count, ZZ does not.
WriteAll(key) ==
    /\ Writes(key)
    /\ file' = buf.text
    /\ buf' = IF key = "ZZ" THEN buf ELSE [buf EXCEPT !.modified_count = 0]
    /\ editing' = IF key = ":w" THEN editing ELSE "no"
    /\ UNCHANGED <<cmd_mode, original, prev>>

\* [mutant] a write that falls short resets modified_count like a good one
ShortResets(key) ==
    /\ Writes(key)
    /\ \E n \in ShortWrites : n < Len(buf.text) /\ file' = SubSeq(buf.text, 1, n)
    /\ buf' = [buf EXCEPT !.modified_count = 0]
    /\ UNCHANGED <<cmd_mode, editing, original, prev>>

\* write() fell short behind open(O_TRUNC): file_write() returns 0, and nobody
\* resets or leaves.
WriteShort(key) ==
    /\ Writes(key)
    /\ \E n \in ShortWrites : n < Len(buf.text) /\ file' = SubSeq(buf.text, 1, n)
    /\ UNCHANGED <<buf, cmd_mode, editing, original, prev>>

\* :q, and :x or ZZ with nothing to write, leave if nothing was modified.
Leave(key) ==
    /\ Ready /\ cmd_mode = 0
    /\ key \in {":q", ":x", "ZZ"}
    /\ Pressed(key, 1)
    /\ buf.modified_count = 0
    /\ editing' = "no"
    /\ UNCHANGED <<buf, cmd_mode, file, original, prev>>

LeaveForced ==
    /\ Ready /\ cmd_mode = 0
    /\ Pressed(":q!", 1)
    /\ editing' = "forced"
    /\ UNCHANGED <<buf, cmd_mode, file, original, prev>>

EvNext ==
    \/ \E i \in Inputs : \/ CursorKey(i[1], i[2]) \/ LineMove(i[1])
                         \/ Command(i[1], i[2]) \/ StartTyping(i[1])
                         \/ TypeChar(i[1]) \/ WriteAll(i[1]) \/ WriteShort(i[1])
                         \/ Leave(i[1])
    \/ Undo \/ DeleteKey \/ Escape \/ LeaveForced

EvSpec == EvInit /\ [][EvNext]_evVars

-----------------------------------------------------------------------------
(* Properties *)

\* The types. In particular dot stays on the text or just past it, the text
\* never is left empty, and the queue is never longer than its array.
EvTypeOK ==
    /\ buf.text # <<>>
    /\ buf.dot \in 0 .. Len(buf.text)
    /\ buf.undo_q \in 0 .. QueueMax - 1
    /\ (buf.undo_q = 0) <=> (buf.undo_queue_state = "EMPTY")
    /\ buf.modified_count \in Int
    /\ cmd_mode \in 0 .. 2
    /\ editing \in {"yes", "no", "forced"}

\* The text stays newline-terminated whatever is typed, deleted or joined:
\* do_cmd() relies on it wherever it looks at the byte at "end - 1".
EndsInNewline == Last(buf.text) = NL

\* Undoing everything, the queue included, gives back the text that was read,
\* and no undo object opens a hole beyond the end or starts at a stale pointer
\* (undo_push, undo_pop).
UndoneAll ==
    LET b == undo_queue_commit(buf)
        u == PopObjects(b, Len(b.undo_stack))
    IN IF u.text = <<>> THEN [u EXCEPT !.text = <<NL>>] ELSE u

UndoRestoresOriginal == UndoneAll.text = original /\ ~UndoneAll.wild

\* One "u" takes back the whole of the newest command: the edits a counted x,
\* a ~, a J or a put makes are one undo operation (the CHAIN objects).
UndoTakesBackCommand == prev # None => Finish(undo_pop(buf), 0).text = prev

\* Whoever leaves without "!" has the text on disk, or has taken every change
\* back: over any order of edits, undos and short writes modified_count is only
\* down to 0 when the buffer is as it was read (undo_push, undo_pop, ZZ).
QuitDropsOnlyUndone ==
    editing = "no" /\ file # buf.text => buf.text = original /\ buf.undo_stack = <<>>

\* Nobody leaves without "!" while the file differs from the text:
\* "don't exit if the file been modified".
QuitKeepsText == editing = "no" => file = buf.text
=============================================================================
