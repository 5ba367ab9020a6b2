------------------------------ MODULE EvimText ------------------------------
(***************************************************************************)
(* The text buffer of evim (src/bin/evim/vim_text.c): the bytes between    *)
(* "text" and "end", the holes made and closed in them, the stack of undo  *)
(* objects, and the queue that groups single-character edits into one      *)
(* object.                                                                 *)
(*                                                                         *)
(* The C globals travel in one record b:                                   *)
(*   text, dot            the bytes and the cursor, an offset from text    *)
(*   text_size            bytes allocated                                  *)
(*   undo_stack           the objects, oldest first (undo_stack_tail last) *)
(*   undo_q, undo_queue, undo_queue_state, undo_queue_spos   the queue     *)
(*   spos_stale           text[] was reallocated since spos was recorded   *)
(*   modified_count       "buffer contents changed if !0"                  *)
(*   reg, regtype         the default yank/delete register                 *)
(*   wild                 a hole was opened beyond end, or a stale spos    *)
(*                        was used (undefined in C)                        *)
(* Positions are the C offsets, so text[p] in C is b.text[p + 1] here.     *)
(* autoindent and showmatch are off, their default.                        *)
(***************************************************************************)
EXTENDS Integers, Sequences, SequencesExt, FiniteSetsExt

CONSTANTS
    QueueMax,     \* VI_UNDO_QUEUE_MAX
    Chunk,        \* by how much realloc() over-allocates text[] (10240)
    TabStop,      \* tabstop
    ExpandTab     \* the expandtab option

NL == "nl"
SP == "sp"
Blanks == {SP}
Letters == {"a", "A"}

\* The byte at offset p; past end lies what an earlier text left there, a byte
\* that is taken to be neither blank, nor newline, nor a letter.
At(t, p) == IF p \in 0 .. Len(t) - 1 THEN t[p + 1] ELSE "junk"

Bytes(t, p, n) == [i \in 1 .. n |-> At(t, p + i - 1)]

-----------------------------------------------------------------------------
(* Lines *)

begin_line(t, p) == Max({k \in 0 .. p : k = 0 \/ At(t, k - 1) = NL})

end_line(t, p) ==
    IF p < Len(t) - 1
    THEN Min({k \in p .. Len(t) - 1 : At(t, k) = NL \/ k = Len(t) - 1})
    ELSE p

dollar_line(t, p) ==
    LET e == end_line(t, p)
    IN IF At(t, e) = NL /\ e > begin_line(t, e) THEN e - 1 ELSE e

next_line(t, p) ==
    LET e == end_line(t, p)
    IN IF e < Len(t) - 1 /\ At(t, e) = NL THEN e + 1 ELSE e

prev_line(t, p) ==
    LET s == begin_line(t, p)
    IN begin_line(t, IF s > 0 THEN s - 1 ELSE s)

SkipBlanks(t, p) ==
    Min({k \in p .. Max({p, Len(t)}) : At(t, k) \notin Blanks \/ k >= Len(t) - 1})

get_column(t, p) == p - begin_line(t, p)   \* without tabs and control bytes

next_tabstop(col) == col + ((TabStop - 1) - (col % TabStop))

-----------------------------------------------------------------------------
(* Undo objects and the queue in front of them *)

DelTypes == {"DEL", "DEL_CHAIN"}
ChainTypes == {"INS_CHAIN", "DEL_CHAIN"}

\* The second half of undo_push(): allocate the object and push it. A deletion
\* as long as the text is taken for one that empties the buffer, and gives up
\* its last byte for the newline that will be added back.
NewObject(b, start, bytes, length, u_type) ==
    LET n == IF u_type \in DelTypes /\ length = Len(b.text) THEN length - 1 ELSE length
        object == [u_type |-> u_type, start |-> start, length |-> n,
                   undo_text |-> IF u_type \in DelTypes THEN SubSeq(bytes, 1, n) ELSE <<>>]
    IN [b EXCEPT !.undo_stack = Append(@, object), !.modified_count = @ + 1]

undo_queue_commit(b) ==
    IF b.undo_q = 0 THEN b
    ELSE [NewObject(b, b.undo_queue_spos, b.undo_queue, b.undo_q, b.undo_queue_state)
          EXCEPT !.undo_q = 0, !.undo_queue = <<>>, !.undo_queue_state = "EMPTY",
                 !.wild = @ \/ b.spos_stale]

CommitIf(b, state) == IF b.undo_queue_state = state THEN undo_queue_commit(b) ELSE b

CommitIfFull(b) == IF b.undo_q = QueueMax THEN undo_queue_commit(b) ELSE b

\* UNDO_DEL_QUEUED: backspaces run leftwards, so every one moves the start.
QueueDelete(b, p) ==
    LET c == CommitIf(b, "INS")
    IN CommitIfFull([c EXCEPT !.undo_queue_state = "DEL",
                              !.undo_queue_spos = p, !.spos_stale = FALSE,
                              !.undo_q = @ + 1,
                              !.undo_queue = <<At(b.text, p)>> \o @])

\* UNDO_INS_QUEUED: only a queue that was empty takes a new start.
OpenQueue(b, p) ==
    IF b.undo_queue_state # "EMPTY" THEN b
    ELSE [b EXCEPT !.undo_queue_state = "INS", !.undo_queue_spos = p, !.spos_stale = FALSE]

QueueInsert(b, p, length) ==
    LET One(x, i) == CommitIfFull([x EXCEPT !.undo_q = @ + 1])
    IN FoldLeft(One, OpenQueue(CommitIf(b, "DEL"), p), [i \in 1 .. length |-> i])

undo_push(b, p, length, u_type) ==
    CASE u_type = "DEL_QUEUED" -> IF length = 1 THEN QueueDelete(b, p) ELSE b
      [] u_type = "INS_QUEUED" -> QueueInsert(b, p, length)
      [] OTHER -> NewObject(b, p, Bytes(b.text, p, length), length, u_type)

\* The suffix an ALLOW_UNDO flag puts on the type of the object it asks for.
Typed(kind, undo) ==
    CASE undo = "ALLOW" -> kind
      [] undo = "CHAIN" -> kind \o "_CHAIN"
      [] undo = "QUEUED" -> kind \o "_QUEUED"

undo_push_insert(b, p, length, undo) ==
    IF undo = "NO" THEN b ELSE undo_push(b, p, length, Typed("INS", undo))

-----------------------------------------------------------------------------
(* Holes *)

\* realloc() leaves undo_queue_spos pointing into the block it freed.
Grow(b, size) ==
    LET need == Len(b.text) + size
    IN IF need < b.text_size THEN b
       ELSE [b EXCEPT !.text_size = need + Chunk, !.spos_stale = TRUE]

\* Opening a hole of the given bytes; the C code opens blanks, then fills them.
text_hole_make(b, p, bytes) ==
    IF bytes = <<>> THEN b
    ELSE IF p \notin 0 .. Len(b.text) THEN [b EXCEPT !.wild = TRUE]
    ELSE [Grow(b, Len(bytes)) EXCEPT
             !.text = SubSeq(b.text, 1, p) \o bytes \o SubSeq(b.text, p + 1, Len(b.text))]

HoleFits(b, p, q) == p \in 0 .. Len(b.text) - 1 /\ q + 1 <= Len(b.text)

CloseHole(b, p, q) ==
    IF HoleFits(b, p, q)
    THEN [b EXCEPT !.text = SubSeq(@, 1, p) \o SubSeq(@, q + 2, Len(@))]
    ELSE [b EXCEPT !.modified_count = @ - 1]

text_hole_delete(b, p, q, undo) ==
    CloseHole(IF undo = "NO" THEN b ELSE undo_push(b, p, q - p + 1, Typed("DEL", undo)),
              p, q)

\* dot = text_hole_delete(): it returns p, kept below end if it deleted.
Dest(b, p) == IF b.text = <<>> THEN 0 ELSE Min({p, Len(b.text) - 1})

DeleteMoving(b, p, q, undo) ==
    LET d == text_hole_delete(b, p, q, undo)
    IN [d EXCEPT !.dot = IF HoleFits(b, p, q) THEN Dest(d, p) ELSE p]

string_insert(b, p, s, undo) == text_hole_make(undo_push_insert(b, p, Len(s), undo), p, s)

\* One turn of undo_pop(): take the newest object back.
PopObject(b) ==
    LET e == Last(b.undo_stack)
        c == CASE e.u_type \in DelTypes -> text_hole_make(b, e.start, e.undo_text)
               [] e.u_type \in {"INS", "INS_CHAIN"} ->
                    text_hole_delete(b, e.start, e.start + e.length - 1, "NO")
               [] OTHER -> b
    IN [c EXCEPT !.undo_stack = Front(@),
                 !.modified_count = @ - 1,
                 !.dot = IF e.u_type \in {"INS", "DEL"} THEN e.start ELSE @]

PopObjects(b, n) ==
    FoldLeft(LAMBDA x, i : PopObject(x), b, [i \in 1 .. n |-> i])

\* Undo the newest operation: pop down to the first object not chained.
PopOperation(b) ==
    LET n == Len(b.undo_stack)
        heads == {k \in 1 .. n : b.undo_stack[k].u_type \notin ChainTypes}
    IN IF n = 0 THEN b ELSE PopObjects(b, n + 1 - Max(heads \cup {1}))

undo_pop(b) == PopOperation(undo_queue_commit(b))

-----------------------------------------------------------------------------
(* Cursor moves, yanking, and typing *)

StepLeft(b) ==
    IF b.dot > 0 /\ At(b.text, b.dot - 1) # NL THEN [b EXCEPT !.dot = @ - 1] ELSE b

StepRight(b) ==
    IF b.dot < Len(b.text) - 1 /\ At(b.text, b.dot) # NL
    THEN [b EXCEPT !.dot = @ + 1] ELSE b

dot_left(b) == StepLeft(undo_queue_commit(b))

\* [mutant] moving the cursor leaves the queue open
RightKeepsQueue(b) == StepRight(b)

dot_right(b) == StepRight(undo_queue_commit(b))

dot_begin(b) == [undo_queue_commit(b) EXCEPT !.dot = begin_line(b.text, b.dot)]
dot_end(b)   == [undo_queue_commit(b) EXCEPT !.dot = end_line(b.text, b.dot)]
dot_next(b)  == [undo_queue_commit(b) EXCEPT !.dot = next_line(b.text, b.dot)]
dot_prev(b)  == [undo_queue_commit(b) EXCEPT !.dot = prev_line(b.text, b.dot)]

dot_skip_over_ws(b) == [b EXCEPT !.dot = SkipBlanks(b.text, b.dot)]

bound_dot(b, p) == Max({0, IF p >= Len(b.text) /\ b.text # <<>> THEN Len(b.text) - 1 ELSE p})

text_yank(b, p, q, buftype) ==
    [b EXCEPT !.reg = Bytes(b.text, p, q - p + 1), !.regtype = buftype]

\* Copy a range to the register, delete it if asked, and move dot there.
yank_delete(b, start, stop, buftype, delete, undo) ==
    IF buftype = "PARTIAL" /\ At(b.text, start) = NL THEN [b EXCEPT !.dot = start]
    ELSE LET y == text_yank(b, start, stop, buftype)
         IN IF delete THEN DeleteMoving(y, start, stop, undo)
            ELSE [y EXCEPT !.dot = start]

\* The blanks a tab stands for under expandtab, each pushed before it goes in.
InsertTab(b, undo) ==
    LET col == get_column(b.text, b.dot)
        One(x, i) == [string_insert(x, x.dot, <<SP>>, undo) EXCEPT !.dot = @ + 1]
    IN FoldLeft(One, b, [i \in 1 .. next_tabstop(col) - col + 1 |-> i])

InsertAtDot(b, c) == [text_hole_make(b, b.dot, <<c>>) EXCEPT !.dot = @ + 1]

\* Insert the character c at dot, and leave dot where the next one goes. The
\* keys with a meaning of their own are "bs" and "tab"; Escape is a command.
char_insert(b, c, undo) ==
    CASE c = "bs" ->
           IF b.dot = 0 THEN b
           ELSE DeleteMoving(b, b.dot - 1, b.dot - 1, "QUEUED")
      [] c = "tab" /\ ExpandTab -> InsertTab(b, undo)
      [] OTHER -> InsertAtDot(IF c = NL THEN undo_queue_commit(b) ELSE b, c)
=============================================================================
