----------------------------- MODULE CedBuffer ------------------------------
(***************************************************************************)
(* ced/editor.c: the text buffer and its cursor as a value, and what each  *)
(* editing or moving key makes of it.                                      *)
(*                                                                         *)
(* A buffer is a record: L the lines, cy the current line (1 is the first, *)
(* cy + 1 of the C code), cx the number of characters left of the cursor,  *)
(* want the column that vertical moves return to (want_cx).  A line is a   *)
(* sequence of characters.                                                 *)
(***************************************************************************)
EXTENDS Integers, Sequences

CONSTANT Char     \* the characters a line may hold

Line == Seq(Char)
Buffer == [L : Seq(Line), cy : Nat, cx : Nat, want : Nat]

\* The cursor points into the buffer.
Inside(b) ==
    /\ b.cy \in 1 .. Len(b.L)
    /\ b.cx <= Len(b.L[b.cy])

Here(b) == b.L[b.cy]
Left(b) == SubSeq(Here(b), 1, b.cx)
Right(b) == SubSeq(Here(b), b.cx + 1, Len(Here(b)))
Above(b) == SubSeq(b.L, 1, b.cy - 1)
Below(b) == SubSeq(b.L, b.cy + 1, Len(b.L))

Empty(b) == Len(b.L) = 1 /\ b.L[1] = <<>>

At(b, cy, cx) == [b EXCEPT !.cy = cy, !.cx = cx, !.want = cx]

-----------------------------------------------------------------------------
(* Moves                                                                   *)

Least(m, n) == IF m < n THEN m ELSE n

clamp_cursor(b) ==
    LET y == IF b.cy < 1 THEN 1 ELSE Least(b.cy, Len(b.L))
    IN  [b EXCEPT !.cy = y, !.cx = IF @ < 0 THEN 0 ELSE Least(@, Len(b.L[y]))]

\* move_vert and page: dy lines down (up when negative), as far as there are
\* lines, back to the wanted column as far as the line reaches.
move_vert(b, dy) ==
    LET y == IF b.cy + dy < 1 THEN 1 ELSE Least(b.cy + dy, Len(b.L))
    IN  [b EXCEPT !.cy = y, !.cx = Least(b.want, Len(b.L[y]))]

move_left(b) ==
    IF b.cx > 0 THEN At(b, b.cy, b.cx - 1)
    ELSE IF b.cy > 1 THEN At(b, b.cy - 1, Len(b.L[b.cy - 1]))
    ELSE At(b, b.cy, 0)

move_right(b) ==
    IF b.cx < Len(Here(b)) THEN At(b, b.cy, b.cx + 1)
    ELSE IF b.cy < Len(b.L) THEN At(b, b.cy + 1, 0)
    ELSE At(b, b.cy, b.cx)

Home(b) == At(b, b.cy, 0)
End(b) == At(b, b.cy, Len(Here(b)))

goto_line(b, v) == At(b, IF v < 1 THEN 1 ELSE Least(v, Len(b.L)), 0)

\* ci_find: the columns of line y, from column `from` on, where the needle
\* stands.  An empty needle stands nowhere.
Hits(b, y, needle, from) ==
    {x \in from .. Len(b.L[y]) - Len(needle) :
        Len(needle) > 0 /\ SubSeq(b.L[y], x + 1, x + Len(needle)) = needle}

First(S) == CHOOSE x \in S : \A y \in S : x <= y

\* Mutant of search: the cursor's own column counts as after the cursor.
search_stuck(b, needle) ==
    LET From(y) == IF y = b.cy THEN b.cx ELSE 0
        After == {y \in b.cy .. Len(b.L) : Hits(b, y, needle, From(y)) # {}}
    IN  IF After # {}
        THEN At(b, First(After), First(Hits(b, First(After), needle, From(First(After)))))
        ELSE b

\* Forward from the cursor to the end, then from the top to the cursor.
search(b, needle) ==
    LET From(y) == IF y = b.cy THEN b.cx + 1 ELSE 0
        After == {y \in b.cy .. Len(b.L) : Hits(b, y, needle, From(y)) # {}}
        Before == {y \in 1 .. b.cy : Hits(b, y, needle, 0) # {}}
    IN  IF After # {}
        THEN At(b, First(After), First(Hits(b, First(After), needle, From(First(After)))))
        ELSE IF Before # {}
        THEN At(b, First(Before), First(Hits(b, First(Before), needle, 0)))
        ELSE b

-----------------------------------------------------------------------------
(* Edits                                                                   *)

type_char(b, c, overwrite) ==
    LET rest == IF overwrite /\ b.cx < Len(Here(b)) THEN Tail(Right(b)) ELSE Right(b)
    IN  At([b EXCEPT !.L[b.cy] = Left(b) \o <<c>> \o rest], b.cy, b.cx + 1)

do_enter(b) ==
    At([b EXCEPT !.L = Above(b) \o <<Left(b), Right(b)>> \o Below(b)], b.cy + 1, 0)

\* join_lines(y): line y + 1 moves to the end of line y.
join_lines(L, y) ==
    SubSeq(L, 1, y - 1) \o <<L[y] \o L[y + 1]>> \o SubSeq(L, y + 2, Len(L))

CanBackspace(b) == b.cx > 0 \/ b.cy > 1

do_backspace(b) ==
    IF b.cx > 0
    THEN At([b EXCEPT !.L[b.cy] = SubSeq(@, 1, b.cx - 1) \o Right(b)], b.cy, b.cx - 1)
    ELSE At([b EXCEPT !.L = join_lines(@, b.cy - 1)], b.cy - 1, Len(b.L[b.cy - 1]))

CanDelete(b) == b.cx < Len(Here(b)) \/ b.cy < Len(b.L)

\* The wanted column stays what it was.
do_delete(b) ==
    IF b.cx < Len(Here(b))
    THEN [b EXCEPT !.L[b.cy] = Left(b) \o Tail(Right(b))]
    ELSE [b EXCEPT !.L = join_lines(@, b.cy)]

\* Mutant of CutText: no line takes its newline along.
CutTextBare(b) == <<Here(b)>>

\* The cut text as the lines a paste inserts: a line that is not the last
\* takes its newline along.
CutText(b) == IF b.cy < Len(b.L) THEN <<Here(b), <<>>>> ELSE <<Here(b)>>

\* Mutant of cut_line: the cursor stays behind when the last line goes.
cut_line_behind(b) ==
    IF Len(b.L) = 1 THEN At([b EXCEPT !.L = <<<<>>>>], 1, 0)
    ELSE At([b EXCEPT !.L = Above(b) \o Below(b)], b.cy, 0)

cut_line(b) ==
    IF Len(b.L) = 1 THEN At([b EXCEPT !.L = <<<<>>>>], 1, 0)
    ELSE At([b EXCEPT !.L = Above(b) \o Below(b)], Least(b.cy, Len(b.L) - 1), 0)

\* paste and insert_file: the lines of a text, the newlines between them,
\* typed at the cursor.
insert_text(b, text) ==
    LET n == Len(text)
        one == <<Left(b) \o text[1] \o Right(b)>>
        many == <<Left(b) \o text[1]>> \o SubSeq(text, 2, n - 1)
                    \o <<text[n] \o Right(b)>>
    IN  IF n = 1
        THEN At([b EXCEPT !.L = Above(b) \o one \o Below(b)],
                b.cy, b.cx + Len(text[1]))
        ELSE At([b EXCEPT !.L = Above(b) \o many \o Below(b)],
                b.cy + n - 1, Len(text[n]))

-----------------------------------------------------------------------------
(* Loading the lines of a file.  An empty file loads as one empty line, and *)
(* a missing last newline is supplied by the next save.                     *)

load(lines) == IF lines = <<>> THEN <<<<>>>> ELSE lines
Fresh(lines) == [L |-> load(lines), cy |-> 1, cx |-> 0, want |-> 0]
=============================================================================
