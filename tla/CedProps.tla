------------------------------ MODULE CedProps ------------------------------
(***************************************************************************)
(* What the editor owes its user: properties of Ced that its own variables *)
(* state.                                                                  *)
(***************************************************************************)
EXTENDS Ced

Kinds == {"type", "enter", "backspace", "delete", "cut", "paste", "read"}
Session == pc # "off"

\* Every variable keeps its type.
TypeOK ==
    /\ pc \in {"off", "edit", "exit", "name", "backup", "copy", "trunc", "write"}
    /\ buf \in Buffer
    /\ dirty \in BOOLEAN
    /\ overwrite \in BOOLEAN
    /\ ustack \in Seq([buf : Buffer, dirty : BOOLEAN])
    /\ u_kind \in Kinds \cup {"none"}
    /\ u_line \in Nat
    /\ cbuf \in Seq(Line)
    /\ named \in BOOLEAN
    /\ ret \in {"edit", "exit"}
    /\ backed \in BOOLEAN
    /\ {file, backup} \subseteq [exists : BOOLEAN, lines : Seq(Line)]
    /\ eof \in BOOLEAN
    /\ faults \in Nat

\* What each key makes of the buffer, before the loop's clamp.
KeyResults ==
    Moves \cup Jumps
    \cup {type_char(buf, c, o) : c \in Char, o \in BOOLEAN}
    \cup {do_enter(buf), cut_line(buf)}
    \cup {insert_text(buf, t) : t \in InsertTexts \cup ({cbuf} \ {<<>>})}
    \cup (IF CanBackspace(buf) THEN {do_backspace(buf)} ELSE {})
    \cup (IF CanDelete(buf) THEN {do_delete(buf)} ELSE {})

\* The buffer never loses its last line, and the cursor never leaves the text:
\* in the buffer, in every snapshot undo can bring back, and after every key
\* by the key's own doing.  The C code indexes L[cy] and p[cx] unchecked.
CursorInside ==
    /\ Inside(buf)
    /\ \A i \in DOMAIN ustack : Inside(ustack[i].buf)
    /\ \A b \in KeyResults : Inside(b)

\* Edits of one kind on one line coalesce, and no others: while a run is open
\* its snapshot is on top of the stack and was taken on line u_line, and what
\* one undo would take back is that line, together with the line above it
\* when a backspace joined the two and with lines below it when deletes did.
RunStaysOnItsLine ==
    u_kind # "none" =>
        /\ ustack # <<>>
        /\ LET top == ustack[Len(ustack)].buf
               below == Len(top.L) - u_line
           IN  /\ top.cy = u_line
               /\ SubSeq(buf.L, 1, u_line - 2) = SubSeq(top.L, 1, u_line - 2)
               /\ u_kind # "backspace" =>
                    SubSeq(buf.L, 1, u_line - 1) = SubSeq(top.L, 1, u_line - 1)
               /\ u_kind # "delete" => Suffix(buf.L, below) = Suffix(top.L, below)
               /\ u_kind = "type" => Len(buf.L) = Len(top.L)

\* No byte budget is ever exceeded by more than the one snapshot that is always
\* kept, and the stack never has more than UNDO_MAX snapshots.
UndoBounded ==
    /\ Len(ustack) <= UndoMax
    /\ Len(ustack) > 1 => Weight(ustack) <= UndoBudget

-----------------------------------------------------------------------------
(* Pure behaviour of the keys, in every buffer an editing session reaches  *)

\* ^W goes to the next occurrence after the cursor, in the order of the text
\* and around its end, and finds one whenever there is one.
Occurs(n) ==
    UNION {{<<y, x>> : x \in Hits(buf, y, n, 0)} : y \in 1 .. Len(buf.L)}

AfterCursor(p) == p[1] > buf.cy \/ (p[1] = buf.cy /\ p[2] > buf.cx)
Before(p, q) == p[1] < q[1] \/ (p[1] = q[1] /\ p[2] <= q[2])
Sooner(p, q) ==
    IF AfterCursor(p) THEN AfterCursor(q) => Before(p, q)
    ELSE ~ AfterCursor(q) /\ Before(p, q)

SearchFindsTheNext ==
    \A n \in Needles :
        LET b == search(buf, n)
        IN  IF Occurs(n) = {} THEN b = buf
            ELSE <<b.cy, b.cx>> \in Occurs(n)
                 /\ \A p \in Occurs(n) : Sooner(<<b.cy, b.cx>>, p)

\* ^K takes the current line and ^U puts it back ("paste (uncut)"), except for
\* the last of several lines, which comes back glued to the line above it.
Uncut(b) == insert_text(cut_line(b), CutText(b)).L = b.L

CutThenPasteRestoresButLast ==
    (buf.cy < Len(buf.L) \/ Len(buf.L) = 1) => Uncut(buf)

-----------------------------------------------------------------------------
(* Leaving the editor                                                      *)

\* ^X drops the buffer without a question only when the file holds its text.
ExitKeepsText ==
    [][Exit /\ pc' = "off" /\ named =>
            load(file.lines) = buf.L]_vars

\* Once the terminal is gone the editor leaves, unless it is asking the exit
\* question, or saving because of it: do_exit takes end of input for no answer
\* and asks again without end.
LeavesUnlessAsking ==
    (eof /\ pc # "exit" /\ (pc # "edit" => ret = "edit")) ~> ~ eof
=============================================================================
