-------------------------------- MODULE Ced ---------------------------------
(***************************************************************************)
(* ced/editor.c: sessions of the editor on one file.  A session loads the  *)
(* file, edits the buffer key by key with undo by whole-buffer snapshots,  *)
(* and saves it in place, keeping the previous contents as a backup.  A    *)
(* save is many system calls: any of them may fail, and the process may be *)
(* killed between two of them.  The next session finds the files as they   *)
(* are then.                                                               *)
(*                                                                         *)
(* The screen, the messages and the wrapping are left out; a search, a     *)
(* jump or an insertion whose prompt is answered is one step (while the    *)
(* prompt is open nothing else can happen to the buffer).                  *)
(***************************************************************************)
EXTENDS CedBuffer

CONSTANTS
    Keys,        \* the groups of keys in use, see Next
    Needles,     \* what the user searches for, a set of lines
    InsertTexts, \* contents of the files the user inserts
    PageSize,    \* text_h
    UndoMax,     \* UNDO_MAX, 256 in the code
    UndoBudget,  \* UNDO_BUDGET, in the unit of Bytes
    AllocFails,  \* whether a snapshot may fail to be allocated
    InitFiles,   \* what the file may hold before the first session
    Unnamed,     \* whether ced may be started without a file name
    MaxFaults,   \* bound on failed or killed saves
    MaxLines,    \* bound on the lines of the buffer
    MaxChars     \* bound on the characters of the buffer

ASSUME CedAssumption ==
    /\ InsertTexts \subseteq Seq(Line) \ {<<>>}      \* a text has a line
    /\ \A n \in Needles : n \in Line
    /\ PageSize \in Nat
    /\ UndoMax \in Nat \ {0}
    /\ UndoBudget \in Nat
    /\ MaxLines \in Nat
    /\ InitFiles \subseteq [exists : BOOLEAN, lines : Seq(Line)]
    /\ \A f \in InitFiles : f.lines # <<>> => f.exists

\* A file: whether it exists, and its lines.
File(lines) == [exists |-> TRUE, lines |-> lines]
NoFile == [exists |-> FALSE, lines |-> <<>>]

VARIABLES
    pc,       \* "off"; "edit" the main loop; "exit" do_exit's question; "name"
              \* the prompt for a file name; "backup", "copy", "trunc" and
              \* "write" a save: the four system calls it is about to make
    buf,      \* L, nlines, cy, cx, want_cx
    dirty,
    overwrite,
    ustack,   \* snapshots [buf, dirty], the newest last
    u_kind,   \* kind of the last snapshot, "none" for NULL
    u_line,   \* line it was taken on, 0 before any
    cbuf,     \* the cut text as lines, <<>> before any cut
    named,    \* fname is not empty
    ret,      \* who called save: "edit" or "exit"
    backed,   \* backed_up of the running save
    file,     \* the file on disk
    backup,   \* FILE~ on disk
    eof,      \* the terminal has gone: every read reports end of input
    faults    \* failed or killed saves so far

text == <<buf, dirty, ustack, u_kind, u_line>>
disk == <<file, backup>>
vars == <<pc, buf, dirty, overwrite, ustack, u_kind, u_line, cbuf, named, ret,
          backed, file, backup, eof, faults>>

-----------------------------------------------------------------------------
(* Undo                                                                    *)

Snapshot == [buf |-> buf, dirty |-> dirty]

\* w[1] + ... + w[N]
Total(w, N) ==
    LET Upto[n \in 0 .. N] == IF n = 0 THEN 0 ELSE Upto[n - 1] + w[n] IN Upto[N]

\* What a snapshot weighs: one unit per line and per character.
Bytes(L) == Total([i \in 1 .. Len(L) |-> 1 + Len(L[i])], Len(L))

Weight(stack) == Total([i \in 1 .. Len(stack) |-> Bytes(stack[i].buf.L)], Len(stack))

\* The stack after its oldest snapshots made room for one more: nothing is
\* dropped that need not be.
Suffix(stack, n) == SubSeq(stack, Len(stack) - n + 1, Len(stack))
Fits(stack, s) ==
    stack = <<>> \/ (Len(stack) < UndoMax /\ Weight(stack) + Bytes(s.buf.L) <= UndoBudget)
Trimmed(stack, s) ==
    LET n == CHOOSE n \in 0 .. Len(stack) :
                /\ Fits(Suffix(stack, n), s)
                /\ \A m \in n + 1 .. Len(stack) : ~ Fits(Suffix(stack, m), s)
    IN  Suffix(stack, n)

\* Mutant of push_undo: the line of the new run is not recorded.
push_undo_lineless(kind, run) ==
    IF kind = run /\ buf.cy = u_line
    THEN ustack' = ustack /\ u_kind' = run /\ u_line' = u_line
    ELSE /\ ustack' = Append(Trimmed(ustack, Snapshot), Snapshot)
         /\ u_kind' = kind
         /\ u_line' = u_line

\* push_undo(kind), where run is the kind of the run that is open.
push_undo(kind, run) ==
    IF kind = run /\ buf.cy = u_line
    THEN ustack' = ustack /\ u_kind' = run /\ u_line' = u_line
    ELSE \/ /\ ustack' = Append(Trimmed(ustack, Snapshot), Snapshot)
            /\ u_kind' = kind
            /\ u_line' = buf.cy
         \/ /\ AllocFails
            /\ ustack' \in {ustack, Trimmed(ustack, Snapshot)}
            /\ u_kind' = "none"
            /\ u_line' = u_line

-----------------------------------------------------------------------------
(* The main loop                                                           *)

Size(b) == Bytes(b.L) - Len(b.L)
Bounded(b) == Len(b.L) <= MaxLines /\ Size(b) <= MaxChars

\* The process is gone and with it the buffer and everything about it.
Gone ==
    /\ pc' = "off"
    /\ buf' = Fresh(<<>>)
    /\ dirty' = FALSE
    /\ overwrite' = FALSE
    /\ ustack' = <<>>
    /\ u_kind' = "none"
    /\ u_line' = 0
    /\ cbuf' = <<>>
    /\ named' = FALSE
    /\ ret' = "edit"
    /\ backed' = FALSE
    /\ eof' = FALSE

Reading(key) == pc = "edit" /\ ~ eof /\ key \in Keys

\* The loop ends with clamp_cursor, whatever the key was.
Becomes(b) == buf' = clamp_cursor(b) /\ Bounded(b)

\* An edit that makes b of the buffer.
EditTo(kind, run, b) ==
    /\ push_undo(kind, run)
    /\ Becomes(b)
    /\ dirty' = TRUE
    /\ UNCHANGED <<pc, overwrite, named, ret, backed, disk, eof, faults>>

TypeChar ==
    \E c \in Char :
        /\ Reading("type")
        /\ EditTo("type", u_kind, type_char(buf, c, overwrite))
        /\ UNCHANGED cbuf

Enter ==
    /\ Reading("enter")
    /\ EditTo("enter", u_kind, do_enter(buf))
    /\ UNCHANGED cbuf

Backspace ==
    /\ Reading("backspace")
    /\ CanBackspace(buf)
    /\ EditTo("backspace", u_kind, do_backspace(buf))
    /\ UNCHANGED cbuf

Delete ==
    /\ Reading("delete")
    /\ CanDelete(buf)
    /\ EditTo("delete", u_kind, do_delete(buf))
    /\ UNCHANGED cbuf

\* ^K, ^U and ^R are not plain edits: the open run ends before them.
Cut ==
    /\ Reading("cut")
    /\ ~ Empty(buf)
    /\ EditTo("cut", "none", cut_line(buf))
    /\ cbuf' = CutText(buf)

Paste ==
    /\ Reading("cut")
    /\ cbuf \notin {<<>>, <<<<>>>>}
    /\ EditTo("paste", "none", insert_text(buf, cbuf))
    /\ UNCHANGED cbuf

InsertFile ==
    \E t \in InsertTexts :
        /\ Reading("insert")
        /\ EditTo("read", "none", insert_text(buf, t))
        /\ UNCHANGED cbuf

\* Mutant of undo: the run that was open goes on after it.
undo_in_run ==
    /\ Reading("undo")
    /\ ustack # <<>>
    /\ LET s == ustack[Len(ustack)]
       IN  buf' = clamp_cursor(s.buf) /\ dirty' = s.dirty
    /\ ustack' = SubSeq(ustack, 1, Len(ustack) - 1)
    /\ UNCHANGED <<pc, overwrite, u_kind, u_line, cbuf, named, ret, backed, disk,
                   eof, faults>>

undo ==
    /\ Reading("undo")
    /\ ustack # <<>>
    /\ LET s == ustack[Len(ustack)]
       IN  buf' = clamp_cursor(s.buf) /\ dirty' = s.dirty
    /\ ustack' = SubSeq(ustack, 1, Len(ustack) - 1)
    /\ u_kind' = "none"
    /\ u_line' = 0
    /\ UNCHANGED <<pc, overwrite, cbuf, named, ret, backed, disk, eof, faults>>

Moves ==
    {move_vert(buf, dy) : dy \in {-1, 1, PageSize, -PageSize}}
    \cup {move_left(buf), move_right(buf), Home(buf), End(buf), buf}

Jumps == {search(buf, n) : n \in Needles} \cup {goto_line(buf, v) : v \in {0, 1, MaxLines}}

\* Any key that edits nothing ends the open run, one that changes nothing too
\* (^C, ^G, ^L, ^Q on an empty stack, ^K on an empty buffer).
MoveTo(b) ==
    /\ Becomes(b)
    /\ u_kind' = "none"
    /\ UNCHANGED <<pc, dirty, overwrite, ustack, u_line, cbuf, named, ret,
                   backed, disk, eof, faults>>

Move == Reading("move") /\ \E b \in Moves : MoveTo(b)
Jump == Reading("jump") /\ \E b \in Jumps : MoveTo(b)

Insert ==
    /\ Reading("ins")
    /\ overwrite' = ~ overwrite
    /\ u_kind' = "none"
    /\ UNCHANGED <<pc, buf, dirty, ustack, u_line, cbuf, named, ret, backed,
                   disk, eof, faults>>

-----------------------------------------------------------------------------
(* Saving                                                                  *)

\* save(0), called from the main loop or from do_exit: with no name yet it
\* asks for one.
BeginSave(from) ==
    /\ ret' = from
    /\ pc' = IF named THEN "backup" ELSE "name"
    /\ UNCHANGED <<buf, dirty, overwrite, ustack, u_line, cbuf, named, disk,
                   eof, faults>>

Save ==
    /\ Reading("save")
    /\ BeginSave("edit")
    /\ backed' = FALSE
    /\ u_kind' = "none"

\* do_exit: an unmodified buffer is dropped without a question.
Exit ==
    /\ Reading("exit")
    /\ \/ ~ dirty /\ Gone
       \/ /\ dirty
          /\ pc' = "exit"
          /\ u_kind' = "none"
          /\ UNCHANGED <<buf, dirty, overwrite, ustack, u_line, cbuf, named,
                         ret, backed, eof>>
    /\ UNCHANGED <<disk, faults>>

AnswerYes ==
    /\ pc = "exit"
    /\ ~ eof
    /\ BeginSave("exit")
    /\ backed' = FALSE
    /\ UNCHANGED u_kind

AnswerNo ==
    /\ pc = "exit"
    /\ ~ eof
    /\ Gone
    /\ UNCHANGED <<disk, faults>>

\* KEY_EOF is no answer: do_exit asks again, and reads it again.
AskAgain ==
    /\ pc = "exit"
    /\ eof
    /\ UNCHANGED vars

Cancel ==
    /\ pc = "exit"
    /\ ~ eof
    /\ pc' = "edit"
    /\ UNCHANGED <<text, overwrite, cbuf, named, ret, backed, disk, eof, faults>>

NameGiven ==
    /\ pc = "name"
    /\ ~ eof
    /\ named' = TRUE
    /\ pc' = "backup"
    /\ UNCHANGED <<text, overwrite, cbuf, ret, backed, disk, eof, faults>>

\* Mutant of NameRefused: the prompt does not see the end of input.
NameRefusedDeaf ==
    /\ pc = "name"
    /\ ~ eof
    /\ pc' = ret
    /\ UNCHANGED <<text, overwrite, cbuf, named, ret, backed, disk, eof, faults>>

\* Cancelled, answered with nothing, or ended by the end of input.
NameRefused ==
    /\ pc = "name"
    /\ pc' = ret
    /\ UNCHANGED <<text, overwrite, cbuf, named, ret, backed, disk, eof, faults>>

saving == <<text, overwrite, cbuf, named, ret, eof>>

\* write_backup finds nothing to keep, or cannot open FILE~.
BackupSkipped ==
    /\ pc = "backup"
    /\ \/ file.lines = <<>> /\ UNCHANGED faults
       \/ faults < MaxFaults /\ faults' = faults + 1
    /\ pc' = "trunc"
    /\ backed' = FALSE
    /\ UNCHANGED <<saving, disk>>

BackupOpen ==
    /\ pc = "backup"
    /\ file.lines # <<>>
    /\ backup' = File(<<>>)
    /\ pc' = "copy"
    /\ UNCHANGED <<saving, backed, file, faults>>

\* Mutant of BackupWrite: one short write passes for the whole copy.
BackupWriteShort ==
    /\ pc = "copy"
    /\ \E n \in Len(backup.lines) + 1 .. Len(file.lines) :
          backup' = File(SubSeq(file.lines, 1, n))
    /\ pc' = "trunc"
    /\ backed' = TRUE
    /\ UNCHANGED <<saving, file, faults>>

\* One write of the copy; the last one completes it.
BackupWrite ==
    /\ pc = "copy"
    /\ \E n \in Len(backup.lines) + 1 .. Len(file.lines) :
          /\ backup' = File(SubSeq(file.lines, 1, n))
          /\ pc' = IF n = Len(file.lines) THEN "trunc" ELSE "copy"
          /\ backed' = (n = Len(file.lines))
    /\ UNCHANGED <<saving, file, faults>>

BackupFails ==
    /\ pc = "copy"
    /\ faults < MaxFaults
    /\ faults' = faults + 1
    /\ pc' = "trunc"
    /\ backed' = FALSE
    /\ UNCHANGED <<saving, disk>>

\* open(fname, O_WRONLY | O_CREAT | O_TRUNC)
Truncate ==
    /\ pc = "trunc"
    /\ file' = File(<<>>)
    /\ pc' = "write"
    /\ UNCHANGED <<saving, backed, backup, faults>>

OpenFails ==
    /\ pc = "trunc"
    /\ faults < MaxFaults
    /\ faults' = faults + 1
    /\ pc' = ret
    /\ UNCHANGED <<saving, backed, disk>>

WriteLines ==
    /\ pc = "write"
    /\ \E n \in Len(file.lines) + 1 .. Len(buf.L) :
          file' = File(SubSeq(buf.L, 1, n))
    /\ UNCHANGED <<saving, pc, backed, backup, faults>>

\* Mutant of SaveDone: the buffer counts as saved before its lines are out.
SaveDoneEarly ==
    /\ pc = "write"
    /\ ret = "edit"
    /\ dirty' = FALSE
    /\ pc' = "edit"
    /\ UNCHANGED <<buf, ustack, u_kind, u_line, overwrite, cbuf, named,
                   ret, eof, backed, disk, faults>>

\* The lines are out and close succeeds: from do_exit the session ends.
SaveDone ==
    /\ pc = "write"
    /\ file.lines = buf.L
    /\ \/ ret = "exit" /\ Gone
       \/ /\ ret = "edit"
          /\ dirty' = FALSE
          /\ pc' = "edit"
          /\ UNCHANGED <<buf, ustack, u_kind, u_line, overwrite, cbuf, named,
                         ret, eof, backed>>
    /\ UNCHANGED <<disk, faults>>

\* A write or the close fails.
WriteFails ==
    /\ pc = "write"
    /\ faults < MaxFaults
    /\ faults' = faults + 1
    /\ pc' = ret
    /\ UNCHANGED <<saving, backed, disk>>

-----------------------------------------------------------------------------
(* The process and its terminal                                            *)

Init ==
    /\ file \in InitFiles
    /\ backup = NoFile
    /\ pc = "off"
    /\ buf = Fresh(<<>>)
    /\ dirty = FALSE
    /\ overwrite = FALSE
    /\ ustack = <<>>
    /\ u_kind = "none"
    /\ u_line = 0
    /\ cbuf = <<>>
    /\ named = FALSE
    /\ ret = "edit"
    /\ backed = FALSE
    /\ eof = FALSE
    /\ faults = 0

\* cact_ub_ced: a fresh process.
StartWith(lines) ==
    /\ pc = "off"
    /\ pc' = "edit"
    /\ buf' = Fresh(lines)
    /\ dirty' = FALSE
    /\ overwrite' = FALSE
    /\ ustack' = <<>>
    /\ u_kind' = "none"
    /\ u_line' = 0
    /\ cbuf' = <<>>
    /\ ret' = "edit"
    /\ backed' = FALSE
    /\ eof' = FALSE
    /\ UNCHANGED disk

Open ==
    /\ \/ named' = TRUE /\ StartWith(file.lines)
       \/ Unnamed /\ named' = FALSE /\ StartWith(<<>>)
    /\ UNCHANGED faults

\* A file that is there and cannot be read opens as a new one.
OpenUnread ==
    /\ named' = TRUE
    /\ StartWith(<<>>)
    /\ file.exists
    /\ faults < MaxFaults
    /\ faults' = faults + 1

\* The terminal goes away; the editor notices at its next read.
Hangup ==
    /\ "eof" \in Keys
    /\ pc # "off"
    /\ ~ eof
    /\ eof' = TRUE
    /\ UNCHANGED <<pc, text, overwrite, cbuf, named, ret, backed, disk, faults>>

\* KEY_EOF ends the main loop, whatever is unsaved.
EndOfInput ==
    /\ pc = "edit"
    /\ eof
    /\ Gone
    /\ UNCHANGED <<disk, faults>>

\* Killed, at any point of a save.
Crash ==
    /\ pc \in {"copy", "trunc", "write"}
    /\ faults < MaxFaults
    /\ faults' = faults + 1
    /\ Gone
    /\ UNCHANGED disk

SaveStep ==
    \/ BackupSkipped \/ BackupOpen \/ BackupWrite \/ BackupFails
    \/ Truncate \/ OpenFails \/ WriteLines \/ SaveDone \/ WriteFails

Next ==
    \/ TypeChar \/ Enter \/ Backspace \/ Delete
    \/ Cut \/ Paste \/ InsertFile \/ undo
    \/ Move \/ Jump \/ Insert
    \/ Save \/ NameGiven \/ NameRefused
    \/ Exit \/ AnswerYes \/ AnswerNo \/ Cancel \/ AskAgain
    \/ SaveStep
    \/ Open \/ OpenUnread \/ Hangup \/ EndOfInput \/ Crash

Spec == Init /\ [][Next]_vars

\* What the process does by itself when its reads report end of input: it
\* goes on with a save, leaves a prompt and leaves the main loop.
Unattended == SaveStep \/ (eof /\ NameRefused) \/ EndOfInput
FairSpec == Spec /\ WF_vars(Unattended)
=============================================================================
