----------------------------- MODULE CedHistory -----------------------------
(***************************************************************************)
(* Properties of Ced that speak of the past: history variables record what *)
(* the user had, the actions are those of Ced.                             *)
(***************************************************************************)
EXTENDS CedProps

VARIABLES
    good,       \* the file as it last was whole: found, or saved to the end
    tries,      \* saves begun since then (2 for two or more)
    bare,       \* one of them truncated the file with no backup made
    orig,       \* the lines the session began with
    dropped,    \* a snapshot was dropped or not taken since the session began
    wrote,      \* a save succeeded in this session
    astray      \* since the start or the last save: the file could not be read,
                \* an undo past the save, or a save that failed

history == <<good, tries, bare, orig, dropped, wrote, astray>>

HInit ==
    /\ Init
    /\ good = file
    /\ tries = 0
    /\ bare = FALSE
    /\ orig = load(<<>>)
    /\ dropped = FALSE
    /\ wrote = FALSE
    /\ astray = FALSE

\* An edit whose push cost an older snapshot, or that took none though it did
\* not continue a run.
Forgets ==
    /\ pc = "edit" /\ pc' = "edit" /\ ~ undo
    /\ \/ ustack' # ustack /\ Len(ustack') <= Len(ustack)
       \/ ustack' = ustack /\ u_kind' = "none" /\ buf'.L # buf.L

Starts == Open \/ OpenUnread
Failed == OpenFails \/ WriteFails

HNext ==
    /\ Next
    /\ good' = IF SaveDone THEN file ELSE good
    /\ tries' = IF SaveDone THEN 0
                ELSE IF pc' = "backup" /\ pc # "backup" THEN Least(tries + 1, 2)
                ELSE tries
    /\ bare' = IF SaveDone THEN FALSE ELSE bare \/ (Truncate /\ ~ backed)
    /\ orig' = IF Starts THEN buf'.L ELSE orig
    /\ dropped' = IF Starts THEN FALSE ELSE dropped \/ Forgets
    /\ wrote' = IF Starts THEN FALSE ELSE wrote \/ SaveDone
    /\ astray' = IF Starts THEN OpenUnread ELSE IF SaveDone THEN FALSE
                 ELSE astray \/ (undo /\ wrote) \/ Failed

HSpec == HInit /\ [][HNext]_<<vars, history>>

-----------------------------------------------------------------------------
Recoverable == good.lines = <<>> \/ good \in {file, backup}

\* "A bad save is always recoverable": what the file last held whole is in the
\* file or in FILE~, as long as the save that failed or was killed is not tried
\* again: that backs the damaged file up over the good backup.
OneBadSaveRecoverable == tries <= 1 /\ ~ bare => Recoverable

\* With nothing dropped, undo leads back to the text as it was opened.
UndoReachesTheStart ==
    Session /\ ~ dropped =>
        orig = IF ustack = <<>> THEN buf.L ELSE ustack[1].buf.L

\* A buffer that is not marked modified is the text of the file, unless the
\* file could not be read, an undo went past a save or a save failed.
CleanMeansSaved ==
    pc = "edit" /\ named /\ ~ dirty /\ ~ astray =>
        buf.L = load(file.lines)
=============================================================================
