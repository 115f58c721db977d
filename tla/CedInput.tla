------------------------------ MODULE CedInput ------------------------------
(***************************************************************************)
(* ced/editor.c: read_byte, read_key and on_signal.  The console delivers  *)
(* bytes; the editor turns them into keys, one byte at a time, with one    *)
(* byte of pushback, while Ctrl-C may interrupt any read.  The console and *)
(* its user are the environment.                                           *)
(***************************************************************************)
EXTENDS Integers, Sequences

CONSTANTS
    Strokes,    \* the keys the user presses, a set of [key, bytes]
    IdleMax,    \* 64 in the code: empty reads in a row that are forgiven
    SeqMax,     \* 8 in the code: bytes of a CSI sequence after the bracket
    MaxStrokes, \* bound on the keys pressed
    MaxSignals  \* bound on the signals sent

Bytes == UNION {{s.bytes[i] : i \in DOMAIN s.bytes} : s \in Strokes}

ASSUME InputAssumption ==
    /\ IdleMax \in Nat
    /\ SeqMax \in Nat \ {0}
    /\ MaxStrokes \in Nat
    /\ \A s \in Strokes : s.bytes \in Seq(Bytes) /\ s.bytes # <<>>

VARIABLES
    typed,    \* the keys pressed so far (the environment's)
    wire,     \* bytes of the last key that have still to arrive
    queue,    \* bytes that have arrived and are not yet read
    gone,     \* the terminal has gone
    signals,  \* signals sent so far
    woken,    \* the blocked read was interrupted
    at,       \* "top" of read_key, "read" its first byte, "esc", "csi", "ss3",
              \* "over" once KEY_EOF was returned
    got_int, pending, idle,
    param, guard,
    keys,     \* keys returned so far, "NONE" for one that read_key does not know;
              \* without KEY_INT and the KEY_NONE of an interrupted read
    misled    \* history: read_byte has given up a terminal that was there

vars == <<typed, wire, queue, gone, signals, woken, at, got_int, pending, idle,
          param, guard, keys, misled>>
console == <<typed, wire, gone, signals>>

ESC == "esc"
Digits == <<"0", "1", "2", "3", "4", "5", "6", "7", "8", "9">>
Digit ==
    [d \in {Digits[n] : n \in 1 .. 10} |-> (CHOOSE n \in 1 .. 10 : Digits[n] = d) - 1]

Letter ==
    [b \in {"A", "B", "C", "D", "H", "F"} |->
        CASE b = "A" -> "UP" [] b = "B" -> "DOWN" [] b = "C" -> "RIGHT"
          [] b = "D" -> "LEFT" [] b = "H" -> "HOME" [] b = "F" -> "END"]
LetterKey(b) == IF b \in DOMAIN Letter THEN Letter[b] ELSE "NONE"

Tilde(n) ==
    CASE n \in {1, 7} -> "HOME" [] n = 2 -> "INS" [] n = 3 -> "DEL" [] n \in {4, 8} -> "END"
      [] n = 5 -> "PGUP" [] n = 6 -> "PGDN" [] OTHER -> "NONE"

\* What a CSI sequence with parameter n says by its last byte.
Parameters == DOMAIN Digit \cup {";"}
FinalKey(b, n) == IF b = "~" THEN Tilde(n) ELSE LetterKey(b)

-----------------------------------------------------------------------------
(* read_byte                                                               *)

\* It returns byte b: the one pushed back, or the next of the console.
ByteRead(b) ==
    /\ \/ /\ pending # "none"
          /\ b = pending
          /\ pending' = "none"
          /\ UNCHANGED <<queue, idle>>
       \/ /\ pending = "none"
          /\ queue # <<>>
          /\ b = Head(queue)
          /\ queue' = Tail(queue)
          /\ idle' = 0
          /\ UNCHANGED pending
    /\ UNCHANGED misled

\* The read transferred nothing: it was interrupted, or the terminal is gone.
Nothing == pending = "none" /\ queue = <<>> /\ (woken \/ gone)

\* Mutant of IntrRead: empty reads are not counted.
IntrReadUncounted ==
    /\ Nothing
    /\ woken' = FALSE
    /\ UNCHANGED <<queue, pending, idle, misled>>

\* RD_INTR: -EINTR, or an empty read that is forgiven.
IntrRead ==
    /\ Nothing
    /\ woken' = FALSE
    /\ \/ woken /\ UNCHANGED idle
       \/ idle < IdleMax /\ idle' = idle + 1
    /\ UNCHANGED <<queue, pending, misled>>

\* Mutant of EofRead: an interrupted read passes for the end of the file.
EofReadHasty ==
    /\ Nothing
    /\ woken' = FALSE
    /\ misled' = (misled \/ ~ gone)
    /\ UNCHANGED <<queue, pending, idle>>

\* RD_EOF: an error, or one empty read too many.  (Beyond IdleMax + 1 the
\* count makes no difference.)
EofRead ==
    /\ Nothing
    /\ woken' = FALSE
    /\ \/ gone /\ UNCHANGED idle
       \/ idle >= IdleMax /\ idle' = IdleMax + 1
    /\ misled' = (misled \/ ~ gone)
    /\ UNCHANGED <<queue, pending>>

\* pending = b
PushBack(b) == pending' = b

-----------------------------------------------------------------------------
(* read_key: one step for each byte                                        *)

Return(key) ==
    /\ at' = "top"
    /\ keys' = Append(keys, key)
    /\ UNCHANGED <<param, guard>>

Wait(state) == at' = state /\ UNCHANGED <<param, guard, keys>>

\* Mutant of CheckSignal: got_int is looked at only after an interrupted read.
CheckNoSignal ==
    /\ at = "top"
    /\ at' = "read"
    /\ UNCHANGED <<console, queue, woken, got_int, pending, idle, param, guard, keys, misled>>

CheckSignal ==
    /\ at = "top"
    /\ IF got_int THEN got_int' = FALSE /\ at' = "top"
                  ELSE at' = "read" /\ UNCHANGED got_int
    /\ UNCHANGED <<console, queue, woken, pending, idle, param, guard, keys, misled>>

FirstByte ==
    /\ at = "read"
    /\ \/ \E b \in {ESC} : ByteRead(b) /\ Wait("esc") /\ UNCHANGED <<got_int, woken>>
       \/ \E b \in Bytes \ {ESC} : ByteRead(b) /\ Return(b) /\ UNCHANGED <<got_int, woken>>
       \/ IntrRead /\ got_int' = FALSE /\ Wait("top")
       \/ EofRead /\ at' = "over" /\ UNCHANGED <<got_int, param, guard, keys>>
    /\ UNCHANGED console

\* Mutant of ReadOn: read_byte where the code has read_byte_seq.
ReadOnNot == IntrRead /\ Return("ESC")

\* read_byte_seq: an interrupt in the middle of a sequence reads on.
ReadOn == IntrRead /\ UNCHANGED <<at, param, guard, keys>>

SecondByte ==
    /\ at = "esc"
    /\ \/ /\ ByteRead("[")
          /\ at' = "csi" /\ param' = 0 /\ guard' = 0
          /\ UNCHANGED <<keys, woken>>
       \/ ByteRead("O") /\ Wait("ss3") /\ UNCHANGED woken
       \/ \E b \in Bytes \ {"[", "O"} :     \* a lone ESC
            /\ pending = "none" /\ queue # <<>> /\ Head(queue) = b
            /\ queue' = Tail(queue)
            /\ idle' = 0
            /\ PushBack(b)
            /\ Return("ESC")
            /\ UNCHANGED <<woken, misled>>
       \/ ReadOn
       \/ EofRead /\ Return("ESC")
    /\ UNCHANGED <<console, got_int>>

CsiByte ==
    /\ at = "csi"
    /\ \/ \E d \in Parameters :
            /\ ByteRead(d)
            /\ param' = IF d = ";" THEN param ELSE 10 * param + Digit[d]
            /\ guard' = guard + 1
            /\ \/ guard + 1 < SeqMax /\ at' = "csi" /\ UNCHANGED keys
               \/ guard + 1 >= SeqMax /\ at' = "top" /\ keys' = Append(keys, "NONE")
            /\ UNCHANGED woken
       \/ \E b \in Bytes \ Parameters :
            ByteRead(b) /\ Return(FinalKey(b, param)) /\ UNCHANGED woken
       \/ ReadOn
       \/ EofRead /\ Return("ESC")
    /\ UNCHANGED <<console, got_int>>

Ss3Byte ==
    /\ at = "ss3"
    /\ \/ \E b \in Bytes : ByteRead(b) /\ Return(LetterKey(b)) /\ UNCHANGED woken
       \/ ReadOn
       \/ EofRead /\ Return("NONE")
    /\ UNCHANGED <<console, got_int>>

-----------------------------------------------------------------------------
(* The console and its user                                                *)

parser == <<at, pending, idle, param, guard, keys, misled>>

\* A key is pressed.  Its bytes arrive one after the other, the first of them
\* now, and between two of them the reader may catch up and block.
Press(s) ==
    /\ ~ gone
    /\ at # "over"
    /\ wire = <<>>
    /\ Len(typed) < MaxStrokes
    /\ typed' = Append(typed, s.key)
    /\ queue' = Append(queue, Head(s.bytes))
    /\ wire' = Tail(s.bytes)
    /\ UNCHANGED <<parser, gone, signals, woken, got_int>>

Arrive ==
    /\ ~ gone
    /\ wire # <<>>
    /\ queue' = Append(queue, Head(wire))
    /\ wire' = Tail(wire)
    /\ UNCHANGED <<parser, typed, gone, signals, woken, got_int>>

\* on_signal.  A read that is blocked is interrupted; a signal that comes just
\* before the read blocks interrupts nothing.
Signal ==
    /\ signals < MaxSignals
    /\ at # "over"
    /\ signals' = signals + 1
    /\ got_int' = TRUE
    /\ woken' \in {woken, woken \/ (at # "top" /\ pending = "none" /\ queue = <<>>)}
    /\ UNCHANGED <<parser, typed, wire, queue, gone>>

\* What has not arrived by now never will.
Hangup ==
    /\ ~ gone
    /\ gone' = TRUE
    /\ UNCHANGED <<parser, typed, wire, queue, signals, woken, got_int>>

Init ==
    /\ typed = <<>> /\ wire = <<>> /\ queue = <<>> /\ keys = <<>>
    /\ gone = FALSE /\ woken = FALSE /\ got_int = FALSE /\ misled = FALSE
    /\ signals = 0 /\ idle = 0 /\ param = 0 /\ guard = 0
    /\ pending = "none"
    /\ at = "top"

read_key == CheckSignal \/ FirstByte \/ SecondByte \/ CsiByte \/ Ss3Byte

Next ==
    \/ CheckSignal \/ FirstByte \/ SecondByte \/ CsiByte \/ Ss3Byte
    \/ \E s \in Strokes : Press(s)
    \/ Arrive
    \/ Signal
    \/ Hangup

Spec == Init /\ [][Next]_vars
FairSpec == Spec /\ WF_vars(read_key)

-----------------------------------------------------------------------------
(* Properties                                                              *)

\* Every variable keeps its type.
TypeOK ==
    /\ Len(typed) <= MaxStrokes
    /\ at \in {"top", "read", "esc", "csi", "ss3", "over"}
    /\ {gone, woken, got_int, misled} \subseteq BOOLEAN
    /\ idle \in 0 .. IdleMax + 1
    /\ guard \in 0 .. SeqMax
    /\ param \in Nat

\* What a stroke must be for read_key to end where it ends: a character, a lone
\* ESC, or a sequence, whose parameter grows through Numbers; it gives the key
\* of its last byte, or none that read_key knows.  After a lone ESC "[" and "O"
\* begin a sequence (there is no timeout), so a keyboard with an ESC key has no
\* such characters.
Character(s) ==
    s.bytes = <<s.key>> /\ s.key \notin {ESC, "none"}
LoneEsc(s) == s.bytes = <<ESC>> /\ s.key = "ESC"
Param(s, val) ==
    /\ val[2] = 0
    /\ \A j \in 3 .. Len(s.bytes) - 1 :
          /\ s.bytes[j] \in Parameters
          /\ val[j] = IF s.bytes[j] = ";" THEN val[j - 1]
                      ELSE 10 * val[j - 1] + Digit[s.bytes[j]]
CsiKey(s, val) ==
    LET last == s.bytes[Len(s.bytes)]
    IN  last \notin Parameters /\ s.key = FinalKey(last, val[Len(s.bytes) - 1])
Csi(s, Numbers) ==
    /\ Len(s.bytes) \in 3 .. SeqMax + 2
    /\ s.bytes[1] = ESC /\ s.bytes[2] = "["
    /\ \E val \in [2 .. Len(s.bytes) - 1 -> Numbers] : Param(s, val) /\ CsiKey(s, val)
Ss3(s) ==
    \E b \in Bytes : s.bytes = <<ESC, "O", b>> /\ s.key = LetterKey(b)

Known(Numbers) ==
    /\ \A s \in Strokes : Character(s) \/ LoneEsc(s) \/ Csi(s, Numbers) \/ Ss3(s)
    /\ (\E s \in Strokes : LoneEsc(s)) => \A s \in Strokes : s.key \notin {"[", "O"}

\* The keys returned are the keys pressed, in their order, none twice and none
\* made of the pieces of another, wherever the signals fall, between two keys or
\* between two bytes of one; and once all is read they are all of them.  Two
\* things undo it.  A terminal that goes between two bytes cuts its last key:
\* read_key makes ESC of what has come of it, or nothing.  And read_byte may give
\* up a terminal that is there (`misled'; FewSignalsNeverEnd says what that
\* takes): read_key then ends a sequence early, and the rest of it is characters.
CutShort ==
    /\ gone /\ wire # <<>>
    /\ \E key \in {"ESC", "NONE"} : keys = Append(SubSeq(typed, 1, Len(typed) - 1), key)
KeysAreStrokes ==
    ~ misled =>
        \/ /\ Len(keys) <= Len(typed)
           /\ keys = SubSeq(typed, 1, Len(keys))
           /\ (wire = <<>> /\ queue = <<>> /\ pending = "none"
               /\ at \in {"top", "read", "over"}) => keys = typed
        \/ CutShort

\* "Ctrl-C never drops the buffer": only a terminal that is gone ends the
\* session or a sequence, as long as no more signals come than empty reads are
\* forgiven (the count is of empty reads in a row, whatever emptied them).
FewSignalsNeverEnd == signals <= IdleMax => ~ misled /\ (at = "over" => gone)

\* "read_key() then reports KEY_INT": with the next whole key, at the latest (a
\* lone ESC is not whole before the byte after it has come).  A signal between
\* the check of got_int and the read wakes nothing up, hence the next key.
CtrlCReportedWithNextKey ==
    (got_int /\ wire = <<>> /\ queue # <<>> /\ queue[Len(queue)] # ESC)
        ~> (~ got_int \/ at = "over")

\* Once the terminal is gone the session ends.
HangupEnds == gone ~> at = "over"
=============================================================================
