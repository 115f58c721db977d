------------------------------ MODULE Timeout ------------------------------
(***************************************************************************)
(* timeout (ex_admin.c): a command is started, asked every Tick whether it *)
(* has ended, signalled at the deadline, then killed.  The command, the    *)
(* kernel and the clock are external: the command may end at any moment,   *)
(* may ignore the signal, and dies of it whenever the kernel gets to it;   *)
(* any waitpid may fail.                                                   *)
(***************************************************************************)
EXTENDS Integers

CONSTANTS Tick,         \* milliseconds between two polls: 20
          Deadlines,    \* dead_ms, as parsed from DURATION
          MaxReap,      \* polls after SIGKILL: 100
          Codes,        \* what the command may exit with
          Sig           \* the signal of -s

Killed(s) == 128 + s
KILL == 9
TimedOut == 124
Never == -1

ASSUME TimeoutAssumption ==
  /\ Tick \in Nat \ {0} /\ MaxReap \in Nat \ {0} /\ Sig \in Nat \ {0}
  /\ Deadlines \subseteq Nat /\ Codes \subseteq Nat

VARIABLES tpc,          \* where timeout is; it ends in "done", "timed_out" or "lost"
          dead_ms, waited, tries, status,
          child,        \* "none", "running", "zombie" (ended), "reaped"
          told,         \* what its parent is told, once it has ended
          sent,         \* the signals on their way to it
          ended         \* waited, when it ended
timeoutVars == <<tpc, dead_ms, waited, tries, status, child, told, sent, ended>>

Command == <<child, told, sent, ended>>
Clock == <<dead_ms, waited, tries, status>>

TimeoutInit ==
  /\ tpc = "fork" /\ dead_ms \in Deadlines
  /\ waited = 0 /\ tries = 0 /\ status = 0
  /\ child = "none" /\ told = 0 /\ sent = {} /\ ended = Never

(***************************************************************************)
(* timeout.                                                                *)
(***************************************************************************)
Fork ==
  /\ tpc = "fork"
  /\ \/ tpc' = "poll" /\ child' = "running" /\ UNCHANGED status
     \/ tpc' = "done" /\ status' = 1 /\ UNCHANGED child
  /\ UNCHANGED <<dead_ms, waited, tries, told, sent, ended>>

\* waitpid with WNOHANG takes the command away once it has ended
Reap == child = "zombie" /\ child' = "reaped" /\ UNCHANGED <<told, sent, ended>>
Still == child = "running" /\ UNCHANGED Command
\* ... or fails, and says nothing of the command
WaitFails == UNCHANGED Command

Done(st) == tpc' = "done" /\ status' = st
DoneTimedOut == tpc' = "timed_out" /\ status' = TimedOut
\* The command is given up: st is still 0 then, and so is the answer.
Lose == tpc' = "lost" /\ status' = 0

\* Mutant of Poll: the clock before the command.
PollLate ==
  /\ tpc = "poll"
  /\ \/ waited < dead_ms /\ Reap /\ Done(told)
     \/ (waited >= dead_ms \/ child = "running") /\ UNCHANGED <<Command, status>>
        /\ tpc' = IF waited >= dead_ms THEN "signal" ELSE "sleep"
  /\ UNCHANGED <<dead_ms, waited, tries>>

Poll ==
  /\ tpc = "poll"
  /\ \/ Reap /\ Done(told)
     \/ Still /\ tpc' = (IF waited >= dead_ms THEN "signal" ELSE "sleep") /\ UNCHANGED status
     \/ WaitFails /\ Lose
  /\ UNCHANGED <<dead_ms, waited, tries>>

Sleep ==
  /\ tpc = "sleep" /\ tpc' = "poll" /\ waited' = waited + Tick
  /\ UNCHANGED <<dead_ms, tries, status, Command>>

Kill(s, next) ==
  /\ tpc' = next /\ sent' = sent \cup {s}
  /\ UNCHANGED <<Clock, child, told, ended>>

SignalChild == tpc = "signal" /\ Kill(Sig, "grace")

\* 100 ms later: gone, or killed
Grace ==
  /\ tpc = "grace"
  /\ \/ Reap /\ DoneTimedOut
     \/ (Still \/ WaitFails) /\ tpc' = "kill" /\ UNCHANGED status
  /\ UNCHANGED <<dead_ms, waited, tries>>

KillChild == tpc = "kill" /\ Kill(KILL, "reap")

ReapTry ==
  /\ tpc = "reap" /\ tries' = tries + 1
  /\ \/ Reap /\ DoneTimedOut
     \/ /\ Still \/ WaitFails
        /\ IF tries' = MaxReap THEN DoneTimedOut ELSE UNCHANGED <<tpc, status>>
  /\ UNCHANGED <<dead_ms, waited>>

(***************************************************************************)
(* The command.                                                            *)
(***************************************************************************)
Ends(st) == /\ child = "running" /\ child' = "zombie" /\ told' = st /\ ended' = waited
            /\ UNCHANGED <<tpc, Clock, sent>>
ChildExits == \E c \in Codes : Ends(c)
ChildDies == \E s \in sent : Ends(Killed(s))

TimeoutStep == Fork \/ Poll \/ Sleep \/ SignalChild \/ Grace \/ KillChild \/ ReapTry
TimeoutNext == TimeoutStep \/ ChildExits \/ ChildDies
TimeoutSpec == TimeoutInit /\ [][TimeoutNext]_timeoutVars

(***************************************************************************)
(* What timeout promises.                                                  *)
(***************************************************************************)
\* The pid is that of the command, or of a process that may be anyone's.
Ours == child \in {"running", "zombie"}

(* A signal only goes to a pid that still is the command's; a command that *)
(* had ended when the deadline came is never taken for timed out, and one  *)
(* that is was signalled, and killed if it is left behind; any other       *)
(* answer is the status the command ended with, which may be 124 too, and  *)
(* nothing is left behind then (ex_admin.c:621).  The exception is a       *)
(* waitpid that fails before the deadline ("lost"): timeout answers 0 for  *)
(* a command that it has neither waited for nor signalled (ex_admin.c:630).*)
TimeoutKeepsTrack ==
  /\ tpc \in {"signal", "kill"} => Ours
  /\ tpc = "timed_out" => sent # {} /\ (ended = Never \/ ended >= dead_ms)
  /\ tpc = "timed_out" /\ child # "reaped" => KILL \in sent
  /\ tpc = "done" /\ child # "none" => child = "reaped" /\ status = told
=============================================================================
