------------------------------ MODULE Killall ------------------------------
(***************************************************************************)
(* killall and pidof (ex_admin.c): /proc is walked in pieces of a few      *)
(* entries; for each process its name is read and, if it is one of those   *)
(* asked for, a signal is sent or the pid is noted.  Processes start and   *)
(* end meanwhile, and a pid may be used again.  The listing, the reading   *)
(* of a name and the signal may each fail.                                 *)
(***************************************************************************)
EXTENDS Naturals, FiniteSets, SequencesExt

CONSTANTS Pids,         \* the pids, numbers
          Names,        \* the names of programs
          Asked,        \* the names given as arguments
          Piece,        \* entries in one getdents: 32
          MaxFound,     \* pids pidof can note: 256
          MaxChanges    \* processes that start or end

NoName == "-"

ASSUME KillallAssumption ==
  /\ Pids \subseteq Nat \ {0} /\ IsFiniteSet(Pids)
  /\ NoName \notin Names \cup Asked
  /\ Piece \in Nat \ {0} /\ MaxFound \in Nat \ {0}

\* lived: the processes there from the start.  spared: those passed over though
\* alive, their name not read or the signal refused.  listing: "cut" by a failure.
VARIABLES tool, table, piece, upTo, comm, hit, failed, kpc, rck, lived, changes, spared, listing
killallVars == <<tool, table, piece, upTo, comm, hit, failed, kpc, rck, lived, changes,
                 spared, listing>>

KillallInit ==
  /\ tool \in {"killall", "pidof"}
  /\ table \in [Pids -> Names \cup {NoName}]
  /\ piece = {} /\ upTo = 0 /\ comm = NoName /\ hit = <<>> /\ failed = 0
  /\ kpc = "getdents" /\ rck = 0 /\ changes = 0
  /\ lived = {p \in Pids : table[p] # NoName} /\ spared = {} /\ listing = "whole"

Processes == UNCHANGED <<table, lived, changes>>
Heard == UNCHANGED <<spared, listing>>
Ahead == {p \in Pids : p > upTo /\ table[p] # NoName}
FirstOf(ps) == CHOOSE p \in ps : \A q \in ps : p <= q
LastOf(ps) == CHOOSE p \in ps : \A q \in ps : q <= p
Listed == {p \in Ahead : Cardinality({q \in Ahead : q < p}) < Piece}

\* the next entries of /proc, in the order of the pids
GetDents ==
  /\ kpc = "getdents" /\ Ahead # {}
  /\ piece' = Listed /\ upTo' = LastOf(Listed) /\ kpc' = "read"
  /\ UNCHANGED <<tool, comm, hit, failed, rck>> /\ Processes /\ Heard

\* /proc is not opened, or getdents fails: the walk ends there, and proc_each's
\* own answer is not looked at
ListingFails ==
  /\ kpc = "getdents" /\ kpc' = "done" /\ listing' = "cut"
  /\ rck' = IF hit = <<>> THEN 1 ELSE 0
  /\ UNCHANGED <<tool, piece, upTo, comm, hit, failed, spared>> /\ Processes

\* a process that is gone by now is passed over
ReadComm ==
  /\ kpc = "read" /\ piece # {}
  /\ IF table[FirstOf(piece)] \in Asked
     THEN kpc' = "found" /\ comm' = table[FirstOf(piece)] /\ UNCHANGED piece
     ELSE piece' = piece \ {FirstOf(piece)} /\ UNCHANGED <<kpc, comm>>
  /\ UNCHANGED <<tool, upTo, hit, failed, rck>> /\ Processes /\ Heard

\* so is one whose name cannot be read
CommFails ==
  /\ kpc = "read" /\ piece # {} /\ table[FirstOf(piece)] # NoName
  /\ piece' = piece \ {FirstOf(piece)} /\ spared' = spared \cup {FirstOf(piece)}
  /\ UNCHANGED <<tool, upTo, comm, hit, failed, kpc, rck, listing>> /\ Processes

PieceDone ==
  /\ kpc = "read" /\ piece = {} /\ kpc' = "getdents"
  /\ UNCHANGED <<tool, piece, upTo, comm, hit, failed, rck>> /\ Processes /\ Heard

\* Mutant of killall_cb: the walk stops at the first process of the name.
killall_cb_first ==
  /\ kpc = "found" /\ tool = "killall" /\ kpc' = "done"
  /\ \/ table[FirstOf(piece)] # NoName /\ hit' = Append(hit, FirstOf(piece)) /\ UNCHANGED failed
     \/ table[FirstOf(piece)] = NoName /\ failed' = failed + 1 /\ UNCHANGED hit
  /\ UNCHANGED <<tool, piece, upTo, comm, rck>> /\ Processes /\ Heard

\* kill may come too late, reach another process with the same pid, or be refused
killall_cb ==
  /\ kpc = "found" /\ tool = "killall" /\ kpc' = "read" /\ piece' = piece \ {FirstOf(piece)}
  /\ \/ /\ table[FirstOf(piece)] # NoName /\ hit' = Append(hit, FirstOf(piece))
        /\ UNCHANGED <<failed, spared>>
     \/ /\ table[FirstOf(piece)] # NoName /\ spared' = spared \cup {FirstOf(piece)}
        /\ failed' = failed + 1 /\ UNCHANGED hit
     \/ table[FirstOf(piece)] = NoName /\ failed' = failed + 1 /\ UNCHANGED <<hit, spared>>
  /\ UNCHANGED <<tool, upTo, comm, rck, listing>> /\ Processes

pidof_collect ==
  /\ kpc = "found" /\ tool = "pidof" /\ kpc' = "read" /\ piece' = piece \ {FirstOf(piece)}
  /\ hit' = IF Len(hit) < MaxFound THEN Append(hit, FirstOf(piece)) ELSE hit
  /\ UNCHANGED <<tool, upTo, comm, failed, rck>> /\ Processes /\ Heard

WalkDone ==
  /\ kpc = "getdents" /\ Ahead = {} /\ kpc' = "done"
  /\ rck' = IF hit = <<>> THEN 1 ELSE 0
  /\ UNCHANGED <<tool, piece, upTo, comm, hit, failed>> /\ Processes /\ Heard

ProcessStarts ==
  /\ kpc \in {"getdents", "read", "found"} /\ changes < MaxChanges /\ changes' = changes + 1
  /\ \E p \in Pids, n \in Names : table[p] = NoName /\ table' = [table EXCEPT ![p] = n]
  /\ UNCHANGED <<tool, piece, upTo, comm, hit, failed, kpc, rck, lived>> /\ Heard

ProcessEnds ==
  /\ kpc \in {"getdents", "read", "found"} /\ changes < MaxChanges /\ changes' = changes + 1
  /\ \E p \in Pids : /\ table[p] # NoName /\ table' = [table EXCEPT ![p] = NoName]
                     /\ lived' = lived \ {p}
  /\ UNCHANGED <<tool, piece, upTo, comm, hit, failed, kpc, rck>> /\ Heard

KillallNext == GetDents \/ ListingFails \/ ReadComm \/ CommFails \/ PieceDone
               \/ killall_cb \/ pidof_collect \/ WalkDone \/ ProcessStarts \/ ProcessEnds
KillallSpec == KillallInit /\ [][KillallNext]_killallVars

KillallOff ==
  /\ tool = "off" /\ table = [p \in Pids |-> NoName] /\ piece = {} /\ upTo = 0
  /\ comm = NoName /\ hit = <<>> /\ failed = 0 /\ kpc = "off" /\ rck = 0 /\ changes = 0
  /\ lived = {} /\ spared = {} /\ listing = "off"

(***************************************************************************)
(* What killall and pidof promise.                                         *)
(***************************************************************************)
(* A process of the name that lives through the walk is signalled, or      *)
(* noted, once, whatever starts and ends around it, if the walk came to it,*)
(* its name was read and the signal was not refused; the status is 0 only  *)
(* if one was found.  pidof stops noting at MaxFound (ex_admin.c:265).     *)
(* What is spared or lies behind a cut in the listing shows in no status:  *)
(* one success is 0, and pidof answers as if there were no such process    *)
(* (ex_admin.c:38, 43, 55, 342).                                           *)
NamedAreFound ==
  LET Due == {p \in lived \ spared : table[p] \in Asked /\ (listing = "cut" => p <= upTo)}
  IN kpc = "done" =>
       /\ IsInjective(hit) /\ ToSet(hit) \cap spared = {}
       /\ Due \subseteq ToSet(hit) \/ (tool = "pidof" /\ Len(hit) = MaxFound)
       /\ rck = 0 <=> hit # <<>>
       /\ Due # {} => rck = 0
=============================================================================
