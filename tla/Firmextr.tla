------------------------------ MODULE Firmextr ------------------------------
(***************************************************************************)
(* firmextr (firmextr/firmextr.c): one pass over a compressed archive, of  *)
(* which only the requested members are written.                           *)
(*                                                                         *)
(* The decompressed stream is a row of units, FwBlock to a block.  Each    *)
(* member has a header, of which the first unit names it and the rest is   *)
(* Fill, then its bytes, then Fill up to a block; two blocks of Fill end   *)
(* the archive.  The stream may end, or stop at a bad frame, at any unit.  *)
(***************************************************************************)
EXTENDS Integers, Sequences, FiniteSets, SequencesExt

CONSTANTS FwBlock,        \* units in a block: TAR_BLOCK
          CopyBuf,        \* units in a buffer: COPY_BUF
          FwArchives,     \* sequences of [name, type, size, at]: a name is a path,
                          \* at the number of units before the header
          FullNames,      \* names that fill their field: all of its 100 bytes
          FwPatterns,     \* sequences of [path, prefix]
          LongNames,      \* members whose destination is too long
          MaxFwFaults

PadOf(size) == (FwBlock - (size % FwBlock)) % FwBlock
DataOf(m) == m.at + FwBlock
After(m) == DataOf(m) + m.size + PadOf(m.size)
Begins(ms, i) == IF i \in DOMAIN ms THEN ms[i].at ELSE IF ms = <<>> THEN 0 ELSE After(ms[Len(ms)])
Whole(ms) == Begins(ms, Len(ms) + 1) + 2 * FwBlock

\* A name is read up to the first zero: one that fills its field runs on into
\* the mode, which comes next in the header.
ModeText == "0000644"
tar_name(m) == IF m.name \in FullNames THEN Append(m.name, ModeText) ELSE m.name
BothNames(m) == {m.name, tar_name(m)}

\* One member follows the other, and none has the name of another, as it is or
\* as it is read.
ASSUME FwAssumption ==
  /\ FwBlock \in Nat \ {0} /\ CopyBuf \in Nat \ {0} /\ MaxFwFaults \in Nat
  /\ \A ms \in FwArchives :
       /\ Len(ms) \in Nat /\ DOMAIN ms = 1..Len(ms)
       /\ \A i \in DOMAIN ms :
            /\ ms[i].size \in Nat /\ ms[i].name \in Seq(STRING)
            /\ ms[i].at = IF i = 1 THEN 0 ELSE After(ms[i - 1])
            /\ \A j \in DOMAIN ms : BothNames(ms[i]) \cap BothNames(ms[j]) # {} => i = j

VARIABLES members, pats, list,    \* what the run is about
          fwLen,                  \* units the stream holds
          fwPos,                  \* units that have been decompressed
          fwAt, member, toGo, skip, satisfied, fwOut, fwRc, fwFaults
fwVars == <<members, pats, list, fwLen, fwPos, fwAt, member, toGo, skip, satisfied, fwOut,
            fwRc, fwFaults>>

Byte(i, k) == <<"data", i, k>>
Fill == <<"fill">>
Content(ms, i) == [k \in 1..ms[i].size |-> Byte(i, k)]

\* the unit after n others: the first of a header, a byte of a member, or Fill
HeaderAt(n) == {i \in DOMAIN members : members[i].at = n}
DataAt(n) == {i \in DOMAIN members :
                n >= DataOf(members[i]) /\ n < DataOf(members[i]) + members[i].size}
UnitAfter(n) ==
  IF DataAt(n) = {} THEN Fill
  ELSE LET i == CHOOSE j \in DataAt(n) : TRUE IN Byte(i, n - DataOf(members[i]) + 1)

FwInit ==
  /\ members \in FwArchives /\ pats \in FwPatterns
  /\ list \in BOOLEAN /\ (pats = <<>> => list)
  /\ fwLen \in 0..Whole(members) /\ fwPos = 0
  /\ fwAt = "header" /\ member = 0 /\ toGo = 0 /\ skip = 0
  /\ satisfied = {} /\ fwOut = <<>> /\ fwRc = 0 /\ fwFaults = 0

\* z_read: n units, or what the stream still holds
Ready == fwLen - fwPos
Got(n) == [k \in 1..n |-> UnitAfter(fwPos + k - 1)]
z_read(n) == fwPos' = fwPos + n
\* z_skip fails at the end of the stream, with everything read
z_skips(n) == Ready >= n
z_skip(n) == z_read(IF z_skips(n) THEN n ELSE Ready)

member_matches(m, p) == IF p.prefix THEN IsPrefix(p.path, m) ELSE p.path = m
Matching(m) == {i \in DOMAIN pats : member_matches(m, pats[i])}
unbounded_never == FALSE
unbounded == \E i \in DOMAIN pats : pats[i].prefix
Wants(m) == ~list /\ m.type = "file" /\ Matching(tar_name(m)) # {}
SameRun == UNCHANGED <<members, pats, list, fwLen>>
fault == fwFaults < MaxFwFaults /\ fwFaults' = fwFaults + 1

finish ==
  /\ fwAt' = "end"
  /\ fwRc' = IF ~list /\ satisfied # DOMAIN pats THEN 1 ELSE fwRc
  /\ UNCHANGED <<member, toGo, skip, satisfied, fwOut, fwFaults>>

\* firmextr_run: the next block is a header, zeros, cut short, or, as a failed
\* write can lead to, anything else; that is not followed further.
Header(i) ==
  LET m == members[i]
  IN  /\ member' = i /\ satisfied' = satisfied \cup Matching(tar_name(m))
      /\ fwAt' = IF Wants(m) /\ tar_name(m) \notin LongNames THEN "create" ELSE "pass"
      /\ fwRc' = IF Wants(m) /\ tar_name(m) \in LongNames THEN 1 ELSE fwRc
      /\ toGo' = m.size /\ skip' = PadOf(m.size)
      /\ UNCHANGED <<fwOut, fwFaults>>

IsZero == \A k \in 0..FwBlock - 1 : HeaderAt(fwPos + k) = {} /\ DataAt(fwPos + k) = {}

NextHeader ==
  /\ fwAt = "header"
  /\ \/ Ready < FwBlock /\ z_read(Ready) /\ finish
     \/ /\ Ready >= FwBlock /\ z_read(FwBlock)
        /\ \/ IsZero /\ finish
           \/ \E i \in HeaderAt(fwPos) : Header(i)
           \/ /\ ~IsZero /\ HeaderAt(fwPos) = {} /\ fwAt' = "lost"
              /\ UNCHANGED <<member, toGo, skip, satisfied, fwOut, fwRc, fwFaults>>
  /\ SameRun

\* a member that is not wanted: the result of skipping it is not looked at
PassMember ==
  /\ fwAt = "pass" /\ fwAt' = "pad" /\ toGo' = 0 /\ z_skip(toGo)
  /\ UNCHANGED <<member, skip, satisfied, fwOut, fwRc, fwFaults>> /\ SameRun

Failed == fwRc' = 1 /\ fwAt' = "pad" /\ toGo' = 0

\* write_member: the parent directories, the file, then buffer by buffer
CreateMember ==
  /\ fwAt = "create"
  /\ \/ /\ fwOut' = [i \in DOMAIN fwOut \cup {member} |-> IF i = member THEN <<>> ELSE fwOut[i]]
        /\ fwAt' = "write" /\ UNCHANGED <<toGo, fwRc, fwFaults>>
     \/ fault /\ Failed /\ UNCHANGED fwOut
  /\ UNCHANGED <<fwPos, member, skip, satisfied>> /\ SameRun

Lesser(m, n) == IF m < n THEN m ELSE n
Put(us) == fwOut' = [fwOut EXCEPT ![member] = @ \o us]

WriteMember ==
  /\ fwAt = "write"
  /\ LET n == Lesser(Lesser(toGo, CopyBuf), Ready)
     IN  \/ /\ toGo = 0 /\ fwAt' = "pad"
            /\ UNCHANGED <<fwPos, toGo, fwOut, fwRc, fwFaults>>
         \/ /\ toGo > 0 /\ n = 0 /\ Failed /\ UNCHANGED <<fwPos, fwOut, fwFaults>>
         \/ /\ toGo > 0 /\ n > 0 /\ z_read(n) /\ Put(Got(n)) /\ toGo' = toGo - n
            /\ UNCHANGED <<fwAt, fwRc, fwFaults>>
         \/ /\ toGo > 0 /\ n > 0 /\ z_read(n) /\ fault /\ Failed
            /\ \E k \in 0..(n - 1) : Put(Got(k))
  /\ UNCHANGED <<member, skip, satisfied>> /\ SameRun

\* the padding, and whether everything asked for has been found
SkipPad ==
  /\ fwAt = "pad" /\ z_skip(skip)
  /\ IF ~z_skips(skip) \/ (~list /\ ~unbounded /\ satisfied = DOMAIN pats)
     THEN finish
     ELSE fwAt' = "header"
          /\ UNCHANGED <<member, toGo, skip, satisfied, fwOut, fwRc, fwFaults>>
  /\ SameRun

FwNext == NextHeader \/ PassMember \/ CreateMember \/ WriteMember \/ SkipPad

FwSpec == FwInit /\ [][FwNext]_fwVars

(***************************************************************************)
(* What the caller relies on.                                              *)
(***************************************************************************)
AskedFor(p) == {i \in DOMAIN members : /\ members[i].type = "file"
                                     /\ member_matches(members[i].name, pats[p])}
Cut == fwLen < Whole(members)

(* With status 0 every member that was asked for is on disk, whole and     *)
(* under its own name, and no other member is: wherever the stream ends, a *)
(* write fails or a name is too long (firmextr.c:257).  Two exceptions,    *)
(* both of a subtree: a broken archive may lose members of it in silence,  *)
(* since one that was found answers for it (line 270), and a member whose  *)
(* name fills its field is written under a name that runs on into its mode *)
(* (line 202; asked for by name it is not found, and the status says so).  *)
(* What was written is at any time the beginning of its member, and a      *)
(* reader that lost the headers says so.                                   *)
MembersAreWhole ==
  /\ \A i \in DOMAIN fwOut :
       /\ IsPrefix(fwOut[i], Content(members, i))
       /\ (\E p \in DOMAIN pats : i \in AskedFor(p)) \/ members[i].name \in FullNames
  /\ fwAt = "lost" => fwRc = 1
  /\ fwAt = "end" /\ fwRc = 0 /\ ~list =>
       \A p \in DOMAIN pats :
         \A i \in AskedFor(p) :
           \/ pats[p].prefix /\ (Cut \/ members[i].name \in FullNames)
           \/ /\ i \in DOMAIN fwOut /\ fwOut[i] = Content(members, i)
              /\ tar_name(members[i]) = members[i].name
=============================================================================
