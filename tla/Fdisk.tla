------------------------------- MODULE Fdisk --------------------------------
(***************************************************************************)
(* fdisk/main.c: sessions that load a table from the disk, edit it in      *)
(* memory verb by verb and write it back sector by sector.  The process    *)
(* may be killed at any moment and a sector write may fail; the next       *)
(* session starts from whatever the disk then holds.                       *)
(*                                                                         *)
(* Reads do not fail and the capacity probe is exact.  After `w` the       *)
(* kernel is asked to re-scan; the answer changes nothing here.            *)
(***************************************************************************)
EXTENDS Ptab

CONSTANTS
    Verbs,      \* the editing verbs in use, a subset of {"o","g","n","d","t","b"}
    Nums,       \* partition numbers the user types (parsed uint64_t values)
    FirstArgs,  \* explicit start sectors the user types
    EndArgs,    \* end arguments, records [plus, v]: "+v" or "v", in sectors
    TypeArgs,   \* types the user types
    IntMod,     \* 2^32 in the code: number of values of int
    InitDisks,  \* contents the disk may have before the first session
    Modes,      \* how fdisk is started, a subset of {"script", "tty"}
    MaxFaults   \* bound on write errors and kills during a write

ASSUME FdiskAssumption ==
    /\ Capacity >= 2
    /\ Nums \subseteq Nat
    /\ FirstArgs \subseteq Nat
    /\ EndArgs \subseteq [plus : BOOLEAN, v : Nat]
    /\ TypeArgs \subseteq Types
    /\ IntMod \in Nat \ {0}
    /\ Modes \subseteq {"script", "tty"}
    /\ MaxFaults \in Nat

VARIABLES
    disk,    \* the sectors, [0 .. Capacity - 1 -> sector]
    tbl,     \* tbl, the table in memory
    dirty,   \* g_dirty
    pc,      \* "off" no fdisk runs, "idle" between verbs, "writing" inside w
    wpos,    \* the next sector of the plan that w writes, 0 outside w
    mode,    \* "script" (run_argv) or "tty" (interactive)
    faults   \* write errors and kills during a write so far

vars == <<disk, tbl, dirty, pc, wpos, mode, faults>>
session == <<tbl, dirty, mode>>

-----------------------------------------------------------------------------
(* load_table: a GPT magic in sector 1 wins over the MBR signature.        *)

\* What the entry loop finds at slot j of sector s.  A sector never written
\* reads as zeros.  On a disk so small that the backup header lands among
\* the entries, its fields are read as an entry: bak_lba and first_usable
\* stand where first and last LBA are expected.
SlotOf(s, j) ==
    CASE s.kind = "ents" -> s.slice[j]
      [] s.kind = "hdr" /\ j = 1 ->
            [first |-> 1, len |-> GptFirst, boot |-> FALSE, type |-> "linux"]
      [] OTHER -> ZeroEntry

DiskEnts(d) ==
    [i \in 1 .. GptMax |->
        SlotOf(d[2 + ((i - 1) \div PerSector)], ((i - 1) % PerSector) + 1)]

load_table(d) ==
    IF d[1].kind = "hdr" THEN ptab_load_gpt(DiskEnts(d))
    ELSE IF d[0].kind = "mbr" THEN ptab_load_mbr(d[0].slots)
    ELSE {ptab_init("none")}

-----------------------------------------------------------------------------
(* write_table: the sectors, in the order they are written                 *)

\* Mutant of PlanLen: the backup header is never reached.
PlanLenShort(t) == IF t.label = "mbr" THEN 1 ELSE 2 + 2 * EntrySectors

PlanLen(t) == IF t.label = "mbr" THEN 1 ELSE 3 + 2 * EntrySectors

\* Mutant of PlanLba: the primary copy is written one sector too far.
PlanLbaLate(t, k) ==
    IF k <= 2 + EntrySectors THEN k
    ELSE Capacity - 1 - EntrySectors + (k - 3 - EntrySectors)

PlanLba(t, k) ==
    IF k <= 2 + EntrySectors THEN k - 1
    ELSE Capacity - 1 - EntrySectors + (k - 3 - EntrySectors)

\* Mutant of PlanSector: every entry sector is the first one.
PlanSectorSame(t, k) ==
    IF t.label = "mbr" THEN MbrSector(ptab_build_mbr(t))
    ELSE CASE k = 1 -> MbrSector(ProtectiveSlots)
           [] k = 2 \/ k = PlanLen(t) -> HdrSector(gpt_entries(t), 2)
           [] OTHER -> EntSector(gpt_entries(t), 1)

\* Both headers, the backup one too, say that their entries start at sector 2.
PlanSector(t, k) ==
    IF t.label = "mbr" THEN MbrSector(ptab_build_mbr(t))
    ELSE CASE k = 1 -> MbrSector(ProtectiveSlots)
           [] k = 2 \/ k = PlanLen(t) -> HdrSector(gpt_entries(t), 2)
           [] k > 2 /\ k <= 2 + EntrySectors -> EntSector(gpt_entries(t), k - 2)
           [] OTHER -> EntSector(gpt_entries(t), k - 2 - EntrySectors)

WriteAllowed(t) ==
    t.label = "mbr" \/ (t.label = "gpt" /\ Capacity >= GptFirst)

-----------------------------------------------------------------------------
(* The conversion (int)n of a parsed number                                *)

CInt(n) == LET m == n % IntMod IN IF 2 * m >= IntMod THEN m - IntMod ELSE m

(* do_new: the start and end sectors it accepts                            *)

Starts(t) ==
    ptab_first_free(t)
    \cup {f \in FirstArgs : f + Align <= Capacity => f % Align = 0}

\* parse_last; a size of 0 or an end not after the start is refused.
LengthOf(first, e) == IF e.plus THEN e.v ELSE e.v - first + 1

EndAccepted(first, e) ==
    /\ IF e.plus THEN e.v # 0 ELSE e.v > first
    /\ first + LengthOf(first, e) - 1 < Capacity

\* Mutant of NewAccepted: the new partition is not compared with the others.
NewAcceptedBlind(t, first, e) ==
    /\ t.label # "none"
    /\ EndAccepted(first, e)
    /\ AddAllowed(t, first, LengthOf(first, e))

NewAccepted(t, first, e) ==
    LET new == [first |-> first, len |-> LengthOf(first, e)]
    IN  /\ t.label # "none"
        /\ EndAccepted(first, e)
        /\ \A i \in DOMAIN t.parts : ~ Overlap(t.parts[i], new)
        /\ AddAllowed(t, first, new.len)

-----------------------------------------------------------------------------
Blank == [lba \in 0 .. Capacity - 1 |-> DataSector]

Init ==
    /\ disk \in InitDisks
    /\ tbl = ptab_init("none")
    /\ dirty = FALSE
    /\ pc = "off"
    /\ wpos = 0
    /\ mode = "tty"
    /\ faults = 0

\* main: open_device, load_table, then run_argv or interactive.
Start(m) ==
    /\ pc = "off"
    /\ tbl' \in load_table(disk)
    /\ mode' = m
    /\ pc' = "idle"
    /\ UNCHANGED <<disk, dirty, wpos, faults>>

\* The process is gone and with it everything it held in memory.
Gone ==
    /\ pc' = "off"
    /\ wpos' = 0
    /\ tbl' = ptab_init("none")
    /\ dirty' = FALSE
    /\ mode' = "tty"
    /\ UNCHANGED disk

\* `q`, the end of the input or of the script, or a kill between verbs.
Quit == pc = "idle" /\ Gone /\ UNCHANGED faults

\* A verb that answers -1: a script stops there, interactive asks again.
VerbFails ==
    /\ pc = "idle"
    /\ mode = "script"
    /\ Gone
    /\ UNCHANGED faults

Edit(verb, t) ==
    /\ pc = "idle"
    /\ verb \in Verbs
    /\ tbl' = t
    /\ dirty' = TRUE
    /\ UNCHANGED <<disk, pc, wpos, mode, faults>>

VerbLabel(verb, label) == Edit(verb, ptab_init(label))

VerbNew(first, e) ==
    /\ NewAccepted(tbl, first, e)
    /\ Edit("n", ptab_add(tbl, first, LengthOf(first, e)))

VerbDelete(n) ==
    /\ n # 0
    /\ CInt(n) \in 1 .. Len(tbl.parts)
    /\ Edit("d", ptab_del(tbl, CInt(n)))

\* Only the upper bound of the number is checked; the setter's own -1 for a
\* number below 1 is ignored and the verb still answers 0.
VerbType(n, type) ==
    /\ n # 0
    /\ CInt(n) <= Len(tbl.parts)
    /\ \/ tbl.label = "mbr"
       \/ tbl.label = "gpt" /\ type \in GptTypes
    /\ Edit("t", IF CInt(n) >= 1 THEN ptab_set_type(tbl, CInt(n), type) ELSE tbl)

\* parts[n - 1] is indexed with the 64-bit n.  When n is past the table the
\* access is out of bounds: on a 32-bit build it may reach the partition
\* (int)n names, or memory outside the table, or kill the process.
VerbBoot(n) ==
    /\ n # 0
    /\ CInt(n) <= Len(tbl.parts)
    /\ \/ CInt(n) >= 1 /\ Edit("b", ptab_toggle_boot(tbl, CInt(n)))
       \/ n > Len(tbl.parts) /\ Edit("b", tbl)
       \/ /\ n > Len(tbl.parts)
          /\ pc = "idle"
          /\ "b" \in Verbs
          /\ Gone
          /\ UNCHANGED faults

-----------------------------------------------------------------------------
(* `w`                                                                     *)

VerbWrite ==
    /\ pc = "idle"
    /\ WriteAllowed(tbl)
    /\ pc' = "writing"
    /\ wpos' = 1
    /\ UNCHANGED <<disk, session, faults>>

WriteSector ==
    /\ pc = "writing"
    /\ disk' = [disk EXCEPT ![PlanLba(tbl, wpos)] = PlanSector(tbl, wpos)]
    /\ IF wpos = PlanLen(tbl)
       THEN pc' = "idle" /\ wpos' = 0 /\ dirty' = FALSE
       ELSE wpos' = wpos + 1 /\ UNCHANGED <<pc, dirty>>
    /\ UNCHANGED <<tbl, mode, faults>>

\* wr512 returns -1: write_table gives up where it is.
WriteError ==
    /\ pc = "writing"
    /\ faults < MaxFaults
    /\ faults' = faults + 1
    /\ \/ mode = "script" /\ Gone
       \/ /\ mode = "tty"
          /\ pc' = "idle"
          /\ wpos' = 0
          /\ UNCHANGED <<disk, session>>

Crash ==
    /\ pc = "writing"
    /\ faults < MaxFaults
    /\ faults' = faults + 1
    /\ Gone

Next ==
    \/ \E m \in Modes : Start(m)
    \/ Quit
    \/ VerbFails
    \/ VerbLabel("o", "mbr")
    \/ VerbLabel("g", "gpt")
    \/ \E first \in Starts(tbl), e \in EndArgs : VerbNew(first, e)
    \/ \E n \in Nums : VerbDelete(n) \/ VerbBoot(n)
    \/ \E n \in Nums, type \in TypeArgs : VerbType(n, type)
    \/ VerbWrite
    \/ WriteSector
    \/ WriteError
    \/ Crash

Spec == Init /\ [][Next]_vars
=============================================================================
