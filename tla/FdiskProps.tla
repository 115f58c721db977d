----------------------------- MODULE FdiskProps -----------------------------
(***************************************************************************)
(* What the partition editor owes its user: properties of Fdisk.           *)
(***************************************************************************)
EXTENDS Fdisk

InBounds(p) == p.first >= 1 /\ p.len >= 1 /\ Last(p) < Capacity
Separate(slots, Kept) ==
    \A i, j \in Kept : i # j => ~ Overlap(slots[i], slots[j])
Live(p) == p.type # "zero" /\ p.first # 0 /\ p.len # 0

\* A GPT entry has no place for the MBR boot flag.
GptEntry == [first : Nat, len : Nat, boot : {FALSE}, type : Types]

Sector ==
    {DataSector}
    \cup [kind : {"mbr"}, slots : [1 .. MbrMax -> Part]]
    \cup [kind : {"hdr"}, crc : [1 .. GptMax -> GptEntry], entLba : Nat]
    \cup [kind : {"ents"}, slice : [1 .. PerSector -> GptEntry]]

\* A label that someone wrote properly: its sectors are where they belong and
\* its partitions lie on the disk and apart.
WellFormedDisk(d) ==
    /\ d \in [0 .. Capacity - 1 -> Sector]
    /\ \A lba \in 0 .. Capacity - 1 :
          /\ d[lba].kind = "mbr" =>
                /\ \A i \in MbrKept(d[lba].slots) : InBounds(d[lba].slots[i])
                /\ Separate(d[lba].slots, MbrKept(d[lba].slots))
          /\ d[lba].kind = "ents" =>
                \A j \in 1 .. PerSector :
                    Live(d[lba].slice[j]) => InBounds(d[lba].slice[j])
          /\ lba \in 2 .. 1 + EntrySectors => d[lba].kind # "hdr"
    /\ d[1].kind = "hdr" =>
          /\ Capacity >= GptFirst
          /\ Separate(DiskEnts(d), GptKept(DiskEnts(d)))

ASSUME InitDisksAssumption == \A d \in InitDisks : WellFormedDisk(d)

\* Every variable keeps its type.
TypeOK ==
    /\ disk \in [0 .. Capacity - 1 -> Sector]
    /\ tbl \in [label : Labels, parts : Seq(Part)]
    /\ Len(tbl.parts) <= LabelMax(tbl.label)
    /\ dirty \in BOOLEAN
    /\ pc \in {"off", "idle", "writing"}
    /\ wpos \in Nat
    /\ mode \in {"script", "tty"}
    /\ faults \in Nat

Disjoint(parts) == Separate(parts, DOMAIN parts)

\* No sequence of loads, edits and complete writes ever leaves two partitions
\* of the table in memory sharing a sector.  (A GPT write that was cut leaves
\* old and new entry sectors side by side, and load_table reads them as one
\* table: hence the condition.)
NoOverlap == faults = 0 => Disjoint(tbl.parts)

\* Every partition in memory lies on the disk and spares sector 0, after any
\* number of cut writes too.
PartsInBounds ==
    \A i \in DOMAIN tbl.parts : InBounds(tbl.parts[i])

-----------------------------------------------------------------------------
(* Memory against disk                                                     *)

\* The table as the loader gives it back, dropped entries and all.
Reloaded(t) ==
    CASE t.label = "mbr" -> ptab_load_mbr(ptab_build_mbr(t))
      [] t.label = "gpt" -> ptab_load_gpt(gpt_entries(t))
      [] OTHER -> {t}

\* "Table written." means that the next session reads this table: with no
\* unsaved edits, loading the disk gives what memory holds.
WrittenIsReloaded ==
    pc = "idle" /\ ~ dirty => load_table(disk) = Reloaded(tbl)

\* The same as long as no write was cut and no dos label was written over a
\* disk whose sector 1 still carries a GPT header.
WrittenIsReloadedUnlessStale ==
    (faults = 0 /\ ~ (tbl.label = "mbr" /\ disk[1].kind = "hdr")) => WrittenIsReloaded

\* With it goes: a session starts with nothing unsaved.
SavedInv ==
    /\ pc = "off" => ~ dirty
    /\ WrittenIsReloadedUnlessStale

-----------------------------------------------------------------------------
(* What a write may touch                                                  *)

InUsableRange(p) ==
    tbl.label = "gpt" => p.first >= GptFirst /\ Last(p) <= LastUsable

\* w never writes into a partition of the table it writes, provided that a
\* GPT partition keeps to the range the header calls usable (do_new does not
\* see to that: it takes any end below the capacity).
UsableDataSafe ==
    [][\A i \in DOMAIN tbl.parts, lba \in DOMAIN disk :
            disk'[lba] # disk[lba] /\ InUsableRange(tbl.parts[i])
                => ~ Covers(tbl.parts[i], lba)]_vars

-----------------------------------------------------------------------------
(* The invariant that carries NoOverlap, PartsInBounds and UsableDataSafe   *)
(* through a step: what the sectors hold while no write has been cut.       *)

WritingGpt == pc = "writing" /\ tbl.label = "gpt"

EntriesInBounds ==
    \A lba \in 0 .. Capacity - 1 :
        /\ disk[lba].kind = "mbr" =>
                \A i \in MbrKept(disk[lba].slots) : InBounds(disk[lba].slots[i])
        /\ disk[lba].kind = "ents" =>
                \A j \in 1 .. PerSector :
                    Live(disk[lba].slice[j]) => InBounds(disk[lba].slice[j])
        /\ lba \in 2 .. 1 + EntrySectors => disk[lba].kind # "hdr"

WriteInProgress ==
    pc = "writing" => WriteAllowed(tbl) /\ wpos \in 1 .. PlanLen(tbl)

\* The sectors a GPT write has passed hold what the plan says.
PrefixWritten ==
    WritingGpt =>
        \A k \in 2 .. 2 + EntrySectors :
            k < wpos => disk[k - 1] = PlanSector(tbl, k)

DiskSeparate ==
    /\ disk[0].kind = "mbr" => Separate(disk[0].slots, MbrKept(disk[0].slots))
    /\ (~ WritingGpt /\ disk[1].kind = "hdr") =>
            Separate(DiskEnts(disk), GptKept(DiskEnts(disk)))

\* Everything read, edited and written so far stays well formed.
FdiskInv ==
    /\ TypeOK
    /\ PartsInBounds
    /\ EntriesInBounds
    /\ WriteInProgress
    /\ PrefixWritten
    /\ disk[1].kind = "hdr" => Capacity >= GptFirst
    /\ faults = 0 => Disjoint(tbl.parts) /\ DiskSeparate

-----------------------------------------------------------------------------
(* What a reader that checks the CRCs sees (the kernel, another fdisk): the *)
(* primary copy if it is whole, else the backup copy, else nothing.        *)

EntsAt(d, lba) ==
    [i \in 1 .. GptMax |->
        SlotOf(d[lba + ((i - 1) \div PerSector)], ((i - 1) % PerSector) + 1)]

CopyAt(d, lba) ==
    {ents \in {EntsAt(d, h.entLba) : h \in {s \in {d[lba]} : s.kind = "hdr"}} :
        d[lba].crc = ents}

Primary(d) == CopyAt(d, 1)
Backup(d) == CopyAt(d, Capacity - 1)
CheckedTable(d) == IF Primary(d) # {} THEN Primary(d) ELSE Backup(d)

\* The GPT write seen as an update of one cell that is old or new, never torn,
\* while the disk has a backup header that leads to backup entries or has none
\* (the one fdisk writes leads to the primary entries) and no write was cut.
Target == IF WritingGpt THEN {gpt_entries(tbl)} ELSE {}
Hurt ==
    \/ faults > 0
    \/ disk[Capacity - 1].kind = "hdr"
       /\ disk[Capacity - 1].entLba # Capacity - 1 - EntrySectors
Cell == INSTANCE AtomicCell
            WITH cell <- CheckedTable(disk), target <- Target, hurt <- Hurt
AtomicWrite == Cell!Spec

\* A label as other tools write it: each header leads to the entries beside
\* it, and a whole primary copy has a backup that says the same.
CopiesAgree(d) == Primary(d) # {} => Backup(d) = Primary(d)
DependableDisk(d) ==
    /\ d[1].kind = "hdr" => d[1].entLba = 2
    /\ d[Capacity - 1].kind = "hdr" =>
            d[Capacity - 1].entLba = Capacity - 1 - EntrySectors
    /\ CopiesAgree(d)

\* The invariant that carries AtomicWrite: where the headers lead, and, until
\* the new primary header is out, that a disk that is not hurt is dependable.
DependableInv ==
    /\ disk[1].kind = "hdr" => disk[1].entLba = 2
    /\ disk[Capacity - 1].kind = "hdr" =>
            disk[Capacity - 1].entLba \in {2, Capacity - 1 - EntrySectors}
    /\ ~ Hurt /\ ~ (WritingGpt /\ wpos > 2) => CopiesAgree(disk)
=============================================================================
