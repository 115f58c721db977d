------------------------------ MODULE MCFdisk -------------------------------
(* Small disks for TLC. *)
EXTENDS FdiskProps

P(first, len, type) == [first |-> first, len |-> len, boot |-> FALSE, type |-> type]

\* A dos disk with an extended container in slot 1 and a partition in slot 2.
ForeignMbr ==
    [Blank EXCEPT ![0] = MbrSector([i \in 1 .. MbrMax |->
        IF i = 1 THEN P(8, 4, "ext") ELSE IF i = 2 THEN P(4, 2, "linux") ELSE ZeroEntry])]

\* A GPT disk, both copies good, whose first entry is free.
GptDisk(ents) ==
    [lba \in 0 .. Capacity - 1 |->
        CASE lba = 0 -> MbrSector(ProtectiveSlots)
          [] lba = 1 -> HdrSector(ents, 2)
          [] lba = Capacity - 1 -> HdrSector(ents, Capacity - 1 - EntrySectors)
          [] lba \in 2 .. 1 + EntrySectors -> EntSector(ents, lba - 1)
          [] lba \in Capacity - 1 - EntrySectors .. Capacity - 2 ->
                EntSector(ents, lba - (Capacity - 2 - EntrySectors))
          [] OTHER -> DataSector]

ForeignGpt == GptDisk([i \in 1 .. GptMax |-> IF i = 2 THEN P(8, 2, "efi") ELSE ZeroEntry])

MCInitDisks == {Blank, ForeignMbr, ForeignGpt}
MCGptDisks == {Blank, ForeignGpt}
GptOnly == {ForeignGpt}

\* The disks of every run are what the refinement theorem asks for.
ASSUME MCDisksDependable == \A d \in MCInitDisks : DependableDisk(d)

MCEndArgs == {[plus |-> TRUE, v |-> 1], [plus |-> FALSE, v |-> 12]}
=============================================================================
