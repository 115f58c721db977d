-------------------------------- MODULE Ptab --------------------------------
(***************************************************************************)
(* fdisk/ptab.c: the partition table as a value.                           *)
(*                                                                         *)
(* A table in memory (ptab_t) is a record [label, parts]; parts is the     *)
(* dense prefix parts[0..nparts-1] of the C array, so the partition number *)
(* the user types is the index in the sequence.  disk_sectors is the       *)
(* constant Capacity (fdisk/main.c load_table probes it once and both      *)
(* loaders end with disk_sectors = cap).  A type byte or a type GUID is    *)
(* one of four classes: "zero" (type 0, the zero GUID), "ext" (0x05, 0x0F, *)
(* 0x85, 0xEE, the types the MBR loader skips), and two ordinary types.    *)
(* Names, unique GUIDs and the disk GUID are left out.                     *)
(***************************************************************************)
EXTENDS Integers, Sequences, FiniteSets

CONSTANTS
    MbrMax,        \* PTAB_MBR_MAX, 4 in the code
    EntrySectors,  \* PTAB_GPT_ENTRY_SECTORS, 32 in the code
    PerSector,     \* entries in a sector, 512 / PTAB_GPT_ESIZE = 4 in the code
    Align,         \* 2048 in the code: the alignment and the first MBR start
    Capacity       \* sectors on the disk (disk_sectors)

ASSUME PtabAssumption ==
    /\ MbrMax \in Nat \ {0}
    /\ EntrySectors \in Nat \ {0}
    /\ PerSector \in Nat \ {0}
    /\ Capacity \in Nat \ {0}
    /\ Align \in Nat
    /\ Align >= EntrySectors + 2

GptMax == EntrySectors * PerSector          \* PTAB_GPT_MAX = PTAB_GPT_ENTRIES
GptFirst == EntrySectors + 2                \* 34 in the code
LastUsable == Capacity - 2 - EntrySectors   \* ns - 1 - 1 - PTAB_GPT_ENTRY_SECTORS

Labels == {"none", "mbr", "gpt"}
Types == {"zero", "ext", "linux", "efi"}
GptTypes == {"linux", "efi"}                \* what ptab_parse_gpt_type knows

Part == [first : Nat, len : Nat, boot : BOOLEAN, type : Types]
ZeroEntry == [first |-> 0, len |-> 0, boot |-> FALSE, type |-> "zero"]
Last(p) == p.first + p.len - 1
Overlap(p, q) == Last(p) >= q.first /\ p.first <= Last(q)
Covers(p, lba) == p.first <= lba /\ lba <= Last(p)

-----------------------------------------------------------------------------
(* Table life cycle and editing                                            *)

ptab_init(label) == [label |-> label, parts |-> <<>>]

LabelMax(label) == IF label = "mbr" THEN MbrMax ELSE GptMax

AddAllowed(t, first, len) ==
    /\ Len(t.parts) < LabelMax(t.label)
    /\ len # 0
    /\ first # 0
    /\ first + len <= Capacity

ptab_add(t, first, len) ==
    [t EXCEPT !.parts = Append(@,
        [first |-> first, len |-> len, boot |-> FALSE, type |-> "linux"])]

\* Deleting number n moves every later partition one number down.
ptab_del(t, n) ==
    [t EXCEPT !.parts = [i \in 1 .. Len(@) - 1 |-> IF i < n THEN @[i] ELSE @[i + 1]]]

ptab_set_type(t, n, type) == [t EXCEPT !.parts[n].type = type]
ptab_toggle_boot(t, n) == [t EXCEPT !.parts[n].boot = ~@]

RoundUp(x) == IF x % Align = 0 THEN x ELSE x + Align - (x % Align)

\* The first aligned sector after every partition (ptab_first_free(t, 2048)),
\* as the set holding that one number.
ptab_first_free(t) ==
    LET start == IF t.label = "mbr" THEN Align ELSE GptFirst
        ends == {start} \cup {Last(t.parts[i]) + 1 : i \in DOMAIN t.parts}
    IN  {RoundUp(e) : e \in {m \in ends : \A f \in ends : f <= m}}

-----------------------------------------------------------------------------
(* Reading a label: entries that describe nothing are dropped and the rest *)
(* closes up.  Compactions is the set holding the one sequence that lists  *)
(* slots[i], i in Kept, in increasing order of i.                          *)

Increasing(Kept) ==
    {f \in [1 .. Cardinality(Kept) -> Kept] :
        \A i, j \in 1 .. Cardinality(Kept) : i < j => f[i] < f[j]}

Compactions(slots, Kept) ==
    {[j \in 1 .. Cardinality(Kept) |-> slots[f[j]]] : f \in Increasing(Kept)}

MbrKept(slots) ==
    {i \in 1 .. MbrMax : /\ slots[i].type \notin {"zero", "ext"}
                         /\ slots[i].first # 0
                         /\ slots[i].len # 0}

GptKept(ents) ==
    {i \in 1 .. GptMax : /\ ents[i].type # "zero"
                         /\ ents[i].first # 0
                         /\ ents[i].len # 0}

ptab_load_mbr(slots) ==
    {[label |-> "mbr", parts |-> s] : s \in Compactions(slots, MbrKept(slots))}

ptab_load_gpt(ents) ==
    {[label |-> "gpt", parts |-> s] : s \in Compactions(ents, GptKept(ents))}

-----------------------------------------------------------------------------
(* Serialising: the sectors a table becomes                                *)

ptab_build_mbr(t) ==
    [i \in 1 .. MbrMax |-> IF i <= Len(t.parts) THEN t.parts[i] ELSE ZeroEntry]

\* Mutant of gpt_entries: the last LBA is stored one too far.
gpt_entries_long(t) ==
    [i \in 1 .. GptMax |->
        IF i <= Len(t.parts) THEN [t.parts[i] EXCEPT !.boot = FALSE, !.len = @ + 1]
        ELSE ZeroEntry]

\* gpt_make_entry stores the type GUID and the two LBAs; the MBR boot flag
\* has no place in a GPT entry.
gpt_entries(t) ==
    [i \in 1 .. GptMax |->
        IF i <= Len(t.parts) THEN [t.parts[i] EXCEPT !.boot = FALSE] ELSE ZeroEntry]

ProtectiveSlots ==
    [i \in 1 .. MbrMax |->
        IF i = 1 THEN [first |-> 1, len |-> Capacity - 1, boot |-> FALSE, type |-> "ext"]
                 ELSE ZeroEntry]

DataSector == [kind |-> "data"]
MbrSector(slots) == [kind |-> "mbr", slots |-> slots]
\* The CRC of the entry array in a header is the array itself: a reader that
\* checks it accepts exactly the entries the header was made for.
HdrSector(ents, entLba) == [kind |-> "hdr", crc |-> ents, entLba |-> entLba]
EntSector(ents, k) ==
    [kind |-> "ents", slice |-> [j \in 1 .. PerSector |-> ents[(k - 1) * PerSector + j]]]
=============================================================================
