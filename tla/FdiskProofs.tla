---------------------------- MODULE FdiskProofs -----------------------------
(***************************************************************************)
(* Proofs about Fdisk for every disk size, table size and set of inputs.   *)
(* Roomy says that the two copies of a GPT do not run into each other; on  *)
(* a smaller disk the code really does overwrite one with the other.       *)
(***************************************************************************)
EXTENDS FdiskProps, FiniteSetTheorems, WellFoundedInduction, TLAPS

Roomy == Capacity >= 2 * EntrySectors + 3

-----------------------------------------------------------------------------
(* Loading                                                                 *)

\* A set of slot numbers has at most as many members as there are slots.
LEMMA KeptCount ==
    ASSUME NEW n \in Nat, NEW K \in SUBSET (1 .. n)
    PROVE  Cardinality(K) \in Nat /\ Cardinality(K) <= n
<1>1. IsFiniteSet(1 .. n) /\ Cardinality(1 .. n) = n
    BY FS_Interval
<1>2. IsFiniteSet(K) /\ Cardinality(K) <= n
    BY <1>1, FS_Subset
<1> QED
    BY <1>2, FS_CardinalityType

\* Closing up keeps entries as they are, invents none and uses none twice.
LEMMA Compacted ==
    ASSUME NEW n \in Nat, NEW K \in SUBSET (1 .. n),
           NEW slots \in [1 .. n -> Part],
           NEW s \in Compactions(slots, K)
    PROVE  /\ s \in Seq(Part)
           /\ Len(s) <= n
           /\ \A i \in DOMAIN s : \E k \in K : s[i] = slots[k]
           /\ Separate(slots, K) => Disjoint(s)
<1> DEFINE m == Cardinality(K)
<1>0. \A k \in K : k \in Nat
    OBVIOUS
<1>1. m \in Nat /\ m <= n
    BY KeptCount
<1>2. PICK f \in Increasing(K) : s = [j \in 1 .. m |-> slots[f[j]]]
    BY DEF Compactions
<1>3. f \in [1 .. m -> K] /\ \A i, j \in 1 .. m : i < j => f[i] < f[j]
    BY <1>2 DEF Increasing
<1> HIDE DEF m
<1>4. \A j \in 1 .. m : f[j] \in K /\ slots[f[j]] \in Part
    BY <1>3
<1>5. s \in Seq(Part) /\ Len(s) = m /\ DOMAIN s = 1 .. m
    BY <1>1, <1>2, <1>4
<1>6. ASSUME Separate(slots, K), NEW i \in 1 .. m, NEW j \in 1 .. m, i # j
      PROVE  ~ Overlap(s[i], s[j])
    <2>1. f[i] \in K /\ f[j] \in K /\ f[i] # f[j]
        <3>1. f[i] \in Nat /\ f[j] \in Nat
            BY <1>0, <1>4
        <3>2. i < j \/ j < i
            BY <1>6, <1>1
        <3> QED
            BY <1>3, <1>4, <3>1, <3>2
    <2> QED
        BY <2>1, <1>2, <1>6 DEF Separate
<1> QED
    BY <1>1, <1>2, <1>4, <1>5, <1>6 DEF Disjoint, Separate

\* Where an entry lives: sector and position recompose to its number.
LEMMA EntryPosition ==
    ASSUME NEW i \in 1 .. GptMax
    PROVE  /\ (i - 1) \div PerSector \in 0 .. EntrySectors - 1
           /\ (i - 1) % PerSector \in 0 .. PerSector - 1
           /\ ((i - 1) \div PerSector) * PerSector + ((i - 1) % PerSector) = i - 1
<1> USE PtabAssumption
<1> DEFINE q == (i - 1) \div PerSector
           r == (i - 1) % PerSector
<1>1. i \in Nat /\ i >= 1 /\ i <= EntrySectors * PerSector
    BY DEF GptMax
<1>2. q * PerSector + r = i - 1 /\ r \in 0 .. PerSector - 1 /\ q \in Nat
    BY <1>1, SMT
<1>3. ASSUME q >= EntrySectors PROVE FALSE
    <2>1. q * PerSector >= EntrySectors * PerSector
        BY <1>2, <1>3
    <2> QED
        BY <1>1, <1>2, <2>1
<1> HIDE DEF q, r
<1>4. q < EntrySectors
    BY <1>2, <1>3
<1> QED
    BY <1>2, <1>4 DEF q, r

\* What a sector of a given kind holds.
LEMMA SectorFields ==
    ASSUME NEW s \in Sector
    PROVE  /\ s.kind = "mbr" => s.slots \in [1 .. MbrMax -> Part]
           /\ s.kind = "ents" => s.slice \in [1 .. PerSector -> GptEntry]
           /\ s.kind = "hdr" => s.crc \in [1 .. GptMax -> GptEntry] /\ s.entLba \in Nat
    BY DEF Sector, DataSector

LEMMA EntryIsPart == \A e \in GptEntry : e \in Part /\ ~ e.boot
    BY DEF GptEntry, Part

LEMMA GptMaxNat == GptMax \in Nat
    BY PtabAssumption DEF GptMax

LEMMA ZeroEntryPart == ZeroEntry \in Part /\ ZeroEntry \in GptEntry /\ ~ Live(ZeroEntry)
    BY DEF ZeroEntry, Part, GptEntry, Types, Live

\* The entries read from a disk with a GPT header are entries, and those that
\* are in use lie on the disk.
LEMMA EntsRead ==
    ASSUME TypeOK, EntriesInBounds, Capacity >= GptFirst
    PROVE  /\ DiskEnts(disk) \in [1 .. GptMax -> GptEntry]
           /\ \A i \in GptKept(DiskEnts(disk)) : InBounds(DiskEnts(disk)[i])
<1> USE PtabAssumption
<1>1. ASSUME NEW i \in 1 .. GptMax
      PROVE  /\ DiskEnts(disk)[i] \in GptEntry
             /\ Live(DiskEnts(disk)[i]) => InBounds(DiskEnts(disk)[i])
    <2> DEFINE lba == 2 + ((i - 1) \div PerSector)
               j == ((i - 1) % PerSector) + 1
    <2>1. lba \in 2 .. 1 + EntrySectors /\ j \in 1 .. PerSector
        BY EntryPosition
    <2>2. DiskEnts(disk)[i] = SlotOf(disk[lba], j)
        BY DEF DiskEnts
    <2> HIDE DEF lba, j
    <2>3. lba \in 0 .. Capacity - 1
        BY <2>1 DEF GptFirst
    <2>4. disk[lba] \in Sector /\ disk[lba].kind # "hdr"
        BY <2>1, <2>3 DEF TypeOK, EntriesInBounds
    <2>5. CASE disk[lba].kind = "ents"
        <3>1. SlotOf(disk[lba], j) = disk[lba].slice[j]
            BY <2>5 DEF SlotOf
        <3> QED
            BY <3>1, <2>1, <2>2, <2>3, <2>4, <2>5, SectorFields DEF EntriesInBounds
    <2>6. CASE disk[lba].kind # "ents"
        <3>1. SlotOf(disk[lba], j) = ZeroEntry
            BY <2>4, <2>6 DEF SlotOf
        <3> QED
            BY <3>1, <2>2, ZeroEntryPart
    <2> QED
        BY <2>5, <2>6
<1>2. DiskEnts(disk) \in [1 .. GptMax -> GptEntry]
    BY <1>1 DEF DiskEnts
<1> QED
    BY <1>1, <1>2 DEF GptKept, Live

\* A loaded table is a table, in bounds; when no write has been cut, and none
\* is under way, its partitions are apart.
LEMMA Loaded ==
    ASSUME FdiskInv, NEW t \in load_table(disk)
    PROVE  /\ t \in [label : Labels, parts : Seq(Part)]
           /\ Len(t.parts) <= LabelMax(t.label)
           /\ \A i \in DOMAIN t.parts : InBounds(t.parts[i])
           /\ faults = 0 /\ ~ WritingGpt => Disjoint(t.parts)
<1> USE PtabAssumption, FdiskAssumption
<1>1. CASE disk[1].kind = "hdr"
    <2> DEFINE ents == DiskEnts(disk)
    <2>1. PICK s \in Compactions(ents, GptKept(ents)) :
                t = [label |-> "gpt", parts |-> s]
        BY <1>1 DEF load_table, ptab_load_gpt
    <2>2. /\ ents \in [1 .. GptMax -> Part]
          /\ \A i \in GptKept(ents) : InBounds(ents[i])
        BY <1>1, EntsRead, EntryIsPart DEF FdiskInv
    <2>3. GptMax \in Nat /\ GptKept(ents) \in SUBSET (1 .. GptMax)
        BY DEF GptMax, GptKept
    <2> HIDE DEF ents
    <2>4. /\ s \in Seq(Part)
          /\ Len(s) <= GptMax
          /\ \A i \in DOMAIN s : \E k \in GptKept(ents) : s[i] = ents[k]
          /\ Separate(ents, GptKept(ents)) => Disjoint(s)
        BY <2>1, <2>2, <2>3, Compacted
    <2>5. faults = 0 /\ ~ WritingGpt => Separate(ents, GptKept(ents))
        BY <1>1 DEF FdiskInv, DiskSeparate, ents
    <2> QED
        BY <2>1, <2>2, <2>4, <2>5 DEF Labels, LabelMax
<1>2. CASE disk[1].kind # "hdr" /\ disk[0].kind = "mbr"
    <2> DEFINE slots == disk[0].slots
    <2>1. PICK s \in Compactions(slots, MbrKept(slots)) :
                t = [label |-> "mbr", parts |-> s]
        BY <1>2 DEF load_table, ptab_load_mbr
    <2>2. /\ slots \in [1 .. MbrMax -> Part]
          /\ \A i \in MbrKept(slots) : InBounds(slots[i])
        BY <1>2, SectorFields DEF FdiskInv, TypeOK, EntriesInBounds
    <2>3. MbrKept(slots) \in SUBSET (1 .. MbrMax)
        BY DEF MbrKept
    <2>5. faults = 0 => Separate(slots, MbrKept(slots))
        BY <1>2 DEF FdiskInv, DiskSeparate
    <2> HIDE DEF slots
    <2>4. /\ s \in Seq(Part)
          /\ Len(s) <= MbrMax
          /\ \A i \in DOMAIN s : \E k \in MbrKept(slots) : s[i] = slots[k]
          /\ Separate(slots, MbrKept(slots)) => Disjoint(s)
        BY <2>1, <2>2, <2>3, Compacted
    <2> QED
        BY <2>1, <2>2, <2>4, <2>5 DEF Labels, LabelMax
<1>3. CASE disk[1].kind # "hdr" /\ disk[0].kind # "mbr"
    <2>1. t = [label |-> "none", parts |-> <<>>]
        BY <1>3 DEF load_table, ptab_init
    <2>2. GptMax \in Nat
        BY DEF GptMax
    <2> QED
        BY <2>1, <2>2 DEF Labels, LabelMax, Disjoint, Separate
<1> QED
    BY <1>1, <1>2, <1>3

-----------------------------------------------------------------------------
(* What was written is what is read                                        *)

LEMMA LeastMember ==
    ASSUME NEW S \in SUBSET Nat, S # {}
    PROVE  \E x \in S : \A y \in S : x <= y
<1>1. PICK x \in S : \A y \in S : ~ (<<y, x>> \in OpToRel(<, Nat))
    BY NatLessThanWellFounded, WFMin
<1>2. \A y \in S : ~ (y < x)
    BY <1>1 DEF OpToRel
<1> QED
    BY <1>2

\* There is one way to list a finite set of slot numbers in order.
LEMMA OneOrder ==
    ASSUME NEW n \in Nat, NEW K \in SUBSET (1 .. n),
           NEW f \in Increasing(K), NEW g \in Increasing(K)
    PROVE  f = g
<1> DEFINE m == Cardinality(K)
<1>1. m \in Nat /\ IsFiniteSet(K)
    <2>1. IsFiniteSet(1 .. n)
        BY FS_Interval
    <2> QED
        BY <2>1, KeptCount, FS_Subset
<1>2. IsFiniteSet(1 .. m) /\ Cardinality(1 .. m) = m
    BY <1>1, FS_Interval
<1>3. /\ f \in [1 .. m -> K] /\ \A i, j \in 1 .. m : i < j => f[i] < f[j]
      /\ g \in [1 .. m -> K] /\ \A i, j \in 1 .. m : i < j => g[i] < g[j]
    BY DEF Increasing
<1>4. \A k \in K : k \in Nat
    OBVIOUS
<1>5. ASSUME NEW h \in [1 .. m -> K], \A i, j \in 1 .. m : i < j => h[i] < h[j]
      PROVE  \A k \in K : \E i \in 1 .. m : h[i] = k
    <2>1. h \in Injection(1 .. m, K)
        <3>1. \A i, j \in 1 .. m : h[i] = h[j] => i = j
            <4> SUFFICES ASSUME NEW i \in 1 .. m, NEW j \in 1 .. m, h[i] = h[j], i # j
                         PROVE  FALSE
                OBVIOUS
            <4>1. h[i] \in Nat /\ h[j] \in Nat
                BY <1>4, <1>5
            <4>2. i < j \/ j < i
                BY <1>1
            <4> QED
                BY <1>5, <4>1, <4>2
        <3> QED
            BY <1>5, <3>1 DEF Injection, IsInjective
    <2>2. h \in Surjection(1 .. m, K)
        BY <1>1, <1>2, <2>1, FS_Injection
    <2> QED
        BY <2>2 DEF Surjection
<1>6. /\ \A k \in K : \E i \in 1 .. m : f[i] = k
      /\ \A k \in K : \E i \in 1 .. m : g[i] = k
    BY <1>3, <1>5
<1> HIDE DEF m
<1> DEFINE Bad == {i \in 1 .. m : f[i] # g[i]}
<1>7. ASSUME Bad # {} PROVE FALSE
    <2>1. PICK i \in Bad : \A y \in Bad : i <= y
        <3>1. Bad \in SUBSET Nat
            OBVIOUS
        <3> HIDE DEF Bad
        <3> QED
            BY <1>7, <3>1, LeastMember
    <2>2. i \in 1 .. m /\ f[i] # g[i] /\ \A j \in 1 .. m : j < i => f[j] = g[j]
        BY <1>1, <2>1
    <2>3. \A j \in 1 .. m : f[j] \in Nat /\ g[j] \in Nat
        BY <1>3, <1>4
    <2>4. PICK j \in 1 .. m : g[j] = f[i]
        BY <1>3, <1>6, <2>2
    <2>5. PICK k \in 1 .. m : f[k] = g[i]
        BY <1>3, <1>6, <2>2
    <2>6. i < j
        <3>1. j # i
            BY <2>2, <2>4
        <3>2. ASSUME j < i PROVE FALSE
            <4>1. f[j] = f[i] /\ f[j] < f[i]
                BY <1>3, <2>2, <2>4, <3>2
            <4> QED
                BY <2>2, <2>3, <4>1
        <3> QED
            BY <1>1, <2>2, <3>1, <3>2
    <2>7. i < k
        <3>1. k # i
            BY <2>2, <2>5
        <3>2. ASSUME k < i PROVE FALSE
            <4>1. g[k] = g[i] /\ g[k] < g[i]
                BY <1>3, <2>2, <2>5, <3>2
            <4> QED
                BY <2>2, <2>3, <4>1
        <3> QED
            BY <1>1, <2>2, <3>1, <3>2
    <2>8. g[i] < f[i] /\ f[i] < g[i]
        BY <1>3, <2>2, <2>4, <2>5, <2>6, <2>7
    <2> QED
        BY <2>2, <2>3, <2>8
<1>8. \A i \in 1 .. m : f[i] = g[i]
    BY <1>7
<1>9. DOMAIN f = 1 .. m /\ DOMAIN g = 1 .. m
    BY <1>3
<1>10. f = [i \in 1 .. m |-> f[i]] /\ g = [i \in 1 .. m |-> g[i]]
    BY <1>3, <1>9
<1> QED
    BY <1>8, <1>10

\* So a loader has one outcome.
LEMMA OneCompaction ==
    ASSUME NEW n \in Nat, NEW K \in SUBSET (1 .. n), NEW slots,
           NEW s \in Compactions(slots, K)
    PROVE  Compactions(slots, K) = {s}
<1>1. PICK f \in Increasing(K) : s = [j \in 1 .. Cardinality(K) |-> slots[f[j]]]
    BY DEF Compactions
<1>2. \A g \in Increasing(K) : g = f
    BY OneOrder
<1> QED
    BY <1>1, <1>2 DEF Compactions

\* When the slots in use are the first m, closing up changes nothing.
LEMMA AlreadyCompact ==
    ASSUME NEW m \in Nat, NEW slots
    PROVE  Compactions(slots, 1 .. m) = {[j \in 1 .. m |-> slots[j]]}
<1> DEFINE f == [j \in 1 .. m |-> j]
           s == [j \in 1 .. m |-> slots[j]]
<1>1. Cardinality(1 .. m) = m
    BY FS_Interval
<1>2. f \in Increasing(1 .. m)
    BY <1>1 DEF Increasing
<1>3. s = [j \in 1 .. Cardinality(1 .. m) |-> slots[f[j]]]
    BY <1>1
<1>4. s \in Compactions(slots, 1 .. m)
    BY <1>2, <1>3 DEF Compactions
<1> QED
    BY <1>4, OneCompaction

\* A table whose partitions the loader would keep reads back as it stands.
LEMMA MbrReloads ==
    ASSUME NEW s \in Seq(Part), Len(s) <= MbrMax,
           \A i \in 1 .. Len(s) : /\ s[i].type \notin {"zero", "ext"}
                                  /\ s[i].first # 0
                                  /\ s[i].len # 0
    PROVE  Reloaded([label |-> "mbr", parts |-> s]) = {[label |-> "mbr", parts |-> s]}
<1> DEFINE t == [label |-> "mbr", parts |-> s]
           slots == ptab_build_mbr(t)
           m == Len(s)
<1>1. m \in Nat /\ MbrMax \in Nat /\ DOMAIN s = 1 .. m
    BY PtabAssumption
<1>2. slots = [i \in 1 .. MbrMax |-> IF i <= m THEN s[i] ELSE ZeroEntry]
    BY DEF ptab_build_mbr
<1> HIDE DEF slots
<1>3. MbrKept(slots) = 1 .. m
    <2>1. \A i \in 1 .. MbrMax : i <= m =>
                i \in 1 .. m /\ slots[i] = s[i]
        BY <1>1, <1>2
    <2>2. \A i \in 1 .. MbrMax : ~ (i <= m) => slots[i].type = "zero"
        BY <1>1, <1>2 DEF ZeroEntry
    <2>3. \A i \in 1 .. m : i \in 1 .. MbrMax /\ i <= m
        BY <1>1
    <2> QED
        BY <2>1, <2>2, <2>3 DEF MbrKept
<1>4. [j \in 1 .. m |-> slots[j]] = s
    <2>1. \A j \in 1 .. m : slots[j] = s[j]
        BY <1>1, <1>2
    <2>2. s = [j \in 1 .. m |-> s[j]]
        BY <1>1
    <2> HIDE DEF m
    <2> QED
        BY <2>1, <2>2
<1>5. Compactions(slots, 1 .. m) = {s}
    BY <1>1, <1>4, AlreadyCompact
<1>6. Reloaded(t) = ptab_load_mbr(slots)
    BY DEF Reloaded, slots
<1> QED
    BY <1>3, <1>5, <1>6 DEF ptab_load_mbr

LEMMA GptReloads ==
    ASSUME NEW s \in Seq(GptEntry), Len(s) <= GptMax,
           \A i \in 1 .. Len(s) : Live(s[i])
    PROVE  Reloaded([label |-> "gpt", parts |-> s]) = {[label |-> "gpt", parts |-> s]}
<1> DEFINE t == [label |-> "gpt", parts |-> s]
           ents == gpt_entries(t)
           m == Len(s)
<1>1. m \in Nat /\ GptMax \in Nat /\ DOMAIN s = 1 .. m
    BY GptMaxNat
<1>2. \A i \in 1 .. m : [s[i] EXCEPT !.boot = FALSE] = s[i]
    <2>1. \A e \in GptEntry : [e EXCEPT !.boot = FALSE] = e
        BY DEF GptEntry
    <2> QED
        BY <1>1, <2>1
<1>3. ents = [i \in 1 .. GptMax |-> IF i <= m THEN [s[i] EXCEPT !.boot = FALSE]
                                    ELSE ZeroEntry]
    BY DEF gpt_entries
<1> HIDE DEF ents
<1>4. \A i \in 1 .. m : i \in 1 .. GptMax /\ ents[i] = s[i]
    BY <1>1, <1>2, <1>3
<1>5. GptKept(ents) = 1 .. m
    <2>1. \A i \in 1 .. GptMax : i <= m => i \in 1 .. m
        BY <1>1
    <2>2. \A i \in 1 .. GptMax : ~ (i <= m) => ents[i].type = "zero"
        BY <1>1, <1>3 DEF ZeroEntry
    <2> QED
        BY <1>4, <2>1, <2>2 DEF GptKept, Live
<1>6. [j \in 1 .. m |-> ents[j]] = s
    <2>1. s = [j \in 1 .. m |-> s[j]]
        BY <1>1
    <2> HIDE DEF m
    <2> QED
        BY <1>4, <2>1
<1>7. Compactions(ents, 1 .. m) = {s}
    BY <1>1, <1>6, AlreadyCompact
<1>8. Reloaded(t) = ptab_load_gpt(ents)
    BY DEF Reloaded, ents
<1> QED
    BY <1>5, <1>7, <1>8 DEF ptab_load_gpt

\* A table that was read is the only one that could have been, and writing
\* and reading it again would change nothing.
LEMMA LoadedReloads ==
    ASSUME FdiskInv, NEW t \in load_table(disk)
    PROVE  load_table(disk) = {t} /\ Reloaded(t) = {t}
<1> USE PtabAssumption, FdiskAssumption
<1>1. CASE disk[1].kind = "hdr"
    <2> DEFINE ents == DiskEnts(disk)
               K == GptKept(ents)
    <2>1. PICK s \in Compactions(ents, K) : t = [label |-> "gpt", parts |-> s]
        BY <1>1 DEF load_table, ptab_load_gpt
    <2>2. ents \in [1 .. GptMax -> GptEntry]
        BY <1>1, EntsRead DEF FdiskInv
    <2>3. GptMax \in Nat /\ K \in SUBSET (1 .. GptMax)
        BY GptMaxNat DEF GptKept
    <2>4. load_table(disk) = {[label |-> "gpt", parts |-> u] : u \in Compactions(ents, K)}
        BY <1>1 DEF load_table, ptab_load_gpt
    <2>5. \A k \in K : Live(ents[k])
        BY DEF GptKept, Live
    <2> HIDE DEF ents, K
    <2>6. Compactions(ents, K) = {s}
        BY <2>1, <2>3, OneCompaction
    <2>7. /\ s \in Seq(Part)
          /\ Len(s) <= GptMax
          /\ \A i \in DOMAIN s : \E k \in K : s[i] = ents[k]
        <3>1. ents \in [1 .. GptMax -> Part]
            BY <2>2, EntryIsPart
        <3> QED
            BY <2>1, <2>3, <3>1, Compacted
    <2>8. s \in Seq(GptEntry) /\ \A i \in 1 .. Len(s) : Live(s[i])
        <3>1. \A i \in 1 .. Len(s) : s[i] \in GptEntry /\ Live(s[i])
            BY <2>2, <2>3, <2>5, <2>7
        <3> QED
            BY <2>7, <3>1
    <2>9. Reloaded(t) = {t}
        BY <2>1, <2>7, <2>8, GptReloads
    <2> QED
        BY <2>1, <2>4, <2>6, <2>9
<1>2. CASE disk[1].kind # "hdr" /\ disk[0].kind = "mbr"
    <2> DEFINE image == disk[0].slots
               K == MbrKept(image)
    <2>1. PICK s \in Compactions(image, K) : t = [label |-> "mbr", parts |-> s]
        BY <1>2 DEF load_table, ptab_load_mbr
    <2>2. image \in [1 .. MbrMax -> Part]
        BY <1>2, SectorFields DEF FdiskInv, TypeOK
    <2>3. K \in SUBSET (1 .. MbrMax)
        BY DEF MbrKept
    <2>4. load_table(disk) = {[label |-> "mbr", parts |-> u] : u \in Compactions(image, K)}
        BY <1>2 DEF load_table, ptab_load_mbr
    <2>5. \A k \in K : /\ image[k].type \notin {"zero", "ext"}
                       /\ image[k].first # 0
                       /\ image[k].len # 0
        BY DEF MbrKept
    <2> HIDE DEF image, K
    <2>6. Compactions(image, K) = {s}
        BY <2>1, <2>3, OneCompaction
    <2>7. /\ s \in Seq(Part)
          /\ Len(s) <= MbrMax
          /\ \A i \in DOMAIN s : \E k \in K : s[i] = image[k]
        <3>1. MbrMax \in Nat
            OBVIOUS
        <3>2. s \in Compactions(image, K)
            BY <2>1
        <3>3. K \in SUBSET (1 .. MbrMax)
            BY <2>3
        <3>4. image \in [1 .. MbrMax -> Part]
            BY <2>2
        <3> HIDE PtabAssumption, FdiskAssumption
        <3> QED
            BY <3>1, <3>2, <3>3, <3>4, Compacted
    <2>8. \A i \in 1 .. Len(s) : /\ s[i].type \notin {"zero", "ext"}
                                 /\ s[i].first # 0
                                 /\ s[i].len # 0
        <3>1. DOMAIN s = 1 .. Len(s)
            BY <2>7
        <3> QED
            BY <2>5, <2>7, <3>1
    <2>9. Reloaded(t) = {t}
        BY <2>1, <2>7, <2>8, MbrReloads
    <2> QED
        BY <2>1, <2>4, <2>6, <2>9
<1>3. CASE disk[1].kind # "hdr" /\ disk[0].kind # "mbr"
    <2>1. load_table(disk) = {ptab_init("none")}
        BY <1>3 DEF load_table
    <2>2. t = ptab_init("none") /\ t.label = "none"
        BY <2>1 DEF ptab_init
    <2> QED
        BY <2>1, <2>2 DEF Reloaded
<1> QED
    BY <1>1, <1>2, <1>3

-----------------------------------------------------------------------------
(* Editing                                                                 *)

Table == [label : Labels, parts : Seq(Part)]
GoodTable(t) ==
    /\ t \in Table
    /\ Len(t.parts) <= LabelMax(t.label)
    /\ \A i \in DOMAIN t.parts : InBounds(t.parts[i])

LEMMA EmptyTable ==
    ASSUME NEW label \in Labels
    PROVE  GoodTable(ptab_init(label)) /\ Disjoint(ptab_init(label).parts)
<1>1. LabelMax(label) \in Nat
    BY PtabAssumption, GptMaxNat DEF LabelMax
<1> QED
    BY <1>1 DEF GoodTable, Table, ptab_init, Disjoint, Separate

\* Appending a range that ptab_add accepts and that overlaps no partition.
LEMMA Added ==
    ASSUME NEW t, GoodTable(t), NEW first \in Nat, NEW len \in Nat,
           AddAllowed(t, first, len)
    PROVE  /\ GoodTable(ptab_add(t, first, len))
           /\ (/\ Disjoint(t.parts)
               /\ \A i \in DOMAIN t.parts :
                    ~ Overlap(t.parts[i], [first |-> first, len |-> len]))
              => Disjoint(ptab_add(t, first, len).parts)
<1> USE PtabAssumption
<1> DEFINE new == [first |-> first, len |-> len, boot |-> FALSE, type |-> "linux"]
           s == t.parts
           u == Append(s, new)
<1>1. ptab_add(t, first, len) = [t EXCEPT !.parts = u]
    BY DEF ptab_add
<1>2. s \in Seq(Part) /\ new \in Part
    BY DEF GoodTable, Table, Part, Types
<1>3. InBounds(new)
    BY DEF AddAllowed, InBounds, Last
<1>4. /\ u \in Seq(Part)
      /\ Len(u) = Len(s) + 1
      /\ DOMAIN u = 1 .. Len(s) + 1
      /\ DOMAIN s = 1 .. Len(s)
      /\ \A i \in 1 .. Len(s) : u[i] = s[i]
      /\ u[Len(s) + 1] = new
      /\ Len(s) \in Nat
    BY <1>2
<1>5. /\ ptab_add(t, first, len).parts = u
      /\ ptab_add(t, first, len).label = t.label
      /\ ptab_add(t, first, len) \in Table
    BY <1>1, <1>4 DEF GoodTable, Table
<1>6. Len(s) + 1 <= LabelMax(t.label)
    BY <1>4, GptMaxNat DEF AddAllowed, LabelMax
<1> HIDE DEF u, s, new
<1>7. ASSUME Disjoint(s),
             \A i \in DOMAIN s : ~ Overlap(s[i], [first |-> first, len |-> len])
      PROVE  Disjoint(u)
    <2>1. \A i \in 1 .. Len(s) : ~ Overlap(s[i], new) /\ ~ Overlap(new, s[i])
        <3> SUFFICES ASSUME NEW i \in 1 .. Len(s)
                     PROVE  ~ Overlap(s[i], new) /\ ~ Overlap(new, s[i])
            OBVIOUS
        <3>1. s[i] \in Part /\ new.first = first /\ new.len = len
            BY <1>2, <1>4 DEF new
        <3>2. ~ Overlap(s[i], [first |-> first, len |-> len])
            BY <1>4, <1>7
        <3> QED
            BY <3>1, <3>2 DEF Overlap, Last, Part
    <2> SUFFICES ASSUME NEW i \in 1 .. Len(s) + 1, NEW j \in 1 .. Len(s) + 1, i # j
                 PROVE  ~ Overlap(u[i], u[j])
        BY <1>4 DEF Disjoint, Separate
    <2>2. CASE i \in 1 .. Len(s) /\ j \in 1 .. Len(s)
        BY <1>4, <1>7, <2>2 DEF Disjoint, Separate
    <2>3. CASE i = Len(s) + 1
        <3>1. j \in 1 .. Len(s) /\ u[i] = new
            BY <1>4, <2>3
        <3> QED
            BY <1>4, <2>1, <3>1
    <2>4. CASE j = Len(s) + 1
        <3>1. i \in 1 .. Len(s) /\ u[j] = new
            BY <1>4, <2>4
        <3> QED
            BY <1>4, <2>1, <3>1
    <2> QED
        BY <1>4, <2>2, <2>3, <2>4
<1>8. \A i \in DOMAIN u : InBounds(u[i])
    BY <1>3, <1>4 DEF GoodTable, s
<1> QED
    BY <1>4, <1>5, <1>6, <1>7, <1>8 DEF GoodTable, s

\* Deleting keeps the partitions that stay, in order.
LEMMA Deleted ==
    ASSUME NEW t, GoodTable(t), NEW n \in 1 .. Len(t.parts)
    PROVE  /\ GoodTable(ptab_del(t, n))
           /\ Disjoint(t.parts) => Disjoint(ptab_del(t, n).parts)
<1> DEFINE s == t.parts
           u == [i \in 1 .. Len(s) - 1 |-> IF i < n THEN s[i] ELSE s[i + 1]]
<1>1. s \in Seq(Part) /\ Len(s) \in Nat /\ DOMAIN s = 1 .. Len(s) /\ Len(s) >= 1
    BY DEF GoodTable, Table
<1>2. u \in Seq(Part) /\ Len(u) = Len(s) - 1 /\ DOMAIN u = 1 .. Len(s) - 1
    <2>1. \A i \in 1 .. Len(s) - 1 : (IF i < n THEN s[i] ELSE s[i + 1]) \in Part
        BY <1>1
    <2> QED
        BY <1>1, <2>1
<1>3. /\ ptab_del(t, n).parts = u
      /\ ptab_del(t, n).label = t.label
      /\ ptab_del(t, n) \in Table
    BY <1>2 DEF GoodTable, Table, ptab_del
<1>4. \A i \in DOMAIN u : InBounds(u[i])
    BY <1>1, <1>2 DEF GoodTable
<1>5. ASSUME Disjoint(s) PROVE Disjoint(u)
    <2> DEFINE g(i) == IF i < n THEN i ELSE i + 1
    <2>1. \A i \in 1 .. Len(s) - 1 : g(i) \in 1 .. Len(s) /\ u[i] = s[g(i)]
        BY <1>1
    <2>2. \A i, j \in 1 .. Len(s) - 1 : i # j => g(i) # g(j)
        BY <1>1
    <2> HIDE DEF g, u
    <2>3. \A i, j \in 1 .. Len(s) : i # j => ~ Overlap(s[i], s[j])
        BY <1>1, <1>5 DEF Disjoint, Separate
    <2> QED
        BY <1>2, <2>1, <2>2, <2>3 DEF Disjoint, Separate
<1>6. LabelMax(t.label) \in Nat
    BY PtabAssumption, GptMaxNat DEF LabelMax
<1> HIDE DEF u
<1> QED
    BY <1>1, <1>2, <1>3, <1>4, <1>5, <1>6 DEF GoodTable

\* Changing a type or a boot flag moves no partition.
LEMMA Retagged ==
    ASSUME NEW t, GoodTable(t), NEW n \in 1 .. Len(t.parts),
           NEW p \in Part,
           p.first = t.parts[n].first, p.len = t.parts[n].len
    PROVE  /\ GoodTable([t EXCEPT !.parts = [@ EXCEPT ![n] = p]])
           /\ Disjoint(t.parts)
                => Disjoint([t EXCEPT !.parts = [@ EXCEPT ![n] = p]].parts)
<1> DEFINE s == t.parts
           u == [s EXCEPT ![n] = p]
           v == [t EXCEPT !.parts = [@ EXCEPT ![n] = p]]
<1>1. s \in Seq(Part) /\ Len(s) \in Nat /\ DOMAIN s = 1 .. Len(s)
    BY DEF GoodTable, Table
<1>2. u \in Seq(Part) /\ Len(u) = Len(s) /\ DOMAIN u = 1 .. Len(s)
    BY <1>1
<1>3. v.parts = u /\ v.label = t.label /\ v \in Table
    BY <1>2 DEF GoodTable, Table
<1>4. \A i \in 1 .. Len(s) : u[i].first = s[i].first /\ u[i].len = s[i].len
    BY <1>1
<1> HIDE DEF u
<1>5. \A i \in DOMAIN u : InBounds(u[i])
    BY <1>1, <1>2, <1>4 DEF GoodTable, InBounds, Last
<1>6. Disjoint(s) => Disjoint(u)
    BY <1>1, <1>2, <1>4 DEF Disjoint, Separate, Overlap, Last
<1> QED
    BY <1>2, <1>3, <1>5, <1>6 DEF GoodTable

LEMMA TypeSet ==
    ASSUME NEW t, GoodTable(t), NEW n \in 1 .. Len(t.parts), NEW type \in Types
    PROVE  /\ GoodTable(ptab_set_type(t, n, type))
           /\ Disjoint(t.parts) => Disjoint(ptab_set_type(t, n, type).parts)
<1> DEFINE p == [t.parts[n] EXCEPT !.type = type]
<1>1. t.parts[n] \in Part
    BY DEF GoodTable, Table
<1>2. p \in Part /\ p.first = t.parts[n].first /\ p.len = t.parts[n].len
    BY <1>1 DEF Part
<1>3. ptab_set_type(t, n, type) = [t EXCEPT !.parts = [@ EXCEPT ![n] = p]]
    BY DEF ptab_set_type
<1> HIDE DEF p
<1> QED
    BY <1>2, <1>3, Retagged

LEMMA BootToggled ==
    ASSUME NEW t, GoodTable(t), NEW n \in 1 .. Len(t.parts)
    PROVE  /\ GoodTable(ptab_toggle_boot(t, n))
           /\ Disjoint(t.parts) => Disjoint(ptab_toggle_boot(t, n).parts)
<1> DEFINE p == [t.parts[n] EXCEPT !.boot = ~ @]
<1>1. t.parts[n] \in Part
    BY DEF GoodTable, Table
<1>2. p \in Part /\ p.first = t.parts[n].first /\ p.len = t.parts[n].len
    BY <1>1 DEF Part
<1>3. ptab_toggle_boot(t, n) = [t EXCEPT !.parts = [@ EXCEPT ![n] = p]]
    BY DEF ptab_toggle_boot
<1> HIDE DEF p
<1> QED
    BY <1>2, <1>3, Retagged

-----------------------------------------------------------------------------
(* Steps                                                                   *)

\* A step that leaves the disk alone and no write running keeps the invariant
\* when the table it leaves in memory is good.
LEMMA MemoryStep ==
    ASSUME FdiskInv, disk' = disk,
           GoodTable(tbl'), dirty' \in BOOLEAN, pc' \in {"off", "idle"},
           wpos' \in Nat, mode' \in {"script", "tty"},
           faults' \in Nat,
           faults' = 0 => /\ faults = 0
                          /\ pc # "writing"
                          /\ Disjoint(tbl'.parts)
    PROVE  FdiskInv'
<1>1. TypeOK'
    BY DEF FdiskInv, TypeOK, GoodTable, Table
<1>2. PartsInBounds'
    BY DEF PartsInBounds, GoodTable
<1>3. EntriesInBounds'
    BY DEF FdiskInv, EntriesInBounds
<1>4. WriteInProgress' /\ PrefixWritten'
    BY DEF WriteInProgress, PrefixWritten, WritingGpt
<1>5. faults' = 0 => DiskSeparate'
    BY DEF FdiskInv, DiskSeparate, DiskEnts, WritingGpt
<1> QED
    BY <1>1, <1>2, <1>3, <1>4, <1>5 DEF FdiskInv, Disjoint, Separate

LEMMA InvTable == FdiskInv => GoodTable(tbl) /\ (faults = 0 => Disjoint(tbl.parts))
    BY DEF FdiskInv, TypeOK, GoodTable, Table, PartsInBounds

LEMMA InitInv == Init => FdiskInv
<1> SUFFICES ASSUME Init PROVE FdiskInv
    OBVIOUS
<1>1. WellFormedDisk(disk)
    BY InitDisksAssumption DEF Init
<1>2. GoodTable(tbl) /\ Disjoint(tbl.parts)
    BY EmptyTable DEF Init, Labels
<1>3. TypeOK
    BY <1>1, <1>2 DEF TypeOK, Init, WellFormedDisk, GoodTable, Table
<1>4. PartsInBounds
    BY <1>2 DEF PartsInBounds, GoodTable
<1>5. EntriesInBounds
    BY <1>1 DEF EntriesInBounds, WellFormedDisk
<1>6. WriteInProgress /\ PrefixWritten
    BY DEF Init, WriteInProgress, PrefixWritten, WritingGpt
<1>7. disk[1].kind = "hdr" => Capacity >= GptFirst
    BY <1>1 DEF WellFormedDisk
<1>8. DiskSeparate
    <2>1. 0 \in 0 .. Capacity - 1
        BY PtabAssumption
    <2> QED
        BY <1>1, <2>1 DEF DiskSeparate, WellFormedDisk
<1> QED
    BY <1>2, <1>3, <1>4, <1>5, <1>6, <1>7, <1>8 DEF FdiskInv

LEMMA GoneInv ==
    ASSUME FdiskInv, Gone, faults' \in Nat,
           faults' = 0 => faults = 0 /\ pc # "writing"
    PROVE  FdiskInv'
<1>1. GoodTable(tbl') /\ Disjoint(tbl'.parts)
    BY EmptyTable DEF Gone, Labels
<1> QED
    BY <1>1, MemoryStep DEF Gone

LEMMA StartInv == ASSUME FdiskInv, NEW m \in Modes, Start(m) PROVE FdiskInv'
<1>1. ~ WritingGpt
    BY DEF Start, WritingGpt
<1>2. GoodTable(tbl') /\ (faults = 0 => Disjoint(tbl'.parts))
    BY <1>1, Loaded DEF Start, GoodTable, Table
<1> QED
    BY <1>2, MemoryStep, FdiskAssumption DEF Start, FdiskInv, TypeOK

\* An editing verb keeps the invariant when it leaves a good table.
LEMMA EditInv ==
    ASSUME FdiskInv, NEW verb, NEW t, Edit(verb, t),
           GoodTable(t), faults = 0 => Disjoint(t.parts)
    PROVE  FdiskInv'
    BY MemoryStep DEF Edit, FdiskInv, TypeOK

LEMMA LabelInv ==
    ASSUME FdiskInv, NEW verb, NEW label \in Labels, VerbLabel(verb, label)
    PROVE  FdiskInv'
    BY EmptyTable, EditInv DEF VerbLabel, FdiskInv, TypeOK

LEMMA StartsNat == ASSUME FdiskInv PROVE \A f \in Starts(tbl) : f \in Nat
<1> USE PtabAssumption, FdiskAssumption
<1>1. \A i \in DOMAIN tbl.parts : tbl.parts[i] \in Part
    BY DEF FdiskInv, TypeOK
<1>2. \A i \in DOMAIN tbl.parts : Last(tbl.parts[i]) + 1 \in Nat
    BY <1>1 DEF Last, Part
<1>3. ASSUME NEW e \in Nat PROVE RoundUp(e) \in Nat
    <2>1. Align \in Nat \ {0}
        OBVIOUS
    <2>2. e % Align \in 0 .. Align - 1
        BY <2>1
    <2> QED
        BY <2>1, <2>2 DEF RoundUp
<1>4. \A f \in ptab_first_free(tbl) : f \in Nat
    BY <1>2, <1>3 DEF ptab_first_free, GptFirst
<1> QED
    BY <1>4 DEF Starts

LEMMA NewInv ==
    ASSUME FdiskInv, NEW first \in Starts(tbl), NEW e \in EndArgs, VerbNew(first, e)
    PROVE  FdiskInv'
<1> DEFINE len == LengthOf(first, e)
           t == ptab_add(tbl, first, len)
<1>1. first \in Nat /\ e \in [plus : BOOLEAN, v : Nat]
    BY StartsNat, FdiskAssumption
<1>2. len \in Nat
    BY <1>1 DEF VerbNew, NewAccepted, EndAccepted, LengthOf
<1>3. AddAllowed(tbl, first, len)
    BY DEF VerbNew, NewAccepted
<1>4. \A i \in DOMAIN tbl.parts :
            ~ Overlap(tbl.parts[i], [first |-> first, len |-> len])
    BY DEF VerbNew, NewAccepted
<1>5. Edit("n", t)
    BY DEF VerbNew
<1> HIDE DEF len
<1>6. GoodTable(t) /\ (faults = 0 => Disjoint(t.parts))
    BY <1>1, <1>2, <1>3, <1>4, InvTable, Added
<1> QED
    BY <1>5, <1>6, EditInv DEF FdiskInv, TypeOK

LEMMA DeleteInv == ASSUME FdiskInv, NEW n \in Nums, VerbDelete(n) PROVE FdiskInv'
<1>1. CInt(n) \in 1 .. Len(tbl.parts)
    BY DEF VerbDelete
<1>2. /\ GoodTable(ptab_del(tbl, CInt(n)))
      /\ faults = 0 => Disjoint(ptab_del(tbl, CInt(n)).parts)
    BY <1>1, InvTable, Deleted
<1> QED
    BY <1>2, EditInv DEF VerbDelete, FdiskInv

LEMMA TypeInv ==
    ASSUME FdiskInv, NEW n \in Nums, NEW type \in TypeArgs, VerbType(n, type)
    PROVE  FdiskInv'
<1> DEFINE t == IF CInt(n) >= 1 THEN ptab_set_type(tbl, CInt(n), type) ELSE tbl
<1>1. CInt(n) \in Int
    BY FdiskAssumption DEF CInt
<1>2. Edit("t", t) /\ CInt(n) <= Len(tbl.parts)
    BY DEF VerbType
<1>3. GoodTable(t) /\ (faults = 0 => Disjoint(t.parts))
    <2>1. CASE CInt(n) >= 1
        <3>1. CInt(n) \in 1 .. Len(tbl.parts) /\ type \in Types
            BY <1>1, <1>2, <2>1, FdiskAssumption
        <3> QED
            BY <2>1, <3>1, InvTable, TypeSet
    <2>2. CASE ~ (CInt(n) >= 1)
        BY <2>2, InvTable
    <2> QED
        BY <2>1, <2>2
<1> QED
    BY <1>2, <1>3, EditInv DEF FdiskInv

LEMMA BootInv == ASSUME FdiskInv, NEW n \in Nums, VerbBoot(n) PROVE FdiskInv'
<1>1. CInt(n) \in Int
    BY FdiskAssumption DEF CInt
<1>2. CASE /\ CInt(n) >= 1
           /\ Edit("b", ptab_toggle_boot(tbl, CInt(n)))
    <2>1. CInt(n) \in 1 .. Len(tbl.parts)
        BY <1>1, <1>2 DEF VerbBoot
    <2>2. /\ GoodTable(ptab_toggle_boot(tbl, CInt(n)))
          /\ faults = 0 => Disjoint(ptab_toggle_boot(tbl, CInt(n)).parts)
        BY <2>1, InvTable, BootToggled
    <2> QED
        BY <1>2, <2>2, EditInv DEF FdiskInv
<1>3. CASE Edit("b", tbl)
    BY <1>3, EditInv, InvTable DEF FdiskInv
<1>4. CASE pc = "idle" /\ Gone /\ UNCHANGED faults
    BY <1>4, GoneInv DEF FdiskInv, TypeOK
<1> QED
    BY <1>2, <1>3, <1>4 DEF VerbBoot

-----------------------------------------------------------------------------
(* Writing                                                                 *)

\* The MBR image of a good table.
LEMMA MbrImage ==
    ASSUME NEW t, GoodTable(t)
    PROVE  LET slots == ptab_build_mbr(t)
           IN  /\ slots \in [1 .. MbrMax -> Part]
               /\ \A i \in MbrKept(slots) : InBounds(slots[i])
               /\ Disjoint(t.parts) => Separate(slots, MbrKept(slots))
<1> DEFINE slots == ptab_build_mbr(t)
<1>1. /\ t.parts \in Seq(Part)
      /\ DOMAIN t.parts = 1 .. Len(t.parts)
      /\ \A i \in 1 .. Len(t.parts) : t.parts[i] \in Part
    BY DEF GoodTable, Table
<1>2. slots \in [1 .. MbrMax -> Part]
    BY <1>1, ZeroEntryPart DEF ptab_build_mbr
<1>3. \A i \in MbrKept(slots) : i \in DOMAIN t.parts /\ slots[i] = t.parts[i]
    BY <1>1 DEF MbrKept, ptab_build_mbr, ZeroEntry
<1> HIDE DEF slots
<1>4. \A i \in MbrKept(slots) : InBounds(slots[i])
    BY <1>3 DEF GoodTable
<1>5. Disjoint(t.parts) => Separate(slots, MbrKept(slots))
    BY <1>3 DEF Disjoint, Separate
<1> QED
    BY <1>2, <1>4, <1>5 DEF slots

LEMMA ProtectiveImage ==
    /\ ProtectiveSlots \in [1 .. MbrMax -> Part]
    /\ MbrKept(ProtectiveSlots) = {}
<1>1. Capacity - 1 \in Nat
    BY PtabAssumption
<1>2. ProtectiveSlots \in [1 .. MbrMax -> Part]
    BY <1>1, ZeroEntryPart DEF ProtectiveSlots, Part, Types
<1>3. \A i \in 1 .. MbrMax : ProtectiveSlots[i].type \in {"zero", "ext"}
    BY DEF ProtectiveSlots, ZeroEntry
<1> QED
    BY <1>2, <1>3 DEF MbrKept

\* The entry array of a good table.
LEMMA GptImage ==
    ASSUME NEW t, GoodTable(t)
    PROVE  LET ents == gpt_entries(t)
           IN  /\ ents \in [1 .. GptMax -> GptEntry]
               /\ \A i \in 1 .. GptMax : Live(ents[i]) => InBounds(ents[i])
               /\ Disjoint(t.parts) => Separate(ents, GptKept(ents))
<1> DEFINE ents == gpt_entries(t)
<1>1. /\ t.parts \in Seq(Part)
      /\ DOMAIN t.parts = 1 .. Len(t.parts)
      /\ \A i \in 1 .. Len(t.parts) : t.parts[i] \in Part
    BY DEF GoodTable, Table
<1>2. ASSUME NEW i \in 1 .. Len(t.parts)
      PROVE  /\ [t.parts[i] EXCEPT !.boot = FALSE] \in GptEntry
             /\ [t.parts[i] EXCEPT !.boot = FALSE].first = t.parts[i].first
             /\ [t.parts[i] EXCEPT !.boot = FALSE].len = t.parts[i].len
    BY <1>1 DEF Part, GptEntry
<1>3. ents \in [1 .. GptMax -> GptEntry]
    BY <1>2, ZeroEntryPart DEF gpt_entries
<1>4. ASSUME NEW i \in 1 .. GptMax, Live(ents[i])
      PROVE  /\ i \in DOMAIN t.parts
             /\ ents[i].first = t.parts[i].first
             /\ ents[i].len = t.parts[i].len
    <2>1. i <= Len(t.parts)
        BY <1>4, ZeroEntryPart DEF gpt_entries
    <2>2. i \in 1 .. Len(t.parts)
        BY <1>1, <2>1
    <2>3. ents[i] = [t.parts[i] EXCEPT !.boot = FALSE]
        BY <2>1 DEF gpt_entries
    <2> QED
        BY <1>1, <1>2, <2>2, <2>3
<1> HIDE DEF ents
<1>5. \A i \in 1 .. GptMax : Live(ents[i]) => InBounds(ents[i])
    BY <1>4 DEF GoodTable, InBounds, Last
<1>6. ASSUME Disjoint(t.parts) PROVE Separate(ents, GptKept(ents))
    <2> SUFFICES ASSUME NEW i \in GptKept(ents), NEW j \in GptKept(ents), i # j
                 PROVE  ~ Overlap(ents[i], ents[j])
        BY DEF Separate
    <2>1. /\ i \in DOMAIN t.parts /\ j \in DOMAIN t.parts
          /\ ents[i].first = t.parts[i].first /\ ents[i].len = t.parts[i].len
          /\ ents[j].first = t.parts[j].first /\ ents[j].len = t.parts[j].len
        BY <1>4 DEF GptKept, Live
    <2>2. ~ Overlap(t.parts[i], t.parts[j])
        BY <1>6, <2>1 DEF Disjoint, Separate
    <2> QED
        BY <2>1, <2>2 DEF Overlap, Last
<1> QED
    BY <1>3, <1>5, <1>6 DEF ents

\* Cutting the entry array into sectors.
LEMMA EntryCut ==
    ASSUME NEW k \in 1 .. EntrySectors, NEW j \in 1 .. PerSector
    PROVE  (k - 1) * PerSector + j \in 1 .. GptMax
<1> USE PtabAssumption
<1>1. k - 1 \in Nat /\ k - 1 <= EntrySectors - 1 /\ PerSector \in Nat
    OBVIOUS
<1>2. (k - 1) * PerSector <= (EntrySectors - 1) * PerSector
    BY <1>1
<1>3. (EntrySectors - 1) * PerSector + PerSector = EntrySectors * PerSector
    OBVIOUS
<1>4. (k - 1) * PerSector \in Nat
    BY <1>1
<1> QED
    BY <1>2, <1>3, <1>4 DEF GptMax

LEMMA EntImage ==
    ASSUME NEW t, GoodTable(t), NEW k \in 1 .. EntrySectors
    PROVE  LET s == EntSector(gpt_entries(t), k)
           IN  /\ s \in Sector
               /\ s.kind = "ents"
               /\ \A j \in 1 .. PerSector : Live(s.slice[j]) => InBounds(s.slice[j])
<1> DEFINE ents == gpt_entries(t)
<1>1. /\ ents \in [1 .. GptMax -> GptEntry]
      /\ \A i \in 1 .. GptMax : Live(ents[i]) => InBounds(ents[i])
    BY GptImage
<1>2. \A j \in 1 .. PerSector : (k - 1) * PerSector + j \in 1 .. GptMax
    BY EntryCut
<1> HIDE DEF ents
<1> QED
    BY <1>1, <1>2 DEF EntSector, Sector, ents

\* What is true of sector s when it is number k of the plan for t, at lba.
StepOk(t, k, lba, s) ==
    /\ lba \in 0 .. Capacity - 1
    /\ s \in Sector
    /\ s.kind = "mbr" =>
            /\ lba = 0
            /\ \A i \in MbrKept(s.slots) : InBounds(s.slots[i])
            /\ Disjoint(t.parts) => Separate(s.slots, MbrKept(s.slots))
    /\ s.kind = "ents" =>
            \A j \in 1 .. PerSector : Live(s.slice[j]) => InBounds(s.slice[j])
    /\ s.kind = "hdr" => lba \notin 2 .. 1 + EntrySectors
    /\ t.label = "mbr" => lba = 0
    /\ t.label = "gpt" =>
            IF k <= 2 + EntrySectors THEN lba = k - 1
            ELSE lba >= Capacity - 1 - EntrySectors

LEMMA PlanStep ==
    ASSUME Roomy, NEW t, GoodTable(t), WriteAllowed(t), NEW k \in 1 .. PlanLen(t)
    PROVE  StepOk(t, k, PlanLba(t, k), PlanSector(t, k))
<1> USE PtabAssumption DEF Roomy
<1> DEFINE lba == PlanLba(t, k)
           s == PlanSector(t, k)
           ents == gpt_entries(t)
<1> SUFFICES StepOk(t, k, lba, s)
    OBVIOUS
<1>1. CASE t.label = "mbr"
    <2>1. k = 1 /\ lba = 0 /\ s = MbrSector(ptab_build_mbr(t))
        BY <1>1 DEF PlanLen, PlanLba, PlanSector
    <2>2. s \in Sector /\ s.kind = "mbr" /\ s.slots = ptab_build_mbr(t)
        BY <2>1, MbrImage DEF MbrSector, Sector
    <2> HIDE DEF s, lba
    <2> QED
        BY <1>1, <2>1, <2>2, MbrImage DEF StepOk
<1>2. CASE t.label = "gpt" /\ k = 1
    <2>1. lba = 0 /\ s = MbrSector(ProtectiveSlots)
        BY <1>2 DEF PlanLba, PlanSector, PlanLen
    <2>2. s \in Sector /\ s.kind = "mbr" /\ s.slots = ProtectiveSlots
        BY <2>1, ProtectiveImage DEF MbrSector, Sector
    <2> HIDE DEF s, lba
    <2> QED
        BY <1>2, <2>1, <2>2, ProtectiveImage DEF Separate, StepOk
<1>3. CASE t.label = "gpt" /\ (k = 2 \/ k = PlanLen(t))
    <2>1. lba = IF k = 2 THEN 1 ELSE Capacity - 1
        BY <1>3 DEF PlanLen, PlanLba
    <2>2. s = HdrSector(ents, 2)
        BY <1>3 DEF PlanLen, PlanSector
    <2>3. s \in Sector /\ s.kind = "hdr"
        BY <2>2, GptImage DEF HdrSector, Sector
    <2> HIDE DEF s, lba
    <2> QED
        BY <1>3, <2>1, <2>3 DEF PlanLen, StepOk
<1>4. CASE t.label = "gpt" /\ k > 2 /\ k <= 2 + EntrySectors
    <2>1. lba = k - 1 /\ k - 2 \in 1 .. EntrySectors
        BY <1>4 DEF PlanLba
    <2>2. s = EntSector(ents, k - 2)
        BY <1>4 DEF PlanLen, PlanSector
    <2>3. /\ s \in Sector
          /\ s.kind = "ents"
          /\ \A j \in 1 .. PerSector : Live(s.slice[j]) => InBounds(s.slice[j])
        BY <2>1, <2>2, EntImage
    <2> HIDE DEF s, lba
    <2> QED
        BY <1>4, <2>1, <2>3 DEF StepOk
<1>5. CASE t.label = "gpt" /\ k > 2 + EntrySectors /\ k < PlanLen(t)
    <2>1. /\ lba \in Capacity - 1 - EntrySectors .. Capacity - 2
          /\ k - 2 - EntrySectors \in 1 .. EntrySectors
        BY <1>5 DEF PlanLba, PlanLen
    <2>2. s = EntSector(ents, k - 2 - EntrySectors)
        BY <1>5 DEF PlanLen, PlanSector
    <2>3. /\ s \in Sector
          /\ s.kind = "ents"
          /\ \A j \in 1 .. PerSector : Live(s.slice[j]) => InBounds(s.slice[j])
        BY <2>1, <2>2, EntImage
    <2> HIDE DEF s, lba
    <2> QED
        BY <1>5, <2>1, <2>3 DEF StepOk
<1> QED
    BY <1>1, <1>2, <1>3, <1>4, <1>5 DEF WriteAllowed, PlanLen

\* Slot j of sector q + 1 of an entry array is entry q * PerSector + j.
LEMMA EntSlice ==
    ASSUME NEW ents, NEW q \in Nat, NEW j \in 1 .. PerSector
    PROVE  /\ EntSector(ents, q + 1).kind = "ents"
           /\ EntSector(ents, q + 1).slice[j] = ents[q * PerSector + j]
<1>1. q + 1 - 1 = q
    OBVIOUS
<1> QED
    BY <1>1 DEF EntSector

\* When the last sector is out, the primary entry array reads back whole.
LEMMA ReadBack ==
    ASSUME Roomy, GoodTable(tbl), tbl.label = "gpt",
           NEW d,
           \A k \in 2 .. 2 + EntrySectors : d[k - 1] = PlanSector(tbl, k)
    PROVE  DiskEnts(d) = gpt_entries(tbl)
<1> USE PtabAssumption DEF Roomy
<1>1. ASSUME NEW i \in 1 .. GptMax
      PROVE  SlotOf(d[2 + ((i - 1) \div PerSector)], ((i - 1) % PerSector) + 1)
                = gpt_entries(tbl)[i]
    <2> DEFINE q == (i - 1) \div PerSector
               r == (i - 1) % PerSector
    <2>1. q \in 0 .. EntrySectors - 1 /\ r \in 0 .. PerSector - 1 /\ q * PerSector + r = i - 1
        BY EntryPosition
    <2> HIDE DEF q, r
    <2>2. d[2 + q] = PlanSector(tbl, 3 + q)
        <3>1. 3 + q \in 2 .. 2 + EntrySectors /\ (3 + q) - 1 = 2 + q
            BY <2>1
        <3> QED
            BY <3>1
    <2>3. PlanSector(tbl, 3 + q) = EntSector(gpt_entries(tbl), q + 1)
        <3>1. /\ 3 + q > 2 /\ 3 + q <= 2 + EntrySectors /\ (3 + q) - 2 = q + 1
              /\ 3 + q # PlanLen(tbl)
            BY <2>1 DEF PlanLen
        <3> QED
            BY <3>1, <2>1 DEF PlanSector
    <2>4. q * PerSector + (r + 1) = i /\ r + 1 \in 1 .. PerSector /\ q \in Nat
        <3>1. i \in Nat /\ q * PerSector \in Nat
            BY <2>1, GptMaxNat
        <3> QED
            BY <2>1, <3>1
    <2>5. SlotOf(d[2 + q], r + 1) = gpt_entries(tbl)[i]
        <3>1. d[2 + q] = EntSector(gpt_entries(tbl), q + 1)
            BY <2>2, <2>3
        <3>2. /\ EntSector(gpt_entries(tbl), q + 1).kind = "ents"
              /\ EntSector(gpt_entries(tbl), q + 1).slice[r + 1]
                    = gpt_entries(tbl)[q * PerSector + (r + 1)]
            BY <2>4, EntSlice
        <3>3. SlotOf(d[2 + q], r + 1) = d[2 + q].slice[r + 1]
            BY <3>1, <3>2 DEF SlotOf
        <3> QED
            BY <2>4, <3>1, <3>2, <3>3
    <2> QED
        BY <2>5 DEF q, r
<1>2. DiskEnts(d) = [i \in 1 .. GptMax |-> gpt_entries(tbl)[i]]
    BY <1>1 DEF DiskEnts
<1> QED
    BY <1>2 DEF gpt_entries

LEMMA WriteInv == ASSUME FdiskInv, VerbWrite PROVE FdiskInv'
<1>1. GptMax \in Nat /\ PlanLen(tbl) >= 1 /\ PlanLen(tbl) \in Nat
    BY PtabAssumption, GptMaxNat DEF PlanLen
<1>2. TypeOK'
    BY DEF FdiskInv, TypeOK, VerbWrite, session
<1>3. PartsInBounds' /\ EntriesInBounds'
    BY DEF FdiskInv, PartsInBounds, EntriesInBounds, VerbWrite, session
<1>4. WriteInProgress'
    BY <1>1 DEF WriteInProgress, VerbWrite, session, WriteAllowed, PlanLen
<1>5. PrefixWritten'
    BY DEF PrefixWritten, VerbWrite
<1>6. faults = 0 => DiskSeparate'
    BY DEF FdiskInv, DiskSeparate, DiskEnts, WritingGpt, VerbWrite, session
<1> QED
    BY <1>2, <1>3, <1>4, <1>5, <1>6
    DEF FdiskInv, VerbWrite, session, Disjoint, Separate

LEMMA SectorInv == ASSUME Roomy, FdiskInv, WriteSector PROVE FdiskInv'
<1> USE PtabAssumption DEF Roomy
<1> DEFINE lba == PlanLba(tbl, wpos)
           s == PlanSector(tbl, wpos)
<1>1. GoodTable(tbl) /\ WriteAllowed(tbl) /\ wpos \in 1 .. PlanLen(tbl)
    BY InvTable DEF FdiskInv, WriteInProgress, WriteSector
<1>2. StepOk(tbl, wpos, lba, s)
    BY <1>1, PlanStep
<1>3. disk' = [disk EXCEPT ![lba] = s] /\ tbl' = tbl /\ faults' = faults
    BY DEF WriteSector
<1>4. disk \in [0 .. Capacity - 1 -> Sector]
    BY DEF FdiskInv, TypeOK
<1>5. PlanLen(tbl) \in Nat /\ wpos \in Nat
    BY <1>1 DEF PlanLen
<1>6. \/ pc' = "idle" /\ wpos = PlanLen(tbl) /\ wpos' = 0 /\ dirty' = FALSE
      \/ pc' = pc /\ wpos # PlanLen(tbl) /\ wpos' = wpos + 1 /\ dirty' = dirty
    BY DEF WriteSector
<1>7. lba \in 0 .. Capacity - 1 /\ s \in Sector
    BY <1>2 DEF StepOk
<1>16. pc = "writing"
    BY DEF WriteSector
<1> HIDE DEF lba, s
<1>8. \A l \in 0 .. Capacity - 1 : disk'[l] = IF l = lba THEN s ELSE disk[l]
    BY <1>3, <1>4, <1>7
<1>9. TypeOK'
    <2>1. disk' \in [0 .. Capacity - 1 -> Sector]
        BY <1>3, <1>4, <1>7
    <2>2. wpos' \in Nat
        BY <1>5, <1>6
    <2>3. dirty' \in BOOLEAN
        <3>1. dirty \in BOOLEAN
            BY DEF FdiskInv, TypeOK
        <3> QED
            BY <1>6, <3>1, Zenon
    <2>4. pc' \in {"off", "idle", "writing"}
        BY <1>6, <1>16
    <2> QED
        BY <1>3, <2>1, <2>2, <2>3, <2>4 DEF FdiskInv, TypeOK, WriteSector
<1>10. PartsInBounds'
    BY <1>3 DEF FdiskInv, PartsInBounds
<1>11. EntriesInBounds'
    BY <1>2, <1>8 DEF FdiskInv, EntriesInBounds, StepOk
<1>12. WriteInProgress'
    <2> SUFFICES ASSUME pc' = "writing"
                 PROVE  WriteAllowed(tbl) /\ wpos' \in 1 .. PlanLen(tbl)
        BY <1>3 DEF WriteInProgress, WriteAllowed, PlanLen
    <2>1. wpos # PlanLen(tbl) /\ wpos' = wpos + 1
        BY <1>6
    <2> QED
        BY <1>1, <1>5, <2>1
<1>13. disk'[1].kind = "hdr" => Capacity >= GptFirst
    <2>1. 1 \in 0 .. Capacity - 1
        BY FdiskAssumption
    <2> QED
        BY DEF GptFirst
<1>14. PrefixWritten'
    <2> SUFFICES ASSUME WritingGpt', NEW k \in 2 .. 2 + EntrySectors, k < wpos'
                 PROVE  disk'[k - 1] = PlanSector(tbl, k)
        BY <1>3 DEF PrefixWritten, PlanSector, PlanLen
    <2>1. WritingGpt /\ wpos' = wpos + 1 /\ tbl.label = "gpt"
        BY <1>3, <1>6, <1>16 DEF WritingGpt
    <2>2. k - 1 \in 0 .. Capacity - 1
        OBVIOUS
    <2>3. CASE k < wpos
        <3>1. disk[k - 1] = PlanSector(tbl, k)
            BY <2>1, <2>3 DEF FdiskInv, PrefixWritten
        <3>2. lba # k - 1
            BY <1>2, <1>5, <2>1, <2>3 DEF StepOk
        <3> QED
            BY <1>8, <2>2, <3>1, <3>2
    <2>4. CASE k = wpos
        <3>1. lba = k - 1 /\ s = PlanSector(tbl, k)
            BY <1>2, <2>1, <2>4 DEF StepOk, s
        <3> QED
            BY <1>8, <2>2, <3>1
    <2> QED
        BY <1>5, <2>1, <2>3, <2>4
<1>15. ASSUME faults = 0 PROVE DiskSeparate'
    <2>1. Disjoint(tbl.parts) /\ PrefixWritten /\ DiskSeparate
        BY <1>15 DEF FdiskInv
    <2>2. disk'[0].kind = "mbr" => Separate(disk'[0].slots, MbrKept(disk'[0].slots))
        BY <1>2, <1>8, <2>1 DEF DiskSeparate, StepOk
    <2>3. ASSUME ~ WritingGpt', disk'[1].kind = "hdr"
          PROVE  Separate(DiskEnts(disk'), GptKept(DiskEnts(disk')))
        <3>1. CASE tbl.label = "mbr"
            <4>1. lba = 0 /\ ~ WritingGpt
                BY <1>2, <3>1 DEF StepOk, WritingGpt
            <4>2. \A i \in 1 .. GptMax : disk'[2 + ((i - 1) \div PerSector)]
                                        = disk[2 + ((i - 1) \div PerSector)]
                <5> SUFFICES ASSUME NEW i \in 1 .. GptMax
                             PROVE  disk'[2 + ((i - 1) \div PerSector)]
                                        = disk[2 + ((i - 1) \div PerSector)]
                    OBVIOUS
                <5>1. 2 + ((i - 1) \div PerSector) \in 2 .. Capacity - 1
                    BY EntryPosition
                <5> QED
                    BY <1>8, <4>1, <5>1
            <4>3. DiskEnts(disk') = DiskEnts(disk) /\ disk'[1] = disk[1]
                BY <1>8, <4>1, <4>2 DEF DiskEnts
            <4> QED
                BY <2>1, <2>3, <4>1, <4>3 DEF DiskSeparate
        <3>2. CASE tbl.label = "gpt"
            <4>1. WritingGpt /\ wpos = PlanLen(tbl)
                BY <1>3, <1>6, <1>16, <2>3, <3>2 DEF WritingGpt
            <4>2. \A k \in 2 .. 2 + EntrySectors : disk[k - 1] = PlanSector(tbl, k)
                BY <2>1, <3>2, <4>1 DEF PrefixWritten, PlanLen
            <4>3. lba >= Capacity - 1 - EntrySectors
                BY <1>2, <3>2, <4>1 DEF StepOk, PlanLen
            <4>4. \A k \in 2 .. 2 + EntrySectors :
                        k - 1 \in 0 .. Capacity - 1 /\ k - 1 # lba
                BY <4>3
            <4>5. \A k \in 2 .. 2 + EntrySectors : disk'[k - 1] = PlanSector(tbl, k)
                BY <1>8, <4>2, <4>4
            <4>6. DiskEnts(disk') = gpt_entries(tbl)
                BY <1>1, <3>2, <4>5, ReadBack
            <4> QED
                BY <1>1, <2>1, <4>6, GptImage
        <3> QED
            BY <1>1, <3>1, <3>2 DEF WriteAllowed
    <2> QED
        BY <2>2, <2>3 DEF DiskSeparate
<1> QED
    BY <1>3, <1>9, <1>10, <1>11, <1>12, <1>13, <1>14, <1>15
    DEF FdiskInv, Disjoint, Separate

LEMMA ErrorInv == ASSUME FdiskInv, WriteError PROVE FdiskInv'
<1>1. faults' \in Nat /\ faults' # 0
    BY DEF WriteError, FdiskInv, TypeOK
<1>2. CASE mode = "script" /\ Gone
    BY <1>1, <1>2, GoneInv
<1>3. CASE mode = "tty" /\ pc' = "idle" /\ wpos' = 0 /\ UNCHANGED <<disk, session>>
    <2>1. GoodTable(tbl')
        BY <1>3, InvTable DEF session
    <2> QED
        BY <1>1, <1>3, <2>1, MemoryStep DEF session, FdiskInv, TypeOK
<1> QED
    BY <1>2, <1>3 DEF WriteError

LEMMA CrashInv == ASSUME FdiskInv, Crash PROVE FdiskInv'
<1>1. faults' \in Nat /\ faults' # 0
    BY DEF Crash, FdiskInv, TypeOK
<1> QED
    BY <1>1, GoneInv DEF Crash

-----------------------------------------------------------------------------
(* The theorems                                                            *)

LEMMA StepInv == ASSUME Roomy, FdiskInv, [Next]_vars PROVE FdiskInv'
<1>1. ASSUME NEW m \in Modes, Start(m) PROVE FdiskInv'
    BY <1>1, StartInv
<1>2. CASE Quit
    BY <1>2, GoneInv DEF Quit, FdiskInv, TypeOK
<1>3. CASE VerbFails
    BY <1>3, GoneInv DEF VerbFails, FdiskInv, TypeOK
<1>4. CASE VerbLabel("o", "mbr")
    BY <1>4, LabelInv DEF Labels
<1>5. CASE VerbLabel("g", "gpt")
    BY <1>5, LabelInv DEF Labels
<1>6. ASSUME NEW first \in Starts(tbl), NEW e \in EndArgs, VerbNew(first, e)
      PROVE  FdiskInv'
    BY <1>6, NewInv
<1>7. ASSUME NEW n \in Nums, VerbDelete(n) \/ VerbBoot(n) PROVE FdiskInv'
    BY <1>7, DeleteInv, BootInv
<1>8. ASSUME NEW n \in Nums, NEW type \in TypeArgs, VerbType(n, type)
      PROVE  FdiskInv'
    BY <1>8, TypeInv
<1>9. CASE VerbWrite
    BY <1>9, WriteInv
<1>10. CASE WriteSector
    BY <1>10, SectorInv
<1>11. CASE WriteError
    BY <1>11, ErrorInv
<1>12. CASE Crash
    BY <1>12, CrashInv
<1>13. CASE UNCHANGED vars
    BY <1>13 DEF vars, FdiskInv, TypeOK, PartsInBounds, EntriesInBounds,
        WriteInProgress, PrefixWritten, DiskSeparate, WritingGpt, DiskEnts,
        WriteAllowed, PlanLen, PlanSector, Disjoint, Separate
<1> QED
    BY <1>1, <1>2, <1>3, <1>4, <1>5, <1>6, <1>7, <1>8, <1>9, <1>10, <1>11,
       <1>12, <1>13 DEF Next

-----------------------------------------------------------------------------
(* The results.  Roomy holds of every disk fdisk accepts for a GPT but the *)
(* smallest (34 to 66 sectors), where the two copies run into each other.  *)

\* The inductive invariant holds in every reachable state.
THEOREM Invariance == Roomy => (Spec => []FdiskInv)
<1> SUFFICES ASSUME Roomy PROVE Spec => []FdiskInv
    OBVIOUS
<1>1. Init => FdiskInv
    BY InitInv
<1>2. FdiskInv /\ [Next]_vars => FdiskInv'
    BY StepInv
<1> QED
    BY <1>1, <1>2, PTL DEF Spec

\* Every variable keeps its type, and no table outgrows its C array.
THEOREM TypeCorrect == Roomy => (Spec => []TypeOK)
<1>1. FdiskInv => TypeOK
    BY DEF FdiskInv
<1> QED
    BY <1>1, Invariance, PTL

\* Loads, edits and complete writes never make two partitions share a sector.
THEOREM NoOverlapHolds == Roomy => (Spec => []NoOverlap)
<1>1. FdiskInv => NoOverlap
    BY DEF FdiskInv, NoOverlap
<1> QED
    BY <1>1, Invariance, PTL

\* Every partition in memory lies on the disk, after any number of cut writes.
THEOREM InBoundsHolds == Roomy => (Spec => []PartsInBounds)
<1>1. FdiskInv => PartsInBounds
    BY DEF FdiskInv
<1> QED
    BY <1>1, Invariance, PTL

\* Only WriteSector changes the disk, and only at the planned sector: an MBR
\* write at sector 0, a GPT write outside GptFirst .. LastUsable.
LEMMA StepSafe ==
    ASSUME Roomy, FdiskInv, [Next]_vars,
           NEW i \in DOMAIN tbl.parts, NEW lba \in DOMAIN disk,
           disk'[lba] # disk[lba], InUsableRange(tbl.parts[i])
    PROVE  ~ Covers(tbl.parts[i], lba)
<1> USE PtabAssumption DEF Roomy
<1>1. disk' # disk
    OBVIOUS
<1>2. WriteSector
    BY <1>1 DEF Next, vars, Start, Quit, VerbFails, Gone, VerbLabel, VerbNew,
        VerbDelete, VerbType, VerbBoot, Edit, VerbWrite, WriteError, Crash
<1>3. lba = PlanLba(tbl, wpos)
    BY <1>2 DEF WriteSector
<1>4. GoodTable(tbl) /\ WriteAllowed(tbl) /\ wpos \in 1 .. PlanLen(tbl)
    BY <1>2, InvTable DEF FdiskInv, WriteInProgress, WriteSector
<1>5. tbl.parts[i].first \in Nat /\ tbl.parts[i].len \in Nat /\ tbl.parts[i].first >= 1
    <2>1. tbl.parts \in Seq(Part)
        BY DEF FdiskInv, TypeOK
    <2>2. tbl.parts[i] \in Part
        BY <2>1
    <2>3. InBounds(tbl.parts[i])
        BY DEF FdiskInv, PartsInBounds
    <2> QED
        BY <2>2, <2>3 DEF InBounds, Part
<1>6. CASE tbl.label = "mbr"
    <2>1. lba = 0
        BY <1>3, <1>4, <1>6 DEF PlanLba, PlanLen
    <2> QED
        BY <1>5, <2>1 DEF Covers
<1>7. CASE tbl.label = "gpt"
    <2>1. lba < GptFirst \/ lba > LastUsable
        BY <1>3, <1>4, <1>7 DEF PlanLba, PlanLen, GptFirst, LastUsable
    <2>2. tbl.parts[i].first >= GptFirst /\ Last(tbl.parts[i]) <= LastUsable
        BY <1>7 DEF InUsableRange
    <2>3. lba \in Int
        BY <1>3, <1>4 DEF PlanLba, PlanLen
    <2> QED
        BY <1>5, <2>1, <2>2, <2>3 DEF Covers, Last, GptFirst, LastUsable
<1> QED
    BY <1>4, <1>6, <1>7 DEF WriteAllowed

\* w never writes into a partition of its own table, as long as GPT
\* partitions keep to the range their header calls usable.
THEOREM UsableDataSafeHolds == Roomy => (Spec => UsableDataSafe)
<1> SUFFICES ASSUME Roomy PROVE Spec => UsableDataSafe
    OBVIOUS
<1> DEFINE Safe == \A i \in DOMAIN tbl.parts, lba \in DOMAIN disk :
                      disk'[lba] # disk[lba] /\ InUsableRange(tbl.parts[i])
                          => ~ Covers(tbl.parts[i], lba)
<1>1. FdiskInv /\ [Next]_vars => [Safe]_vars
    BY StepSafe
<1>2. Spec => []FdiskInv
    BY Invariance
<1> QED
    BY <1>1, <1>2, PTL DEF Spec, UsableDataSafe

-----------------------------------------------------------------------------
(* Memory against disk                                                     *)

\* The last sector of a write leaves the disk as the table in memory reads.
LEMMA WriteSaves ==
    ASSUME Roomy, FdiskInv, WriteSector, pc' = "idle", faults = 0,
           ~ (tbl.label = "mbr" /\ disk'[1].kind = "hdr")
    PROVE  load_table(disk') = Reloaded(tbl)
<1> USE PtabAssumption DEF Roomy
<1> DEFINE lba == PlanLba(tbl, wpos)
           s == PlanSector(tbl, wpos)
<1>1. GoodTable(tbl) /\ WriteAllowed(tbl) /\ wpos = PlanLen(tbl) /\ wpos \in 1 .. PlanLen(tbl)
    BY InvTable DEF FdiskInv, WriteInProgress, WriteSector
<1>2. StepOk(tbl, wpos, lba, s)
    BY <1>1, PlanStep
<1>3. disk' = [disk EXCEPT ![lba] = s] /\ disk \in [0 .. Capacity - 1 -> Sector]
    BY DEF WriteSector, FdiskInv, TypeOK
<1>4. lba \in 0 .. Capacity - 1
    BY <1>2 DEF StepOk
<1>5. CASE tbl.label = "mbr"
    <2>1. lba = 0 /\ s = MbrSector(ptab_build_mbr(tbl))
        BY <1>1, <1>5 DEF PlanLen, PlanLba, PlanSector
    <2> HIDE DEF lba, s
    <2>2. disk'[0] = s
        BY <1>3, <1>4, <2>1
    <2>3. disk'[0].kind = "mbr" /\ disk'[0].slots = ptab_build_mbr(tbl)
        BY <2>1, <2>2 DEF MbrSector
    <2> QED
        BY <1>5, <2>3 DEF load_table, Reloaded
<1>6. CASE tbl.label = "gpt"
    <2>1. WritingGpt /\ PlanLen(tbl) = 3 + 2 * EntrySectors
        BY <1>6 DEF WritingGpt, WriteSector, PlanLen
    <2>2. \A k \in 2 .. 2 + EntrySectors : disk[k - 1] = PlanSector(tbl, k)
        BY <1>1, <2>1 DEF FdiskInv, PrefixWritten
    <2>3. lba >= Capacity - 1 - EntrySectors
        BY <1>1, <1>2, <1>6, <2>1 DEF StepOk
    <2> HIDE DEF lba, s
    <2>4. \A k \in 2 .. 2 + EntrySectors : k - 1 \in 0 .. Capacity - 1 /\ k - 1 # lba
        BY <2>3
    <2>5. \A k \in 2 .. 2 + EntrySectors : disk'[k - 1] = PlanSector(tbl, k)
        BY <1>3, <2>2, <2>4
    <2>6. DiskEnts(disk') = gpt_entries(tbl)
        BY <1>1, <1>6, <2>5, ReadBack
    <2>7. disk'[1] = HdrSector(gpt_entries(tbl), 2)
        <3>1. 2 \in 2 .. 2 + EntrySectors
            OBVIOUS
        <3>2. disk'[2 - 1] = PlanSector(tbl, 2)
            BY <2>5, <3>1
        <3> QED
            BY <1>6, <3>2 DEF PlanSector
    <2>8. disk'[1].kind = "hdr"
        BY <2>7 DEF HdrSector
    <2> QED
        BY <1>6, <2>6, <2>8 DEF load_table, Reloaded
<1> QED
    BY <1>1, <1>5, <1>6 DEF WriteAllowed

LEMMA SavedStep == ASSUME Roomy, FdiskInv, SavedInv, [Next]_vars PROVE SavedInv'
<1> USE DEF SavedInv, WrittenIsReloadedUnlessStale, WrittenIsReloaded
<1>1. ASSUME NEW m \in Modes, Start(m) PROVE SavedInv'
    <2>1. tbl' \in load_table(disk) /\ disk' = disk
        BY <1>1 DEF Start
    <2>2. load_table(disk) = {tbl'} /\ Reloaded(tbl') = {tbl'}
        BY <2>1, LoadedReloads
    <2>3. load_table(disk') = Reloaded(tbl')
        BY <2>1, <2>2
    <2>4. pc' = "idle"
        BY <1>1 DEF Start
    <2> QED
        BY <2>3, <2>4
<1>2. ASSUME Gone PROVE SavedInv'
    BY <1>2 DEF Gone
<1>3. ASSUME NEW verb, NEW t, Edit(verb, t) PROVE SavedInv'
    BY <1>3 DEF Edit
<1>4. CASE VerbWrite
    BY <1>4 DEF VerbWrite
<1>5. CASE WriteSector
    <2>1. pc' = "writing" \/ pc' = "idle"
        BY <1>5 DEF WriteSector
    <2>2. tbl' = tbl /\ faults' = faults
        BY <1>5 DEF WriteSector
    <2>3. ASSUME pc' = "idle", faults = 0, ~ (tbl.label = "mbr" /\ disk'[1].kind = "hdr")
          PROVE  load_table(disk') = Reloaded(tbl')
        BY <1>5, <2>2, <2>3, WriteSaves
    <2> QED
        BY <2>1, <2>2, <2>3
<1>6. CASE WriteError
    <2>1. faults' # 0
        BY <1>6 DEF WriteError, FdiskInv, TypeOK
    <2>2. Gone \/ pc' = "idle"
        BY <1>6 DEF WriteError
    <2> QED
        BY <1>2, <2>1, <2>2
<1>7. CASE UNCHANGED vars
    <2>1. disk' = disk /\ tbl' = tbl /\ dirty' = dirty /\ pc' = pc /\ faults' = faults
        BY <1>7 DEF vars
    <2> QED
        BY <2>1
<1> QED
    BY <1>1, <1>2, <1>3, <1>4, <1>5, <1>6, <1>7
    DEF Next, Quit, VerbFails, VerbLabel, VerbNew, VerbDelete, VerbBoot, VerbType, Crash

\* "Table written." is the truth: with nothing unsaved, the next session reads
\* the table that is in memory, except over a GPT header that a dos label left
\* behind, or after a write that was cut.
THEOREM WrittenIsReloadedHolds == Roomy => (Spec => []WrittenIsReloadedUnlessStale)
<1> SUFFICES ASSUME Roomy PROVE Spec => []WrittenIsReloadedUnlessStale
    OBVIOUS
<1>1. Init => SavedInv
    BY DEF Init, SavedInv, WrittenIsReloadedUnlessStale, WrittenIsReloaded
<1>2. FdiskInv /\ SavedInv /\ [Next]_vars => SavedInv'
    BY SavedStep
<1>3. SavedInv => WrittenIsReloadedUnlessStale
    BY DEF SavedInv
<1>4. Spec => []FdiskInv
    BY Invariance
<1> QED
    BY <1>1, <1>2, <1>3, <1>4, PTL DEF Spec

-----------------------------------------------------------------------------
(* A GPT write as the update of one cell                                   *)

\* The copy a header stands for: its entries when their CRC fits.
LEMMA CopyIs ==
    ASSUME NEW d, NEW lba
    PROVE  CopyAt(d, lba) =
                IF d[lba].kind = "hdr" /\ d[lba].crc = EntsAt(d, d[lba].entLba)
                THEN {d[lba].crc} ELSE {}
    BY DEF CopyAt

\* A copy changes only with its header or its entry sectors.
LEMMA EntsFrame ==
    ASSUME NEW d, NEW e, NEW lba \in Nat,
           \A l \in lba .. lba + EntrySectors - 1 : e[l] = d[l]
    PROVE  EntsAt(e, lba) = EntsAt(d, lba)
<1>1. \A i \in 1 .. GptMax : e[lba + ((i - 1) \div PerSector)]
                            = d[lba + ((i - 1) \div PerSector)]
    <2> SUFFICES ASSUME NEW i \in 1 .. GptMax
                 PROVE  e[lba + ((i - 1) \div PerSector)] = d[lba + ((i - 1) \div PerSector)]
        OBVIOUS
    <2>1. (i - 1) \div PerSector \in 0 .. EntrySectors - 1
        BY EntryPosition
    <2>2. lba + ((i - 1) \div PerSector) \in lba .. lba + EntrySectors - 1
        BY <2>1, PtabAssumption
    <2> QED
        BY <2>2
<1> QED
    BY <1>1 DEF EntsAt

LEMMA CopyFrame ==
    ASSUME NEW d, NEW e, NEW lba, e[lba] = d[lba],
           d[lba].kind = "hdr" =>
                /\ d[lba].entLba \in Nat
                /\ \A l \in d[lba].entLba .. d[lba].entLba + EntrySectors - 1 : e[l] = d[l]
    PROVE  CopyAt(e, lba) = CopyAt(d, lba)
<1>1. d[lba].kind = "hdr" => EntsAt(e, d[lba].entLba) = EntsAt(d, d[lba].entLba)
    BY EntsFrame
<1> QED
    BY <1>1, CopyIs

\* With the new header out, the primary copy is the new one or none.
LEMMA NewHeader ==
    ASSUME NEW d, NEW t, d[1] = HdrSector(gpt_entries(t), 2)
    PROVE  Primary(d) = IF EntsAt(d, 2) = gpt_entries(t) THEN {gpt_entries(t)} ELSE {}
<1>1. d[1].kind = "hdr" /\ d[1].crc = gpt_entries(t) /\ d[1].entLba = 2
    BY DEF HdrSector
<1> QED
    BY <1>1, CopyIs DEF Primary

\* Writing a sector of the entries that are there already changes none.
LEMMA StaysWhole ==
    ASSUME NEW t, NEW d, NEW e, NEW k \in 1 .. EntrySectors,
           EntsAt(d, 2) = gpt_entries(t),
           e[k + 1] = EntSector(gpt_entries(t), k),
           \A l \in 2 .. 1 + EntrySectors : l # k + 1 => e[l] = d[l]
    PROVE  EntsAt(e, 2) = gpt_entries(t)
<1> USE PtabAssumption
<1> DEFINE Slot(a, i) == SlotOf(a[2 + ((i - 1) \div PerSector)], ((i - 1) % PerSector) + 1)
<1>1. \A i \in 1 .. GptMax : EntsAt(d, 2)[i] = Slot(d, i)
    BY DEF EntsAt
<1>2. ASSUME NEW i \in 1 .. GptMax PROVE Slot(e, i) = gpt_entries(t)[i]
    <2> DEFINE q == (i - 1) \div PerSector
               r == (i - 1) % PerSector
    <2>1. q \in 0 .. EntrySectors - 1 /\ r \in 0 .. PerSector - 1 /\ q * PerSector + r = i - 1
        BY EntryPosition
    <2>2. Slot(d, i) = gpt_entries(t)[i]
        BY <1>1
    <2>3. Slot(e, i) = SlotOf(e[2 + q], r + 1) /\ Slot(d, i) = SlotOf(d[2 + q], r + 1)
        OBVIOUS
    <2> HIDE DEF q, r, Slot
    <2>4. CASE q = k - 1
        <3>1. 2 + q = k + 1 /\ k = q + 1 /\ q \in Nat /\ r + 1 \in 1 .. PerSector
            BY <2>1, <2>4
        <3>2. e[2 + q] = EntSector(gpt_entries(t), q + 1)
            BY <3>1
        <3>3. /\ EntSector(gpt_entries(t), q + 1).kind = "ents"
              /\ EntSector(gpt_entries(t), q + 1).slice[r + 1]
                    = gpt_entries(t)[q * PerSector + (r + 1)]
            BY <3>1, EntSlice
        <3>4. q * PerSector + (r + 1) = i
            <4>1. q * PerSector \in Nat /\ i \in Nat
                BY <2>1, GptMaxNat
            <4> QED
                BY <2>1, <4>1
        <3>5. SlotOf(e[2 + q], r + 1) = e[2 + q].slice[r + 1]
            BY <3>2, <3>3 DEF SlotOf
        <3> QED
            BY <2>3, <3>2, <3>3, <3>4, <3>5
    <2>5. CASE q # k - 1
        <3>1. 2 + q \in 2 .. 1 + EntrySectors /\ 2 + q # k + 1
            BY <2>1, <2>5
        <3>2. e[2 + q] = d[2 + q]
            BY <3>1
        <3> QED
            BY <2>2, <2>3, <3>2
    <2> QED
        BY <2>4, <2>5
<1>3. EntsAt(e, 2) = [i \in 1 .. GptMax |-> Slot(e, i)]
    BY DEF EntsAt
<1> HIDE DEF Slot
<1>4. EntsAt(e, 2) = [i \in 1 .. GptMax |-> gpt_entries(t)[i]]
    BY <1>2, <1>3
<1> QED
    BY <1>4 DEF gpt_entries

\* Once the primary half of the plan is out, the primary copy is the new one.
LEMMA PrimaryWhole ==
    ASSUME Roomy, GoodTable(tbl), tbl.label = "gpt", NEW d,
           \A k \in 2 .. 2 + EntrySectors : d[k - 1] = PlanSector(tbl, k)
    PROVE  Primary(d) = {gpt_entries(tbl)}
<1>1. EntsAt(d, 2) = DiskEnts(d)
    BY DEF EntsAt, DiskEnts
<1>2. DiskEnts(d) = gpt_entries(tbl)
    BY ReadBack
<1>3. d[1] = HdrSector(gpt_entries(tbl), 2)
    <2>1. 2 \in 2 .. 2 + EntrySectors
        BY PtabAssumption
    <2>2. d[2 - 1] = PlanSector(tbl, 2)
        BY <2>1
    <2> QED
        BY <2>2 DEF PlanSector
<1> QED
    BY <1>1, <1>2, <1>3, NewHeader

\* The header sectors are no entry sectors, so both copies outlive a write to
\* any other sector.
LEMMA BackupFrame ==
    ASSUME Roomy, FdiskInv, DependableInv, NEW e,
           \A l \in 0 .. Capacity - 1 : l = Capacity - 1 \/ l \in 2 .. 1 + EntrySectors
                \/ l \in Capacity - 1 - EntrySectors .. Capacity - 2 => e[l] = disk[l]
    PROVE  Backup(e) = Backup(disk)
<1> USE PtabAssumption DEF Roomy
<1> DEFINE h == disk[Capacity - 1]
<1>1. e[Capacity - 1] = h
    OBVIOUS
<1>2. ASSUME h.kind = "hdr"
      PROVE  /\ h.entLba \in Nat
             /\ \A l \in h.entLba .. h.entLba + EntrySectors - 1 : e[l] = disk[l]
    <2>1. h.entLba \in {2, Capacity - 1 - EntrySectors}
        BY <1>2 DEF DependableInv
    <2> HIDE DEF h
    <2>2. CASE h.entLba = 2
        BY <2>2
    <2>3. CASE h.entLba = Capacity - 1 - EntrySectors
        BY <2>3
    <2> QED
        BY <2>1, <2>2, <2>3
<1> QED
    BY <1>1, <1>2, CopyFrame DEF Backup

LEMMA PrimaryFrame ==
    ASSUME Roomy, DependableInv, NEW e,
           \A l \in 1 .. 1 + EntrySectors : e[l] = disk[l]
    PROVE  Primary(e) = Primary(disk)
<1> USE PtabAssumption DEF Roomy
<1>1. e[1] = disk[1]
    OBVIOUS
<1>2. ASSUME disk[1].kind = "hdr"
      PROVE  /\ disk[1].entLba \in Nat
             /\ \A l \in disk[1].entLba .. disk[1].entLba + EntrySectors - 1 : e[l] = disk[l]
    <2>1. disk[1].entLba = 2
        BY <1>2 DEF DependableInv
    <2> QED
        BY <2>1
<1> QED
    BY <1>1, <1>2, CopyFrame DEF Primary

\* What a step may be, as far as the disk is concerned.
LEMMA StepKinds ==
    ASSUME [Next]_vars
    PROVE  \/ UNCHANGED vars
           \/ /\ pc # "writing" /\ disk' = disk /\ faults' = faults
              /\ pc' = "writing" => tbl' = tbl /\ wpos' = 1
           \/ WriteSector
           \/ /\ pc = "writing" /\ disk' = disk /\ faults' = faults + 1
              /\ pc' # "writing"
<1>1. ASSUME Gone PROVE disk' = disk /\ pc' # "writing"
    BY <1>1 DEF Gone
<1>2. ASSUME NEW verb, NEW t, Edit(verb, t)
      PROVE  pc # "writing" /\ pc' # "writing" /\ disk' = disk /\ faults' = faults
    BY <1>2 DEF Edit
<1>3. CASE VerbWrite
    BY <1>3 DEF VerbWrite, session
<1>4. CASE WriteError \/ Crash
    BY <1>1, <1>4 DEF WriteError, Crash
<1>5. ASSUME NEW m \in Modes, Start(m)
      PROVE  pc # "writing" /\ pc' # "writing" /\ disk' = disk /\ faults' = faults
    BY <1>5 DEF Start
<1>6. CASE Quit \/ VerbFails
    BY <1>1, <1>6 DEF Quit, VerbFails
<1>7. ASSUME NEW n, VerbBoot(n)
      PROVE  pc # "writing" /\ pc' # "writing" /\ disk' = disk /\ faults' = faults
    BY <1>1, <1>2, <1>7 DEF VerbBoot
<1> QED
    BY <1>2, <1>3, <1>4, <1>5, <1>6, <1>7
    DEF Next, VerbLabel, VerbNew, VerbDelete, VerbType

\* What WriteSector does to a disk on which a GPT is being written.
LEMMA GptSector ==
    ASSUME Roomy, FdiskInv, WriteSector, tbl.label = "gpt"
    PROVE  /\ WritingGpt /\ GoodTable(tbl) /\ tbl' = tbl /\ faults' = faults
           /\ wpos \in 1 .. 3 + 2 * EntrySectors
           /\ IF wpos = 3 + 2 * EntrySectors THEN ~ WritingGpt'
              ELSE WritingGpt' /\ wpos' = wpos + 1
           /\ \A l \in 0 .. Capacity - 1 :
                disk'[l] = IF l = PlanLba(tbl, wpos) THEN PlanSector(tbl, wpos) ELSE disk[l]
           /\ wpos <= 2 + EntrySectors => PlanLba(tbl, wpos) = wpos - 1
           /\ wpos > 2 + EntrySectors =>
                PlanLba(tbl, wpos) = Capacity - 1 - EntrySectors + (wpos - 3 - EntrySectors)
<1> USE PtabAssumption DEF Roomy
<1>1. GoodTable(tbl) /\ WriteAllowed(tbl) /\ wpos \in 1 .. PlanLen(tbl)
    BY InvTable DEF FdiskInv, WriteInProgress, WriteSector
<1>2. PlanLen(tbl) = 3 + 2 * EntrySectors
    BY DEF PlanLen
<1>3. PlanLba(tbl, wpos) \in 0 .. Capacity - 1
    BY <1>1, PlanStep DEF StepOk
<1>4. disk' = [disk EXCEPT ![PlanLba(tbl, wpos)] = PlanSector(tbl, wpos)]
      /\ disk \in [0 .. Capacity - 1 -> Sector]
    BY DEF WriteSector, FdiskInv, TypeOK
<1>5. \A l \in 0 .. Capacity - 1 :
            disk'[l] = IF l = PlanLba(tbl, wpos) THEN PlanSector(tbl, wpos) ELSE disk[l]
    BY <1>3, <1>4
<1>6. WritingGpt /\ tbl' = tbl /\ faults' = faults
    BY DEF WritingGpt, WriteSector
<1>7. IF wpos = 3 + 2 * EntrySectors THEN ~ WritingGpt' ELSE WritingGpt' /\ wpos' = wpos + 1
    BY <1>2, <1>6 DEF WriteSector, WritingGpt
<1>8. /\ wpos <= 2 + EntrySectors => PlanLba(tbl, wpos) = wpos - 1
      /\ wpos > 2 + EntrySectors =>
            PlanLba(tbl, wpos) = Capacity - 1 - EntrySectors + (wpos - 3 - EntrySectors)
    BY <1>1, <1>2 DEF PlanLba
<1> QED
    BY <1>1, <1>2, <1>5, <1>6, <1>7, <1>8

\* A dos write touches sector 0 only.
LEMMA MbrSectorStep ==
    ASSUME Roomy, FdiskInv, WriteSector, tbl.label = "mbr"
    PROVE  /\ tbl' = tbl /\ faults' = faults /\ ~ WritingGpt /\ ~ WritingGpt'
           /\ \A l \in 1 .. Capacity - 1 : disk'[l] = disk[l]
<1> USE PtabAssumption DEF Roomy
<1>1. wpos = 1
    BY DEF FdiskInv, WriteInProgress, WriteSector, PlanLen
<1>2. PlanLba(tbl, wpos) = 0
    BY <1>1 DEF PlanLba
<1> QED
    BY <1>2 DEF WriteSector, WritingGpt, FdiskInv, TypeOK

LEMMA WritesLabelled == ASSUME FdiskInv, WriteSector PROVE tbl.label = "mbr" \/ tbl.label = "gpt"
    BY DEF FdiskInv, WriteInProgress, WriteSector, WriteAllowed

\* What the two header sectors hold after a sector of a GPT write.
LEMMA HeadersWritten ==
    ASSUME Roomy, FdiskInv, WriteSector, tbl.label = "gpt"
    PROVE  /\ IF wpos = 2 THEN disk'[1] = HdrSector(gpt_entries(tbl), 2)
              ELSE disk'[1] = disk[1]
           /\ IF wpos = 3 + 2 * EntrySectors
              THEN disk'[Capacity - 1] = HdrSector(gpt_entries(tbl), 2)
              ELSE disk'[Capacity - 1] = disk[Capacity - 1]
<1> USE PtabAssumption DEF Roomy
<1> DEFINE lba == PlanLba(tbl, wpos)
           s == PlanSector(tbl, wpos)
<1>1. /\ wpos \in 1 .. 3 + 2 * EntrySectors
      /\ \A l \in 0 .. Capacity - 1 : disk'[l] = IF l = lba THEN s ELSE disk[l]
      /\ wpos <= 2 + EntrySectors => lba = wpos - 1
      /\ wpos > 2 + EntrySectors =>
                lba = Capacity - 1 - EntrySectors + (wpos - 3 - EntrySectors)
    BY GptSector
<1>2. wpos = 2 \/ wpos = 3 + 2 * EntrySectors => s = HdrSector(gpt_entries(tbl), 2)
    BY DEF PlanSector, PlanLen
<1> HIDE DEF lba, s
<1>3. 1 \in 0 .. Capacity - 1 /\ Capacity - 1 \in 0 .. Capacity - 1
    OBVIOUS
<1>4. lba = 1 <=> wpos = 2
    BY <1>1
<1>5. lba = Capacity - 1 <=> wpos = 3 + 2 * EntrySectors
    BY <1>1
<1> QED
    BY <1>1, <1>2, <1>3, <1>4, <1>5

\* What cannot be relied on stays so: a finished write leaves a backup header
\* that leads to the primary entries.
LEMMA HurtStays ==
    ASSUME Roomy, FdiskInv, [Next]_vars
    PROVE  /\ Hurt => Hurt'
           /\ faults' = faults /\ disk' = disk => Hurt' = Hurt
           /\ WriteSector /\ tbl.label = "gpt" =>
                IF wpos = 3 + 2 * EntrySectors THEN Hurt' ELSE Hurt' = Hurt
           /\ WriteSector /\ tbl.label = "mbr" => Hurt' = Hurt
<1> USE PtabAssumption DEF Roomy
<1>1. faults \in Nat
    BY DEF FdiskInv, TypeOK
<1>2. faults' = faults /\ disk' = disk => Hurt' = Hurt
    BY DEF Hurt
<1>3. ASSUME WriteSector, tbl.label = "gpt"
      PROVE  IF wpos = 3 + 2 * EntrySectors THEN Hurt' ELSE Hurt' = Hurt
    <2>1. faults' = faults
        BY <1>3, GptSector
    <2>2. CASE wpos = 3 + 2 * EntrySectors
        <3>1. disk'[Capacity - 1] = HdrSector(gpt_entries(tbl), 2)
            BY <1>3, <2>2, HeadersWritten
        <3>2. disk'[Capacity - 1].kind = "hdr" /\ disk'[Capacity - 1].entLba = 2
            BY <3>1 DEF HdrSector
        <3>3. 2 # Capacity - 1 - EntrySectors
            OBVIOUS
        <3> QED
            BY <2>2, <3>2, <3>3 DEF Hurt
    <2>3. CASE wpos # 3 + 2 * EntrySectors
        <3>1. disk'[Capacity - 1] = disk[Capacity - 1]
            BY <1>3, <2>3, HeadersWritten
        <3> QED
            BY <2>1, <2>3, <3>1 DEF Hurt
    <2> QED
        BY <2>2, <2>3
<1>4. ASSUME WriteSector, tbl.label = "mbr" PROVE Hurt' = Hurt
    <2>1. faults' = faults /\ disk'[Capacity - 1] = disk[Capacity - 1]
        BY <1>4, MbrSectorStep
    <2> QED
        BY <2>1 DEF Hurt
<1>5. ASSUME Hurt PROVE Hurt'
    <2>1. CASE UNCHANGED vars
        BY <1>2, <1>5, <2>1 DEF vars
    <2>2. CASE faults' = faults /\ disk' = disk
        BY <1>2, <1>5, <2>2
    <2>3. CASE WriteSector
        BY <1>3, <1>4, <1>5, <2>3, WritesLabelled
    <2>4. CASE faults' = faults + 1
        BY <1>1, <2>4 DEF Hurt
    <2> QED
        BY <2>1, <2>2, <2>3, <2>4, StepKinds
<1> QED
    BY <1>2, <1>3, <1>4, <1>5

LEMMA DependableStep ==
    ASSUME Roomy, FdiskInv, DependableInv, [Next]_vars
    PROVE  DependableInv'
<1> USE PtabAssumption DEF Roomy
<1> DEFINE Lead(d) ==
        /\ d[1].kind = "hdr" => d[1].entLba = 2
        /\ d[Capacity - 1].kind = "hdr" =>
                d[Capacity - 1].entLba \in {2, Capacity - 1 - EntrySectors}
<1>1. Lead(disk) /\ (~ Hurt /\ ~ (WritingGpt /\ wpos > 2) => CopiesAgree(disk))
    BY DEF DependableInv
<1>2. SUFFICES /\ Lead(disk')
               /\ ~ Hurt' /\ ~ (WritingGpt' /\ wpos' > 2) => CopiesAgree(disk')
    BY DEF DependableInv, CopiesAgree, Primary, Backup, CopyAt, EntsAt
<1>3. Hurt => Hurt'
    BY HurtStays
<1>4. CASE UNCHANGED vars
    <2>1. disk' = disk /\ wpos' = wpos /\ tbl' = tbl /\ pc' = pc
        BY <1>4 DEF vars
    <2> QED
        BY <1>1, <1>3, <2>1 DEF WritingGpt
<1>5. CASE /\ pc # "writing" /\ disk' = disk /\ faults' = faults
           /\ pc' = "writing" => tbl' = tbl /\ wpos' = 1
    BY <1>1, <1>3, <1>5 DEF WritingGpt
<1>6. CASE disk' = disk /\ faults' = faults + 1
    <2>1. Hurt'
        BY <1>6 DEF Hurt, FdiskInv, TypeOK
    <2> QED
        BY <1>1, <1>6, <2>1
<1>7. CASE WriteSector /\ tbl.label = "mbr"
    <2>1. ~ WritingGpt /\ ~ WritingGpt' /\ \A l \in 1 .. Capacity - 1 : disk'[l] = disk[l]
        BY <1>7, MbrSectorStep
    <2>2. Primary(disk') = Primary(disk)
        BY <2>1, PrimaryFrame
    <2>3. Backup(disk') = Backup(disk)
        BY <2>1, BackupFrame
    <2> QED
        BY <1>1, <1>3, <2>1, <2>2, <2>3 DEF CopiesAgree
<1>8. CASE WriteSector /\ tbl.label = "gpt"
    <2>1. /\ wpos \in 1 .. 3 + 2 * EntrySectors
          /\ IF wpos = 3 + 2 * EntrySectors THEN ~ WritingGpt'
             ELSE WritingGpt' /\ wpos' = wpos + 1
          /\ \A l \in 0 .. Capacity - 1 :
                disk'[l] = IF l = PlanLba(tbl, wpos) THEN PlanSector(tbl, wpos) ELSE disk[l]
          /\ wpos <= 2 + EntrySectors => PlanLba(tbl, wpos) = wpos - 1
        BY <1>8, GptSector
    <2>2. disk'[1] = disk[1] \/ disk'[1] = HdrSector(gpt_entries(tbl), 2)
        BY <1>8, HeadersWritten
    <2>3. \/ disk'[Capacity - 1] = disk[Capacity - 1]
          \/ disk'[Capacity - 1] = HdrSector(gpt_entries(tbl), 2)
        BY <1>8, HeadersWritten
    <2>4. Lead(disk')
        BY <1>1, <2>2, <2>3 DEF HdrSector
    <2>5. CASE wpos = 3 + 2 * EntrySectors
        <3>1. Hurt'
            BY <1>8, <2>5, HurtStays
        <3> QED
            BY <2>4, <3>1
    <2>6. CASE wpos # 3 + 2 * EntrySectors /\ wpos > 1
        BY <2>1, <2>4, <2>6
    <2>7. CASE wpos = 1
        <3>1. PlanLba(tbl, wpos) = 0
            BY <2>1, <2>7
        <3>2. \A l \in 1 .. Capacity - 1 : disk'[l] = disk[l]
            BY <2>1, <3>1
        <3>3. Primary(disk') = Primary(disk)
            BY <3>2, PrimaryFrame
        <3>4. Backup(disk') = Backup(disk)
            BY <3>2, BackupFrame
        <3> QED
            BY <1>1, <1>3, <2>4, <2>7, <3>3, <3>4 DEF CopiesAgree
    <2> QED
        BY <2>1, <2>5, <2>6, <2>7
<1> HIDE DEF Lead
<1> QED
    BY <1>4, <1>5, <1>6, <1>7, <1>8, StepKinds, WritesLabelled

\* A sector of a GPT write, in the middle of it, on a disk that is not hurt:
\* a reader finds what it found, or the new table.
LEMMA OldOrNew ==
    ASSUME Roomy, FdiskInv, DependableInv, WriteSector, tbl.label = "gpt",
           wpos # 3 + 2 * EntrySectors, ~ Hurt
    PROVE  \/ CheckedTable(disk') = CheckedTable(disk)
           \/ CheckedTable(disk') = {gpt_entries(tbl)}
<1> USE PtabAssumption DEF Roomy
<1> DEFINE new == gpt_entries(tbl)
           lba == PlanLba(tbl, wpos)
           s == PlanSector(tbl, wpos)
<1>1. /\ WritingGpt /\ GoodTable(tbl)
      /\ wpos \in 1 .. 2 + 2 * EntrySectors
      /\ \A l \in 0 .. Capacity - 1 : disk'[l] = IF l = lba THEN s ELSE disk[l]
      /\ wpos <= 2 + EntrySectors => lba = wpos - 1
      /\ wpos > 2 + EntrySectors =>
                lba = Capacity - 1 - EntrySectors + (wpos - 3 - EntrySectors)
    BY GptSector
<1>2. \A k \in 2 .. 2 + EntrySectors : k < wpos => disk[k - 1] = PlanSector(tbl, k)
    BY <1>1 DEF FdiskInv, PrefixWritten
<1>3. CASE wpos = 1
    <2>1. \A l \in 1 .. Capacity - 1 : disk'[l] = disk[l]
        BY <1>1, <1>3
    <2>2. Primary(disk') = Primary(disk) /\ Backup(disk') = Backup(disk)
        BY <2>1, PrimaryFrame, BackupFrame
    <2> QED
        BY <2>2 DEF CheckedTable
<1>4. CASE wpos \in 2 .. 2 + EntrySectors
    <2>1. disk'[1] = HdrSector(new, 2)
        <3>1. CASE wpos = 2
            BY <3>1, HeadersWritten
        <3>2. CASE wpos # 2
            <4>1. 2 \in 2 .. 2 + EntrySectors /\ 2 < wpos
                BY <1>4, <3>2
            <4>2. disk[2 - 1] = PlanSector(tbl, 2)
                BY <1>2, <4>1
            <4>3. disk[1] = HdrSector(new, 2)
                BY <4>2 DEF PlanSector
            <4> QED
                BY <3>2, <4>3, HeadersWritten
        <3> QED
            BY <3>1, <3>2
    <2>2. Primary(disk') = {new} \/ Primary(disk') = {}
        BY <2>1, NewHeader
    <2>3. \A l \in Capacity - 1 - EntrySectors .. Capacity - 1 :
                l \in 0 .. Capacity - 1 /\ disk'[l] = disk[l]
        BY <1>1, <1>4
    <2>4. ASSUME disk[Capacity - 1].kind = "hdr"
          PROVE  disk[Capacity - 1].entLba = Capacity - 1 - EntrySectors
        BY <2>4 DEF Hurt
    <2>5. Backup(disk') = Backup(disk)
        <3>1. disk'[Capacity - 1] = disk[Capacity - 1]
            BY <2>3
        <3>2. ASSUME disk[Capacity - 1].kind = "hdr"
              PROVE  /\ disk[Capacity - 1].entLba \in Nat
                     /\ \A l \in disk[Capacity - 1].entLba ..
                                 disk[Capacity - 1].entLba + EntrySectors - 1 :
                            disk'[l] = disk[l]
            BY <2>3, <2>4, <3>2
        <3> QED
            BY <3>1, <3>2, CopyFrame DEF Backup
    <2>6. CASE wpos = 2
        <3>1. CopiesAgree(disk)
            BY <2>6 DEF DependableInv
        <3>2. CheckedTable(disk) = Backup(disk)
            BY <3>1 DEF CheckedTable, CopiesAgree
        <3> QED
            BY <2>2, <2>5, <3>2 DEF CheckedTable
    <2>7. CASE wpos > 2
        <3>1. disk[1] = HdrSector(new, 2)
            BY <2>1, <2>7, HeadersWritten
        <3>2. Primary(disk) = IF EntsAt(disk, 2) = new THEN {new} ELSE {}
            BY <3>1, NewHeader
        <3>3. ASSUME EntsAt(disk, 2) = new PROVE EntsAt(disk', 2) = new
            <4>1. wpos - 2 \in 1 .. EntrySectors /\ lba = (wpos - 2) + 1
                BY <1>1, <1>4, <2>7
            <4>2. s = EntSector(new, wpos - 2)
                BY <1>4, <2>7 DEF PlanSector, PlanLen
            <4>3. lba \in 0 .. Capacity - 1
                BY <4>1
            <4> HIDE DEF lba, s, new
            <4>4. disk'[(wpos - 2) + 1] = EntSector(new, wpos - 2)
                BY <1>1, <4>1, <4>2, <4>3
            <4>5. \A l \in 2 .. 1 + EntrySectors :
                        l # (wpos - 2) + 1 => disk'[l] = disk[l]
                BY <1>1, <4>1
            <4> QED
                BY <3>3, <4>1, <4>4, <4>5, StaysWhole DEF new
        <3>4. Primary(disk') = IF EntsAt(disk', 2) = new THEN {new} ELSE {}
            BY <2>1, NewHeader
        <3>5. CASE EntsAt(disk', 2) = new
            BY <3>4, <3>5 DEF CheckedTable
        <3>6. CASE EntsAt(disk', 2) # new
            <4>1. Primary(disk) = {} /\ Primary(disk') = {}
                BY <3>2, <3>3, <3>4, <3>6
            <4> QED
                BY <2>5, <4>1 DEF CheckedTable
        <3> QED
            BY <3>5, <3>6
    <2> QED
        BY <1>4, <2>6, <2>7
<1>5. CASE wpos > 2 + EntrySectors
    <2>1. \A k \in 2 .. 2 + EntrySectors :
                k - 1 \in 0 .. Capacity - 1 /\ k - 1 # lba /\ disk[k - 1] = PlanSector(tbl, k)
        BY <1>1, <1>2, <1>5
    <2>2. \A k \in 2 .. 2 + EntrySectors : disk'[k - 1] = PlanSector(tbl, k)
        BY <1>1, <2>1
    <2>3. Primary(disk') = {new}
        BY <1>1, <2>2, PrimaryWhole
    <2> QED
        BY <2>3 DEF CheckedTable
<1> QED
    BY <1>1, <1>3, <1>4, <1>5

\* The last sector of a GPT write leaves the new table, and nothing to fall
\* back on.
LEMMA NewAtTheEnd ==
    ASSUME Roomy, FdiskInv, WriteSector, tbl.label = "gpt", wpos = 3 + 2 * EntrySectors
    PROVE  CheckedTable(disk') = {gpt_entries(tbl)}
<1> USE PtabAssumption DEF Roomy
<1>1. /\ WritingGpt /\ GoodTable(tbl)
      /\ \A l \in 0 .. Capacity - 1 :
            disk'[l] = IF l = PlanLba(tbl, wpos) THEN PlanSector(tbl, wpos) ELSE disk[l]
      /\ wpos > 2 + EntrySectors =>
            PlanLba(tbl, wpos) = Capacity - 1 - EntrySectors + (wpos - 3 - EntrySectors)
    BY GptSector
<1>2. PlanLba(tbl, wpos) = Capacity - 1
    BY <1>1
<1>3. \A k \in 2 .. 2 + EntrySectors : disk[k - 1] = PlanSector(tbl, k)
    BY <1>1 DEF FdiskInv, PrefixWritten
<1>4. \A k \in 2 .. 2 + EntrySectors : k - 1 \in 0 .. Capacity - 1 /\ k - 1 # Capacity - 1
    OBVIOUS
<1>5. \A k \in 2 .. 2 + EntrySectors : disk'[k - 1] = PlanSector(tbl, k)
    BY <1>1, <1>2, <1>3, <1>4
<1>6. Primary(disk') = {gpt_entries(tbl)}
    BY <1>1, <1>5, PrimaryWhole
<1> QED
    BY <1>6 DEF CheckedTable

LEMMA CellStep ==
    ASSUME Roomy, FdiskInv, DependableInv, [Next]_vars
    PROVE  [Cell!Next]_<<CheckedTable(disk), Target, Hurt>>
<1> USE PtabAssumption
<1> USE DEF Cell!Next, Cell!Begin, Cell!Commit, Cell!Flux, Cell!Finish, Cell!Cut, Cell!Doubt
<1>1. disk' = disk => CheckedTable(disk)' = CheckedTable(disk)
    BY DEF CheckedTable, Primary, Backup, CopyAt, EntsAt
<1>2. CheckedTable(disk') = CheckedTable(disk)'
    BY DEF CheckedTable, Primary, Backup, CopyAt, EntsAt
<1>3. CASE UNCHANGED vars
    <2>1. disk' = disk /\ faults' = faults /\ tbl' = tbl /\ pc' = pc
        BY <1>3 DEF vars
    <2>2. Target' = Target
        BY <2>1 DEF Target, WritingGpt
    <2> QED
        BY <1>1, <2>1, <2>2, HurtStays
<1>4. CASE /\ pc # "writing" /\ disk' = disk /\ faults' = faults
           /\ pc' = "writing" => tbl' = tbl /\ wpos' = 1
    <2>1. Target = {}
        BY <1>4 DEF Target, WritingGpt
    <2>2. Hurt' = Hurt
        BY <1>4, HurtStays
    <2> QED
        BY <1>1, <1>4, <2>1, <2>2
<1>5. CASE pc = "writing" /\ disk' = disk /\ faults' = faults + 1 /\ pc' # "writing"
    <2>1. Target' = {}
        BY <1>5 DEF Target, WritingGpt
    <2>2. Hurt'
        BY <1>5 DEF Hurt, FdiskInv, TypeOK
    <2>3. Hurt' = TRUE
        BY <2>2 DEF Hurt
    <2> QED
        BY <1>1, <1>5, <2>1, <2>3
<1>6. CASE WriteSector /\ tbl.label = "mbr"
    <2>1. ~ WritingGpt /\ ~ WritingGpt' /\ \A l \in 1 .. Capacity - 1 : disk'[l] = disk[l]
        BY <1>6, MbrSectorStep
    <2>2. Target = {} /\ Target' = {}
        BY <2>1 DEF Target
    <2>3. Primary(disk') = Primary(disk)
        BY <2>1, PrimaryFrame DEF Roomy
    <2>4. Backup(disk') = Backup(disk)
        BY <2>1, BackupFrame DEF Roomy
    <2>5. CheckedTable(disk') = CheckedTable(disk)
        BY <2>3, <2>4 DEF CheckedTable
    <2>6. Hurt' = Hurt
        BY <1>6, HurtStays
    <2> QED
        BY <1>2, <2>2, <2>5, <2>6
<1>7. CASE WriteSector /\ tbl.label = "gpt"
    <2>1. /\ WritingGpt /\ tbl' = tbl
          /\ IF wpos = 3 + 2 * EntrySectors THEN ~ WritingGpt' ELSE WritingGpt'
        BY <1>7, GptSector
    <2>2. Target = {gpt_entries(tbl)} /\ Target # {}
        BY <2>1 DEF Target
    <2>3. CASE wpos = 3 + 2 * EntrySectors
        <3>1. Target' = {} /\ CheckedTable(disk') = Target
            BY <1>7, <2>1, <2>2, <2>3, NewAtTheEnd DEF Target
        <3>2. Hurt'
            BY <1>7, <2>3, HurtStays
        <3> QED
            BY <1>2, <2>2, <3>1, <3>2
    <2>4. CASE wpos # 3 + 2 * EntrySectors
        <3>1. Target' = Target
            BY <2>1, <2>4 DEF Target, gpt_entries
        <3>2. Hurt' = Hurt
            BY <1>7, <2>4, HurtStays
        <3>3. CASE Hurt
            BY <2>2, <3>1, <3>2, <3>3
        <3>4. CASE ~ Hurt
            <4>1. \/ CheckedTable(disk') = CheckedTable(disk)
                  \/ CheckedTable(disk') = Target
                BY <1>7, <2>2, <2>4, <3>4, OldOrNew
            <4> QED
                BY <1>2, <2>2, <3>1, <3>2, <4>1
        <3> QED
            BY <3>3, <3>4
    <2> QED
        BY <2>3, <2>4
<1> QED
    BY <1>3, <1>4, <1>5, <1>6, <1>7, StepKinds, WritesLabelled

\* The first disk is a label as other tools write it, or none.
Dependable == \A d \in InitDisks : DependableDisk(d)

\* A GPT write is the update of one cell: whoever checks the CRCs finds the old
\* table or the new one after every sector and every cut, on a disk whose
\* backup header leads to backup entries, until a write is finished or cut.
THEOREM WriteIsAtomic == Roomy /\ Dependable => (Spec => AtomicWrite)
<1> SUFFICES ASSUME Roomy, Dependable PROVE Spec => AtomicWrite
    OBVIOUS
<1>1. Init => DependableInv /\ Cell!Init
    <2> SUFFICES ASSUME Init PROVE DependableInv /\ Cell!Init
        OBVIOUS
    <2>1. DependableDisk(disk) /\ faults = 0 /\ pc = "off"
        BY DEF Init, Dependable
    <2>2. ~ Hurt /\ Target = {}
        BY <2>1 DEF Hurt, Target, WritingGpt, DependableDisk
    <2>3. Hurt = FALSE
        BY <2>2 DEF Hurt
    <2> QED
        BY <2>1, <2>2, <2>3 DEF DependableInv, DependableDisk, Cell!Init
<1>2. FdiskInv /\ DependableInv /\ [Next]_vars => DependableInv'
    BY DependableStep
<1>3. FdiskInv /\ DependableInv /\ [Next]_vars
        => [Cell!Next]_<<CheckedTable(disk), Target, Hurt>>
    BY CellStep
<1>4. Spec => []FdiskInv
    BY Invariance
<1> QED
    BY <1>1, <1>2, <1>3, <1>4, PTL DEF Spec, AtomicWrite, Cell!Spec
=============================================================================
