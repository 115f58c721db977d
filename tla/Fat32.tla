------------------------------- MODULE Fat32 -------------------------------
(***************************************************************************)
(* mkfs.fat32 (mkfs.fat32/main.c, fat32_fmt.c): the cluster size and the   *)
(* size of the FAT that fit a volume, and the writes in their order.  The  *)
(* constants keep the proportions of the code.                             *)
(***************************************************************************)
EXTENDS Device, Sequences, FiniteSets

CONSTANTS Reserved,        \* F32_RESERVED: 32 sectors
          Fats,            \* F32_NUM_FATS: 2
          PerSector,       \* entries of a FAT sector: 128
          MinClusters,     \* 65525
          MaxClusters,     \* 0x0FFFFFF5
          MaxSpc,          \* 64 sectors, a cluster of 32768 bytes
          MinSectors,      \* 64
          Word,            \* 2^32: what a field of the boot sector counts up to
          F32Devices,
          Labels           \* volume labels; NoLabel is none
NoLabel == ""

\* The sectors that are always written come before the FATs.  Files are
\* addressed by 32-bit offsets (main.c:69), so sectors are fewer than Word;
\* below that no other 32-bit number of the code is cut short.
ASSUME Fat32Assumption ==
  /\ Reserved \in Nat /\ Reserved > 7
  /\ Fats \in Nat \ {0} /\ PerSector \in Nat \ {0} /\ MinClusters \in Nat \ {0}
  /\ MaxClusters \in Nat
  /\ Word \in Nat /\ MaxLba + 1 < Word
  /\ F32Devices \subseteq [reported : 0..(Sector * Word - 1), sectors : Nat]

VARIABLES dev32, label, geo32, todo32, sec, mkfs32
fat32Vars == <<dev32, label, geo32, todo32, sec, mkfs32>>

ceil_div(a, b) == (a + b - 1) \div b

\* what FATs of nfs sectors leave, and the sectors a FAT for it needs
left_by(sectors, nfs) == sectors - Reserved - Fats * nfs
clusters(sectors, cand, nfs) == left_by(sectors, nfs) \div cand
need(sectors, cand, nfs) == ceil_div(clusters(sectors, cand, nfs) + 2, PerSector)

\* A FAT that holds the clusters it leaves room for, by iteration: 0 where
\* the FATs alone fill the volume.  (The code gives up after 100 rounds; it
\* never takes more than two.)
fat_of(sectors, cand) ==
  LET grow[nfs \in Nat] ==
        IF left_by(sectors, nfs) <= 0 THEN [fs |-> 0, cc |-> 0]
        ELSE IF nfs >= need(sectors, cand, nfs)
             THEN [fs |-> nfs, cc |-> clusters(sectors, cand, nfs)]
        ELSE grow[need(sectors, cand, nfs)]
  IN  grow[1]

\* the smallest cluster with a legal number of clusters
Candidates(sectors) ==
  {c \in {1, 2, 4, 8, 16, 32, 64, 128} :
     /\ c <= MaxSpc
     /\ LET f == fat_of(sectors, c)
        IN  f.fs # 0 /\ f.cc >= MinClusters /\ f.cc <= MaxClusters}
f32_geometry(sectors) ==
  LET c == CHOOSE x \in Candidates(sectors) : \A y \in Candidates(sectors) : x <= y
      f == fat_of(sectors, c)
  IN  [spc |-> c, fat_sectors |-> f.fs, root |-> 2,
       data_start |-> Reserved + Fats * f.fs, cluster_count |-> f.cc]

make_boot_sector(sectors, gm) ==
  [kind |-> "boot", spc |-> gm.spc, tot |-> sectors % Word, fat |-> gm.fat_sectors,
   root |-> gm.root, fsinfo |-> 1, bkboot |-> 6, rsvd |-> Reserved, fats |-> Fats]
make_fsinfo(gm) ==
  [kind |-> "fsinfo", free |-> IF gm.cluster_count > 1 THEN gm.cluster_count - 1 ELSE 0]
Zero == [kind |-> "zero"]
\* sector i of a FAT: 0 and 1 are the media marks, the root cluster is a chain end
fat_sector(gm, i) ==
  [kind |-> "fat",
   taken |-> {e \in {0, 1, gm.root} : i * PerSector <= e /\ e < (i + 1) * PerSector}]
root_sector(l, i) ==
  IF i = 0 /\ l # NoLabel THEN [kind |-> "label", name |-> l] ELSE Zero

S(at, what) == [at |-> at, what |-> what]
FatWrites(gm) ==
  [k \in 1..(Fats * gm.fat_sectors) |->
     S(Reserved + k - 1, fat_sector(gm, (k - 1) % gm.fat_sectors))]
f32_writes(sectors, gm, l) ==
  <<S(0, make_boot_sector(sectors, gm)), S(1, make_fsinfo(gm)), S(2, Zero),
    S(6, make_boot_sector(sectors, gm)), S(7, make_fsinfo(gm))>>
  \o FatWrites(gm)
  \o [k \in 1..gm.spc |-> S(gm.data_start + k - 1, root_sector(l, k - 1))]

Fat32Init == /\ dev32 \in F32Devices /\ label \in Labels /\ geo32 = <<>> /\ todo32 = <<>>
             /\ sec = <<>> /\ mkfs32 = "open"

sectors32(d) == SizeOf(d) \div Sector

f32_format ==
  /\ mkfs32 = "open"
  /\ IF sectors32(dev32) < MinSectors \/ Candidates(sectors32(dev32)) = {}
     THEN mkfs32' = "refused" /\ UNCHANGED <<geo32, todo32>>
     ELSE /\ geo32' = f32_geometry(sectors32(dev32)) /\ mkfs32' = "writing"
          /\ todo32' = f32_writes(sectors32(dev32), geo32', label)
  /\ UNCHANGED <<dev32, label, sec>>

\* a sector that cannot be written ends the run
write_sec ==
  /\ mkfs32 = "writing"
  /\ LET w == Head(todo32)
     IN  IF wr512(dev32, w.at)
         THEN /\ sec' = [x \in DOMAIN sec \cup {w.at} |-> IF x = w.at THEN w.what ELSE sec[x]]
              /\ todo32' = Tail(todo32)
              /\ mkfs32' = IF Len(todo32) = 1 THEN "done" ELSE mkfs32
         ELSE mkfs32' = "failed" /\ todo32' = <<>> /\ UNCHANGED sec
  /\ UNCHANGED <<dev32, label, geo32>>

Fat32Next == f32_format \/ write_sec
Fat32Spec == Fat32Init /\ [][Fat32Next]_fat32Vars

(***************************************************************************)
(* What a reader of the volume relies on, from the boot sector alone.      *)
(***************************************************************************)
Data(b) == b.rsvd + b.fats * b.fat
Clusters(b) == (b.tot - Data(b)) \div b.spc
Taken(b, copy) ==
  UNION {sec[b.rsvd + copy * b.fat + i].taken : i \in 0..(b.fat - 1)}

(* mkfs.fat32 that ends well leaves a volume whose FATs have an entry for  *)
(* every cluster and are alike, whose clusters lie in the volume, whose    *)
(* free count is what the FAT says and whose root directory is empty       *)
(* (fat32_fmt.c:50).                                                       *)
Fat32Fits ==
  mkfs32 = "done" =>
    LET b == sec[0]
    IN  /\ sec[b.bkboot] = b /\ sec[b.bkboot + 1] = sec[b.fsinfo]
        /\ Clusters(b) \in MinClusters..MaxClusters
        /\ Clusters(b) + 2 <= b.fat * PerSector
        /\ (Data(b) + Clusters(b) * b.spc) * Sector <= SizeOf(dev32)
        /\ \A copy \in 0..(b.fats - 1) : Taken(b, copy) = {0, 1, b.root}
        /\ sec[b.fsinfo].free = Clusters(b) + 2 - Cardinality(Taken(b, 0))
        /\ \A i \in 0..(b.spc - 1) :
             sec[Data(b) + (b.root - 2) * b.spc + i].kind =
               IF i = 0 /\ label # NoLabel THEN "label" ELSE "zero"
=============================================================================
