-------------------------------- MODULE Ext4 --------------------------------
(***************************************************************************)
(* mkfs.ext4 (mkfs.ext4/main.c, ext4_fmt.c): the size of the device, the   *)
(* geometry, and the writes in their order.  Sizes are counted in units:   *)
(* the constants keep the proportions of the code, not its bytes.          *)
(***************************************************************************)
EXTENDS Device, Sequences, FiniteSets

CONSTANTS BytesPerInode,   \* 16384, in units
          DescSize,        \* a group descriptor: 32
          EntryLen,        \* a directory entry of one name: 12
          MinBlocks,       \* 64
          Devices,
          E4Options        \* [block_size, inode_size]

\* An inode bitmap has room for the inodes that are never free.  Files are
\* addressed by 32-bit offsets (main.c:69), and on a device of such a size no
\* number of the code is cut short.
ASSUME Ext4Assumption ==
  /\ BytesPerInode \in Nat \ {0} /\ DescSize \in Nat \ {0} /\ EntryLen \in Nat
  /\ MinBlocks \in Nat \ {0}
  /\ Devices \subseteq [reported : Nat, sectors : Nat]
  /\ E4Options \subseteq [block_size : Nat \ {0, 1}, inode_size : Nat \ {0}]

VARIABLES dev, opts4, geo,
          mkfs4,           \* the loop e4_format is in, or how it ended
          grp, made,       \* its group, and the regions of it that are written
          disk
ext4Vars == <<dev, opts4, geo, mkfs4, grp, made, disk>>

(* ---- geometry ---- *)
ceil(n, m) == (n + m - 1) \div m
E4_INODE_ROOT == 2
E4_INODE_LOSTFOUND == 11

larger(a, b) == IF a > b THEN a ELSE b
smaller(a, b) == IF a < b THEN a ELSE b

is_power(g, p) ==
  LET up[x \in Nat \ {0}] == x = g \/ (x < g /\ up[x * p]) IN up[p]
is_sparse_group(g) == g \in {0, 1} \/ \E p \in {3, 5, 7} : is_power(g, p)

total_blocks(bytes, bs) == ((bytes \div Sector) * Sector) \div bs
Geometry(bytes, bs, isz) ==
  LET total  == total_blocks(bytes, bs)
      bpg    == 8 * bs
      groups == ceil(total, bpg)
      want   == larger((bytes \div BytesPerInode) + 1, 16)
      even   == ceil(ceil(want, groups), 8) * 8
      ipg    == smaller(larger(even, 12), bs * 8)
  IN  [bs |-> bs, isz |-> isz, total |-> total, bpg |-> bpg, groups |-> groups,
       gdt |-> ceil(groups * DescSize, bs), ipg |-> ipg, it |-> ceil(ipg * isz, bs)]

\* the place of everything in group g
Group(gm, g) ==
  LET base == g * gm.bpg
      c    == IF is_sparse_group(g) THEN 1 + gm.gdt ELSE 0
      meta == c + 2 + gm.it
      dirs == IF g = 0 THEN 2 ELSE 0
      real == smaller(gm.bpg, gm.total - base)
  IN  [base |-> base, real |-> real, copy |-> c, bb |-> base + c, ibm |-> base + c + 1,
       itbl |-> base + c + 2, meta |-> meta, dirs |-> dirs,
       used |-> IF g = 0 THEN E4_INODE_LOSTFOUND ELSE 0,
       free |-> real - meta - dirs]
Groups(gm) == 0..(gm.groups - 1)

(* ---- what is written ---- *)
\* the sum of f[0] to f[n - 1]
total(f, n) ==
  LET upto[k \in 0..n] == IF k = 0 THEN 0 ELSE upto[k - 1] + f[k - 1] IN upto[n]

superblock(gm) ==
  [kind |-> "super", inodes |-> gm.groups * gm.ipg, blocks |-> gm.total,
   free |-> total([g \in Groups(gm) |-> Group(gm, g).free], gm.groups),
   free_inodes |-> gm.groups * gm.ipg - E4_INODE_LOSTFOUND]
descriptors(gm) ==
  [kind |-> "gdt",
   row |-> [g \in Groups(gm) |->
     LET p == Group(gm, g)
     IN  [bb |-> p.bb, ibm |-> p.ibm, itbl |-> p.itbl, free |-> p.free,
          free_inodes |-> gm.ipg - p.used]]]

\* as if the blocks past the end of the volume were free
block_bitmap_open(gm, g) ==
  LET p == Group(gm, g) IN {i \in 0..(p.meta + p.dirs - 1) : i < p.real}
block_bitmap(gm, g) ==
  LET p == Group(gm, g)
  IN  {i \in 0..(p.copy - 1) : i < p.real}
      \cup {i \in p.copy..(p.copy + gm.it + 1) : i < p.real}
      \cup {i \in p.meta..(p.meta + p.dirs - 1) : i < p.real}
      \cup p.real..(gm.bpg - 1)
inode_bitmap(gm, g) == (0..(8 * gm.bs - 1)) \ (Group(gm, g).used..(gm.ipg - 1))

dir_entry(ino, len, name) == [ino |-> ino, len |-> len, name |-> name]
make_dir_block(gm, self, extra) ==
  IF extra = <<>>
  THEN <<dir_entry(self, EntryLen, "."),
         dir_entry(E4_INODE_ROOT, gm.bs - EntryLen, "..")>>
  ELSE <<dir_entry(self, EntryLen, "."), dir_entry(E4_INODE_ROOT, EntryLen, ".."),
         dir_entry(extra[1], gm.bs - 2 * EntryLen, "lost+found")>>
\* an inode at its byte of the first block of the table
dir_inode(gm, ino, blk, links) ==
  [ino |-> ino, at |-> (ino - 1) * gm.isz, blk |-> blk, links |-> links]
\* those of the inodes that end within the buffer of one block: the others are
\* copied past its end and are not on the disk, or not whole
planted(gm, inodes) == {n \in inodes : n.at + gm.isz <= gm.bs}
Overruns(gm) == E4_INODE_LOSTFOUND * gm.isz > gm.bs

W(at, n, what) == [at |-> at, n |-> n, what |-> what]
\* write i of group g; those from 4 on are of group 0 alone
group_write(gm, g, i) ==
  LET p    == Group(gm, g)
      root == p.base + p.meta
      lost == root + 1
  IN  CASE i = 1 -> W(p.bb, 1, [kind |-> "bitmap", used |-> block_bitmap(gm, g)])
        [] i = 2 -> W(p.ibm, 1, [kind |-> "bitmap", used |-> inode_bitmap(gm, g)])
        [] i = 3 -> W(p.itbl, gm.it, [kind |-> "zero"])
        [] i = 4 -> W(p.itbl, 1, [kind |-> "inodes",
                      inodes |-> planted(gm, {dir_inode(gm, E4_INODE_ROOT, root, 3),
                                              dir_inode(gm, E4_INODE_LOSTFOUND, lost, 2)})])
        [] i = 5 -> W(root, 1, [kind |-> "dir", entries |->
                      make_dir_block(gm, E4_INODE_ROOT, <<E4_INODE_LOSTFOUND>>)])
        [] i = 6 -> W(lost, 1, [kind |-> "dir", entries |->
                      make_dir_block(gm, E4_INODE_LOSTFOUND, <<>>)])
\* the descriptor table, and the superblock again but for group 0
copy_write(gm, g, i) ==
  IF i = 1 THEN W(Group(gm, g).base + 1, gm.gdt, descriptors(gm))
  ELSE W(Group(gm, g).base, 1, superblock(gm))

\* the three loops of writes: how many writes a group has, and each of them
Phases == {"groups", "super", "copies"}
Count(phase, g) ==
  CASE phase = "groups" -> IF g = 0 THEN 6 ELSE 3
    [] phase = "super"  -> 1
    [] phase = "copies" -> IF ~is_sparse_group(g) THEN 0 ELSE IF g = 0 THEN 1 ELSE 2
Write(gm, phase, g, i) ==
  CASE phase = "groups" -> group_write(gm, g, i)
    [] phase = "super"  -> W(0, 1, superblock(gm))
    [] phase = "copies" -> copy_write(gm, g, i)

(* ---- the run of the tool ---- *)
NoGeometry == [bs |-> 0]
Ext4Init == /\ dev \in Devices /\ opts4 \in E4Options
            /\ geo = NoGeometry /\ mkfs4 = "open" /\ grp = 0 /\ made = 0 /\ disk = <<>>

\* e4_format up to its first write: every check comes before it
e4_format ==
  LET bytes == SizeOf(dev)
      bs    == opts4.block_size
      gm    == Geometry(bytes, bs, opts4.inode_size)
      fits  == /\ bytes >= Sector /\ opts4.inode_size <= bs
               /\ total_blocks(bytes, bs) >= MinBlocks
               /\ \A g \in Groups(gm) : Group(gm, g).free >= 0
  IN  /\ mkfs4 = "open"
      /\ IF fits THEN geo' = gm /\ mkfs4' = "groups"
         ELSE mkfs4' = "refused" /\ UNCHANGED geo
      /\ UNCHANGED <<dev, opts4, grp, made, disk>>

\* wr_block, as often as the region has blocks: it stops at the first sector
\* that cannot be written
wr_block ==
  LET w    == Write(geo, mkfs4, grp, made + 1)
      all  == w.at..(w.at + w.n - 1)
      spb  == geo.bs \div Sector
      goes(b) == \A s \in (b * spb)..(b * spb + spb - 1) : wr512(dev, s)
      done == {b \in all : \A x \in w.at..b : goes(x)}
  IN  /\ mkfs4 \in Phases /\ made < Count(mkfs4, grp)
      /\ disk' = [b \in DOMAIN disk \cup done |-> IF b \in done THEN w.what ELSE disk[b]]
      /\ IF done = all THEN made' = made + 1 /\ UNCHANGED mkfs4
         ELSE mkfs4' = "failed" /\ UNCHANGED made
      /\ UNCHANGED <<dev, opts4, geo, grp>>

\* the loop goes on with the next group, or the next loop begins
next_group ==
  /\ mkfs4 \in Phases /\ made = Count(mkfs4, grp) /\ made' = 0
  /\ IF mkfs4 # "super" /\ grp + 1 < geo.groups THEN grp' = grp + 1 /\ UNCHANGED mkfs4
     ELSE /\ grp' = 0
          /\ mkfs4' = CASE mkfs4 = "groups" -> "super"
                        [] mkfs4 = "super"  -> "copies"
                        [] mkfs4 = "copies" -> "done"
  /\ UNCHANGED <<dev, opts4, geo, disk>>

\* What was copied past the end of the buffer may also have been other memory of
\* the program, and the model says nothing of what it does then.
inode_overrun ==
  /\ mkfs4 = "groups" /\ grp = 0 /\ made = 3 /\ Overruns(geo) /\ mkfs4' = "broken"
  /\ UNCHANGED <<dev, opts4, geo, grp, made, disk>>

Ext4Next == e4_format \/ wr_block \/ inode_overrun \/ next_group
Ext4Spec == Ext4Init /\ [][Ext4Next]_ext4Vars

(***************************************************************************)
(* What a volume must satisfy for its blocks and inodes to be allocated    *)
(* from it (ext4_fmt.c:12).                                                *)
(***************************************************************************)
Free(set, size) == Cardinality((0..(size - 1)) \ set)
\* a power of p: divided by p as often as it goes, 1 is left
Power(n, p) ==
  LET down[x \in 1..n] == x = 1 \/ (x % p = 0 /\ down[x \div p]) IN down[n]
Sparse == {g \in Groups(geo) : g \in {0, 1} \/ \E p \in {3, 5, 7} : Power(g, p)}

\* A block is used in the bitmap of its group if and only if something was
\* written to it, or it lies past the end of the volume.
BitmapsTell ==
  \A g \in Groups(geo) :
    LET row == disk[1].row[g]
        base == g * geo.bpg
    IN  /\ \A i \in 0..(geo.bpg - 1) :
             i \in disk[row.bb].used <=> base + i \in DOMAIN disk \/ base + i >= geo.total
        /\ row.free = Free(disk[row.bb].used, geo.bpg)
        /\ row.free_inodes = Free(disk[row.ibm].used, 8 * geo.bs)
        /\ \A b \in row.itbl..(row.itbl + geo.it - 1) :
             disk[b].kind = IF b = Group(geo, 0).itbl THEN "inodes" ELSE "zero"
        /\ geo.ipg * geo.isz <= geo.it * geo.bs
TotalsAgree ==
  LET sb == disk[0]
  IN  /\ sb.free = total([g \in Groups(geo) |-> disk[1].row[g].free], geo.groups)
      /\ sb.free_inodes =
           total([g \in Groups(geo) |-> disk[1].row[g].free_inodes], geo.groups)
      /\ sb.blocks * geo.bs <= SizeOf(dev)
CopiesAgree ==
  \A g \in Groups(geo) \ {0} :
    LET base == g * geo.bpg
    IN  IF g \in Sparse
        THEN disk[base] = disk[0] /\ \A i \in 1..geo.gdt : disk[base + i] = disk[1]
        ELSE \A b \in {base, base + 1} \cap DOMAIN disk : disk[b].kind \notin {"super", "gdt"}
\* Every inode of the table has its directory, whose entries fill its block, and
\* every entry has its inode in the table, but for inodes so large that the
\* eleventh does not end in the first block: then lost+found is a name without
\* an inode (ext4_fmt.c:513).
DirsHold ==
  LET inodes == disk[Group(geo, 0).itbl].inodes
      planted_at(ino) == \E n \in inodes : n.ino = ino
  IN  /\ Overruns(geo) \/ planted_at(E4_INODE_ROOT)
      /\ \A inode \in inodes :
           LET es == disk[inode.blk].entries
           IN  /\ total([i \in 0..(Len(es) - 1) |-> es[i + 1].len], Len(es)) = geo.bs
               /\ es[1].ino = inode.ino /\ inode.at + geo.isz <= geo.bs
               /\ \A k \in 1..Len(es) : Overruns(geo) \/ planted_at(es[k].ino)

(* mkfs.ext4 that ends well leaves a volume whose bitmaps, counters,       *)
(* copies and directories agree with what it wrote, lost+found left out    *)
(* where eleven inodes do not fit a block, and until it has written every  *)
(* group it has not written the superblock (ext4_fmt.c:529).               *)
Ext4Fits ==
  /\ mkfs4 = "done" => BitmapsTell /\ TotalsAgree /\ CopiesAgree /\ DirsHold
  /\ 0 \in DOMAIN disk =>
       \A g \in Groups(geo) :
         LET p == Group(geo, g)
         IN  p.bb..(p.bb + 1 + geo.it) \subseteq DOMAIN disk
=============================================================================
