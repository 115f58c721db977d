------------------------------ MODULE FileSys ------------------------------
(***************************************************************************)
(* The file system the file tools call: names, directories, hard and       *)
(* symbolic links, and a second device mounted on a directory.  All of it  *)
(* is external, modelled from how the tools use the calls.                 *)
(*                                                                         *)
(* A file system is a record: "node" maps each path that exists to what is *)
(* there, "data" maps each inode to its content, a sequence of blocks.  A  *)
(* call is the set of its results: the file system after it, or nothing    *)
(* when it fails.                                                          *)
(***************************************************************************)
EXTENDS Naturals, SequencesExt

CONSTANTS MaxDepth,     \* the longest path, in names
          MaxLinks,     \* the links a name may lead through
          Away          \* the directory of the root another device is on

ASSUME FileSysAssumption == MaxDepth \in Nat /\ MaxLinks \in Nat

Path == Seq(STRING)
Dir == [kind |-> "dir"]
File(i) == [kind |-> "file", ino |-> i]
Link(p) == [kind |-> "link", to |-> p]

\* Names are those of directories that are there; inodes are counted.
IsTree(f) ==
  /\ DOMAIN f.node \subseteq Path /\ f.data \in Seq(Seq(STRING))
  /\ \A p \in DOMAIN f.node :
       /\ \/ f.node[p] = Dir
          \/ \E i \in DOMAIN f.data : f.node[p] = File(i)
          \/ f.node[p].kind = "link" /\ f.node[p].to \in Path /\ f.node[p] = Link(f.node[p].to)
       /\ \A k \in 0..(Len(p) - 1) :
            SubSeq(p, 1, k) \in DOMAIN f.node /\ f.node[SubSeq(p, 1, k)] = Dir
  /\ <<>> \in DOMAIN f.node /\ f.node[<<>>] = Dir

Under(p, q) == IsPrefix(p, q)
Device(p) == p # <<>> /\ p[1] = Away
MountPoints == {<<>>, <<Away>>}

KindAt(f, p) == IF p \in DOMAIN f.node THEN f.node[p].kind ELSE "none"

\* the last name of p in the directories among ds
Entered(f, ds, p) == {Append(d, Last(p)) : d \in {x \in ds : KindAt(f, x) = "dir"}}
Fitting(qs) == {q \in qs : Len(q) <= MaxDepth}

\* The path a name leads to through at most n links: nothing for a loop or a
\* missing directory.
leads(f) ==
  LET to[n \in 0..MaxLinks] ==
        [p \in Path |->
           IF p = <<>> THEN {p}
           ELSE UNION { IF KindAt(f, q) # "link" THEN Fitting({q})
                        ELSE IF n = 0 THEN {} ELSE to[n - 1][f.node[q].to]
                      : q \in Entered(f, to[n][Front(p)], p) }]
  IN  to

\* Links on the way are followed; one at the end is by Real only.
Real(f, p) == leads(f)[MaxLinks][p]
Named(f, p) == IF p = <<>> THEN {p} ELSE Fitting(Entered(f, Real(f, Front(p)), p))

stat(f, p) == {f.node[q] : q \in Real(f, p) \cap DOMAIN f.node}
lstat(f, p) == {f.node[q] : q \in Named(f, p) \cap DOMAIN f.node}
is_dir(f, p) == Dir \in stat(f, p)

\* the names in a directory
getdents(f, p) ==
  {Last(q) : q \in {x \in DOMAIN f.node : x # <<>> /\ Front(x) \in Real(f, p)}}

Tree(node, data) == [node |-> node, data |-> data]
With(g, x, v) == [y \in DOMAIN g \cup {x} |-> IF y = x THEN v ELSE g[y]]
Put(f, q, n) == Tree(With(f.node, q, n), f.data)
Removed(f, qs) == Tree(Restrict(f.node, DOMAIN f.node \ qs), f.data)
Free(f, p) == Named(f, p) \ DOMAIN f.node
Below(f, q) == {x \in DOMAIN f.node : Under(q, x)}

mkdir(f, p) == {Put(f, q, Dir) : q \in Free(f, p)}
symlink(f, to, p) == {Put(f, q, Link(to)) : q \in Free(f, p)}

rmdir(f, p) ==
  {Removed(f, {q}) : q \in {x \in Named(f, p) \ MountPoints :
                           KindAt(f, x) = "dir" /\ Below(f, x) = {x}}}

unlink(f, p) ==
  {Removed(f, {q}) : q \in {x \in Named(f, p) : KindAt(f, x) \in {"file", "link"}}}

link(f, s, d) ==
  {Put(f, x[2], f.node[x[1]]) :
     x \in {y \in Named(f, s) \X Free(f, d) :
              KindAt(f, y[1]) \in {"file", "link"} /\ Device(y[1]) = Device(y[2])}}

SameFile(f, q, r) ==
  q = r \/ (KindAt(f, q) = "file" /\ KindAt(f, r) = "file" /\ f.node[q] = f.node[r])

\* What rename may replace: nothing, a file by a file, an empty directory by
\* a directory.
Replaceable(f, r, q) ==
  \/ q \notin DOMAIN f.node
  \/ KindAt(f, r) # "dir" /\ KindAt(f, q) # "dir"
  \/ KindAt(f, r) = "dir" /\ Below(f, q) = {q} /\ KindAt(f, q) = "dir"

Moved(f, r, q) ==
  LET kept == DOMAIN f.node \ (Below(f, r) \cup {q})
      new == {q \o SubSeq(x, Len(r) + 1, Len(x)) : x \in Below(f, r)}
  IN  Tree([x \in kept \cup new |->
              IF x \in kept THEN f.node[x] ELSE f.node[r \o SubSeq(x, Len(q) + 1, Len(x))]],
           f.data)

rename(f, s, d) ==
  {IF SameFile(f, x[1], x[2]) THEN f ELSE Moved(f, x[1], x[2]) :
     x \in {y \in (Named(f, s) \cap DOMAIN f.node) \X Named(f, d) :
              /\ Device(y[1]) = Device(y[2])
              /\ y[1] \notin MountPoints /\ y[2] \notin MountPoints
              /\ \/ SameFile(f, y[1], y[2])
                 \/ /\ ~Under(y[1], y[2]) /\ Replaceable(f, y[1], y[2])
                    /\ \A z \in Below(f, y[1]) :
                         Len(z) - Len(y[1]) + Len(y[2]) <= MaxDepth}}

\* open for writing, emptied, created if it may be: the file system and inode
NewIno(f) == 1 + Len(f.data)
WithFile(f, q) == Tree(With(f.node, q, File(NewIno(f))), Append(f.data, <<>>))
open_trunc(f, p, create) ==
  UNION { IF KindAt(f, q) = "file"
          THEN {<<Tree(f.node, [f.data EXCEPT ![f.node[q].ino] = <<>>]), f.node[q].ino>>}
          ELSE IF create /\ q \notin DOMAIN f.node
               THEN {<<WithFile(f, q), NewIno(f)>>}
               ELSE {}
        : q \in Real(f, p) }

append(f, i, block) == Tree(f.node, [f.data EXCEPT ![i] = Append(@, block)])

\* What a reader finds at a place and below it: kinds, contents, link texts.
Found(f, n) ==
  CASE n.kind = "dir"  -> <<"dir">>
    [] n.kind = "file" -> <<"file", f.data[n.ino]>>
    [] n.kind = "link" -> <<"link", n.to>>

ViewAt(f, q) ==
  {<<SubSeq(x, Len(q) + 1, Len(x)), Found(f, f.node[x])>> : x \in Below(f, q)}
View(f, p) == UNION {ViewAt(f, q) : q \in Named(f, p)}
=============================================================================
