----------------------------- MODULE FileTools -----------------------------
(***************************************************************************)
(* cp, mv, rm, ln, mkdir, rmdir, touch, cat and wrt (ex_files.c,           *)
(* ex_copy.c) with the helpers they share (ex_util.c), call by call.       *)
(*                                                                         *)
(* A run is one command.  "todo" is the C stack: the first frame is the    *)
(* function that runs, ret what the last one returned, rc the exit status  *)
(* so far.  Any call may fail (MaxFaults times in all) but the look at DST *)
(* before the first source and touch's at its file; missed counts those    *)
(* the command takes for the end of a directory or for a name that is not  *)
(* there.  The process may be killed between two calls, and another        *)
(* process may make or remove a file or remove a link (MaxMeddles times);  *)
(* it makes no link and neither makes nor removes a directory.             *)
(***************************************************************************)
EXTENDS FileSys

CONSTANTS Trees,        \* the file systems a command may start on
          Commands,     \* the commands: [tool, flags, args]
          Meddled,      \* the places another process may make or remove a file at
          Text,         \* the block wrt writes
          Raced,        \* the tools it does so to
          MaxFaults, MaxMeddles

\* cp and mv take a DST after their sources, ln takes one source and DST
ASSUME FileToolsAssumption ==
  /\ \A f \in Trees : IsTree(f)
  /\ \A c \in Commands :
       /\ c.tool \in {"cp", "mv", "rm", "rmdir", "ln", "mkdir", "touch", "cat", "wrt"}
       /\ c.args \in Seq(Path \ {<<>>})
       /\ Len(c.args) >= (IF c.tool \in {"cp", "mv"} THEN 2 ELSE 1)
       /\ c.tool = "ln" => Len(c.args) = 2
       /\ c.tool = "wrt" => Len(c.args) = 1
  /\ Meddled \subseteq Path \ {<<>>}
  /\ Text \in STRING /\ MaxFaults \in Nat /\ MaxMeddles \in Nat

VARIABLES fs, todo, ret, rc, out, cmd, fs0, faults, meddles, missed
toolVars == <<fs, todo, ret, rc, out, cmd, fs0, faults, meddles, missed>>

Flag(x) == x \in cmd.flags
Running == todo # <<>>
Top == Head(todo)
At(op) == Running /\ Top.op = op

\* The frame returns r / becomes another one / calls fr and goes on as next.
Return(r) == todo' = Tail(todo) /\ ret' = r
Become(fr) == todo' = <<fr>> \o Tail(todo) /\ UNCHANGED ret
CallThen(fr, next) == todo' = <<fr, next>> \o Tail(todo) /\ ret' = 0

Lasting == UNCHANGED <<rc, out, cmd, fs0, meddles>>
Others == UNCHANGED <<rc, out, cmd, fs0, meddles, missed>>
Quiet == Others /\ UNCHANGED <<fs, faults>>

\* A call with the results rs: one of them, or a failure.  Where a failure
\* changes nothing but what the caller does next, Fails is its guard.
Succeeds(rs) == \E f \in rs : fs' = f /\ UNCHANGED faults
Fails(rs) == /\ UNCHANGED fs
             /\ \/ rs = {} /\ UNCHANGED faults
                \/ rs # {} /\ faults < MaxFaults /\ faults' = faults + 1
Misses == Fails({fs}) /\ missed' = missed + 1

(***************************************************************************)
(* The commands.                                                           *)
(***************************************************************************)
\* cp and mv: where the source goes; whether DST is a directory was asked
\* once, before the first source.
target(dst, intoDir, src) == IF intoDir THEN Append(dst, Last(src)) ELSE dst

ToDst(c) == c.tool \in {"cp", "mv"}
Sources(c) == IF ToDst(c) \/ c.tool = "ln" THEN Front(c.args)
              ELSE IF c.tool = "wrt" THEN <<c.args[1]>> ELSE c.args
Refused(c, f) == ToDst(c) /\ Len(c.args) > 2 /\ ~is_dir(f, Last(c.args))

Frame(op, src, dst) == [op |-> op, src |-> src, dst |-> dst]
MainFrame(left, intoDir) == [op |-> "main", left |-> left, into |-> intoDir]

Init ==
  /\ cmd \in Commands /\ fs \in Trees /\ fs0 = fs
  /\ rc = IF Refused(cmd, fs) THEN 1 ELSE 0
  /\ todo = IF Refused(cmd, fs) THEN <<>>
            ELSE <<MainFrame(Sources(cmd), is_dir(fs, Last(cmd.args)))>>
  /\ ret = 0 /\ out = <<>> /\ faults = 0 /\ meddles = 0 /\ missed = 0

NextArgument ==
  /\ At("main")
  /\ rc' = IF ret # 0 THEN 1 ELSE rc
  /\ ret' = 0
  /\ todo' = IF Top.left = <<>> THEN <<>>
             ELSE LET s == Head(Top.left)
                  IN  << Frame(cmd.tool, s, IF ToDst(cmd)
                                 THEN target(Last(cmd.args), Top.into, s)
                                 ELSE Last(cmd.args)),
                         [Top EXCEPT !.left = Tail(@)] >>
  /\ UNCHANGED <<fs, out, cmd, fs0, faults, meddles, missed>>

(***************************************************************************)
(* copy_file: open both, then block by block.                              *)
(***************************************************************************)
CopyFrom(s) == {n.ino : n \in {x \in stat(fs, s) : x.kind = "file"}}

CopyOpen ==
  /\ At("copy")
  /\ LET opened == CopyFrom(Top.src) \X open_trunc(fs, Top.dst, TRUE)
     IN  \/ \E x \in opened :
              /\ Succeeds({x[2][1]})
              /\ Become([op |-> "copying", in |-> x[1], to |-> x[2][2], at |-> 1])
         \/ Fails(opened) /\ Return(-1)
  /\ Others

CopyEnds == Top.at > Len(fs.data[Top.in])

CopyBlock ==
  /\ At("copying") /\ ~CopyEnds
  /\ \/ /\ Succeeds({append(fs, Top.to, fs.data[Top.in][Top.at])})
        /\ Become([Top EXCEPT !.at = @ + 1])
     \/ Fails({fs}) /\ Return(-1)
  /\ Others

CopyClose ==
  /\ At("copying") /\ CopyEnds
  /\ \/ Succeeds({fs}) /\ Return(0)
     \/ Fails({fs}) /\ Return(-1)
  /\ Others

copy_file == CopyOpen \/ CopyBlock \/ CopyClose

(***************************************************************************)
(* mv: rename, or copy and unlink.                                         *)
(***************************************************************************)
MvRename ==
  /\ At("mv")
  /\ \/ Succeeds(rename(fs, Top.src, Top.dst)) /\ Return(0)
     \/ Fails(rename(fs, Top.src, Top.dst)) /\ Become([Top EXCEPT !.op = "mvAcross"])
  /\ Others

MvAcross ==
  /\ At("mvAcross")
  /\ LET there == {n.kind : n \in lstat(fs, Top.src)}
     IN  \/ there \subseteq {"dir"} /\ Succeeds({fs}) /\ Return(-1)
         \/ there = {"link"} /\ Succeeds({fs}) /\ Become([Top EXCEPT !.op = "mvLink"])
         \/ there = {"file"} /\ Succeeds({fs}) /\ CallThen([Top EXCEPT !.op = "copy"],
                                                          [Top EXCEPT !.op = "mvCopied"])
         \/ Fails({fs}) /\ Return(-1)
  /\ Others

Relink(next) ==
  LET made == UNION {symlink(fs, n.to, Top.dst) : n \in lstat(fs, Top.src)}
  IN  \/ Succeeds(made) /\ next
      \/ Fails(made) /\ Return(-1)

MvLink ==
  /\ At("mvLink") /\ Relink(Become([Top EXCEPT !.op = "mvUnlink"])) /\ Others

\* Mutant of MvCopied: the source goes whatever became of the copy.
MvCopiedAnyway ==
  /\ At("mvCopied") /\ Become([Top EXCEPT !.op = "mvUnlink"]) /\ Quiet

MvCopied ==
  /\ At("mvCopied")
  /\ IF ret = 0 THEN Become([Top EXCEPT !.op = "mvUnlink"]) ELSE Return(-1)
  /\ Quiet

\* the result of this unlink is not looked at
MvUnlink ==
  /\ At("mvUnlink")
  /\ Succeeds(unlink(fs, Top.src)) \/ Fails(unlink(fs, Top.src))
  /\ Return(0) /\ Others

mv_one == MvRename \/ MvAcross \/ MvLink \/ MvCopied \/ MvUnlink

(***************************************************************************)
(* cp: a tree is copied entry by entry; one failing entry does not stop    *)
(* the others, and -f removes a destination that could not be written.  A  *)
(* getdents that fails ends a listing as its end does (ex_util.c:104).     *)
(***************************************************************************)
Entries(dir) == getdents(fs, dir)

CpTree ==
  /\ At("cp")
  /\ LET there == IF Flag("r") THEN lstat(fs, Top.src) ELSE stat(fs, Top.src)
         kinds == {n.kind : n \in there}
     IN  \/ kinds = {} /\ Succeeds({fs}) /\ Return(-1)
         \/ kinds = {"link"} /\ Succeeds({fs}) /\ Become([Top EXCEPT !.op = "cpLink"])
         \/ /\ kinds = {"dir"} /\ Succeeds({fs})
            /\ IF Flag("r") THEN Become([Top EXCEPT !.op = "cpDir"]) ELSE Return(-1)
         \/ kinds = {"file"} /\ Succeeds({fs}) /\ CallThen([Top EXCEPT !.op = "copy"],
                                                          [Top EXCEPT !.op = "cpCopied"])
         \/ Fails({fs}) /\ Return(-1)
  /\ Others

CpLink == At("cpLink") /\ Relink(Return(0)) /\ Others

CpDir ==
  /\ At("cpDir")
  /\ LET made == IF is_dir(fs, Top.dst) THEN {fs} ELSE mkdir(fs, Top.dst)
     IN  \/ Succeeds(made) /\ Become([Top EXCEPT !.op = "cpList"])
         \/ Fails(made) /\ Return(-1)
  /\ Others

CpRead(names) == Become([op |-> "cpEntry", src |-> Top.src, dst |-> Top.dst,
                         left |-> names, bad |-> FALSE])
CpList ==
  /\ At("cpList")
  /\ \/ Succeeds({fs}) /\ CpRead(Entries(Top.src)) /\ UNCHANGED missed
     \/ Misses /\ \E some \in SUBSET Entries(Top.src) : CpRead(some)
     \/ Fails({fs}) /\ Return(-1) /\ UNCHANGED missed
  /\ Lasting

\* Mutant of CpEntry: what became of an entry is forgotten.
CpEntryForgets ==
  /\ At("cpEntry")
  /\ \/ Top.left = {} /\ Return(IF Top.bad THEN -1 ELSE 0)
     \/ \E n \in Top.left :
          CallThen(Frame("cp", Append(Top.src, n), Append(Top.dst, n)),
                   [Top EXCEPT !.left = @ \ {n}])
  /\ Quiet

CpEntry ==
  /\ At("cpEntry")
  /\ LET bad == Top.bad \/ ret # 0
     IN  \/ Top.left = {} /\ Return(IF bad THEN -1 ELSE 0)
         \/ \E n \in Top.left :
              CallThen(Frame("cp", Append(Top.src, n), Append(Top.dst, n)),
                       [Top EXCEPT !.left = @ \ {n}, !.bad = bad])
  /\ Quiet

CpCopied ==
  /\ At("cpCopied")
  /\ IF ret = 0 \/ ~Flag("f") THEN Return(ret)
     ELSE Become([Top EXCEPT !.op = "cpForce"])
  /\ Quiet

\* Mutant of CpForce: it tries again and again.
CpForceAgain ==
  /\ At("cpForce")
  /\ Succeeds(unlink(fs, Top.dst)) \/ Fails(unlink(fs, Top.dst))
  /\ Become([Top EXCEPT !.op = "cp"])
  /\ Others

\* unlink(dst), ignored, and one more try, which is final
CpForce ==
  /\ At("cpForce")
  /\ Succeeds(unlink(fs, Top.dst)) \/ Fails(unlink(fs, Top.dst))
  /\ Become([Top EXCEPT !.op = "copy"])
  /\ Others

cp_tree == CpTree \/ CpLink \/ CpDir \/ CpList \/ CpEntry \/ CpCopied \/ CpForce

(***************************************************************************)
(* rm: the first entry that cannot be removed stops its directory.  What   *)
(* lstat fails for is no directory, and -f takes it for gone.              *)
(***************************************************************************)
Rm ==
  /\ At("rm")
  /\ \/ Succeeds({fs}) /\ IF "dir" \in {n.kind : n \in lstat(fs, Top.src)} /\ ~Flag("r")
                            THEN Return(-1)
                            ELSE Become([Top EXCEPT !.op = "rmTree"])
     \/ Fails({fs}) /\ Become([Top EXCEPT !.op = "rmTree"])
  /\ Others

\* Mutant of RmTree: stat instead of lstat.
RmTreeFollows ==
  /\ At("rmTree")
  /\ LET kinds == {n.kind : n \in stat(fs, Top.src)}
     IN  \/ kinds = {} /\ Return(IF Flag("f") THEN 0 ELSE -1)
         \/ kinds = {"dir"} /\ Become([Top EXCEPT !.op = "rmList"])
         \/ kinds \subseteq {"file", "link"} /\ kinds # {} /\ Become([Top EXCEPT !.op = "rmUnlink"])
  /\ Quiet

RmSeen(kinds) ==
  \/ kinds = {} /\ Return(IF Flag("f") THEN 0 ELSE -1)
  \/ kinds = {"dir"} /\ Become([Top EXCEPT !.op = "rmList"])
  \/ kinds \subseteq {"file", "link"} /\ kinds # {} /\ Become([Top EXCEPT !.op = "rmUnlink"])

RmTree ==
  /\ At("rmTree")
  /\ \/ /\ Succeeds({fs}) /\ UNCHANGED missed
        /\ RmSeen({n.kind : n \in lstat(fs, Top.src)})
     \/ Misses /\ RmSeen({})
  /\ Lasting

\* opening or reading the directory may fail; its entries, or some, then stay
RmList ==
  /\ At("rmList")
  /\ \/ Succeeds({fs}) /\ Become([op |-> "rmEntry", src |-> Top.src,
                                  left |-> Entries(Top.src)])
     \/ /\ Fails({fs})
        /\ \E some \in SUBSET Entries(Top.src) :
             Become([op |-> "rmEntry", src |-> Top.src, left |-> some])
     \/ Fails({fs}) /\ Become([Top EXCEPT !.op = "rmDir"])
  /\ Others

RmEntry ==
  /\ At("rmEntry")
  /\ \/ (Top.left = {} \/ ret # 0) /\ Become(Frame("rmDir", Top.src, Top.src))
     \/ /\ ret = 0
        /\ \E n \in Top.left :
             CallThen(Frame("rmTree", Append(Top.src, n), Top.src),
                      [Top EXCEPT !.left = @ \ {n}])
  /\ Quiet

RmDir ==
  /\ At("rmDir") \/ At("rmdir")
  /\ \/ Succeeds(rmdir(fs, Top.src)) /\ Return(0)
     \/ Fails(rmdir(fs, Top.src)) /\ Return(-1)
  /\ Others

RmUnlink ==
  /\ At("rmUnlink")
  /\ \/ Succeeds(unlink(fs, Top.src)) /\ Return(0)
     \/ Fails(unlink(fs, Top.src)) /\ Return(-1)
  /\ Others

rm_tree == Rm \/ RmTree \/ RmList \/ RmEntry \/ RmDir \/ RmUnlink

(***************************************************************************)
(* ln, mkdir, touch, cat, wrt.                                             *)
(***************************************************************************)
LnForce ==
  /\ At("ln")
  /\ IF Flag("f") THEN Succeeds(unlink(fs, Top.dst)) \/ Fails(unlink(fs, Top.dst))
     ELSE UNCHANGED <<fs, faults>>
  /\ Become([Top EXCEPT !.op = "lnMake"])
  /\ Others

LnMake ==
  /\ At("lnMake")
  /\ LET made == IF Flag("s") THEN symlink(fs, Top.src, Top.dst)
                 ELSE link(fs, Top.src, Top.dst)
     IN  \/ Succeeds(made) /\ Return(0)
         \/ Fails(made) /\ Return(-1)
  /\ Others

\* mkdir -p: each prefix is made, or is a directory already
Mkdir ==
  /\ At("mkdir")
  /\ IF Flag("p") THEN Become([op |-> "mkdirP", src |-> Top.src, upto |-> 1]) /\ Quiet
     ELSE /\ \/ Succeeds(mkdir(fs, Top.src)) /\ Return(0)
             \/ Fails(mkdir(fs, Top.src)) /\ Return(-1)
          /\ Others

mkdir_p ==
  /\ At("mkdirP")
  /\ LET prefix == SubSeq(Top.src, 1, Top.upto)
         made == IF is_dir(fs, prefix) THEN {fs} ELSE mkdir(fs, prefix)
     IN  \/ /\ Succeeds(made)
            /\ IF prefix = Top.src THEN Return(0) ELSE Become([Top EXCEPT !.upto = @ + 1])
         \/ Fails(made) /\ Return(-1)
  /\ Others

Touch ==
  /\ At("touch")
  /\ IF stat(fs, Top.src) # {} \/ Flag("c") THEN Return(0) /\ Quiet
     ELSE LET made == {x[1] : x \in open_trunc(fs, Top.src, TRUE)}
          IN  /\ \/ Succeeds(made) /\ Return(0)
                 \/ Fails(made) /\ Return(-1)
              /\ Others

CatOpen ==
  /\ At("cat")
  /\ \/ \E i \in CopyFrom(Top.src) :
          Succeeds({fs}) /\ Become([op |-> "catRead", in |-> i, at |-> 1])
     \/ Fails({fs : i \in CopyFrom(Top.src)}) /\ Return(-1)
  /\ Others

\* a failing read ends the file with an error, a failing write is not noticed
CatRead ==
  /\ At("catRead")
  /\ UNCHANGED <<rc, cmd, fs0, meddles, missed>>
  /\ \/ CopyEnds /\ Succeeds({fs}) /\ Return(0) /\ UNCHANGED out
     \/ Fails({fs}) /\ Return(-1) /\ UNCHANGED out
     \/ /\ ~CopyEnds /\ Become([Top EXCEPT !.at = @ + 1])
        /\ \/ Succeeds({fs}) /\ out' = Append(out, fs.data[Top.in][Top.at])
           \/ Fails({fs}) /\ UNCHANGED out

WrtOpen ==
  /\ At("wrt")
  /\ LET opened == open_trunc(fs, Top.src, FALSE)
     IN  \/ \E x \in opened : /\ Succeeds({x[1]})
                              /\ Become([op |-> "wrtText", to |-> x[2]])
         \/ Fails(opened) /\ Return(-1)
  /\ Others

WrtText ==
  /\ At("wrtText")
  /\ Succeeds({append(fs, Top.to, Text)}) \/ Fails({fs})
  /\ Return(0) /\ Others

Small == LnForce \/ LnMake \/ Mkdir \/ mkdir_p \/ Touch \/ CatOpen \/ CatRead
         \/ WrtOpen \/ WrtText

(***************************************************************************)
(* What happens to the process, and the specification.                     *)
(***************************************************************************)
Tool == NextArgument \/ copy_file \/ mv_one \/ cp_tree \/ rm_tree \/ Small

\* A kill leaves the command unfinished for ever.
Kill == /\ Running /\ todo' = <<>> /\ rc' = 137
        /\ UNCHANGED <<fs, ret, out, cmd, fs0, faults, meddles, missed>>

Meddle == /\ Running /\ cmd.tool \in Raced
          /\ meddles < MaxMeddles /\ meddles' = meddles + 1
          /\ \E p \in Meddled :
               \/ KindAt(fs, p) \in {"file", "link"} /\ fs' = Removed(fs, {p})
               \/ p \notin DOMAIN fs.node /\ KindAt(fs, Front(p)) = "dir" /\ fs' = WithFile(fs, p)
          /\ UNCHANGED <<todo, ret, rc, out, cmd, fs0, faults, missed>>

ToolNext == Tool \/ Kill \/ Meddle
ToolSpec == Init /\ [][ToolNext]_toolVars
FairToolSpec == ToolSpec /\ WF_toolVars(Tool)

(***************************************************************************)
(* What the file tools promise.                                            *)
(***************************************************************************)
SrcArgs == ToSet(Sources(cmd))
Target(s) == target(Last(cmd.args), is_dir(fs0, Last(cmd.args)), s)

Reaches(p) == Real(fs0, p) \cup Named(fs0, p)

\* The places a command may make, remove or write: what its arguments lead
\* to, with the links inside a destination, and for rm what they name.
Linked(q) == UNION {Real(fs0, p) : p \in {x \in Below(fs0, q) : KindAt(fs0, x) = "link"}}
LedBy(s) == LET at == Reaches(Target(s)) IN at \cup UNION {Linked(q) : q \in at}
Led == UNION {LedBy(s) : s \in SrcArgs}
MayName ==
  LET named == UNION {Named(fs0, s) : s \in SrcArgs \cup {Last(cmd.args)}}
  IN  CASE cmd.tool = "cp" -> Led
        [] cmd.tool = "mv" -> named \cup Led
        [] cmd.tool = "mkdir" -> UNION {Free(fs0, p) : p \in UNION {Prefixes(s) : s \in SrcArgs}}
        [] cmd.tool = "touch" -> UNION {Real(fs0, s) : s \in SrcArgs}
        [] OTHER -> named
FilesBelow(places) ==
  {fs0.node[q].ino : q \in {x \in UNION {Below(fs0, q) : q \in places} :
                              KindAt(fs0, x) = "file"}}
MayWrite == IF cmd.tool \in {"cp", "mv", "wrt"} THEN FilesBelow(Led) ELSE {}

\* Arguments that do not get in each other's way: no two sources for one
\* target, none below another, no target that leads to what another leads to,
\* no source below a target or the other way round, and no file of a source
\* among those a target leads to.
NoClash == Cardinality({Target(s) : s \in SrcArgs}) = Len(Sources(cmd))
Apart ==
  /\ NoClash
  /\ \A s, t \in SrcArgs : s # t =>
       /\ \A x \in Named(fs0, s), y \in Named(fs0, t) : ~Under(x, y)
       /\ \A x \in LedBy(s), y \in LedBy(t) : ~Under(x, y)
       /\ FilesBelow(LedBy(s)) \cap FilesBelow(LedBy(t)) = {}
  /\ \A x \in UNION {Reaches(s) : s \in SrcArgs} :
       /\ \A y \in Led : ~Under(x, y) /\ ~Under(y, x)
       /\ \A z \in Below(fs0, x) : KindAt(fs0, z) = "file" =>
                                     fs0.node[z].ino \notin MayWrite

\* The places, not the names: SRC may be a directory that another name leads
\* through.  DST may be a link: across devices its file is written, not replaced.
Whole(s) == \A q \in Named(fs0, s) : ViewAt(fs, q) = ViewAt(fs0, q)
HasMoved(s) ==
  View(fs0, s) # {} /\ \E q \in Reaches(Target(s)) : ViewAt(fs, q) = View(fs0, s)

(* mv (ex_files.c:472): at every moment, whatever call failed and wherever *)
(* mv was killed, what was moved is whole where it was or where DST led.   *)
(* The arguments must be apart: across devices a DST that leads back to    *)
(* SRC is truncated first (ex_util.c:358) and SRC is then removed; so is   *)
(* what mv has just moved, when the next DST leads to it.                  *)
MoveKeepsData ==
  cmd.tool = "mv" /\ Apart /\ meddles = 0 => \A s \in SrcArgs : Whole(s) \/ HasMoved(s)

Ended == ~Running /\ rc = 0 /\ missed = 0 /\ (cmd.tool = "rm" \/ meddles = 0)

\* what is found below dst as a copy of what was below src
CopiedTo(dst, src) ==
  LET old == IF Flag("r") THEN View(fs0, src)
             ELSE UNION {View(fs0, q) : q \in Real(fs0, src)}
  IN  old # {} /\ \A x \in old :
        LET p == dst \o x[1]
        IN  CASE x[2][1] = "dir"  -> is_dir(fs, p)
              [] x[2][1] = "file" -> \E n \in stat(fs, p) : Found(fs, n) = x[2]
              [] x[2][1] = "link" -> \E n \in lstat(fs, p) : Found(fs, n) = x[2]

(* A command that ends with status 0 has done what it is for, in full: no  *)
(* failing call on the way is lost (ex_files.c, ex_copy.c).  Exceptions:   *)
(* arguments that are not apart for cp and mv; cat and wrt, which do not   *)
(* look at their writes (ex_files.c:315, 405), where a call failed; cp -r  *)
(* where a getdents failed, which ends the listing with status 0           *)
(* (ex_util.c:104); and rm -f where an lstat failed, whatever for          *)
(* (ex_files.c:240): missed counts the last two.                           *)
SuccessMeansDone ==
  Ended =>
    \A s \in SrcArgs :
      CASE cmd.tool = "mv" -> Apart => HasMoved(s)
        [] cmd.tool = "cp" -> Apart => CopiedTo(Target(s), s)
        [] cmd.tool = "rm" -> lstat(fs, s) = {}
        [] cmd.tool = "rmdir" -> lstat(fs, s) = {} /\ lstat(fs0, s) = {Dir}
        [] cmd.tool = "mkdir" -> is_dir(fs, s)
        [] cmd.tool = "touch" -> stat(fs, s) # {} \/ Flag("c")
        [] cmd.tool = "ln" -> IF Flag("s") THEN lstat(fs, Last(cmd.args)) = {Link(s)}
                              ELSE lstat(fs, Last(cmd.args)) = lstat(fs0, s)
        [] cmd.tool = "cat" -> faults = 0 =>
             out = FoldLeft(LAMBDA got, p : got \o fs0.data[CHOOSE i \in
                     {n.ino : n \in stat(fs0, p)} : TRUE], <<>>, cmd.args)
        [] cmd.tool = "wrt" -> faults = 0 =>
             {Found(fs, n) : n \in stat(fs, s)} = {<<"file", <<Text>>>>}

(* A command changes nothing but what its arguments name: rm -r and cp -r  *)
(* do not follow links out of their tree (ex_files.c:240, ex_copy.c:58),   *)
(* and cp leaves its source alone.  It is so while no other process makes  *)
(* a link or replaces a directory under the command (see Meddle): between  *)
(* the lstat of a directory and its open nothing holds the name.           *)
OutsideUntouched ==
  (ToDst(cmd) => NoClash) =>
    /\ \A p \in DOMAIN fs.node \cup DOMAIN fs0.node :
         \/ p \in Meddled \/ \E q \in MayName : Under(q, p)
         \/ p \in DOMAIN fs.node \cap DOMAIN fs0.node /\ fs.node[p] = fs0.node[p]
    /\ \A i \in DOMAIN fs0.data \ MayWrite : fs.data[i] = fs0.data[i]

(* Every command ends, cp -r into its own source too: each call of it      *)
(* makes a longer path, and the kernel refuses a path that is too long.    *)
ToolEnds == <>~Running
=============================================================================
