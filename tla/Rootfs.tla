------------------------------- MODULE Rootfs -------------------------------
(***************************************************************************)
(* cact-rootfs (cact-rootfs/main.c): the root file system is laid out      *)
(* under TARGET, step by step.  An installation may be killed between any  *)
(* two calls and is then started again on what is there.                   *)
(***************************************************************************)
EXTENDS FileSys

CONSTANTS Hosts,        \* the file systems an installation starts on
          Options,      \* [target, srcroot, base, kernel, module, grub]
          MaxNames,     \* what list_dir holds: 64 in the code
          MaxKills, MaxRootFaults

NotGiven == <<"-">>

\* No path of a host is longer than a path may be.
ASSUME RootfsAssumption ==
  /\ \A f \in Hosts : /\ IsTree(f) /\ IsFiniteSet(DOMAIN f.node)
                       /\ \A p \in DOMAIN f.node : Len(p) <= MaxDepth
  /\ \A o \in Options : /\ {o.target, o.srcroot, o.kernel, o.module, o.grub} \subseteq Path
                         /\ o.base \in BOOLEAN

\* The names it makes are names.
ASSUME NamesAssumption ==
  {"usr", "bin", "sbin", "lib", "include", "share", "boot", "grub", "grub.cfg", "kernel.bin",
   "cctkfs.img", "etc", "hostname", "cgoct.conf", "mnts", "var", "log", "run", "tmp", "root",
   "dev", "proc"} \subseteq STRING

VARIABLES first,        \* the file system before anything
          rfs, plan, opts, status, kills, rfaults,
          hushed        \* something failed that the code does not tell
rootVars == <<first, rfs, plan, opts, status, kills, rfaults, hushed>>

Task(op, src, dst) == [op |-> op, src |-> src, dst |-> dst]
In(dir, names) == dir \o names

BaseDirs == << <<"boot", "grub">>, <<"etc">>, <<"var", "log">>, <<"var", "run">>,
               <<"var", "tmp">>, <<"root">>, <<"tmp">>, <<"dev">>, <<"proc">>,
               <<"usr", "bin">>, <<"usr", "sbin">>, <<"usr", "lib">>,
               <<"usr", "include">>, <<"usr", "share">> >>
MergeLinks == << <<"bin">>, <<"sbin">>, <<"lib">> >>
Skeleton == << <<"etc", "hostname">>, <<"etc", "cgoct.conf">>, <<"etc", "mnts">> >>
text(p) == IF Last(p) = "mnts" THEN <<>> ELSE <<Last(p)>>

\* a merge link is relative: it leads to the usr beside it
Each(op, names, o) ==
  [i \in 1..Len(names) |->
     Task(op, In(o.target, <<"usr">> \o names[i]), In(o.target, names[i]))]
Asked(p, name, o) ==
  IF p = NotGiven THEN <<>>
  ELSE <<Task("copy", p, In(o.target, <<"boot">> \o name))>>

\* main: the steps in their order
Steps(o) ==
  Each("mkdir", BaseDirs, o) \o Each("link", MergeLinks, o)
  \o (IF o.base THEN <<Task("tree", In(o.srcroot, <<"usr">>), In(o.target, <<"usr">>))>>
      ELSE <<>>)
  \o Asked(o.kernel, <<"kernel.bin">>, o) \o Asked(o.module, <<"cctkfs.img">>, o)
  \o (IF o.grub # NotGiven THEN Asked(o.grub, <<"grub", "grub.cfg">>, o)
      ELSE IF o.kernel # NotGiven /\ o.module # NotGiven
           THEN <<Task("text", <<>>, In(o.target, <<"boot", "grub", "grub.cfg">>))>>
           ELSE <<>>)
  \o Each("text", Skeleton, o)

RootInit ==
  /\ rfs \in Hosts /\ first = rfs /\ opts \in Options
  /\ plan = IF is_dir(rfs, opts.target) THEN Steps(opts) ELSE <<>>
  /\ status = IF is_dir(rfs, opts.target) THEN "running" ELSE "failed"
  /\ kills = 0 /\ rfaults = 0 /\ hushed = FALSE

Doing(op) == plan # <<>> /\ status = "running" /\ Head(plan).op = op
Do == Head(plan)
Goes(tasks) == /\ plan' = tasks \o Tail(plan)
               /\ status' = IF plan' = <<>> THEN "deployed" ELSE "running"
fail == plan' = <<>> /\ status' = "failed"
Injected == rfaults < MaxRootFaults /\ rfaults' = rfaults + 1
Steady == UNCHANGED <<first, opts, kills>>

\* mkdir_p of a path: its first prefix that is no directory is made
ToMake(p) == {q \in Prefixes(p) : q # <<>> /\ ~is_dir(rfs, q)}
make_path(p, then) ==
  IF ToMake(p) = {}
  THEN then /\ UNCHANGED <<rfs, rfaults>>
  ELSE LET q == CHOOSE x \in ToMake(p) : \A y \in ToMake(p) : Len(x) <= Len(y)
       IN  \/ \E f \in mkdir(rfs, q) : rfs' = f /\ UNCHANGED <<plan, status, rfaults>>
           \/ mkdir(rfs, q) = {} /\ fail /\ UNCHANGED <<rfs, rfaults>>
           \/ Injected /\ fail /\ UNCHANGED rfs

MakeDir == Doing("mkdir") /\ make_path(Do.dst, Goes(<<>>)) /\ UNCHANGED hushed /\ Steady

\* a failing symlink is left alone
make_symlink ==
  /\ Doing("link") /\ Goes(<<>>)
  /\ \/ /\ symlink(rfs, Do.src, Do.dst) = {}
        /\ UNCHANGED <<rfs, rfaults, hushed>>
     \/ \E f \in symlink(rfs, Do.src, Do.dst) :
          \/ rfs' = f /\ UNCHANGED <<rfaults, hushed>>
          \/ Injected /\ hushed' = TRUE /\ UNCHANGED rfs
  /\ Steady

\* copy_tree: the directory, then the first MaxNames of its entries; links
\* are followed, a directory that does not open has no entries.  What an entry
\* is, is seen when its turn comes.
FirstNames(names) ==
  IF Cardinality(names) <= MaxNames THEN {names}
  ELSE {s \in SUBSET names : Cardinality(s) = MaxNames}

CopyTree ==
  /\ Doing("tree")
  /\ IF ~is_dir(rfs, Do.src) THEN Goes(<<>>) /\ UNCHANGED <<rfs, rfaults>>
     ELSE make_path(Do.dst, Goes(<<[Do EXCEPT !.op = "list"]>>))
  /\ UNCHANGED hushed /\ Steady

ListDir ==
  /\ Doing("list")
  /\ \/ \E names \in FirstNames(getdents(rfs, Do.src)) :
          /\ Goes(SetToSeq({Task("entry", Append(Do.src, n), Append(Do.dst, n)) : n \in names}))
          /\ hushed' = (hushed \/ names # getdents(rfs, Do.src))
          /\ UNCHANGED rfaults
     \/ Injected /\ Goes(<<>>) /\ hushed' = TRUE
  /\ UNCHANGED rfs /\ Steady

CopyEntry ==
  /\ Doing("entry")
  /\ Goes(<<[Do EXCEPT !.op = IF is_dir(rfs, Do.src) THEN "tree" ELSE "copy"]>>)
  /\ UNCHANGED <<rfs, rfaults, hushed>> /\ Steady

\* copy_file: up to st_size; a failed read ends it without an error
CopyFileOpen ==
  /\ Doing("copy")
  /\ LET ins == {n.ino : n \in {x \in stat(rfs, Do.src) : x.kind = "file"}}
         outs == open_trunc(rfs, Do.dst, TRUE)
         left(i) == Len(rfs.data[i])
     IN  \/ \E i \in ins, x \in outs :
              /\ rfs' = x[1] /\ UNCHANGED rfaults
              /\ Goes(<<[op |-> "block", src |-> Do.src, dst |-> Do.dst,
                         in |-> i, to |-> x[2], at |-> 1, left |-> left(i)]>>)
         \/ (ins = {} \/ outs = {}) /\ fail /\ UNCHANGED <<rfs, rfaults>>
         \/ Injected /\ fail /\ UNCHANGED rfs
  /\ UNCHANGED hushed /\ Steady

CopyFileBlock ==
  /\ Doing("block")
  /\ LET gone == Do.left = 0 \/ Do.at > Len(rfs.data[Do.in])
     IN  \/ gone /\ Goes(<<>>) /\ UNCHANGED <<rfs, rfaults, hushed>>
         \/ /\ ~gone /\ rfs' = append(rfs, Do.to, rfs.data[Do.in][Do.at])
            /\ Goes(<<[Do EXCEPT !.at = @ + 1, !.left = @ - 1]>>)
            /\ UNCHANGED <<rfaults, hushed>>
         \/ ~gone /\ Injected /\ fail /\ UNCHANGED <<rfs, hushed>>
         \/ ~gone /\ Injected /\ Goes(<<>>) /\ hushed' = TRUE /\ UNCHANGED rfs
  /\ Steady

\* Mutant of write_file: a write that fails is not noticed.
write_file_unchecked ==
  /\ Doing("text")
  /\ LET made == open_trunc(rfs, Do.dst, TRUE)
     IN  \/ \E x \in made : /\ rfs' = [x[1] EXCEPT !.data[x[2]] = text(Do.dst)]
                            /\ Goes(<<>>) /\ UNCHANGED rfaults
         \/ made = {} /\ fail /\ UNCHANGED <<rfs, rfaults>>
         \/ \E x \in made : rfs' = x[1] /\ Injected /\ Goes(<<>>)
  /\ UNCHANGED hushed /\ Steady

write_file ==
  /\ Doing("text")
  /\ LET made == open_trunc(rfs, Do.dst, TRUE)
     IN  \/ \E x \in made : /\ rfs' = [x[1] EXCEPT !.data[x[2]] = text(Do.dst)]
                            /\ Goes(<<>>) /\ UNCHANGED rfaults
         \/ made = {} /\ fail /\ UNCHANGED <<rfs, rfaults>>
         \/ \E x \in made : rfs' = x[1] /\ Injected /\ fail
  /\ UNCHANGED hushed /\ Steady

\* killed, or failed, and installed again
Again ==
  /\ kills < MaxKills /\ status # "deployed" /\ is_dir(rfs, opts.target)
  /\ kills' = kills + 1 /\ plan' = Steps(opts) /\ status' = "running" /\ hushed' = FALSE
  /\ UNCHANGED <<first, rfs, opts, rfaults>>

RootOff ==
  /\ rfs = [node |-> <<>> :> Dir, data |-> <<>>] /\ first = rfs /\ plan = <<>>
  /\ opts = [target |-> <<>>] /\ status = "off" /\ kills = MaxKills
  /\ rfaults = 0 /\ hushed = FALSE

RootNext == MakeDir \/ make_symlink \/ CopyTree \/ ListDir \/ CopyEntry
            \/ CopyFileOpen \/ CopyFileBlock \/ write_file \/ Again
RootSpec == RootInit /\ [][RootNext]_rootVars

(***************************************************************************)
(* What the installer promises.                                            *)
(***************************************************************************)
\* what a step is for: its directory, its link, its text, or a copy of each
\* file it was asked to copy, as it was before
Accomplished(t) ==
  CASE t.op = "mkdir" -> is_dir(rfs, t.dst)
    [] t.op = "link"  -> \/ lstat(rfs, t.dst) = {Link(t.src)}
                         \/ lstat(rfs, t.dst) = lstat(first, t.dst) /\ lstat(first, t.dst) # {}
    [] t.op = "text"  -> \E n \in stat(rfs, t.dst) : Found(rfs, n) = <<"file", text(t.dst)>>
    [] t.op \in {"tree", "copy"} ->
         \A q \in Real(first, t.src) : (t.op = "tree" => KindAt(first, q) = "dir") =>
           \A x \in ViewAt(first, q) : x[2][1] = "file" =>
             \E n \in stat(rfs, t.dst \o x[1]) : Found(rfs, n) = x[2]

\* A target no write goes out of: it has no links but those of usrmerge, and no
\* file of it has a second name; and what is copied is neither in it nor above it.
Origins == {t.src : t \in {x \in ToSet(Steps(opts)) : x.op \in {"tree", "copy"}}}
Separate ==
  \A p \in Real(first, opts.target) :
    /\ \A q \in Below(first, p) :
         /\ KindAt(first, q) = "link" => \E m \in ToSet(MergeLinks) : q = In(p, m)
         /\ KindAt(first, q) = "file" => \A r \in DOMAIN first.node :
                                           r # q => first.node[r] # first.node[q]
    /\ \A s \in Origins : \A q \in Real(first, s) : ~Under(p, q) /\ ~Under(q, p)

(* "skeleton deployed" means that the whole of it is there, on a fresh     *)
(* target and on what any killed or failed installation left behind.       *)
(* Exceptions: a read or a link that fails, a directory that does not open *)
(* and entries beyond MaxNames, all hushed up (main.c:125, :71, :184), and *)
(* targets that are not Separate: -b onto the source itself empties every  *)
(* file of it, as does a link or a second name that leads there (:117).    *)
DeployedIsWhole ==
  status = "deployed" /\ ~hushed /\ Separate =>
    \A i \in 1..Len(Steps(opts)) : Accomplished(Steps(opts)[i])
=============================================================================
