------------------------------ MODULE MCFiles ------------------------------
(***************************************************************************)
(* Small instances of the programs that work on files: each behaviour is   *)
(* one run of one of them.                                                 *)
(***************************************************************************)
EXTENDS FileTools, Tar, Dd, Rootfs

Base == <<>> :> Dir @@ <<"m">> :> Dir
A == {<<"a">> :> File(1),
      <<"a">> :> Dir @@ <<"a", "x">> :> File(1) @@ <<"a", "l">> :> Link(<<"b">>),
      <<"a">> :> Dir @@ <<"a", "x">> :> Dir @@ <<"a", "x", "y">> :> File(1)}
B == {<<>> :> Dir,
      <<"b">> :> File(2), <<"b">> :> File(1), <<"b">> :> Link(<<"a">>),
      <<"b">> :> Dir @@ <<"b", "x">> :> File(2)}
M == {<<>> :> Dir,
      <<"m", "a">> :> File(3), <<"m", "a">> :> Link(<<"a">>),
      <<"m", "a">> :> Dir @@ <<"m", "a", "x">> :> Link(<<"b">>)}

\* one of b and m at a time differs from the empty place, or what b moves to
\* in m is a link to what a moves to
Places == {x \in B \X M : <<>> \in DOMAIN x[1] \cup DOMAIN x[2]}
          \cup {<<<<"b">> :> File(2), <<"m", "b">> :> Link(<<"m", "a">>)>>}
MCTrees == {[node |-> Base @@ a @@ b @@ m,
             data |-> <<<<"A1", "A2">>, <<"B1">>, <<"C1">>>>] :
              a \in A, <<b, m>> \in Places}

Cmd(tool, flags, args) == [tool |-> tool, flags |-> flags, args |-> args]
a == <<"a">>
b == <<"b">>
c == <<"c">>
ma == <<"m", "a">>
away == <<"m">>
MCCommands ==
  {Cmd("mv", {}, x) : x \in {<<a, b>>, <<a, c>>, <<a, ma>>, <<ma, b>>, <<a, b, away>>,
                             <<b, away>>, <<a, ma, b>>, <<a, <<"a", "l", "z">>>>,
                             <<a, <<"a", "x">>, away>>}}
  \cup {Cmd("cp", f, x) : f \in {{}, {"r"}, {"f"}, {"r", "f"}},
                          x \in {<<a, b>>, <<a, c>>, <<a, b, away>>, <<a, <<"a", "z">>>>,
                                 <<ma, b>>}}
  \cup {Cmd("rm", f, x) : f \in {{}, {"r"}, {"r", "f"}}, x \in {<<a>>, <<a, b>>, <<ma>>}}
  \cup {Cmd("ln", f, x) : f \in {{}, {"s"}, {"f"}, {"s", "f"}}, x \in {<<a, b>>, <<b, c>>}}
  \cup {Cmd("mkdir", f, x) : f \in {{}, {"p"}}, x \in {<<<<"c", "d", "e">>>>, <<<<"b", "c">>, a>>}}
  \cup {Cmd("rmdir", {}, <<b, c>>), Cmd("touch", {}, <<b, c>>), Cmd("touch", {"c"}, <<c>>),
        Cmd("cat", {}, <<a, b>>), Cmd("wrt", {}, <<b>>)}
MCMeddled == {<<"a", "x">>, <<"a", "w">>}

(* tar *)
Entry0(name, type, names, inner) ==
  [name |-> name, type |-> type, data |-> [i \in 1..Len(names) |-> Datum(names[i])],
   inner |-> inner]
MCEntries ==
  {<<Entry0("f", "file", f, FALSE)>> \o rest :
     f \in {<<>>, <<"f1">>, <<"f1", "f2">>, <<"f1", "f2", "f3">>},
     rest \in {<<>>,
               <<Entry0("l", "link", <<>>, FALSE), Entry0("h", "file", <<"h1">>, FALSE)>>,
               <<Entry0("d", "dir", <<>>, FALSE),
                 Entry0("d/g", "file", <<"g1", "g2", "g3">>, TRUE)>>}}

(* dd *)
MCOperands ==
  {o \in [ibs : {2, 3}, obs : {1, 2}, count : {NoCount, 0, 2}, skip : {0, 1}, seek : {0, 2},
           notrunc : BOOLEAN, seekable : BOOLEAN] : o.ibs # o.obs}
MCInputs == {<<>>, <<"1", "2", "3", "4", "5">>}
MCOutputs == {<<"a", "b", "c">>}

(* cact-rootfs: a fresh target, an older installation, and targets that an *)
(* installation fails on or leaves alone.                                  *)
Source == <<"s">> :> Dir @@ <<"s", "usr">> :> Dir @@ <<"s", "usr", "bin">> :> Dir
          @@ <<"s", "usr", "bin", "c">> :> File(1) @@ <<"s", "usr", "bin", "d">> :> File(2)
          @@ <<"s", "k">> :> File(3)
Targets ==
  {<<>> :> Dir, <<"t", "etc">> :> File(4), <<"t", "lib">> :> Dir,
   <<"s", "usr", "bin", "e">> :> Link(<<"s", "k">>),
   <<"t", "bin">> :> Link(<<"t", "usr", "bin">>) @@ <<"t", "usr">> :> Dir
     @@ <<"t", "usr", "bin">> :> Dir @@ <<"t", "usr", "bin", "c">> :> File(4)}
MCHosts == {[node |-> <<>> :> Dir @@ <<"t">> :> Dir @@ Source @@ t,
             data |-> <<<<"1", "2">>, <<"3">>, <<"k">>, <<"old", "er", "x">>>>] : t \in Targets}
Kernel == <<"s", "k">>
Module == <<"s", "usr", "bin", "d">>
Install(target0, from, base, kernel, module, grub) ==
  [target |-> target0, srcroot |-> from, base |-> base, kernel |-> kernel,
   module |-> module, grub |-> grub]
MCOptions ==
  {Install(<<"t">>, <<"s">>, TRUE, Kernel, Module, NotGiven),
   Install(<<"t">>, <<"s">>, FALSE, Kernel, NotGiven, Kernel),
   Install(<<"t">>, <<"u">>, TRUE, NotGiven, <<"u">>, NotGiven),
   Install(<<"s">>, <<"s">>, TRUE, NotGiven, NotGiven, NotGiven),
   Install(<<"u">>, <<"s">>, FALSE, NotGiven, NotGiven, NotGiven)}

ToolOff ==
  /\ fs = [node |-> Base, data |-> <<>>] /\ fs0 = fs /\ todo = <<>> /\ ret = 0 /\ rc = 1
  /\ out = <<>> /\ faults = 0 /\ meddles = 0 /\ missed = 0 /\ cmd = Cmd("off", {}, <<a>>)

FilesInit ==
  \/ Init /\ TarOff /\ DdOff /\ RootOff
  \/ ToolOff /\ TarInit /\ DdOff /\ RootOff
  \/ ToolOff /\ TarOff /\ DdOpen /\ RootOff
  \/ ToolOff /\ TarOff /\ DdOff /\ RootInit

FilesNext ==
  \/ ToolNext /\ UNCHANGED <<tarVars, ddVars, rootVars>>
  \/ TarNext /\ UNCHANGED <<toolVars, ddVars, rootVars>>
  \/ DdNext /\ UNCHANGED <<toolVars, tarVars, rootVars>>
  \/ RootNext /\ UNCHANGED <<toolVars, tarVars, ddVars>>

FilesSpec ==
  FilesInit /\ [][FilesNext]_<<toolVars, tarVars, ddVars, rootVars>> /\ WF_toolVars(Tool)
=============================================================================
