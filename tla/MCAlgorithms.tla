---------------------------- MODULE MCAlgorithms ----------------------------
(***************************************************************************)
(* Small instances of the programs that compute: the makers of file        *)
(* systems, the firmware extractor and the text tools.  Each behaviour is  *)
(* one run of one of them.                                                 *)
(***************************************************************************)
EXTENDS Filters, Mkfs, Firmextr

a == 97
b == 98
COLON == 58
Text0(alphabet, n) == BoundedSeq(alphabet, n)
J(tool, files, o) == [tool |-> tool, files |-> files, o |-> o]
One(ts) == {<<t>> : t \in ts}
Some(ts) == One(ts) \cup {<<Missing>>} \cup {<<t, Missing, u>> : t \in {x \in ts : Len(x) = 2}, u \in {x \in ts : Len(x) < 2}}
Ls == Text0({a, NL}, 4)
Words == Text0({a, SP, NL}, 4)
Two == {<<x, y>> : x, y \in Text0({a, NL}, 2) \ {<<>>}}
None == {}

TextJobs ==
  <<{J("head", f, [n |-> n, by_bytes |-> u]) : f \in Some(Two), n \in -1..3, u \in BOOLEAN}
    , {J("tail", f, [n |-> n, by_bytes |-> u]) : f \in Some(Ls), n \in -1..4, u \in BOOLEAN}
    , {J("wc", f, None) : f \in Some(Words)}
    , {J("sort", <<t>>, o) : t \in Text0({a, 65, b, NL}, 4), o \in SUBSET {"r", "u", "f"}}
    , {J("sort", f, o \cup {"n"}) : f \in Some(Text0({49, 50, NL}, 4)), o \in SUBSET {"r", "u"}}
    , {J("uniq", <<t>>, o) : t \in Text0({a, b, NL}, 5), o \in SUBSET {"d", "u"}}
    , {J("cut", f, [list |-> l, delim |-> COLON, chars |-> c, suppress |-> s]) :
          f \in One(Text0({a, COLON, NL}, 4)) \cup {<<Missing>>, <<<<a, COLON>>, <<b>>>>},
          l \in {<<<<1, 1>>>>, <<<<2, 9>>>>, <<<<3, 3>>, <<1, 1>>>>}, c \in BOOLEAN, s \in BOOLEAN}>>
Set1 == {[as |-> <<a>>, means |-> <<a>>], [as |-> <<a, DASH, 99>>, means |-> <<a, b, 99>>],
         [as |-> <<b, DASH>>, means |-> <<b, DASH>>],
         [as |-> <<BACKSLASH, 110, a>>, means |-> <<NL, a>>]}
Set2 == {[as |-> <<>>, means |-> <<>>], [as |-> <<b>>, means |-> <<b>>],
         [as |-> <<99, a, b>>, means |-> <<99, a, b>>]}
CharJobs ==
  <<{J("tr", <<t>>, [flags |-> f, set1 |-> x, set2 |-> y]) :
     t \in Text0({a, b, NL}, 4), f \in SUBSET {"d", "s"}, x \in Set1, y \in Set2}
    , {J("tee", <<Take(<<"c1", "c2">>, n)>>, [wanted |-> w, opens |-> o, broken |-> x]) :
          n \in 0..2, w \in {{"f", "g"}}, o \in SUBSET {"f", "g"}, x \in SUBSET {"f", "stdout"}}
    , {J("seq", <<>>, [first |-> x, step |-> s, last |-> y]) : x, y \in -3..3, s \in -3..3}
    , {J("printf", <<>>, [format |-> f, args |-> Take(<<"p", "q", "r", "s">>, n)]) :
          f \in Text0({"%s", "x"}, 3), n \in 0..4}>>
Spreads == [1..3 -> 0..3]
StreamJobs ==
  <<{J("tac", f, None) : f \in Some(Text0({a, b, NL}, 4))}
    , {J("shuf", <<>>, [items |-> i, count |-> n, rand |-> <<0>> \o r]) :
          i \in {<<>>, <<1>>, <<1, 2, 3, 4>>, <<1, 2, 2>>}, n \in {-1, 0, 2, 9}, r \in Spreads}
    , {J("split", <<t>>, [bytes |-> n[1], lines |-> n[2], width |-> w, letters |-> 2, denied |-> d]) :
          t \in Text0({a, NL}, 5), n \in {<<0, 0>>, <<0, 1>>, <<0, 2>>, <<1, 0>>, <<2, 0>>},
          w \in 1..2, d \in {0, 2}}
    , {J("fold", f, [width |-> w, spaces |-> s]) :
          f \in One(Text0({a, SP, NL}, 5)) \cup Some(Text0({a, NL}, 2)), w \in 0..3, s \in BOOLEAN}
    , {J("paste", <<x, y, z>>, [delims |-> d, serial |-> s]) :
          x, y \in Text0({a, NL}, 3), z \in {Missing, <<b, NL, b>>},
          d \in {<<COLON>>, <<COLON, TAB>>, <<0>>}, s \in BOOLEAN}>>
FormatJobs ==
  <<{J("nl", f, [all |-> x, start |-> s, incr |-> i]) :
     f \in Some(Ls), x \in BOOLEAN, s \in {1, 5}, i \in 1..2}
    , {J("rev", f, None) : f \in Some(Text0({a, b, NL}, 4))}
    , {J("strings", <<t>>, [minlen |-> n]) : t \in Text0({a, 1, TAB}, 5), n \in 1..3}
    , {J("base64", <<t>>, [wrap |-> w]) : t \in Text0({0, 255, 65}, 4), w \in {0, 1, 3, 4, 76}}
    , {J(tool, f, [skip |-> s, limit |-> n, per |-> 2]) :
          tool \in {"od", "hexdump"}, f \in {<<x, <<b, a, b>>>> : x \in Ls \cup {Missing}},
          s \in {0, 1, 4, 9}, n \in {-1, 0, 3}}
    , {J("cmp", <<x, y>>, [skip1 |-> s, skip2 |-> u, silent |-> FALSE, list |-> l]) :
          x, y \in Text0({a, b}, 3) \cup {Missing}, s \in 0..1, u \in {0, 2}, l \in BOOLEAN}>>
\* two changes with up to four equal lines between them, and small texts
Doc(ls) == Concat([k \in 1..Len(ls) |-> <<ls[k], NL>>])
Longer == {Doc(x \o <<49, 50, 51, 52>> \o y) : x, y \in {<<>>, <<a>>, <<b>>}}
          \cup {Doc(<<a>> \o Take(<<49, 50, 51>>, n) \o <<b>>) : n \in 1..3}
DiffJobs ==
  <<{J("diff", <<x, y>>, [flags |-> f, cells |-> 40]) :
     x, y \in Text0({a, b, NL}, 4) \cup {Missing}, f \in {{}, {"u"}}}
    , {J("diff", <<x, y>>, [flags |-> f, cells |-> 64]) :
     x, y \in Longer, f \in {{}, {"u"}, {"q"}}}>>
Arg(type, files) == [type |-> type, files |-> files]
GrepJobs ==
  <<{J("grep", <<Arg("file", <<f>>)>>, [pat |-> p, flags |-> o]) :
     f \in {<<x, y>> : x, y \in Text0({a, b, NL}, 2)}, p \in {<<>>, <<a>>, <<65, b>>},
     o \in {{}, {"i"}, {"v"}, {"i", "w"}, {"q"}, {"l"}, {"c"}, {"i", "v", "c"}, {"l", "c"}, {"q", "c"}}}
    , {J("grep", x, [pat |-> <<a>>, flags |-> o]) :
          x \in {<<Arg("file", <<f>>), Arg(t, <<>>)>> : t \in {"missing", "device"},
                   f \in Two}
                \cup {<<Arg("dir", <<f, Missing, f>>)>> : f \in Two},
          o \in {{}, {"r"}, {"r", "v"}, {"c"}}}>>
MCJobs == TextJobs \o CharJobs \o StreamJobs \o FormatJobs \o DiffJobs \o GrepJobs

(* Volumes just below, at and above every boundary of groups, bitmaps and  *)
(* descriptors; devices that end before the size they report; and devices  *)
(* that report nothing.                                                    *)
Disk(reported, sectors) == [reported |-> reported, sectors |-> sectors]
Edges == {255, 256, 300, 511, 512, 513, 530, 700, 1023, 1024, 1025, 1100, 1190, 2000,
          5200, 6000, 9000}
MCDevices ==
  {Disk(0, n) : n \in 0..50 \cup {300, 1000, 1100, 1500}}
  \cup {Disk(Sector * n + k, n - m) : n \in Edges, k \in {0, 3}, m \in {0, 9}}
MCE4Options == [block_size : {16, 32}, inode_size : {1, 2, 20}]
MCF32Devices ==
  {Disk(Sector * n, n) : n \in 1..420} \cup {Disk(0, n) : n \in {0, 15, 100, 300}}
  \cup {Disk(Sector * n, n - 300) : n \in {330, 370}}

Entry(name, type, size) == [name |-> name, type |-> type, size |-> size]
Asks(path, prefix) == [path |-> path, prefix |-> prefix]
\* the members one after the other, each from where the one before it ends
RECURSIVE LaidOut(_, _)
LaidOut(ms, at) ==
  IF ms = <<>> THEN <<>>
  ELSE LET m == [name |-> ms[1].name, type |-> ms[1].type, size |-> ms[1].size, at |-> at]
       IN  <<m>> \o LaidOut(Tail(ms), After(m))
MCFwArchives ==
  {LaidOut(<<Entry(<<"a">>, "dir", 0), Entry(<<"a", "x">>, "file", x),
             Entry(<<"a", "l">>, "link", 0), Entry(<<"a", "y">>, "file", y),
             Entry(<<"b">>, "file", 1)>>, 0) : x \in {0, 3}, y \in {2, 5}} \cup {<<>>}
  \cup {LaidOut(<<Entry(<<"a", "full">>, "file", 3), Entry(<<"b">>, "file", 1)>>, 0)}
MCFullNames == {<<"a", "full">>}
MCFwPatterns ==
  {<<>>, <<Asks(<<"a">>, TRUE)>>, <<Asks(<<"a", "x">>, FALSE)>>,
   <<Asks(<<"a", "y">>, FALSE), Asks(<<"b">>, FALSE)>>,
   <<Asks(<<"a", "y">>, FALSE), Asks(<<"c">>, FALSE)>>,
   <<Asks(<<"a">>, TRUE), Asks(<<"b">>, FALSE)>>, <<Asks(<<"a", "full">>, FALSE)>>}
MCLongNames == {<<"b">>}

JobOff == job = J("off", <<>>, None) /\ jobAt = "off" /\ answer = <<>>
FollowOff ==
  /\ log = <<>> /\ shown = <<>> /\ pos = 0 /\ want = 0 /\ base = 0 /\ followAt = "off"
  /\ grown = MaxGrown /\ truncs = MaxTruncs
Ext4Off ==
  /\ dev = Disk(0, 0) /\ opts4 = [block_size |-> 0] /\ geo = NoGeometry /\ grp = 0 /\ made = 0
  /\ disk = <<>> /\ mkfs4 = "off"
Fat32Off ==
  /\ dev32 = Disk(0, 0) /\ label = NoLabel /\ geo32 = <<>> /\ todo32 = <<>> /\ sec = <<>>
  /\ mkfs32 = "off"
FwOff ==
  /\ members = <<>> /\ pats = <<>> /\ list = TRUE /\ fwLen = 0 /\ fwPos = 0 /\ fwAt = "off"
  /\ member = 0 /\ toGo = 0 /\ skip = 0 /\ satisfied = {} /\ fwOut = <<>> /\ fwRc = 0
  /\ fwFaults = 0

AlgInit ==
  \/ JobInit /\ FollowOff /\ Ext4Off /\ Fat32Off /\ FwOff
  \/ JobOff /\ FollowInit /\ Ext4Off /\ Fat32Off /\ FwOff
  \/ JobOff /\ FollowOff /\ Ext4Init /\ Fat32Off /\ FwOff
  \/ JobOff /\ FollowOff /\ Ext4Off /\ Fat32Init /\ FwOff
  \/ JobOff /\ FollowOff /\ Ext4Off /\ Fat32Off /\ FwInit

AlgNext ==
  \/ RunTool /\ UNCHANGED <<followVars, ext4Vars, fat32Vars, fwVars>>
  \/ FollowNext /\ UNCHANGED <<jobVars, ext4Vars, fat32Vars, fwVars>>
  \/ Ext4Next /\ UNCHANGED <<jobVars, followVars, fat32Vars, fwVars>>
  \/ Fat32Next /\ UNCHANGED <<jobVars, followVars, ext4Vars, fwVars>>
  \/ FwNext /\ UNCHANGED <<jobVars, followVars, ext4Vars, fat32Vars>>
AlgSpec == AlgInit /\ [][AlgNext]_<<jobVars, followVars, ext4Vars, fat32Vars, fwVars>>
=============================================================================
