---------------------------- MODULE RootfsProofs ----------------------------
(***************************************************************************)
(* cact-rootfs deploys the whole of what it was asked for.  The proof      *)
(* follows, for every place p the target leads to, what an installation    *)
(* may and must have done there (Ready): the file system is what it was,   *)
(* Grown below p only; the tasks of the plan are those of the steps or of  *)
(* entries of what is copied (PlanOK), and the file being copied holds the *)
(* blocks read so far (BlockOK); and unless the installation has failed or *)
(* hushed something up, each directory, link and file that a step is for   *)
(* is there already or due of a task that is left (Underway).              *)
(*                                                                         *)
(* Each call adds to the file system (Adds, Writes), each task gives way   *)
(* to tasks that what was due of it is due of (Gives), and no two steps    *)
(* fill the same place (Stepped).                                          *)
(***************************************************************************)
EXTENDS FileProofs, Rootfs, FiniteSetTheorems

-----------------------------------------------------------------------------
(* Paths.                                                                  *)

LEMMA ConcatParts ==
  ASSUME NEW a \in Path, NEW y \in Path
  PROVE  /\ a \o y \in Path /\ Len(a \o y) = Len(a) + Len(y)
         /\ Len(a) \in Nat /\ Len(y) \in Nat
         /\ \A i \in 1..(Len(a) + Len(y)) :
              (a \o y)[i] = IF i <= Len(a) THEN a[i] ELSE y[i - Len(a)]
<1>1. a \in Seq(STRING) /\ y \in Seq(STRING)
  BY DEF Path
<1> QED
  BY <1>1, ConcatProperties, LenProperties DEF Path

LEMMA SamePath ==
  ASSUME NEW s \in Path, NEW t \in Path, Len(s) = Len(t), \A i \in 1..Len(s) : s[i] = t[i]
  PROVE  s = t
BY SeqEqual DEF Path

LEMMA FrontLast ==
  ASSUME NEW y \in Path, y # <<>>
  PROVE  /\ y = Append(Front(y), Last(y)) /\ Front(y) \in Path /\ Last(y) \in STRING
         /\ Len(Front(y)) = Len(y) - 1 /\ Len(y) \in Nat \ {0}
         /\ Front(y) # <<>> => Front(y)[1] = y[1]
<1>1. Front(y) \in Path /\ Len(Front(y)) = Len(y) - 1 /\ Last(y) \in STRING /\ Len(y) \in Nat \ {0}
  BY FrontIn
<1>2. Append(SubSeq(y, 1, Len(y) - 1), y[Len(y)]) = SubSeq(y, 1, Len(y))
  BY <1>1, OneMoreBlock
<1>3. y = Append(Front(y), Last(y))
  BY <1>2, WholeSub DEF Front, Last
<1>4. ASSUME Front(y) # <<>> PROVE Front(y)[1] = y[1]
  <2>1. Len(Front(y)) \in Nat \ {0}
    BY <1>1, <1>4, FrontIn
  <2>2. Append(Front(y), Last(y))[1] = Front(y)[1]
    BY <1>1, <2>1, AppendParts
  <2> QED
    BY <1>3, <2>2
<1> QED
  BY <1>1, <1>3, <1>4

LEMMA Single ==
  ASSUME NEW S, NEW x \in S
  PROVE  <<x>> \in Seq(S) /\ Len(<<x>>) = 1 /\ <<x>>[1] = x /\ <<x>> # <<>>
OBVIOUS

LEMMA ConcatThree ==
  ASSUME NEW a \in Seq(STRING), NEW b \in Seq(STRING), NEW c \in Seq(STRING)
  PROVE  (a \o b) \o c = a \o (b \o c)
BY ConcatAssociative

LEMMA ConcatAppend ==
  ASSUME NEW a \in Path, NEW b \in Path, NEW x \in STRING
  PROVE  Append(a \o b, x) = a \o Append(b, x)
<1>0. a \in Seq(STRING) /\ b \in Seq(STRING) /\ a \o b \in Seq(STRING)
  BY ConcatParts DEF Path
<1>1. a \in Seq(STRING) /\ b \in Seq(STRING) /\ a \o b \in Seq(STRING) /\ <<x>> \in Seq(STRING)
  <2>1. <<x>> \in Seq(STRING)
    BY Single
  <2> QED
    BY <1>0, <2>1, Zenon
<1>2. Append(a \o b, x) = (a \o b) \o <<x>>
  BY ONLY <1>1, x \in STRING, AppendIsConcat, Zenon
<1>3. Append(b, x) = b \o <<x>>
  BY ONLY <1>1, x \in STRING, AppendIsConcat, Zenon
<1>4. (a \o b) \o <<x>> = a \o (b \o <<x>>)
  BY <1>1, ConcatThree
<1> QED
  BY ONLY <1>2, <1>3, <1>4, Zenon

LEMMA FrontAhead ==
  ASSUME NEW a \in Path, NEW y \in Path, y # <<>>
  PROVE  Front(a \o y) = a \o Front(y) /\ Last(a \o y) = Last(y) /\ a \o y # <<>>
<1> DEFINE c == a \o Front(y)
           n == Last(y)
<1>1. y = Append(Front(y), n) /\ Front(y) \in Path /\ n \in STRING
  BY FrontLast
<1>2. c \in Path
  BY <1>1, ConcatParts
<1>3. a \o Append(Front(y), n) = Append(c, n)
  BY <1>1, ConcatAppend, Zenon
<1>4. a \o y = Append(c, n)
  BY <1>1, <1>3, Zenon
<1> HIDE DEF c, n
<1>5. Front(Append(c, n)) = c /\ Last(Append(c, n)) = n /\ Append(c, n) # <<>>
  BY <1>1, <1>2, AppendIn
<1>6. Front(a \o y) = c /\ Last(a \o y) = n /\ a \o y # <<>>
  BY <1>4, <1>5, Zenon
<1> QED
  BY <1>6 DEF c, n

LEMMA NothingAhead == ASSUME NEW a \in Path PROVE a \o <<>> = a /\ <<>> \in Path
BY ConcatEmptySeq DEF Path

LEMMA SameAhead ==
  ASSUME NEW a \in Path, NEW y \in Path, NEW z \in Path, a \o y = a \o z
  PROVE  y = z
BY AheadParts

LEMMA UnderEach ==
  ASSUME NEW a \in Path, NEW b \in Path
  PROVE  Under(a, b) <=> Len(a) <= Len(b) /\ \A i \in 1..Len(a) : a[i] = b[i]
<1>1. Len(a) \in Nat /\ Len(b) \in Nat
  BY LenProperties DEF Path
<1>2. ASSUME Len(a) <= Len(b), \A i \in 1..Len(a) : a[i] = b[i] PROVE Under(a, b)
  BY <1>1, <1>2, SameStart DEF Under, IsPrefix
<1>3. ASSUME Under(a, b) PROVE Len(a) <= Len(b) /\ \A i \in 1..Len(a) : a[i] = b[i]
  <2> DEFINE t == SubSeq(b, Len(a) + 1, Len(b))
  <2>1. t \in Path /\ a \o t = b
    BY <1>3, SuffixParts
  <2> HIDE DEF t
  <2>2. /\ Len(t) \in Nat /\ Len(b) = Len(a) + Len(t)
        /\ \A i \in 1..(Len(a) + Len(t)) : b[i] = IF i <= Len(a) THEN a[i] ELSE t[i - Len(a)]
    BY <2>1, ConcatParts, Zenon
  <2>3. \A i \in 1..Len(a) : i \in 1..(Len(a) + Len(t)) /\ i <= Len(a)
    BY <1>1, <2>2
  <2>4. Len(a) <= Len(b)
    BY <1>1, <2>2
  <2> QED
    BY <2>2, <2>3, <2>4, Zenon
<1> QED
  BY <1>2, <1>3

LEMMA UnderTrans ==
  ASSUME NEW a \in Path, NEW b \in Path, NEW c \in Path, Under(a, b), Under(b, c)
  PROVE  Under(a, c)
<1>1. Len(a) \in Nat /\ Len(b) \in Nat /\ Len(c) \in Nat
  BY LenProperties DEF Path
<1> QED
  BY <1>1, UnderEach

LEMMA UnderBoth ==
  ASSUME NEW a \in Path, NEW b \in Path, Under(a, b), Under(b, a)
  PROVE  a = b
<1>1. Len(a) \in Nat /\ Len(b) \in Nat
  BY LenProperties DEF Path
<1> QED
  BY <1>1, UnderEach, SamePath

\* what a name of a directory is under is the name or has the directory under it
LEMMA UnderNext ==
  ASSUME NEW a \in Path, NEW b \in Path, NEW x \in STRING, Under(a, Append(b, x))
  PROVE  Under(a, b) \/ a = Append(b, x)
<1> DEFINE w == Append(b, x)
<1>1. Len(a) \in Nat /\ Len(b) \in Nat
  BY LenProperties DEF Path
<1>2. w \in Path /\ Len(w) = Len(b) + 1 /\ \A i \in 1..Len(b) : w[i] = b[i]
  BY AppendParts
<1> HIDE DEF w
<1>3. Under(a, w)
  BY DEF w
<1>4. Len(a) <= Len(b) + 1 /\ \A i \in 1..Len(a) : a[i] = w[i]
  BY <1>2, <1>3, UnderEach
<1>5. CASE Len(a) <= Len(b)
  <2>1. \A i \in 1..Len(a) : a[i] = b[i]
    BY <1>1, <1>2, <1>4, <1>5
  <2> QED
    BY <1>5, <2>1, UnderEach
<1>6. CASE Len(a) = Len(b) + 1
  <2>1. a = w
    BY <1>2, <1>4, <1>6, SamePath
  <2> QED
    BY <2>1 DEF w
<1>7. Len(a) <= Len(b) \/ Len(a) = Len(b) + 1
  BY <1>1, <1>4
<1> QED
  BY <1>5, <1>6, <1>7, Zenon

LEMMA AppendApart ==
  ASSUME NEW a \in Path, NEW x \in STRING, NEW y \in STRING, Under(Append(a, x), Append(a, y))
  PROVE  x = y
<1> DEFINE v == Append(a, x)
<1>1. Len(a) \in Nat /\ v \in Path /\ Len(v) = Len(a) + 1
  BY AppendParts, LenProperties DEF Path
<1> HIDE DEF v
<1>2. ~Under(v, a)
  BY <1>1 DEF Under, IsPrefix
<1>3. v = Append(a, y)
  <2>1. Under(v, Append(a, y))
    BY DEF v
  <2> QED
    BY <1>1, <1>2, <2>1, UnderNext
<1>4. Append(a, x) = Append(a, y)
  BY <1>3 DEF v
<1>5. Last(Append(a, x)) = x /\ Last(Append(a, y)) = y
  BY AppendIn
<1> QED
  BY <1>4, <1>5, Zenon

\* the first name of what is below a directory
LEMMA FirstName ==
  ASSUME NEW z \in Path, z # <<>>
  PROVE  \E n \in STRING, y \in Path : z[1] = n /\ \A a \in Path : a \o z = Append(a, n) \o y
<1> DEFINE n == z[1]
           y == SubSeq(z, 2, Len(z))
<1>1. Len(z) \in Nat \ {0} /\ z \in Seq(STRING) /\ n \in STRING
  <2>1. Len(z) \in Nat \ {0} /\ z \in Seq(STRING)
    BY FrontIn DEF Path
  <2> QED
    BY <2>1, ElementOfSeq
<1>2. y \in Seq(STRING) /\ <<n>> \in Seq(STRING)
  <2>1. 2 \in Int /\ Len(z) \in Int /\ \A i \in 2..Len(z) : z[i] \in STRING
    BY <1>1, ElementOfSeq
  <2>2. y \in Seq(STRING)
    BY <2>1, SubSeqProperties
  <2> QED
    BY <1>1, <2>2
<1>3. z = <<n>> \o y
  <2>1. 1 \in 1..Len(z) /\ Len(z) \in 1..Len(z) /\ 1 + 1 = 2
    BY <1>1
  <2>2. SubSeq(z, 1, Len(z)) = <<z[1]>> \o SubSeq(z, 1 + 1, Len(z))
    BY ONLY <1>1, <2>1, SubSeqRecursiveFirst, Zenon
  <2> QED
    BY <2>1, <2>2, WholeSub
<1> HIDE DEF n, y
<1>4. ASSUME NEW a \in Path PROVE a \o z = Append(a, n) \o y
  <2>1. a \in Seq(STRING)
    BY DEF Path
  <2>2. (a \o <<n>>) \o y = a \o (<<n>> \o y)
    BY <1>2, <2>1, ConcatThree
  <2>3. Append(a, n) = a \o <<n>>
    BY ONLY <1>1, <2>1, AppendIsConcat, Zenon
  <2> QED
    BY ONLY <1>3, <2>2, <2>3, Zenon
<1>5. y \in Path
  BY <1>2 DEF Path
<1>6. z[1] = n
  BY DEF n
<1> QED
  BY <1>1, <1>4, <1>5, <1>6

-----------------------------------------------------------------------------
(* The target, and what an installation makes of the file system.          *)

Merged == ToSet(MergeLinks)
Clear(y) == y \in Path /\ y # <<>> /\ <<y[1]>> \notin Merged

\* the usr beside a merge link
Beneath(o, m) == In(o.target, <<"usr">> \o m)

\* o installs on a, where its target is the place p, which Separate is about
Job(a, o, p) ==
  /\ a \in Hosts /\ o \in Options
  /\ p \in Real(a, o.target) /\ p \in DOMAIN a.node /\ a.node[p] = Dir
  /\ \A q \in Below(a, p) :
       /\ KindAt(a, q) = "link" => \E m \in Merged : q = In(p, m)
       /\ KindAt(a, q) = "file" => \A r \in DOMAIN a.node : r # q => a.node[r] # a.node[q]

Grown(f, a, o, p) ==
  /\ IsTree(f) /\ IsFiniteSet(DOMAIN f.node) /\ Extends(f, a)
  /\ \A x \in DOMAIN f.node \ DOMAIN a.node :
       /\ Under(p, x)
       /\ f.node[x].kind = "link" => \E m \in Merged : x = In(p, m)
       /\ \A m \in Merged : x = In(p, m) => f.node[x] = Link(Beneath(o, m))
  /\ \A x \in DOMAIN f.node : Under(p, x) /\ f.node[x].kind = "file" =>
       \A r \in DOMAIN f.node : r # x => f.node[r] # f.node[x]
  /\ Len(a.data) <= Len(f.data)
  /\ \A r \in DOMAIN a.node : ~Under(p, r) /\ a.node[r].kind = "file" =>
       f.data[a.node[r].ino] = a.data[a.node[r].ino]

LEMMA JobParts ==
  ASSUME NEW a, NEW o, NEW p, Job(a, o, p)
  PROVE  /\ IsTree(a) /\ LinksOk(a) /\ KindAt(a, <<>>) # "link" /\ p \in Path
         /\ o.target \in Path /\ o.srcroot \in Path /\ o.kernel \in Path /\ o.module \in Path
         /\ o.grub \in Path /\ o.base \in BOOLEAN
         /\ \A q \in DOMAIN a.node : q \in Path /\ Len(q) <= MaxDepth
<1>1. a \in Hosts /\ o \in Options /\ p \in DOMAIN a.node
  BY DEF Job
<1>2. IsTree(a) /\ \A q \in DOMAIN a.node : Len(q) <= MaxDepth
  BY <1>1, RootfsAssumption
<1>3. LinksOk(a) /\ KindAt(a, <<>>) = "dir" /\ DOMAIN a.node \subseteq Path
  BY <1>2, TreeParts
<1> QED
  BY <1>1, <1>2, <1>3, RootfsAssumption

LEMMA MergeNames ==
  /\ Merged = {<<"bin">>, <<"sbin">>, <<"lib">>}
  /\ \A m \in Merged : m \in Path /\ Len(m) = 1 /\ <<m[1]>> = m /\ m # <<>> /\ Front(m) = <<>>
  /\ \A m \in Merged : <<"usr">> \o m \in Path
<1> DEFINE s == << <<"bin">>, <<"sbin">>, <<"lib">> >>
<1>1. DOMAIN s = 1..3 /\ s[1] = <<"bin">> /\ s[2] = <<"sbin">> /\ s[3] = <<"lib">>
  OBVIOUS
<1> HIDE DEF s
<1>2. Merged = {s[i] : i \in 1..3}
  BY <1>1 DEF Merged, ToSet, MergeLinks, s
<1>3. 1..3 = {1, 2, 3}
  OBVIOUS
<1>4. Merged = {<<"bin">>, <<"sbin">>, <<"lib">>}
  BY <1>1, <1>2, <1>3
<1>5. \A x \in STRING : <<x>> \in Path /\ Len(<<x>>) = 1 /\ <<x>>[1] = x /\ <<x>> # <<>>
  BY Single DEF Path
<1>6. \A x \in STRING : Front(<<x>>) = <<>>
  <2> SUFFICES ASSUME NEW x \in STRING PROVE Front(<<x>>) = <<>>
    OBVIOUS
  <2> DEFINE w == <<x>>
  <2>1. w \in Path /\ Len(w) = 1 /\ w # <<>>
    BY <1>5, Zenon
  <2> HIDE DEF w
  <2>a. Front(w) \in Path /\ Len(Front(w)) = Len(w) - 1
    BY <2>1, FrontIn, Zenon
  <2>2. Front(<<x>>) \in Seq(STRING) /\ Len(Front(<<x>>)) = 0
    BY <2>1, <2>a DEF Path, w
  <2> QED
    BY <2>2, EmptySeq
<1>7. \A m \in Merged : \E x \in STRING : m = <<x>>
  <2>1. "bin" \in STRING /\ "sbin" \in STRING /\ "lib" \in STRING
    BY NamesAssumption
  <2> QED
    BY <1>4, <2>1, Zenon
<1>8. \A m \in Merged : m \in Path /\ Len(m) = 1 /\ <<m[1]>> = m /\ m # <<>> /\ Front(m) = <<>>
  BY <1>5, <1>6, <1>7
<1>9. \A m \in Merged : <<"usr">> \o m \in Path
  <2>1. <<"usr">> \in Path
    <3>1. "usr" \in STRING
      BY NamesAssumption
    <3> QED
      BY <1>5, <3>1, Zenon
  <2> QED
    BY <1>8, <2>1, ConcatParts
<1> QED
  BY <1>4, <1>8, <1>9

LEMMA GrownStarts ==
  ASSUME NEW a, NEW o, NEW p, Job(a, o, p)
  PROVE  Grown(a, a, o, p)
<1>1. IsTree(a) /\ IsFiniteSet(DOMAIN a.node)
  BY RootfsAssumption DEF Job
<1>2. Extends(a, a)
  BY DEF Extends
<1>3. Len(a.data) <= Len(a.data)
  <2>1. Len(a.data) \in Nat
    BY <1>1, LenProperties DEF IsTree
  <2> QED
    BY <2>1
<1>4. \A x \in DOMAIN a.node : Under(p, x) /\ a.node[x].kind = "file" =>
        \A r \in DOMAIN a.node : r # x => a.node[r] # a.node[x]
  BY DEF Job, Below, KindAt
<1> QED
  BY <1>1, <1>2, <1>3, <1>4 DEF Grown

LEMMA GrownParts ==
  ASSUME NEW a, NEW o, NEW p, Job(a, o, p), NEW f, Grown(f, a, o, p)
  PROVE  /\ IsTree(f) /\ LinksOk(f) /\ KindAt(f, <<>>) # "link" /\ DOMAIN f.node \subseteq Path
         /\ Data(f) /\ Extends(f, a)
         /\ p \in DOMAIN f.node /\ f.node[p] = Dir /\ Real(f, o.target) = {p}
         /\ \A x \in DOMAIN f.node : Under(p, x) /\ f.node[x].kind = "link" =>
              \E m \in Merged : x = In(p, m)
<1>1. IsTree(f) /\ Extends(f, a)
  BY DEF Grown
<1>2. LinksOk(f) /\ KindAt(f, <<>>) = "dir" /\ DOMAIN f.node \subseteq Path
  BY <1>1, TreeParts
<1>3. Data(f)
  BY <1>1 DEF IsTree, Data
<1>4. p \in Real(a, o.target) /\ p \in DOMAIN a.node /\ a.node[p] = Dir /\ o.target \in Path
      /\ LinksOk(a)
  BY JobParts DEF Job
<1>5. p \in DOMAIN f.node /\ f.node[p] = Dir
  BY <1>1, <1>4 DEF Extends
<1>6. Real(f, o.target) = {p}
  <2>1. p \in Real(f, o.target)
    BY <1>1, <1>2, <1>4, ExtendedLeads, LinksRange DEF Real
  <2>2. \A x \in Real(f, o.target) : x = p
    BY <1>2, <1>4, <2>1, LeadsOnce, LinksRange DEF Real
  <2> QED
    BY <2>1, <2>2
<1>7. ASSUME NEW x \in DOMAIN f.node, Under(p, x), f.node[x].kind = "link"
      PROVE  \E m \in Merged : x = In(p, m)
  <2>1. CASE x \in DOMAIN a.node
    <3>1. x \in Below(a, p) /\ KindAt(a, x) = "link"
      BY <1>1, <1>7, <2>1 DEF Below, KindAt, Extends
    <3> QED
      BY <3>1 DEF Job
  <2>2. CASE x \notin DOMAIN a.node
    BY <1>7, <2>2 DEF Grown
  <2> QED
    BY <2>1, <2>2
<1> QED
  BY <1>1, <1>2, <1>3, <1>5, <1>6, <1>7

\* The place of a name of the target: no link is on the way but that of a
\* merge link itself.
LEMMA Places ==
  ASSUME NEW a, NEW o, NEW p, Job(a, o, p), NEW f, Grown(f, a, o, p), NEW y \in Path,
         y = <<>> \/ Clear(y)
  PROVE  /\ Real(f, o.target \o y) \subseteq {p \o y}
         /\ Clear(y) => Real(f, o.target \o y) \subseteq Named(f, o.target \o y)
<1> DEFINE Z == {n \in Nat : \A z \in Path : Len(z) = n /\ (z = <<>> \/ Clear(z)) =>
                   /\ Real(f, o.target \o z) \subseteq {p \o z}
                   /\ Clear(z) => Real(f, o.target \o z) \subseteq Named(f, o.target \o z)}
<1>0. /\ LinksOk(f) /\ o.target \in Path /\ p \in Path /\ DOMAIN f.node \subseteq Path
      /\ Real(f, o.target) = {p}
      /\ \A x \in DOMAIN f.node : Under(p, x) /\ f.node[x].kind = "link" =>
              \E m \in Merged : x = In(p, m)
  BY GrownParts, JobParts
<1>1. 0 \in Z
  <2> SUFFICES ASSUME NEW z \in Path, Len(z) = 0
               PROVE  Real(f, o.target \o z) \subseteq {p \o z} /\ ~Clear(z)
    OBVIOUS
  <2>1. z = <<>>
    BY EmptySeq DEF Path
  <2> QED
    BY <1>0, <2>1, NothingAhead DEF Clear
<1>2. ASSUME NEW n \in Nat, n \in Z PROVE n + 1 \in Z
  <2> SUFFICES ASSUME NEW z \in Path, Len(z) = n + 1, Clear(z),
                      NEW x \in Real(f, o.target \o z)
               PROVE  x = p \o z /\ x \in Named(f, o.target \o z)
    <3>1. \A z \in Path : Len(z) = n + 1 => z # <<>>
      BY EmptySeq DEF Path
    <3> QED
      BY <3>1
  <2>1. z # <<>> /\ z = Append(Front(z), Last(z)) /\ Front(z) \in Path /\ Last(z) \in STRING
        /\ Len(Front(z)) = n /\ (Front(z) # <<>> => Front(z)[1] = z[1])
    <3>1. z # <<>>
      BY DEF Clear
    <3> QED
      BY <3>1, FrontLast
  <2>2. Front(z) = <<>> \/ Clear(Front(z))
    BY <2>1 DEF Clear
  <2>3. Real(f, o.target \o Front(z)) \subseteq {p \o Front(z)}
    BY <1>2, <2>1, <2>2
  <2> DEFINE w == o.target \o z
  <2>4. w \in Path /\ w # <<>> /\ Front(w) = o.target \o Front(z) /\ Last(w) = Last(z)
    BY <1>0, <2>1, FrontAhead, ConcatParts
  <2> HIDE DEF w
  <2>5. x \in leads(f)[MaxLinks][w]
    BY DEF Real, w
  <2>6. PICK d, q : Looked(f, MaxLinks, w, d, q) /\ LeadsTo(f, MaxLinks, q, x)
    BY <1>0, <2>4, <2>5, LeadsName, LinksRange
  <2>7. d = p \o Front(z)
    BY <2>3, <2>4, <2>6 DEF Looked, Real
  <2>8. q = p \o z
    <3>1. q = Append(p \o Front(z), Last(z))
      BY <2>4, <2>6, <2>7 DEF Looked
    <3>2. Append(p \o Front(z), Last(z)) = p \o Append(Front(z), Last(z))
      BY <1>0, <2>1, ConcatAppend, Zenon
    <3> QED
      BY <2>1, <3>1, <3>2, Zenon
  <2>9. KindAt(f, q) # "link"
    <3> SUFFICES ASSUME KindAt(f, q) = "link" PROVE FALSE
      OBVIOUS
    <3>1. q \in DOMAIN f.node /\ f.node[q].kind = "link" /\ Under(p, q)
      BY <1>0, <2>8, UnderAhead DEF KindAt
    <3>2. PICK m \in Merged : q = p \o m
      BY <1>0, <3>1 DEF In
    <3>3. z = m
      BY <1>0, <2>8, <3>2, SameAhead, MergeNames
    <3> QED
      BY <3>3, MergeNames DEF Clear
  <2>10. x = q /\ Len(q) <= MaxDepth
    BY <2>6, <2>9 DEF LeadsTo
  <2>11. x \in Named(f, w)
    BY <2>4, <2>6, <2>10, NamedBy
  <2> QED
    BY <2>8, <2>10, <2>11 DEF w
<1> HIDE DEF Z
<1>3. \A n \in Nat : n \in Z
  BY <1>1, <1>2, SetInduction
<1>4. Len(y) \in Nat
  BY LenProperties DEF Path
<1> QED
  BY <1>3, <1>4 DEF Z

LEMMA NamedPlaces ==
  ASSUME NEW a, NEW o, NEW p, Job(a, o, p), NEW f, Grown(f, a, o, p), NEW y \in Path,
         Clear(y) \/ y \in Merged, NEW x \in Named(f, o.target \o y)
  PROVE  /\ x = p \o y /\ x \in Path /\ Front(x) \in DOMAIN f.node /\ f.node[Front(x)] = Dir
         /\ Len(x) <= MaxDepth
<1> DEFINE w == o.target \o y
<1>0. /\ LinksOk(f) /\ o.target \in Path /\ p \in Path /\ DOMAIN f.node \subseteq Path
      /\ IsTree(f)
  BY GrownParts, JobParts
<1>1. y # <<>> /\ y = Append(Front(y), Last(y)) /\ Front(y) \in Path /\ Last(y) \in STRING
      /\ (Front(y) # <<>> => Front(y)[1] = y[1])
  <2>1. y # <<>>
    BY MergeNames DEF Clear
  <2> QED
    BY <2>1, FrontLast
<1>2. Front(y) = <<>> \/ Clear(Front(y))
  BY <1>1, MergeNames DEF Clear
<1>3. w \in Path /\ w # <<>> /\ Front(w) = o.target \o Front(y) /\ Last(w) = Last(y)
  BY <1>0, <1>1, FrontAhead, ConcatParts
<1>4. x \in Named(f, w)
  OBVIOUS
<1> HIDE DEF w
<1>5. PICK d : Looked(f, MaxLinks, w, d, x) /\ Len(x) <= MaxDepth
  BY <1>3, <1>4, NamedBy
<1>6. d = p \o Front(y) /\ KindAt(f, d) = "dir" /\ x = Append(d, Last(y))
  BY <1>1, <1>2, <1>3, <1>5, Places DEF Looked, Real
<1>7. d \in Path /\ d \in DOMAIN f.node /\ f.node[d] = Dir
  BY <1>0, <1>6, TreeParts DEF KindAt
<1>8. x = p \o y
  <2>1. Append(p \o Front(y), Last(y)) = p \o Append(Front(y), Last(y))
    BY <1>0, <1>1, ConcatAppend, Zenon
  <2> QED
    BY <1>1, <1>6, <2>1, Zenon
<1>9. x \in Path /\ Front(x) = d
  BY <1>1, <1>6, <1>7, AppendIn
<1> QED
  BY <1>5, <1>7, <1>8, <1>9

-----------------------------------------------------------------------------
(* What a call of the installation adds.                                   *)

\* what a path of a tree with the data d may be
NodeOf(n, d) == \/ n = Dir
                \/ \E i \in DOMAIN d : n = File(i)
                \/ n.kind = "link" /\ n.to \in Path /\ n = Link(n.to)

LEMMA TreeNodes ==
  ASSUME NEW f, IsTree(f), NEW x \in DOMAIN f.node
  PROVE  NodeOf(f.node[x], f.data)
BY DEF IsTree, NodeOf

LEMMA TreeMore ==
  ASSUME NEW f, IsTree(f), NEW q \in Path, q \notin DOMAIN f.node, q # <<>>,
         Front(q) \in DOMAIN f.node, f.node[Front(q)] = Dir,
         NEW d \in Seq(Seq(STRING)), DOMAIN f.data \subseteq DOMAIN d,
         NEW n, NodeOf(n, d), NEW g, g = Tree(With(f.node, q, n), d)
  PROVE  /\ IsTree(g) /\ DOMAIN g.node = DOMAIN f.node \cup {q} /\ g.node[q] = n /\ g.data = d
         /\ \A x \in DOMAIN f.node : g.node[x] = f.node[x]
<1>1. /\ DOMAIN g.node = DOMAIN f.node \cup {q} /\ g.node[q] = n /\ g.data = d
      /\ \A x \in DOMAIN f.node : g.node[x] = f.node[x]
  <2>1. g.node = [y \in DOMAIN f.node \cup {q} |-> IF y = q THEN n ELSE f.node[y]] /\ g.data = d
    BY TreeFields DEF With
  <2> QED
    BY <2>1
<1>2. ASSUME NEW x \in DOMAIN g.node
      PROVE  NodeOf(g.node[x], g.data)
  <2>1. CASE x = q
    BY <1>1, <2>1
  <2>2. CASE x \in DOMAIN f.node
    <3>1. NodeOf(f.node[x], f.data)
      BY <2>2, TreeNodes
    <3> QED
      BY <1>1, <2>2, <3>1 DEF NodeOf
  <2> QED
    BY <1>1, <2>1, <2>2
<1>3. ASSUME NEW x \in DOMAIN f.node, NEW k \in 0..(Len(x) - 1)
      PROVE  SubSeq(x, 1, k) \in DOMAIN g.node /\ g.node[SubSeq(x, 1, k)] = Dir
  <2>1. SubSeq(x, 1, k) \in DOMAIN f.node /\ f.node[SubSeq(x, 1, k)] = Dir
    BY DEF IsTree
  <2> QED
    BY <1>1, <2>1
<1>4. ASSUME NEW k \in 0..(Len(q) - 1)
      PROVE  SubSeq(q, 1, k) \in DOMAIN g.node /\ g.node[SubSeq(q, 1, k)] = Dir
  <2>1. /\ q = Append(Front(q), Last(q)) /\ Front(q) \in Path /\ Last(q) \in STRING
        /\ Len(Front(q)) = Len(q) - 1 /\ Len(q) \in Nat \ {0}
    BY FrontLast
  <2>2. \A i \in 1..Len(Front(q)) : q[i] = Front(q)[i]
    BY <2>1, AppendParts
  <2>3. k \in Nat /\ k <= Len(q) /\ k <= Len(Front(q)) /\ \A i \in 1..k : i \in 1..Len(Front(q))
    BY <2>1
  <2>4. SubSeq(q, 1, k) = SubSeq(Front(q), 1, k)
    BY <2>1, <2>2, <2>3, SameStart
  <2>5. CASE k = Len(Front(q))
    <3>1. SubSeq(Front(q), 1, k) = Front(q)
      BY <2>1, <2>5, WholeSub
    <3> QED
      BY <1>1, <2>4, <3>1
  <2>6. CASE k # Len(Front(q))
    <3>1. k \in 0..(Len(Front(q)) - 1)
      BY <2>1, <2>3, <2>6
    <3> QED
      BY <1>3, <2>4, <3>1
  <2> QED
    BY <2>5, <2>6
<1>5. DOMAIN g.node \subseteq Path /\ g.data \in Seq(Seq(STRING))
      /\ <<>> \in DOMAIN g.node /\ g.node[<<>>] = Dir
  BY <1>1 DEF IsTree
<1> QED
  BY <1>1, <1>2, <1>3, <1>4, <1>5 DEF IsTree, NodeOf

\* a node that the installation makes at a place of the target
Adds(a, o, p, f, y, q, d, n, g) ==
  /\ Job(a, o, p) /\ Grown(f, a, o, p) /\ y \in Path /\ (Clear(y) \/ y \in Merged)
  /\ q \in Free(f, o.target \o y)
  /\ d \in Seq(Seq(STRING)) /\ Len(f.data) <= Len(d) /\ \A i \in DOMAIN f.data : d[i] = f.data[i]
  /\ \/ Clear(y) /\ n = Dir
     \/ Clear(y) /\ \E i \in DOMAIN d \ DOMAIN f.data : n = File(i)
     \/ y \in Merged /\ n = Link(Beneath(o, y))
  /\ g = Tree(With(f.node, q, n), d)

LEMMA MoreGrown ==
  ASSUME NEW a, NEW o, NEW p, NEW f, NEW y, NEW q, NEW d, NEW n, NEW g,
         Adds(a, o, p, f, y, q, d, n, g)
  PROVE  /\ Grown(g, a, o, p) /\ Extends(g, f) /\ q = p \o y
         /\ DOMAIN g.node = DOMAIN f.node \cup {q} /\ g.node[q] = n /\ g.data = d
         /\ \A x \in DOMAIN f.node : g.node[x] = f.node[x]
<1>h. /\ Job(a, o, p) /\ Grown(f, a, o, p) /\ y \in Path /\ (Clear(y) \/ y \in Merged)
      /\ q \in Free(f, o.target \o y)
      /\ d \in Seq(Seq(STRING)) /\ Len(f.data) <= Len(d)
      /\ \A i \in DOMAIN f.data : d[i] = f.data[i]
      /\ \/ Clear(y) /\ n = Dir
         \/ Clear(y) /\ \E i \in DOMAIN d \ DOMAIN f.data : n = File(i)
         \/ y \in Merged /\ n = Link(Beneath(o, y))
      /\ g = Tree(With(f.node, q, n), d)
  BY DEF Adds
<1> USE <1>h
<1>0. /\ IsTree(f) /\ LinksOk(f) /\ o.target \in Path /\ p \in Path /\ Extends(f, a)
      /\ DOMAIN f.node \subseteq Path /\ IsTree(a) /\ DOMAIN a.node \subseteq DOMAIN f.node
  BY GrownParts, JobParts DEF Extends
<1>1. /\ q = p \o y /\ q \in Path /\ Front(q) \in DOMAIN f.node /\ f.node[Front(q)] = Dir
      /\ q \notin DOMAIN f.node
  BY NamedPlaces DEF Free
<1>2. q # <<>> /\ Under(p, q)
  BY <1>0, <1>1, UnderAhead, TreeParts DEF IsTree
<1>3. Len(f.data) \in Nat /\ Len(d) \in Nat /\ DOMAIN f.data = 1..Len(f.data) /\ DOMAIN d = 1..Len(d)
  BY <1>0, LenProperties DEF IsTree
<1>4. DOMAIN f.data \subseteq DOMAIN d
  BY <1>3
<1>a. ASSUME y \in Merged
      PROVE  Link(Beneath(o, y)).kind = "link" /\ Link(Beneath(o, y)).to = Beneath(o, y)
             /\ Beneath(o, y) \in Path
  BY <1>0, <1>a, MergeNames, ConcatParts DEF Link, Beneath, In
<1>5. NodeOf(n, d)
  BY <1>a DEF NodeOf
<1>6. /\ IsTree(g) /\ DOMAIN g.node = DOMAIN f.node \cup {q} /\ g.node[q] = n /\ g.data = d
      /\ \A x \in DOMAIN f.node : g.node[x] = f.node[x]
  <2>1. /\ IsTree(f) /\ q \in Path /\ q \notin DOMAIN f.node /\ q # <<>>
        /\ Front(q) \in DOMAIN f.node /\ f.node[Front(q)] = Dir
        /\ d \in Seq(Seq(STRING)) /\ DOMAIN f.data \subseteq DOMAIN d /\ NodeOf(n, d)
        /\ g = Tree(With(f.node, q, n), d)
    BY <1>0, <1>1, <1>2, <1>4, <1>5
  <2> QED
    BY ONLY <2>1, TreeMore
<1>7. IsFiniteSet(DOMAIN g.node)
  BY <1>6, FS_AddElement DEF Grown
<1>8. Extends(g, f) /\ Extends(g, a)
  BY <1>0, <1>6 DEF Extends
<1>9. /\ n.kind = "link" => y \in Merged
      /\ \A m \in Merged : y = m => n = Link(Beneath(o, m))
  <2>1. Clear(y) => y \notin Merged
    BY MergeNames DEF Clear
  <2>2. n = Dir \/ (\E i : n = File(i)) => n.kind # "link"
    BY DEF Dir, File
  <2> QED
    BY <2>1, <2>2
<1>10. \A m \in Merged : q = In(p, m) => y = m
  BY <1>0, <1>1, MergeNames, SameAhead DEF In
<1>11. ASSUME NEW x \in DOMAIN g.node \ DOMAIN a.node
       PROVE  /\ Under(p, x)
              /\ g.node[x].kind = "link" => \E m \in Merged : x = In(p, m)
              /\ \A m \in Merged : x = In(p, m) => g.node[x] = Link(Beneath(o, m))
  <2>1. CASE x = q
    BY <1>1, <1>2, <1>6, <1>9, <1>10, <2>1 DEF In
  <2>2. CASE x # q
    <3>1. x \in DOMAIN f.node \ DOMAIN a.node /\ g.node[x] = f.node[x]
      BY <1>6, <2>2
    <3> QED
      BY <3>1 DEF Grown
  <2> QED
    BY <2>1, <2>2
<1>12. ASSUME NEW x \in DOMAIN g.node, Under(p, x), g.node[x].kind = "file",
              NEW r \in DOMAIN g.node, r # x
       PROVE  g.node[r] # g.node[x]
  <2>1. \A z \in DOMAIN f.node : n.kind = "file" => f.node[z] # n
    <3> SUFFICES ASSUME NEW z \in DOMAIN f.node, n.kind = "file", f.node[z] = n PROVE FALSE
      OBVIOUS
    <3>1. PICK i \in DOMAIN d \ DOMAIN f.data : n = File(i)
      BY <1>a DEF Dir
    <3>2. PICK j \in DOMAIN f.data : f.node[z] = File(j)
      BY <1>0, FileNode
    <3> QED
      BY <3>1, <3>2 DEF File
  <2>2. CASE x = q
    BY <1>6, <1>12, <2>1, <2>2
  <2>3. CASE x # q /\ r = q
    BY <1>6, <1>12, <2>1, <2>3
  <2>4. CASE x # q /\ r # q
    BY <1>6, <1>12, <2>4 DEF Grown
  <2> QED
    BY <2>2, <2>3, <2>4
<1>13. Len(a.data) <= Len(g.data)
  <2>1. Len(a.data) <= Len(f.data) /\ Len(a.data) \in Nat
    BY <1>0, LenProperties DEF Grown, IsTree
  <2> QED
    BY <1>3, <1>6, <2>1
<1>14. ASSUME NEW r \in DOMAIN a.node, ~Under(p, r), a.node[r].kind = "file"
       PROVE  g.data[a.node[r].ino] = a.data[a.node[r].ino]
  <2>1. f.data[a.node[r].ino] = a.data[a.node[r].ino]
    BY <1>14 DEF Grown
  <2>2. r \in DOMAIN f.node /\ f.node[r] = a.node[r]
    BY <1>0 DEF Extends
  <2>3. PICK j \in DOMAIN f.data : f.node[r] = File(j)
    BY <1>0, <1>14, <2>2, FileNode
  <2>4. a.node[r].ino = j
    BY <2>2, <2>3 DEF File
  <2> QED
    BY <1>6, <2>1, <2>4
<1>15. Grown(g, a, o, p)
  BY <1>6, <1>7, <1>8, <1>11, <1>12, <1>13, <1>14 DEF Grown
<1> QED
  BY <1>1, <1>6, <1>8, <1>15

LEMMA ExceptOne ==
  ASSUME NEW S, NEW c \in Seq(S), NEW i \in 1..Len(c), NEW v \in S
  PROVE  /\ [c EXCEPT ![i] = v] \in Seq(S) /\ Len([c EXCEPT ![i] = v]) = Len(c)
         /\ \A j \in 1..Len(c) : [c EXCEPT ![i] = v][j] = IF j = i THEN v ELSE c[j]
BY ExceptSeq

\* what the installation writes to a file of the target
Writes(a, o, p, f, x, i, v, g) ==
  /\ Job(a, o, p) /\ Grown(f, a, o, p) /\ x \in DOMAIN f.node /\ Under(p, x)
  /\ f.node[x] = File(i) /\ v \in Seq(STRING) /\ g = Tree(f.node, [f.data EXCEPT ![i] = v])

LEMMA WriteGrown ==
  ASSUME NEW a, NEW o, NEW p, NEW f, NEW x, NEW i, NEW v, NEW g, Writes(a, o, p, f, x, i, v, g)
  PROVE  /\ Grown(g, a, o, p) /\ g.node = f.node /\ g.data[i] = v /\ Len(g.data) = Len(f.data)
         /\ \A j \in DOMAIN f.data : j # i => g.data[j] = f.data[j]
<1>h. /\ Job(a, o, p) /\ Grown(f, a, o, p) /\ x \in DOMAIN f.node /\ Under(p, x)
      /\ f.node[x] = File(i) /\ v \in Seq(STRING)
      /\ g = Tree(f.node, [f.data EXCEPT ![i] = v])
  BY DEF Writes
<1> USE <1>h
<1>0. /\ IsTree(f) /\ Extends(f, a) /\ IsTree(a) /\ DOMAIN a.node \subseteq DOMAIN f.node
  BY GrownParts, JobParts DEF Extends
<1>1. i \in DOMAIN f.data /\ f.node[x].kind = "file"
  <2>1. f.node[x].kind = "file"
    BY DEF File
  <2>2. PICK j \in DOMAIN f.data : f.node[x] = File(j)
    BY <1>0, <2>1, FileNode
  <2> QED
    BY <2>1, <2>2 DEF File
<1>2. g.node = f.node /\ g.data = [f.data EXCEPT ![i] = v]
  BY TreeFields
<1>3. f.data \in Seq(Seq(STRING)) /\ Len(f.data) \in Nat /\ DOMAIN f.data = 1..Len(f.data)
  BY <1>0, LenProperties DEF IsTree
<1>4. /\ g.data \in Seq(Seq(STRING)) /\ Len(g.data) = Len(f.data)
      /\ \A j \in 1..Len(f.data) : g.data[j] = IF j = i THEN v ELSE f.data[j]
  <2> DEFINE e == [f.data EXCEPT ![i] = v]
             S == Seq(STRING)
  <2>1. f.data \in Seq(S) /\ i \in 1..Len(f.data) /\ v \in S /\ g.data = e
    BY <1>1, <1>2, <1>3
  <2>2. /\ e \in Seq(S) /\ Len(e) = Len(f.data)
        /\ \A j \in 1..Len(f.data) : e[j] = IF j = i THEN v ELSE f.data[j]
    BY <2>1, ExceptOne
  <2> HIDE DEF e, S
  <2>3. /\ g.data \in Seq(S) /\ Len(g.data) = Len(f.data)
        /\ \A j \in 1..Len(f.data) : g.data[j] = IF j = i THEN v ELSE f.data[j]
    BY ONLY <2>1, <2>2, Zenon
  <2> QED
    BY <2>3 DEF S
<1>5. DOMAIN g.data = DOMAIN f.data
  BY <1>2
<1>6. IsTree(g)
  <2>1. /\ DOMAIN g.node \subseteq Path /\ g.data \in Seq(Seq(STRING))
        /\ <<>> \in DOMAIN g.node /\ g.node[<<>>] = Dir
    BY <1>0, <1>2, <1>4 DEF IsTree
  <2>2. ASSUME NEW z \in DOMAIN g.node
        PROVE  NodeOf(g.node[z], g.data)
    <3>1. NodeOf(f.node[z], f.data)
      BY <1>0, <1>2, TreeNodes
    <3> QED
      BY <1>2, <1>5, <3>1 DEF NodeOf
  <2>3. ASSUME NEW z \in DOMAIN g.node, NEW k \in 0..(Len(z) - 1)
        PROVE  SubSeq(z, 1, k) \in DOMAIN g.node /\ g.node[SubSeq(z, 1, k)] = Dir
    BY <1>0, <1>2 DEF IsTree
  <2> QED
    BY <2>1, <2>2, <2>3 DEF IsTree, NodeOf
<1>7. Extends(g, a)
  BY <1>0, <1>2 DEF Extends
<1>8. ASSUME NEW r \in DOMAIN a.node, ~Under(p, r), a.node[r].kind = "file"
      PROVE  g.data[a.node[r].ino] = a.data[a.node[r].ino]
  <2>1. r \in DOMAIN f.node /\ f.node[r] = a.node[r] /\ r # x
    BY <1>0, <1>8 DEF Extends
  <2>2. f.node[r] # f.node[x]
    BY <1>1, <2>1 DEF Grown
  <2>3. PICK j \in DOMAIN f.data : f.node[r] = File(j)
    BY <1>0, <1>8, <2>1, FileNode
  <2>4. j # i /\ a.node[r].ino = j
    BY <2>1, <2>2, <2>3 DEF File
  <2>5. f.data[a.node[r].ino] = a.data[a.node[r].ino]
    BY <1>8 DEF Grown
  <2> QED
    BY <1>3, <1>4, <2>3, <2>4, <2>5
<1>9. Grown(g, a, o, p)
  <2>1. /\ IsFiniteSet(DOMAIN g.node)
        /\ \A z \in DOMAIN g.node \ DOMAIN a.node :
              /\ Under(p, z)
              /\ g.node[z].kind = "link" => \E m \in Merged : z = In(p, m)
              /\ \A m \in Merged : z = In(p, m) => g.node[z] = Link(Beneath(o, m))
        /\ \A z \in DOMAIN g.node : Under(p, z) /\ g.node[z].kind = "file" =>
              \A r \in DOMAIN g.node : r # z => g.node[r] # g.node[z]
    <3>1. Grown(f, a, o, p)
      BY <1>h
    <3> QED
      BY ONLY <1>2, <3>1 DEF Grown
  <2>2. Len(a.data) <= Len(g.data)
    BY <1>4 DEF Grown
  <2> QED
    BY <1>6, <1>7, <1>8, <2>1, <2>2 DEF Grown
<1> QED
  BY <1>1, <1>2, <1>3, <1>4, <1>9

-----------------------------------------------------------------------------
(* What the steps are for, and what is left to be done.                    *)

Copies == {"tree", "list", "entry", "copy", "block"}
Fillers == Copies \cup {"text"}

\* q is neither in p nor above it
Off(p, q) == ~Under(p, q) /\ ~Under(q, p)

\* the source of t has a file with the content c at z
Sourced(a, p, t, z, c) ==
  \E q \in Real(a, t.src), i \in DOMAIN a.data :
    /\ Off(p, q) /\ q \o z \in DOMAIN a.node /\ a.node[q \o z] = File(i) /\ c = a.data[i]
    /\ t.op \in {"tree", "list"} => KindAt(a, q) = "dir"

\* t is to leave a file with the content c at the name w
Due(a, p, t, w, c) ==
  \E z \in Path :
    /\ w = t.dst \o z
    /\ \/ t.op = "text" /\ z = <<>> /\ c = text(t.dst)
       \/ t.op \in Copies /\ Sourced(a, p, t, z, c)

Present(f, w, c) ==
  \E r \in Real(f, w) \cap DOMAIN f.node, i \in DOMAIN f.data :
    f.node[r] = File(i) /\ f.data[i] = c

Goal(a, o, p, w, c) == \E k \in 1..Len(Steps(o)) : Due(a, p, Steps(o)[k], w, c)

TaskOf(o, t) ==
  /\ t.op # "block" => t = Task(t.op, t.src, t.dst)
  /\ \/ /\ t.op \in Fillers \cup {"mkdir"} /\ t.src \in Path
        /\ \E y : Clear(y) /\ t.dst = o.target \o y
     \/ t.op = "link" /\ \E m \in Merged : t.dst = In(o.target, m) /\ t.src = Beneath(o, m)

\* no two of the tasks fill the same place, or one of them a place below
PlanOK(o, s) ==
  /\ \E S : s \in Seq(S)
  /\ \A k \in 1..Len(s) : TaskOf(o, s[k]) /\ (s[k].op = "block" => k = 1)
  /\ \A j, k \in 1..Len(s) : j # k /\ s[j].op \in Fillers /\ s[k].op \in Fillers =>
       ~Under(s[j].dst, s[k].dst)

\* how far a copy is
BlockOK(a, p, f, t) ==
  t.op = "block" =>
    /\ t = [op |-> "block", src |-> t.src, dst |-> t.dst,
            in |-> t.in, to |-> t.to, at |-> t.at, left |-> t.left]
    /\ \E x \in Real(f, t.dst) \cap DOMAIN f.node : f.node[x] = File(t.to)
    /\ t.in \in DOMAIN f.data /\ t.at \in Nat \ {0}
    /\ \A q \in Real(a, t.src) \cap DOMAIN a.node : Off(p, q) =>
         /\ a.node[q] = File(t.in) /\ t.at <= Len(a.data[t.in]) + 1
         /\ t.left = Len(a.data[t.in]) + 1 - t.at
         /\ f.data[t.to] = SubSeq(a.data[t.in], 1, t.at - 1)

Going(a, o, p, f, s) ==
  Grown(f, a, o, p) /\ PlanOK(o, s) /\ (s # <<>> => BlockOK(a, p, f, Head(s)))

DirsOK(o, f, s) ==
  \A k \in 1..Len(Steps(o)) : Steps(o)[k].op = "mkdir" =>
    \/ \E j \in 1..Len(s) : s[j].op = "mkdir" /\ s[j].dst = Steps(o)[k].dst
    \/ is_dir(f, Steps(o)[k].dst)

\* the link is there, or there is no room for a name
LinkSet(p, f, m) == In(p, m) \in DOMAIN f.node \/ Len(In(p, m)) > MaxDepth
LinksDone(o, p, f, s) ==
  \A m \in Merged : \/ \E j \in 1..Len(s) : s[j].op = "link" /\ s[j].dst = In(o.target, m)
                    \/ LinkSet(p, f, m)

Filled(a, p, f, s, w, c) ==
  \/ \E k \in 1..Len(s) : Due(a, p, s[k], w, c)
  \/ /\ Present(f, w, c)
     /\ \A k \in 1..Len(s) : s[k].op \in Fillers => ~Under(s[k].dst, w)
FilesOK(a, o, p, f, s) == \A w, c : Goal(a, o, p, w, c) => Filled(a, p, f, s, w, c)

Underway(a, o, p, f, s) == DirsOK(o, f, s) /\ LinksDone(o, p, f, s) /\ FilesOK(a, o, p, f, s)

LEMMA UnderEither ==
  ASSUME NEW a \in Path, NEW b \in Path, NEW c \in Path, Under(a, c), Under(b, c)
  PROVE  Under(a, b) \/ Under(b, a)
<1>1. Len(a) \in Nat /\ Len(b) \in Nat
  BY LenProperties DEF Path
<1>2. /\ \A i \in 1..Len(a) : a[i] = c[i]
      /\ \A i \in 1..Len(b) : b[i] = c[i]
  BY UnderEach
<1>3. CASE Len(a) <= Len(b)
  <2>1. \A i \in 1..Len(a) : a[i] = b[i]
    BY <1>1, <1>2, <1>3
  <2> QED
    BY <1>3, <2>1, UnderEach
<1>4. CASE Len(b) <= Len(a)
  <2>1. \A i \in 1..Len(b) : b[i] = a[i]
    BY <1>1, <1>2, <1>4
  <2> QED
    BY <1>4, <2>1, UnderEach
<1>5. Len(a) <= Len(b) \/ Len(b) <= Len(a)
  BY <1>1
<1> QED
  BY <1>3, <1>4, <1>5

LEMMA ClearMore ==
  ASSUME NEW b \in Path, NEW y, Clear(y), NEW z \in Path
  PROVE  Clear(y \o z) /\ b \o (y \o z) = (b \o y) \o z /\ b \o y \in Path
<1>1. y \in Path /\ y # <<>>
  BY DEF Clear
<1>2. (b \o y) \o z = b \o (y \o z)
  BY <1>1, ConcatThree DEF Path
<1>3. Len(y) \in Nat \ {0} /\ Len(z) \in Nat
  BY <1>1, FrontIn, LenProperties DEF Path
<1> DEFINE v == y \o z
<1>4. v \in Path /\ Len(v) = Len(y) + Len(z)
      /\ \A i \in 1..(Len(y) + Len(z)) : v[i] = IF i <= Len(y) THEN y[i] ELSE z[i - Len(y)]
  BY <1>1, ConcatParts
<1> HIDE DEF v
<1>5. v # <<>> /\ v[1] = y[1]
  <2>1. Len(v) # 0
    BY <1>3, <1>4
  <2>2. v # <<>>
    BY <2>1, EmptySeq
  <2>3. 1 \in 1..(Len(y) + Len(z)) /\ 1 <= Len(y)
    BY <1>3
  <2> QED
    BY <1>4, <2>2, <2>3
<1>6. Clear(v)
  BY <1>4, <1>5 DEF Clear
<1> QED
  BY <1>1, <1>2, <1>6, ConcatParts DEF v

LEMMA ClearNext ==
  ASSUME NEW b \in Path, NEW y, Clear(y), NEW x \in STRING
  PROVE  Clear(Append(y, x)) /\ Append(b \o y, x) = b \o Append(y, x)
<1>1. y \in Path /\ <<x>> \in Path
  BY Single DEF Clear, Path
<1>2. Append(y, x) = y \o <<x>>
  BY <1>1, AppendIsConcat DEF Path
<1>3. Clear(y \o <<x>>)
  BY <1>1, ClearMore
<1> QED
  BY <1>1, <1>2, <1>3, ConcatAppend

LEMMA TaskDst ==
  ASSUME NEW o, o.target \in Path, NEW t, TaskOf(o, t)
  PROVE  /\ t.dst \in Path
         /\ t.op \in Fillers => t.src \in Path /\ \E y : Clear(y) /\ t.dst = o.target \o y
<1>1. "link" \notin Fillers
  BY DEF Fillers, Copies
<1>2. CASE \E y : Clear(y) /\ t.dst = o.target \o y
  BY <1>1, <1>2, ConcatParts DEF TaskOf, Clear
<1>3. CASE t.op = "link" /\ \E m \in Merged : t.dst = In(o.target, m)
  BY <1>1, <1>3, MergeNames, ConcatParts DEF In
<1> QED
  BY <1>2, <1>3 DEF TaskOf

\* a sequence of which the first member is replaced
LEMMA GoesParts ==
  ASSUME NEW S, NEW s \in Seq(S), s # <<>>, NEW T, NEW u \in Seq(T), NEW v, v = u \o Tail(s)
  PROVE  /\ v \in Seq(S \cup T) /\ Head(s) = s[1] /\ Len(s) \in Nat \ {0} /\ Len(u) \in Nat
         /\ Len(v) \in Nat
         /\ \A k \in 1..Len(v) :
              \/ k \in 1..Len(u) /\ v[k] = u[k]
              \/ k \notin 1..Len(u) /\ \E j \in 2..Len(s) : k = Len(u) + j - 1 /\ v[k] = s[j]
         /\ \A k \in 1..Len(u) : k \in 1..Len(v) /\ v[k] = u[k]
         /\ \A j \in 2..Len(s) : Len(u) + j - 1 \in 1..Len(v) /\ v[Len(u) + j - 1] = s[j]
<1> DEFINE t == Tail(s)
           R == S \cup T
<1>1. Len(s) \in Nat \ {0} /\ Head(s) = s[1]
  BY EmptySeq, LenProperties
<1>2. /\ t \in Seq(S) /\ Len(t) = Len(s) - 1
      /\ \A i \in 1..Len(t) : t[i] = s[i + 1]
  BY HeadTailProperties
<1> HIDE DEF t
<1>3. t \in Seq(R) /\ u \in Seq(R) /\ Len(u) \in Nat
  BY <1>2, SeqMonotonic, LenProperties
<1>4. v = u \o t
  BY DEF t
<1> HIDE DEF R
<1>5. /\ v \in Seq(R) /\ Len(v) = Len(u) + Len(t)
      /\ \A i \in 1..(Len(u) + Len(t)) : v[i] = IF i <= Len(u) THEN u[i] ELSE t[i - Len(u)]
  BY <1>3, <1>4, ConcatProperties
<1>6. Len(v) = Len(u) + Len(s) - 1 /\ Len(v) \in Nat
  BY <1>1, <1>2, <1>3, <1>5
<1>7. ASSUME NEW k \in 1..Len(u) PROVE k \in 1..Len(v) /\ v[k] = u[k]
  BY <1>1, <1>2, <1>3, <1>5, <1>6
<1>8. ASSUME NEW j \in 2..Len(s) PROVE Len(u) + j - 1 \in 1..Len(v) /\ v[Len(u) + j - 1] = s[j]
  <2> DEFINE i == Len(u) + j - 1
  <2>1. i \in 1..(Len(u) + Len(t)) /\ ~(i <= Len(u)) /\ i - Len(u) = j - 1 /\ j - 1 \in 1..Len(t)
        /\ (j - 1) + 1 = j
    BY <1>1, <1>2, <1>3
  <2> HIDE DEF i
  <2>2. v[i] = t[j - 1]
    BY <1>5, <2>1
  <2>3. v[i] = s[j]
    BY <1>2, <2>1, <2>2
  <2>4. i \in 1..Len(v)
    BY <1>5, <2>1
  <2> QED
    BY <2>3, <2>4 DEF i
<1>9. ASSUME NEW k \in 1..Len(v), k \notin 1..Len(u)
      PROVE  \E j \in 2..Len(s) : k = Len(u) + j - 1 /\ v[k] = s[j]
  <2> DEFINE j == k - Len(u) + 1
  <2>1. j \in 2..Len(s) /\ k = Len(u) + j - 1
    BY <1>1, <1>3, <1>6, <1>9
  <2> HIDE DEF j
  <2> QED
    BY <1>8, <2>1
<1> QED
  BY <1>1, <1>3, <1>5, <1>6, <1>7, <1>8, <1>9 DEF R

-----------------------------------------------------------------------------
(* One task gives way to others: what is due stays due or has been done.   *)

Turn(o, h, u) ==
  /\ \E T : u \in Seq(T)
  /\ \A k \in 1..Len(u) :
       /\ TaskOf(o, u[k]) /\ (u[k].op = "block" => k = 1)
       /\ u[k].op \in Fillers => h.op \in Fillers /\ Under(h.dst, u[k].dst)
  /\ \A j, k \in 1..Len(u) : j # k /\ u[j].op \in Fillers /\ u[k].op \in Fillers =>
       ~Under(u[j].dst, u[k].dst)

LEMMA TurnNone == ASSUME NEW o, NEW h PROVE Turn(o, h, <<>>)
BY DEF Turn

LEMMA TurnOne ==
  ASSUME NEW o, o.target \in Path, NEW h, NEW b, TaskOf(o, b), b.op \in Fillers,
         h.op \in Fillers, h.dst = b.dst
  PROVE  Turn(o, h, <<b>>)
<1> DEFINE u == <<b>>
<1>1. u \in Seq({b}) /\ Len(u) = 1 /\ u[1] = b
  OBVIOUS
<1> HIDE DEF u
<1>2. 1..Len(u) = {1}
  BY <1>1
<1>3. Under(h.dst, b.dst)
  BY TaskDst, UnderSelf
<1> QED
  BY <1>1, <1>2, <1>3 DEF Turn, u

LEMMA TurnPlan ==
  ASSUME NEW o, o.target \in Path, NEW s, PlanOK(o, s), s # <<>>, NEW u, Turn(o, Head(s), u),
         NEW v, v = u \o Tail(s)
  PROVE  PlanOK(o, v)
<1> DEFINE h == Head(s)
<1>1. PICK S : s \in Seq(S)
  BY DEF PlanOK
<1>2. PICK T : u \in Seq(T)
  BY DEF Turn
<1>3. /\ v \in Seq(S \cup T) /\ h = s[1] /\ Len(s) \in Nat \ {0} /\ Len(u) \in Nat
      /\ \A k \in 1..Len(v) :
           \/ k \in 1..Len(u) /\ v[k] = u[k]
           \/ k \notin 1..Len(u) /\ \E j \in 2..Len(s) : k = Len(u) + j - 1 /\ v[k] = s[j]
  <2>1. s # <<>> /\ v = u \o Tail(s)
    OBVIOUS
  <2> QED
    BY ONLY <1>1, <1>2, <2>1, GoesParts DEF h
<1>a. Turn(o, h, u)
  OBVIOUS
<1> HIDE DEF h
<1>4. \A j \in 2..Len(s) : j \in 1..Len(s) /\ j # 1 /\ 1 \in 1..Len(s)
  BY <1>3
<1>5. ASSUME NEW k \in 1..Len(v) PROVE TaskOf(o, v[k]) /\ (v[k].op = "block" => k = 1)
  <2>1. CASE k \in 1..Len(u) /\ v[k] = u[k]
    BY <1>a, <2>1 DEF Turn
  <2>2. CASE \E j \in 2..Len(s) : k = Len(u) + j - 1 /\ v[k] = s[j]
    BY <1>4, <2>2 DEF PlanOK
  <2> QED
    BY <1>3, <2>1, <2>2
<1>6. ASSUME NEW k \in 1..Len(u), NEW j \in 2..Len(s), u[k].op \in Fillers, s[j].op \in Fillers
      PROVE  ~Under(u[k].dst, s[j].dst) /\ ~Under(s[j].dst, u[k].dst)
  <2>1. h.op \in Fillers /\ Under(h.dst, u[k].dst) /\ TaskOf(o, u[k])
    BY <1>a, <1>6 DEF Turn
  <2>2. ~Under(h.dst, s[j].dst) /\ ~Under(s[j].dst, h.dst) /\ TaskOf(o, s[j]) /\ TaskOf(o, h)
    BY <1>3, <1>4, <1>6, <2>1 DEF PlanOK
  <2>3. h.dst \in Path /\ u[k].dst \in Path /\ s[j].dst \in Path
    BY <2>1, <2>2, TaskDst
  <2>4. ~Under(u[k].dst, s[j].dst)
    BY <2>1, <2>2, <2>3, UnderTrans
  <2>5. ~Under(s[j].dst, u[k].dst)
    BY <2>1, <2>2, <2>3, UnderEither
  <2> QED
    BY <2>4, <2>5
<1>7. ASSUME NEW j \in 1..Len(v), NEW k \in 1..Len(v), j # k, v[j].op \in Fillers,
             v[k].op \in Fillers
      PROVE  ~Under(v[j].dst, v[k].dst)
  <2>1. CASE j \in 1..Len(u) /\ k \in 1..Len(u)
    BY <1>a, <1>3, <1>7, <2>1 DEF Turn
  <2>2. CASE j \in 1..Len(u) /\ k \notin 1..Len(u)
    <3>1. v[j] = u[j] /\ \E i \in 2..Len(s) : v[k] = s[i]
      BY <1>3, <2>2
    <3> QED
      BY <1>6, <1>7, <2>2, <3>1
  <2>3. CASE j \notin 1..Len(u) /\ k \in 1..Len(u)
    <3>1. v[k] = u[k] /\ \E i \in 2..Len(s) : v[j] = s[i]
      BY <1>3, <2>3
    <3> QED
      BY <1>6, <1>7, <2>3, <3>1
  <2>4. CASE j \notin 1..Len(u) /\ k \notin 1..Len(u)
    <3>1. PICK i \in 2..Len(s) : j = Len(u) + i - 1 /\ v[j] = s[i]
      BY <1>3, <2>4
    <3>2. PICK l \in 2..Len(s) : k = Len(u) + l - 1 /\ v[k] = s[l]
      BY <1>3, <2>4
    <3>3. i # l
      BY <1>7, <3>1, <3>2
    <3> QED
      BY <1>4, <1>7, <3>1, <3>2, <3>3 DEF PlanOK
  <2> QED
    BY <2>1, <2>2, <2>3, <2>4
<1> QED
  BY <1>3, <1>5, <1>7 DEF PlanOK

\* w is a name of the target that is no merge link
InTarget(o, w) == \E y : Clear(y) /\ w = o.target \o y

\* what is due is due below the place of the task
LEMMA DueAt ==
  ASSUME NEW a, NEW o, NEW p, o.target \in Path, NEW t, TaskOf(o, t), NEW w, NEW c,
         Due(a, p, t, w, c)
  PROVE  /\ t.op \in Fillers /\ t.dst \in Path /\ w \in Path /\ Under(t.dst, w)
         /\ \E y : Clear(y) /\ w = o.target \o y
<1>1. PICK z \in Path : w = t.dst \o z /\ t.op \in Fillers
  BY DEF Due, Fillers
<1>2. t.dst \in Path
  BY TaskDst
<1>3. PICK y : Clear(y) /\ t.dst = o.target \o y
  BY <1>1, TaskDst
<1>4. Clear(y \o z) /\ w = o.target \o (y \o z)
  <2>1. Clear(y \o z) /\ o.target \o (y \o z) = (o.target \o y) \o z
    BY <1>3, ClearMore
  <2> QED
    BY <1>1, <1>3, <2>1, Zenon
<1> QED
  BY <1>1, <1>2, <1>4, UnderAhead

LEMMA GoalAt ==
  ASSUME NEW a, NEW o, NEW p, o.target \in Path, PlanOK(o, Steps(o)), NEW w, NEW c,
         Goal(a, o, p, w, c)
  PROVE  InTarget(o, w)
<1>1. PICK k \in 1..Len(Steps(o)) : Due(a, p, Steps(o)[k], w, c)
  BY DEF Goal
<1> DEFINE t == Steps(o)[k]
<1>2. TaskOf(o, t) /\ Due(a, p, t, w, c)
  BY <1>1 DEF PlanOK
<1> HIDE DEF t
<1>3. PICK z \in Path : w = t.dst \o z /\ t.op \in Fillers
  BY <1>2 DEF Due, Fillers
<1>4. PICK y : Clear(y) /\ t.dst = o.target \o y
  BY <1>2, <1>3, TaskDst
<1>5. Clear(y \o z) /\ o.target \o (y \o z) = (o.target \o y) \o z
  BY <1>3, <1>4, ClearMore
<1> QED
  BY <1>3, <1>4, <1>5, Zenon DEF InTarget

LEMMA TurnFiles ==
  ASSUME NEW a, NEW o, NEW p, o.target \in Path, PlanOK(o, Steps(o)),
         NEW f, NEW s, PlanOK(o, s), s # <<>>, FilesOK(a, o, p, f, s),
         NEW u, Turn(o, Head(s), u), NEW v, v = u \o Tail(s), NEW g,
         \A w, c : Due(a, p, Head(s), w, c) =>
                     \/ \E k \in 1..Len(u) : Due(a, p, u[k], w, c)
                     \/ u = <<>> /\ Present(g, w, c),
         \A y, c : /\ Clear(y) /\ Present(f, o.target \o y, c)
                   /\ Head(s).op \in Fillers => ~Under(Head(s).dst, o.target \o y)
                   => Present(g, o.target \o y, c)
  PROVE  FilesOK(a, o, p, g, v)
<1> DEFINE h == Head(s)
<1>1. PICK S : s \in Seq(S)
  BY DEF PlanOK
<1>2. PICK T : u \in Seq(T)
  BY DEF Turn
<1>3. /\ h = s[1] /\ Len(s) \in Nat \ {0} /\ Len(u) \in Nat
      /\ \A k \in 1..Len(v) :
           \/ k \in 1..Len(u) /\ v[k] = u[k]
           \/ k \notin 1..Len(u) /\ \E j \in 2..Len(s) : k = Len(u) + j - 1 /\ v[k] = s[j]
      /\ \A k \in 1..Len(u) : k \in 1..Len(v) /\ v[k] = u[k]
      /\ \A j \in 2..Len(s) : Len(u) + j - 1 \in 1..Len(v) /\ v[Len(u) + j - 1] = s[j]
  BY <1>1, <1>2, GoesParts
<1>4. Turn(o, h, u)
  OBVIOUS
<1>5. \A w, c : Due(a, p, h, w, c) => \/ \E k \in 1..Len(u) : Due(a, p, u[k], w, c)
                                      \/ u = <<>> /\ Present(g, w, c)
  OBVIOUS
<1>6. \A y, c : Clear(y) /\ Present(f, o.target \o y, c)
                   /\ (h.op \in Fillers => ~Under(h.dst, o.target \o y))
                   => Present(g, o.target \o y, c)
  OBVIOUS
<1> HIDE DEF h
<1>7. /\ 1 \in 1..Len(s) /\ TaskOf(o, h)
      /\ \A j \in 2..Len(s) : j \in 1..Len(s) /\ j # 1 /\ TaskOf(o, s[j])
      /\ \A k \in 1..Len(s) : k = 1 \/ k \in 2..Len(s)
  BY <1>3 DEF PlanOK
<1> SUFFICES ASSUME NEW w, NEW c, Goal(a, o, p, w, c) PROVE Filled(a, p, g, v, w, c)
  BY DEF FilesOK
<1>8. Filled(a, p, f, s, w, c)
  BY DEF FilesOK
<1>9. InTarget(o, w)
  BY GoalAt
<1>a. PICK y : Clear(y) /\ w = o.target \o y
  BY <1>9 DEF InTarget
<1>w. w \in Path
  BY <1>a, ConcatParts DEF Clear
<1>10. CASE \E k \in 2..Len(s) : Due(a, p, s[k], w, c)
  BY <1>3, <1>10 DEF Filled
<1>11. CASE Due(a, p, h, w, c)
  <2>1. CASE \E k \in 1..Len(u) : Due(a, p, u[k], w, c)
    BY <1>3, <2>1 DEF Filled
  <2>2. CASE u = <<>> /\ Present(g, w, c)
    <3>1. ASSUME NEW k \in 1..Len(v), v[k].op \in Fillers, Under(v[k].dst, w) PROVE FALSE
      <4>1. Len(u) = 0
        BY <2>2
      <4>2. PICK j \in 2..Len(s) : v[k] = s[j]
        BY <1>3, <4>1
      <4>3. h.op \in Fillers /\ h.dst \in Path /\ Under(h.dst, w)
        BY <1>7, <1>11, DueAt
      <4>4. s[j].dst \in Path
        BY <1>7, TaskDst
      <4>5. Under(h.dst, s[j].dst) \/ Under(s[j].dst, h.dst)
        BY <1>w, <3>1, <4>2, <4>3, <4>4, UnderEither
      <4> QED
        BY <1>3, <1>7, <3>1, <4>2, <4>3, <4>5 DEF PlanOK
    <3> QED
      BY <2>2, <3>1 DEF Filled
  <2> QED
    BY <1>5, <1>11, <2>1, <2>2
<1>12. CASE Present(f, w, c) /\ \A k \in 1..Len(s) : s[k].op \in Fillers => ~Under(s[k].dst, w)
  <2>1. Present(g, w, c)
    BY <1>3, <1>6, <1>7, <1>a, <1>12
  <2>2. ASSUME NEW k \in 1..Len(v), v[k].op \in Fillers PROVE ~Under(v[k].dst, w)
    <3>1. CASE k \in 1..Len(u) /\ v[k] = u[k]
      <4>1. h.op \in Fillers /\ Under(h.dst, u[k].dst) /\ TaskOf(o, u[k])
        BY <1>4, <2>2, <3>1 DEF Turn
      <4>2. ~Under(h.dst, w)
        BY <1>3, <1>7, <1>12, <4>1
      <4>3. h.dst \in Path /\ u[k].dst \in Path
        BY <1>7, <4>1, TaskDst
      <4> QED
        BY <1>w, <3>1, <4>1, <4>2, <4>3, UnderTrans
    <3>2. CASE \E j \in 2..Len(s) : v[k] = s[j]
      BY <1>7, <1>12, <2>2, <3>2
    <3> QED
      BY <1>3, <3>1, <3>2
  <2> QED
    BY <2>1, <2>2 DEF Filled
<1> QED
  BY <1>3, <1>7, <1>8, <1>10, <1>11, <1>12 DEF Filled

\* the same for directories and links
LEMMA TurnRest ==
  ASSUME NEW o, NEW p, NEW f, NEW s, PlanOK(o, s), s # <<>>, DirsOK(o, f, s),
         LinksDone(o, p, f, s), NEW u, Turn(o, Head(s), u), NEW v, v = u \o Tail(s), NEW g,
         LinksOk(f), LinksOk(g), Extends(g, f), \A q \in Path : is_dir(f, q) => is_dir(g, q),
         PlanOK(o, Steps(o)), o.target \in Path,
         Head(s).op = "mkdir" => is_dir(g, Head(s).dst),
         Head(s).op = "link" =>
           \A m \in Merged : Head(s).dst = In(o.target, m) => LinkSet(p, g, m)
  PROVE  DirsOK(o, g, v) /\ LinksDone(o, p, g, v)
<1> DEFINE h == Head(s)
<1>1. PICK S : s \in Seq(S)
  BY DEF PlanOK
<1>2. PICK T : u \in Seq(T)
  BY DEF Turn
<1>3. /\ h = s[1] /\ Len(s) \in Nat \ {0}
      /\ \A j \in 2..Len(s) : Len(u) + j - 1 \in 1..Len(v) /\ v[Len(u) + j - 1] = s[j]
  BY <1>1, <1>2, GoesParts
<1>4. \A j \in 1..Len(s) : s[j] = h \/ \E k \in 1..Len(v) : v[k] = s[j]
  <2> SUFFICES ASSUME NEW j \in 1..Len(s) PROVE s[j] = h \/ \E k \in 1..Len(v) : v[k] = s[j]
    OBVIOUS
  <2>1. j = 1 \/ j \in 2..Len(s)
    BY <1>3
  <2> QED
    BY <1>3, <2>1
<1>5. /\ h.op = "mkdir" => is_dir(g, h.dst)
      /\ h.op = "link" => \A m \in Merged : h.dst = In(o.target, m) => LinkSet(p, g, m)
  OBVIOUS
<1> HIDE DEF h
<1>6. DirsOK(o, g, v)
  <2> SUFFICES ASSUME NEW k \in 1..Len(Steps(o)), Steps(o)[k].op = "mkdir"
               PROVE  \/ \E j \in 1..Len(v) : v[j].op = "mkdir" /\ v[j].dst = Steps(o)[k].dst
                      \/ is_dir(g, Steps(o)[k].dst)
    BY DEF DirsOK
  <2>1. Steps(o)[k].dst \in Path
    BY TaskDst DEF PlanOK
  <2>2. CASE is_dir(f, Steps(o)[k].dst)
    BY <2>1, <2>2
  <2>3. CASE \E j \in 1..Len(s) : s[j].op = "mkdir" /\ s[j].dst = Steps(o)[k].dst
    BY <1>4, <1>5, <2>3
  <2> QED
    BY <2>2, <2>3 DEF DirsOK
<1>7. LinksDone(o, p, g, v)
  <2> SUFFICES ASSUME NEW m \in Merged
               PROVE  \/ \E j \in 1..Len(v) : v[j].op = "link" /\ v[j].dst = In(o.target, m)
                      \/ LinkSet(p, g, m)
    BY DEF LinksDone
  <2>1. CASE LinkSet(p, f, m)
    BY <2>1 DEF LinkSet, Extends
  <2>2. CASE \E j \in 1..Len(s) : s[j].op = "link" /\ s[j].dst = In(o.target, m)
    BY <1>4, <1>5, <2>2
  <2> QED
    BY <2>1, <2>2 DEF LinksDone
<1> QED
  BY <1>6, <1>7

-----------------------------------------------------------------------------
(* The steps: no two of them fill the same place.                          *)

LEMMA UnderShift ==
  ASSUME NEW a \in Path, NEW y \in Path, NEW z \in Path, Under(a \o y, a \o z)
  PROVE  Under(y, z)
<1> DEFINE v == a \o y
           w == a \o z
<1>1. /\ v \in Path /\ Len(v) = Len(a) + Len(y) /\ Len(a) \in Nat /\ Len(y) \in Nat
      /\ \A i \in 1..(Len(a) + Len(y)) : v[i] = IF i <= Len(a) THEN a[i] ELSE y[i - Len(a)]
  BY ConcatParts
<1>2. /\ w \in Path /\ Len(w) = Len(a) + Len(z) /\ Len(z) \in Nat
      /\ \A i \in 1..(Len(a) + Len(z)) : w[i] = IF i <= Len(a) THEN a[i] ELSE z[i - Len(a)]
  BY ConcatParts
<1> HIDE DEF v, w
<1>3. Len(v) <= Len(w) /\ \A i \in 1..Len(v) : v[i] = w[i]
  <2>1. Under(v, w)
    BY DEF v, w
  <2> QED
    BY <1>1, <1>2, <2>1, UnderEach
<1>4. Len(y) <= Len(z)
  BY <1>1, <1>2, <1>3
<1>5. ASSUME NEW i \in 1..Len(y) PROVE y[i] = z[i]
  <2> DEFINE k == Len(a) + i
  <2>1. k \in 1..(Len(a) + Len(y)) /\ k \in 1..(Len(a) + Len(z)) /\ ~(k <= Len(a))
        /\ k - Len(a) = i /\ k \in 1..Len(v)
    BY <1>1, <1>2, <1>4
  <2> HIDE DEF k
  <2> QED
    BY <1>1, <1>2, <1>3, <2>1
<1> QED
  BY <1>4, <1>5, UnderEach

LEMMA DiffersAt ==
  ASSUME NEW y \in Path, NEW z \in Path, NEW i \in Nat \ {0}, i <= Len(y), i <= Len(z),
         y[i] # z[i]
  PROVE  ~Under(y, z) /\ ~Under(z, y)
<1>1. Len(y) \in Nat /\ Len(z) \in Nat
  BY LenProperties DEF Path
<1>2. i \in 1..Len(y) /\ i \in 1..Len(z)
  BY <1>1
<1> QED
  BY <1>2, UnderEach

Kinds == {"mkdir", "link", "tree", "copy", "text"}

\* tasks of o, whose files are at the names Y of the target
Stepped(o, s, Y) ==
  /\ \E S : s \in Seq(S)
  /\ \A k \in 1..Len(s) :
       TaskOf(o, s[k]) /\ s[k].op \in Kinds
       /\ (s[k].op \in Fillers => \E y \in Y : s[k].dst = o.target \o y)
  /\ \A j, k \in 1..Len(s) : j # k /\ s[j].op \in Fillers /\ s[k].op \in Fillers =>
       ~Under(s[j].dst, s[k].dst)

Has(s, op, dst) == \E k \in 1..Len(s) : s[k].op = op /\ s[k].dst = dst

LEMMA SteppedPlan ==
  ASSUME NEW o, NEW s, NEW Y, Stepped(o, s, Y)
  PROVE  PlanOK(o, s)
<1>1. "block" \notin Kinds
  BY DEF Kinds
<1> QED
  BY <1>1 DEF Stepped, PlanOK

LEMMA SteppedNone == ASSUME NEW o, NEW Y PROVE Stepped(o, <<>>, Y)
BY DEF Stepped

LEMMA SteppedOne ==
  ASSUME NEW o, NEW t, TaskOf(o, t), t.op \in Kinds, NEW y, t.dst = o.target \o y
  PROVE  Stepped(o, <<t>>, {y})
<1> DEFINE u == <<t>>
<1>1. u \in Seq({t}) /\ Len(u) = 1 /\ u[1] = t
  OBVIOUS
<1> HIDE DEF u
<1>2. 1..Len(u) = {1}
  BY <1>1
<1> QED
  BY <1>1, <1>2 DEF Stepped, u

LEMMA SteppedJoin ==
  ASSUME NEW o, o.target \in Path, NEW s, NEW Y \in SUBSET Path, Stepped(o, s, Y),
         NEW t, NEW Z \in SUBSET Path, Stepped(o, t, Z),
         \A y \in Y, z \in Z : ~Under(y, z) /\ ~Under(z, y)
  PROVE  /\ Stepped(o, s \o t, Y \cup Z)
         /\ \A op, dst : Has(s, op, dst) \/ Has(t, op, dst) => Has(s \o t, op, dst)
<1> DEFINE v == s \o t
<1>1. PICK S : s \in Seq(S)
  BY DEF Stepped
<1>2. PICK T : t \in Seq(T)
  BY DEF Stepped
<1> DEFINE R == S \cup T
<1>3. s \in Seq(R) /\ t \in Seq(R)
  BY <1>1, <1>2, SeqMonotonic
<1> HIDE DEF R
<1>4. /\ v \in Seq(R) /\ Len(v) = Len(s) + Len(t) /\ Len(s) \in Nat /\ Len(t) \in Nat
      /\ \A i \in 1..(Len(s) + Len(t)) : v[i] = IF i <= Len(s) THEN s[i] ELSE t[i - Len(s)]
  BY <1>3, ConcatProperties, LenProperties
<1> HIDE DEF v
<1>5. ASSUME NEW k \in 1..Len(v)
      PROVE  \/ k \in 1..Len(s) /\ v[k] = s[k]
             \/ k - Len(s) \in 1..Len(t) /\ v[k] = t[k - Len(s)]
  BY <1>4
<1>6. ASSUME NEW k \in 1..Len(v)
      PROVE  TaskOf(o, v[k]) /\ v[k].op \in Kinds
             /\ (v[k].op \in Fillers => \E y \in Y \cup Z : v[k].dst = o.target \o y)
  <2>1. CASE k \in 1..Len(s) /\ v[k] = s[k]
    BY <2>1 DEF Stepped
  <2>2. CASE k - Len(s) \in 1..Len(t) /\ v[k] = t[k - Len(s)]
    BY <2>2 DEF Stepped
  <2> QED
    BY <1>5, <2>1, <2>2
<1>7. ASSUME NEW j \in 1..Len(s), NEW k \in 1..Len(t), s[j].op \in Fillers, t[k].op \in Fillers
      PROVE  ~Under(s[j].dst, t[k].dst) /\ ~Under(t[k].dst, s[j].dst)
  <2>1. PICK y \in Y : s[j].dst = o.target \o y
    BY <1>7 DEF Stepped
  <2>2. PICK z \in Z : t[k].dst = o.target \o z
    BY <1>7 DEF Stepped
  <2>3. ~Under(y, z) /\ ~Under(z, y) /\ y \in Path /\ z \in Path
    OBVIOUS
  <2>4. ~Under(o.target \o y, o.target \o z) /\ ~Under(o.target \o z, o.target \o y)
    BY <2>3, UnderShift
  <2> QED
    BY <2>1, <2>2, <2>4, Zenon
<1>8. ASSUME NEW j \in 1..Len(v), NEW k \in 1..Len(v), j # k, v[j].op \in Fillers,
             v[k].op \in Fillers
      PROVE  ~Under(v[j].dst, v[k].dst)
  <2>1. CASE j \in 1..Len(s) /\ v[j] = s[j] /\ k \in 1..Len(s) /\ v[k] = s[k]
    BY <1>8, <2>1 DEF Stepped
  <2>2. CASE j \in 1..Len(s) /\ v[j] = s[j] /\ k - Len(s) \in 1..Len(t) /\ v[k] = t[k - Len(s)]
    BY <1>7, <1>8, <2>2
  <2>3. CASE k \in 1..Len(s) /\ v[k] = s[k] /\ j - Len(s) \in 1..Len(t) /\ v[j] = t[j - Len(s)]
    BY <1>7, <1>8, <2>3
  <2>4. CASE /\ j - Len(s) \in 1..Len(t) /\ v[j] = t[j - Len(s)]
             /\ k - Len(s) \in 1..Len(t) /\ v[k] = t[k - Len(s)]
    <3>1. j - Len(s) # k - Len(s)
      BY <1>4, <1>8
    <3> QED
      BY <1>8, <2>4, <3>1 DEF Stepped
  <2> QED
    BY <1>5, <2>1, <2>2, <2>3, <2>4
<1>9. ASSUME NEW op, NEW dst, Has(s, op, dst) \/ Has(t, op, dst) PROVE Has(v, op, dst)
  <2>1. CASE Has(s, op, dst)
    <3>1. PICK k \in 1..Len(s) : s[k].op = op /\ s[k].dst = dst
      BY <2>1 DEF Has
    <3>2. k \in 1..Len(v) /\ v[k] = s[k]
      BY <1>4
    <3> QED
      BY <3>1, <3>2 DEF Has
  <2>2. CASE Has(t, op, dst)
    <3>1. PICK k \in 1..Len(t) : t[k].op = op /\ t[k].dst = dst
      BY <2>2 DEF Has
    <3> DEFINE i == Len(s) + k
    <3>2. i \in 1..(Len(s) + Len(t)) /\ ~(i <= Len(s)) /\ i - Len(s) = k
      BY <1>4
    <3> HIDE DEF i
    <3>3. i \in 1..Len(v) /\ v[i] = t[k]
      BY <1>4, <3>2
    <3> QED
      BY <3>1, <3>3 DEF Has
  <2> QED
    BY <1>9, <2>1, <2>2
<1>10. Stepped(o, v, Y \cup Z)
  BY <1>4, <1>6, <1>8 DEF Stepped
<1> QED
  BY <1>9, <1>10 DEF v

LEMMA TaskFields ==
  ASSUME NEW op, NEW src, NEW dst
  PROVE  /\ Task(op, src, dst).op = op /\ Task(op, src, dst).src = src
         /\ Task(op, src, dst).dst = dst
BY DEF Task

LEMMA TaskIs ==
  ASSUME NEW op, NEW src, NEW dst, NEW t, t = Task(op, src, dst)
  PROVE  t.op = op /\ t.src = src /\ t.dst = dst /\ t = Task(t.op, t.src, t.dst)
<1>1. t.op = op /\ t.src = src /\ t.dst = dst
  BY TaskFields
<1> QED
  BY <1>1, Zenon

LEMMA OneName ==
  ASSUME NEW x \in STRING
  PROVE  <<x>> \in Path /\ Len(<<x>>) = 1 /\ <<x>>[1] = x /\ <<x>> # <<>>
BY Single DEF Path

LEMMA TwoOf ==
  ASSUME NEW S, NEW x \in S, NEW y \in S
  PROVE  <<x, y>> \in Seq(S) /\ Len(<<x, y>>) = 2 /\ <<x, y>>[1] = x /\ <<x, y>>[2] = y
OBVIOUS

LEMMA ThreeOf ==
  ASSUME NEW S, NEW x \in S, NEW y \in S, NEW z \in S
  PROVE  <<x, y, z>> \in Seq(S) /\ Len(<<x, y, z>>) = 3 /\ <<x, y, z>>[1] = x
         /\ <<x, y, z>>[2] = y
OBVIOUS

LEMMA TwoNames ==
  ASSUME NEW x \in STRING, NEW y \in STRING
  PROVE  <<x, y>> \in Path /\ Len(<<x, y>>) = 2 /\ <<x, y>>[1] = x /\ <<x, y>>[2] = y
         /\ <<x, y>> # <<>>
<1>1. /\ <<x, y>> \in Seq(STRING) /\ Len(<<x, y>>) = 2
      /\ <<x, y>>[1] = x /\ <<x, y>>[2] = y
  BY TwoOf
<1>2. <<x, y>> # <<>>
  BY <1>1, EmptySeq
<1> QED
  BY <1>1, <1>2, Zenon DEF Path

LEMMA ThreeNames ==
  ASSUME NEW x \in STRING, NEW y \in STRING, NEW z \in STRING
  PROVE  <<x, y, z>> \in Path /\ Len(<<x, y, z>>) = 3 /\ <<x, y, z>>[1] = x
         /\ <<x, y, z>>[2] = y /\ <<x, y, z>> # <<>>
<1>1. /\ <<x, y, z>> \in Seq(STRING) /\ Len(<<x, y, z>>) = 3
      /\ <<x, y, z>>[1] = x /\ <<x, y, z>>[2] = y
  BY ThreeOf
<1>2. <<x, y, z>> # <<>>
  BY <1>1, EmptySeq
<1> QED
  BY <1>1, <1>2, Zenon DEF Path

LEMMA NotMerged ==
  ASSUME NEW x, x \notin {"bin", "sbin", "lib"}
  PROVE  <<x>> \notin Merged
<1>1. \A y : <<x>> = <<y>> => x = y
  OBVIOUS
<1> QED
  BY <1>1, MergeNames

LEMMA ClearNames ==
  /\ \A x \in STRING \ {"bin", "sbin", "lib"} : Clear(<<x>>)
  /\ \A x \in STRING \ {"bin", "sbin", "lib"}, y \in STRING : Clear(<<x, y>>)
  /\ \A x \in STRING \ {"bin", "sbin", "lib"}, y, z \in STRING : Clear(<<x, y, z>>)
<1>1. ASSUME NEW x \in STRING \ {"bin", "sbin", "lib"}
      PROVE  <<x>> \notin Merged
  BY NotMerged
<1>2. ASSUME NEW x \in STRING \ {"bin", "sbin", "lib"}, NEW w \in Path, w # <<>>, w[1] = x
      PROVE  Clear(w)
  BY <1>1, <1>2 DEF Clear
<1> QED
  BY <1>2, OneName, TwoNames, ThreeNames

LEMMA BaseNames ==
  /\ Len(BaseDirs) = 14 /\ \A i \in 1..14 : Clear(BaseDirs[i])
  /\ BaseDirs[1] = <<"boot", "grub">>
<1>1. /\ Len(BaseDirs) = 14
      /\ BaseDirs[1] = <<"boot", "grub">> /\ BaseDirs[2] = <<"etc">>
      /\ BaseDirs[3] = <<"var", "log">> /\ BaseDirs[4] = <<"var", "run">>
      /\ BaseDirs[5] = <<"var", "tmp">> /\ BaseDirs[6] = <<"root">> /\ BaseDirs[7] = <<"tmp">>
      /\ BaseDirs[8] = <<"dev">> /\ BaseDirs[9] = <<"proc">>
      /\ BaseDirs[10] = <<"usr", "bin">> /\ BaseDirs[11] = <<"usr", "sbin">>
      /\ BaseDirs[12] = <<"usr", "lib">> /\ BaseDirs[13] = <<"usr", "include">>
      /\ BaseDirs[14] = <<"usr", "share">>
  BY DEF BaseDirs
<1>2. {"boot", "etc", "var", "root", "tmp", "dev", "proc", "usr"}
        \subseteq STRING \ {"bin", "sbin", "lib"}
  BY NamesAssumption
<1>3. {"grub", "log", "run", "tmp", "bin", "sbin", "lib", "include", "share"} \subseteq STRING
  BY NamesAssumption
<1>4. /\ Clear(<<"boot", "grub">>) /\ Clear(<<"etc">>) /\ Clear(<<"var", "log">>)
      /\ Clear(<<"var", "run">>) /\ Clear(<<"var", "tmp">>) /\ Clear(<<"root">>)
      /\ Clear(<<"tmp">>)
  BY <1>2, <1>3, ClearNames
<1>5. /\ Clear(<<"dev">>) /\ Clear(<<"proc">>) /\ Clear(<<"usr", "bin">>)
      /\ Clear(<<"usr", "sbin">>) /\ Clear(<<"usr", "lib">>) /\ Clear(<<"usr", "include">>)
      /\ Clear(<<"usr", "share">>)
  BY <1>2, <1>3, ClearNames
<1>6. ASSUME NEW i \in 1..14 PROVE Clear(BaseDirs[i])
  <2>1. i \in {1, 2, 3, 4, 5, 6, 7, 8, 9, 10, 11, 12, 13, 14}
    OBVIOUS
  <2> QED
    BY <1>1, <1>4, <1>5, <2>1
<1> QED
  BY <1>1, <1>6

LEMMA EachParts ==
  ASSUME NEW op, NEW names, Len(names) \in Nat, NEW o
  PROVE  /\ \E S : Each(op, names, o) \in Seq(S)
         /\ Len(Each(op, names, o)) = Len(names)
         /\ \A i \in 1..Len(names) :
              Each(op, names, o)[i]
                = Task(op, In(o.target, <<"usr">> \o names[i]), In(o.target, names[i]))
<1> DEFINE e == Each(op, names, o)
           n == Len(names)
           R == {e[i] : i \in 1..n}
<1>1. /\ e = [i \in 1..n |-> e[i]]
      /\ \A i \in 1..n : e[i] = Task(op, In(o.target, <<"usr">> \o names[i]), In(o.target, names[i]))
  BY DEF Each
<1> HIDE DEF e, n
<1>2. n \in Nat
  BY DEF n
<1>3. e \in [1..n -> R]
  BY <1>1
<1>4. e \in Seq(R) /\ Len(e) = n
  BY <1>2, <1>3
<1> QED
  BY <1>1, <1>4 DEF e, n

LEMMA EachStepped ==
  ASSUME NEW o, o.target \in Path, NEW op \in {"mkdir", "text"}, NEW names, Len(names) \in Nat,
         \A i \in 1..Len(names) : Clear(names[i]),
         op = "text" => \A i, j \in 1..Len(names) : i # j => ~Under(names[i], names[j])
  PROVE  /\ Stepped(o, Each(op, names, o), {names[i] : i \in {j \in 1..Len(names) : op = "text"}})
         /\ \A i \in 1..Len(names) : Has(Each(op, names, o), op, o.target \o names[i])
<1> DEFINE e == Each(op, names, o)
           n == Len(names)
<1>1. /\ \E S : e \in Seq(S)
      /\ Len(e) = n
      /\ \A i \in 1..n :
           e[i] = Task(op, In(o.target, <<"usr">> \o names[i]), In(o.target, names[i]))
  BY EachParts
<1> HIDE DEF e
<1>2. ASSUME NEW i \in 1..n
      PROVE  /\ e[i].op = op /\ e[i].dst = o.target \o names[i] /\ e[i].src \in Path
             /\ e[i] = Task(e[i].op, e[i].src, e[i].dst)
  <2>1. <<"usr">> \in Path /\ names[i] \in Path
    <3>1. "usr" \in STRING
      BY NamesAssumption
    <3> QED
      BY <3>1, OneName DEF Clear
  <2>2. <<"usr">> \o names[i] \in Path
    BY <2>1, ConcatParts
  <2>3. In(o.target, <<"usr">> \o names[i]) \in Path
    BY <2>2, ConcatParts DEF In
  <2> DEFINE v == In(o.target, <<"usr">> \o names[i])
             w == In(o.target, names[i])
  <2>4. e[i] = Task(op, v, w)
    BY <1>1
  <2>5. v \in Path /\ w = o.target \o names[i]
    BY <2>3 DEF In
  <2> HIDE DEF v, w
  <2>6. e[i].op = op /\ e[i].src = v /\ e[i].dst = w /\ e[i] = Task(e[i].op, e[i].src, e[i].dst)
    BY ONLY <2>4, TaskIs
  <2> QED
    BY <2>5, <2>6, Zenon
<1>3. op \in Kinds /\ op \in Fillers \cup {"mkdir"} /\ op # "block" /\ (op \in Fillers => op = "text")
  BY DEF Kinds, Fillers, Copies
<1>4. ASSUME NEW i \in 1..n PROVE TaskOf(o, e[i])
  BY <1>2, <1>3 DEF TaskOf
<1>5. ASSUME NEW i \in 1..n, NEW j \in 1..n, i # j, op \in Fillers
      PROVE  ~Under(e[i].dst, e[j].dst)
  <2>1. ~Under(names[i], names[j]) /\ names[i] \in Path /\ names[j] \in Path
    BY <1>3, <1>5 DEF Clear
  <2>2. ~Under(o.target \o names[i], o.target \o names[j])
    BY <2>1, UnderShift
  <2>3. e[i].dst = o.target \o names[i] /\ e[j].dst = o.target \o names[j]
    BY <1>2
  <2> QED
    BY <2>2, <2>3, Zenon
<1>6. Stepped(o, e, {names[i] : i \in {j \in 1..n : op = "text"}})
  BY <1>1, <1>2, <1>3, <1>4, <1>5 DEF Stepped
<1>7. \A i \in 1..n : Has(e, op, o.target \o names[i])
  BY <1>1, <1>2 DEF Has
<1> QED
  BY <1>6, <1>7 DEF e

LEMMA LinksStepped ==
  ASSUME NEW o, o.target \in Path
  PROVE  /\ Stepped(o, Each("link", MergeLinks, o), {})
         /\ \A m \in Merged : Has(Each("link", MergeLinks, o), "link", In(o.target, m))
<1> DEFINE e == Each("link", MergeLinks, o)
<1>1. Len(MergeLinks) \in Nat /\ Len(MergeLinks) = 3
  BY DEF MergeLinks
<1>2. /\ \E S : e \in Seq(S)
      /\ Len(e) = Len(MergeLinks)
      /\ \A i \in 1..Len(MergeLinks) :
           e[i] = Task("link", In(o.target, <<"usr">> \o MergeLinks[i]), In(o.target, MergeLinks[i]))
  BY <1>1, EachParts
<1> HIDE DEF e
<1>3. /\ \A i \in 1..Len(MergeLinks) : MergeLinks[i] \in Merged
      /\ \A m \in Merged : \E i \in 1..Len(MergeLinks) : m = MergeLinks[i]
  <2>1. DOMAIN MergeLinks = 1..Len(MergeLinks)
    BY DEF MergeLinks
  <2> QED
    BY <2>1 DEF Merged, ToSet
<1>4. \A i \in 1..Len(e) : /\ e[i].op = "link" /\ e[i] = Task(e[i].op, e[i].src, e[i].dst)
                           /\ e[i].src = Beneath(o, MergeLinks[i])
                           /\ e[i].dst = In(o.target, MergeLinks[i])
  BY <1>2, TaskFields DEF Beneath
<1>5. "link" \in Kinds /\ "link" \notin Fillers
  BY DEF Kinds, Fillers, Copies
<1>6. \A i \in 1..Len(e) : TaskOf(o, e[i])
  BY <1>2, <1>3, <1>4 DEF TaskOf
<1>7. Stepped(o, e, {})
  BY <1>2, <1>4, <1>5, <1>6 DEF Stepped
<1>8. \A m \in Merged : Has(e, "link", In(o.target, m))
  BY <1>2, <1>3, <1>4 DEF Has
<1> QED
  BY <1>7, <1>8 DEF e

FillNames == {<<"usr">>, <<"boot", "kernel.bin">>, <<"boot", "cctkfs.img">>,
              <<"boot", "grub", "grub.cfg">>, <<"etc", "hostname">>, <<"etc", "cgoct.conf">>,
              <<"etc", "mnts">>}

LEMMA FillsApart ==
  /\ \A y \in FillNames : Clear(y)
  /\ \A y, z \in FillNames : y # z => ~Under(y, z)
<1> DEFINE u == <<"usr">>
           k == <<"boot", "kernel.bin">>
           c == <<"boot", "cctkfs.img">>
           g == <<"boot", "grub", "grub.cfg">>
           h == <<"etc", "hostname">>
           t == <<"etc", "cgoct.conf">>
           m == <<"etc", "mnts">>
<1>1. /\ u \in Path /\ Len(u) = 1 /\ u[1] = "usr"
      /\ k \in Path /\ Len(k) = 2 /\ k[1] = "boot" /\ k[2] = "kernel.bin"
      /\ c \in Path /\ Len(c) = 2 /\ c[1] = "boot" /\ c[2] = "cctkfs.img"
      /\ g \in Path /\ Len(g) = 3 /\ g[1] = "boot" /\ g[2] = "grub"
  <2>1. {"usr", "boot", "kernel.bin", "cctkfs.img", "grub", "grub.cfg"} \subseteq STRING
    BY NamesAssumption
  <2> QED
    BY <2>1, OneName, TwoNames, ThreeNames
<1>2. /\ h \in Path /\ Len(h) = 2 /\ h[1] = "etc" /\ h[2] = "hostname"
      /\ t \in Path /\ Len(t) = 2 /\ t[1] = "etc" /\ t[2] = "cgoct.conf"
      /\ m \in Path /\ Len(m) = 2 /\ m[1] = "etc" /\ m[2] = "mnts"
  <2>1. {"etc", "hostname", "cgoct.conf", "mnts"} \subseteq STRING
    BY NamesAssumption
  <2> QED
    BY <2>1, TwoNames
<1>3. \A y \in FillNames : Clear(y)
  <2>1. {"usr", "boot", "etc"} \subseteq STRING \ {"bin", "sbin", "lib"}
    BY NamesAssumption
  <2>2. {"kernel.bin", "cctkfs.img", "grub", "grub.cfg", "hostname", "cgoct.conf", "mnts"}
          \subseteq STRING
    BY NamesAssumption
  <2>3. Clear(u) /\ Clear(k) /\ Clear(c) /\ Clear(g)
    BY <2>1, <2>2, ClearNames
  <2>4. Clear(h) /\ Clear(t) /\ Clear(m)
    BY <2>1, <2>2, ClearNames
  <2>5. FillNames = {u, k, c, g, h, t, m}
    BY DEF FillNames
  <2> HIDE DEF u, k, c, g, h, t, m
  <2> QED
    BY <2>3, <2>4, <2>5
<1>4. FillNames = {u, k, c, g, h, t, m}
  BY DEF FillNames
<1> HIDE DEF u, k, c, g, h, t, m
<1>5. ASSUME NEW y \in FillNames, NEW z \in FillNames, y # z PROVE ~Under(y, z)
  <2>1. y \in Path /\ z \in Path /\ 1 <= Len(y) /\ 1 <= Len(z)
    <3>1. \A x \in FillNames : x \in Path
      BY <1>3 DEF Clear
    <3>2. 1 <= 1 /\ 1 <= 2 /\ 1 <= 3
      OBVIOUS
    <3>3. \A x \in FillNames : Len(x) \in {1, 2, 3}
      BY <1>1, <1>2, <1>4, Zenon
    <3> QED
      BY <3>1, <3>2, <3>3
  <2>2. CASE y[1] # z[1]
    BY <2>1, <2>2, DiffersAt
  <2>3. CASE y[1] = z[1]
    <3>1. \/ y \in {k, c, g} /\ z \in {k, c, g}
          \/ y \in {h, t, m} /\ z \in {h, t, m}
      BY <1>1, <1>2, <1>4, <1>5, <2>3
    <3>2. 2 <= Len(y) /\ 2 <= Len(z) /\ y[2] # z[2]
      BY <1>1, <1>2, <1>5, <3>1
    <3> QED
      BY <2>1, <3>2, DiffersAt
  <2> QED
    BY <2>2, <2>3
<1> QED
  BY <1>3, <1>5

LEMMA AskedStepped ==
  ASSUME NEW o, o.target \in Path, NEW src \in Path, NEW name, NEW y, y = <<"boot">> \o name,
         Clear(y)
  PROVE  Stepped(o, Asked(src, name, o), {y})
<1> DEFINE w == In(o.target, y)
           t == Task("copy", src, w)
<1>0. w = o.target \o y
  BY DEF In
<1> HIDE DEF w
<1>1. t.op = "copy" /\ t.src = src /\ t.dst = o.target \o y /\ t = Task(t.op, t.src, t.dst)
  <2>1. t.op = "copy" /\ t.src = src /\ t.dst = w /\ t = Task(t.op, t.src, t.dst)
    BY TaskIs
  <2> QED
    BY <1>0, <2>1, Zenon
<1>2. "copy" \in Kinds /\ "copy" \in Fillers
  BY DEF Kinds, Fillers, Copies
<1> HIDE DEF t
<1>3. TaskOf(o, t)
  BY <1>1, <1>2 DEF TaskOf
<1>4. Stepped(o, <<t>>, {y})
  BY <1>1, <1>2, <1>3, SteppedOne
<1>5. Stepped(o, <<>>, {y})
  BY SteppedNone
<1>6. Asked(src, name, o) = <<>> \/ Asked(src, name, o) = <<t>>
  BY Zenon DEF Asked, t, w
<1> QED
  BY <1>4, <1>5, <1>6, Zenon

LEMMA SkeletonStepped ==
  ASSUME NEW o, o.target \in Path
  PROVE  Stepped(o, Each("text", Skeleton, o),
                 {<<"etc", "hostname">>, <<"etc", "cgoct.conf">>, <<"etc", "mnts">>})
<1> DEFINE h == <<"etc", "hostname">>
           t == <<"etc", "cgoct.conf">>
           m == <<"etc", "mnts">>
<1>1. Len(Skeleton) = 3 /\ Skeleton[1] = h /\ Skeleton[2] = t /\ Skeleton[3] = m
  BY DEF Skeleton
<1>2. {h, t, m} \subseteq FillNames
  BY DEF FillNames
<1>3. h # t /\ h # m /\ t # m
  <2>1. \A x, y, z : <<x, y>> = <<x, z>> => y = z
    OBVIOUS
  <2> QED
    BY <2>1
<1> HIDE DEF h, t, m
<1>4. \A i \in 1..Len(Skeleton) : i \in {1, 2, 3}
  BY <1>1
<1>5. \A i \in 1..Len(Skeleton) : Clear(Skeleton[i])
  BY <1>1, <1>2, <1>4, FillsApart
<1>6. \A i, j \in 1..Len(Skeleton) : i # j => ~Under(Skeleton[i], Skeleton[j])
  BY <1>1, <1>2, <1>3, <1>4, FillsApart
<1>7. Stepped(o, Each("text", Skeleton, o),
              {Skeleton[i] : i \in {j \in 1..Len(Skeleton) : "text" = "text"}})
  BY <1>1, <1>5, <1>6, EachStepped
<1>8. {Skeleton[i] : i \in {j \in 1..Len(Skeleton) : "text" = "text"}} = {h, t, m}
  BY <1>1, <1>4
<1>9. Stepped(o, Each("text", Skeleton, o), {h, t, m})
  BY ONLY <1>7, <1>8, Zenon
<1> QED
  BY <1>9 DEF h, t, m

LEMMA TreeStepped ==
  ASSUME NEW o, o.target \in Path, o.srcroot \in Path
  PROVE  Stepped(o, <<Task("tree", In(o.srcroot, <<"usr">>), In(o.target, <<"usr">>))>>, {<<"usr">>})
<1> DEFINE u == <<"usr">>
           v == In(o.srcroot, u)
           w == In(o.target, u)
           t == Task("tree", v, w)
<1>1. Clear(u) /\ u \in Path
  <2>1. u \in FillNames
    BY DEF FillNames
  <2> QED
    BY <2>1, FillsApart DEF Clear
<1> HIDE DEF u
<1>2. v \in Path /\ w = o.target \o u
  BY <1>1, ConcatParts DEF In
<1> HIDE DEF v, w
<1>3. t.op = "tree" /\ t.src = v /\ t.dst = w /\ t = Task(t.op, t.src, t.dst)
  BY TaskIs
<1>4. "tree" \in Kinds /\ "tree" \in Fillers
  BY DEF Kinds, Fillers, Copies
<1> HIDE DEF t
<1>5. TaskOf(o, t)
  BY <1>1, <1>2, <1>3, <1>4 DEF TaskOf
<1>6. Stepped(o, <<t>>, {u})
  BY <1>2, <1>3, <1>4, <1>5, SteppedOne
<1> QED
  BY <1>6 DEF t, u, v, w

LEMMA GrubStepped ==
  ASSUME NEW o, o.target \in Path
  PROVE  Stepped(o, <<Task("text", <<>>, In(o.target, <<"boot", "grub", "grub.cfg">>))>>,
                 {<<"boot", "grub", "grub.cfg">>})
<1> DEFINE u == <<"boot", "grub", "grub.cfg">>
           w == In(o.target, u)
           t == Task("text", <<>>, w)
<1>1. Clear(u)
  <2>1. u \in FillNames
    BY DEF FillNames
  <2> QED
    BY <2>1, FillsApart
<1> HIDE DEF u
<1>2. <<>> \in Path /\ w = o.target \o u
  BY NothingAhead DEF In
<1> HIDE DEF w
<1>3. t.op = "text" /\ t.src = <<>> /\ t.dst = w /\ t = Task(t.op, t.src, t.dst)
  BY TaskIs
<1>4. "text" \in Kinds /\ "text" \in Fillers
  BY DEF Kinds, Fillers, Copies
<1> HIDE DEF t
<1>5. TaskOf(o, t)
  BY <1>1, <1>2, <1>3, <1>4 DEF TaskOf
<1>6. Stepped(o, <<t>>, {u})
  BY <1>2, <1>3, <1>4, <1>5, SteppedOne
<1> QED
  BY <1>6 DEF t, u, w

Keeps(v, s, t) == \A op, dst : Has(s, op, dst) \/ Has(t, op, dst) => Has(v, op, dst)

LEMMA SteppedNext ==
  ASSUME NEW o, o.target \in Path, NEW s, NEW Y, Stepped(o, s, Y), Y \subseteq FillNames,
         NEW t, NEW Z, Stepped(o, t, Z), Z \subseteq FillNames, Y \cap Z = {},
         NEW v, v = s \o t, NEW W, W = Y \cup Z
  PROVE  Stepped(o, v, W) /\ Keeps(v, s, t)
<1>1. Y \in SUBSET Path /\ Z \in SUBSET Path
  BY FillsApart DEF Clear
<1>2. \A y \in Y, z \in Z : ~Under(y, z) /\ ~Under(z, y)
  <2> SUFFICES ASSUME NEW y \in Y, NEW z \in Z PROVE ~Under(y, z) /\ ~Under(z, y)
    OBVIOUS
  <2>1. y # z /\ y \in FillNames /\ z \in FillNames
    OBVIOUS
  <2> QED
    BY <2>1, FillsApart
<1>3. Stepped(o, s \o t, Y \cup Z) /\ Keeps(s \o t, s, t)
  BY <1>1, <1>2, SteppedJoin DEF Keeps
<1> QED
  BY <1>3, Zenon

LEMMA StepsParts ==
  ASSUME NEW o \in Options
  PROVE  /\ \E Y : Stepped(o, Steps(o), Y)
         /\ Has(Steps(o), "mkdir", o.target \o <<"boot", "grub">>)
         /\ \A m \in Merged : Has(Steps(o), "link", In(o.target, m))
<1> DEFINE u == <<"usr">>
           k == <<"boot", "kernel.bin">>
           c == <<"boot", "cctkfs.img">>
           g == <<"boot", "grub", "grub.cfg">>
           h == <<"etc", "hostname">>
           t == <<"etc", "cgoct.conf">>
           m == <<"etc", "mnts">>
           e1 == Each("mkdir", BaseDirs, o)
           e2 == Each("link", MergeLinks, o)
           e3 == IF o.base THEN <<Task("tree", In(o.srcroot, u), In(o.target, u))>> ELSE <<>>
           e4 == Asked(o.kernel, <<"kernel.bin">>, o)
           e5 == Asked(o.module, <<"cctkfs.img">>, o)
           e6 == IF o.grub # NotGiven THEN Asked(o.grub, <<"grub", "grub.cfg">>, o)
                 ELSE IF o.kernel # NotGiven /\ o.module # NotGiven
                      THEN <<Task("text", <<>>, In(o.target, g))>> ELSE <<>>
           e7 == Each("text", Skeleton, o)
<1>0. o.target \in Path /\ o.srcroot \in Path /\ o.kernel \in Path /\ o.module \in Path
      /\ o.grub \in Path
  BY RootfsAssumption
<1>1. /\ {u, k, c, g, h, t, m} = FillNames
      /\ <<"boot">> \o <<"kernel.bin">> = k /\ <<"boot">> \o <<"cctkfs.img">> = c
      /\ <<"boot">> \o <<"grub", "grub.cfg">> = g
  BY ConcatOneOne, ConcatOneTwo DEF FillNames
<1>2. Steps(o) = (((((e1 \o e2) \o e3) \o e4) \o e5) \o e6) \o e7
  BY Zenon DEF Steps
<1>3. /\ Stepped(o, e1, {}) /\ Has(e1, "mkdir", o.target \o <<"boot", "grub">>)
  <2>0. /\ o.target \in Path /\ "mkdir" \in {"mkdir", "text"} /\ Len(BaseDirs) \in Nat
        /\ \A i \in 1..Len(BaseDirs) : Clear(BaseDirs[i])
        /\ "mkdir" = "text" =>
             \A i, j \in 1..Len(BaseDirs) : i # j => ~Under(BaseDirs[i], BaseDirs[j])
    BY <1>0, BaseNames
  <2>1. /\ Stepped(o, e1, {BaseDirs[i] : i \in {j \in 1..Len(BaseDirs) : "mkdir" = "text"}})
        /\ \A i \in 1..Len(BaseDirs) : Has(e1, "mkdir", o.target \o BaseDirs[i])
    BY ONLY <2>0, EachStepped
  <2>2. {BaseDirs[i] : i \in {j \in 1..Len(BaseDirs) : "mkdir" = "text"}} = {}
    OBVIOUS
  <2>3. 1 \in 1..Len(BaseDirs)
    BY BaseNames
  <2> HIDE DEF e1
  <2> QED
    BY <2>1, <2>2, <2>3, BaseNames, Zenon
<1>4. Stepped(o, e2, {}) /\ \A x \in Merged : Has(e2, "link", In(o.target, x))
  BY <1>0, LinksStepped
<1>5. Stepped(o, e3, {u})
  <2>1. Stepped(o, <<Task("tree", In(o.srcroot, u), In(o.target, u))>>, {u}) /\ Stepped(o, <<>>, {u})
    BY <1>0, TreeStepped, SteppedNone
  <2> QED
    BY <2>1, Zenon
<1>6. Clear(k) /\ Clear(c) /\ Clear(g)
  BY <1>1, FillsApart
<1>7. Stepped(o, e4, {k}) /\ Stepped(o, e5, {c})
  BY <1>0, <1>1, <1>6, AskedStepped
<1>8. Stepped(o, e6, {g})
  <2>1. Stepped(o, <<Task("text", <<>>, In(o.target, g))>>, {g}) /\ Stepped(o, <<>>, {g})
        /\ Stepped(o, Asked(o.grub, <<"grub", "grub.cfg">>, o), {g})
    BY <1>0, <1>1, <1>6, GrubStepped, SteppedNone, AskedStepped
  <2> QED
    BY <2>1, Zenon
<1>9. Stepped(o, e7, {h, t, m})
  BY <1>0, SkeletonStepped
<1>10. /\ u # k /\ u # c /\ u # g /\ u # h /\ u # t /\ u # m
       /\ k # c /\ k # g /\ k # h /\ k # t /\ k # m /\ c # g /\ c # h /\ c # t /\ c # m
       /\ g # h /\ g # t /\ g # m
  <2>1. Len(u) = 1 /\ Len(k) = 2 /\ Len(c) = 2 /\ Len(g) = 3 /\ Len(h) = 2 /\ Len(t) = 2 /\ Len(m) = 2
    OBVIOUS
  <2>2. k[1] = "boot" /\ k[2] = "kernel.bin" /\ c[1] = "boot" /\ c[2] = "cctkfs.img"
        /\ h[1] = "etc" /\ t[1] = "etc" /\ m[1] = "etc"
    OBVIOUS
  <2> HIDE DEF u, k, c, g, h, t, m
  <2> QED
    BY <2>1, <2>2
<1> HIDE DEF u, k, c, g, h, t, m, e1, e2, e3, e4, e5, e6, e7
<1> DEFINE s2 == e1 \o e2
           s3 == s2 \o e3
           s4 == s3 \o e4
           s5 == s4 \o e5
           s6 == s5 \o e6
           s7 == s6 \o e7
<1>a. Steps(o) = s7
  BY <1>2
<1>b. /\ s2 = e1 \o e2 /\ s3 = s2 \o e3 /\ s4 = s3 \o e4 /\ s5 = s4 \o e5
      /\ s6 = s5 \o e6 /\ s7 = s6 \o e7
  OBVIOUS
<1> HIDE DEF s2, s3, s4, s5, s6, s7
<1>11. Stepped(o, s2, {}) /\ Keeps(s2, e1, e2)
  <2>1. {} \subseteq FillNames /\ {} \subseteq FillNames /\ {} \cap {} = {} /\ {} = {} \cup {}
    BY <1>1, <1>10
  <2>2. Stepped(o, e1, {}) /\ Stepped(o, e2, {}) /\ o.target \in Path /\ s2 = e1 \o e2
    BY <1>0, <1>b, <1>3, <1>4
  <2> QED
    BY ONLY <2>1, <2>2, SteppedNext
<1>12. Stepped(o, s3, {u}) /\ Keeps(s3, s2, e3)
  <2>1. {} \subseteq FillNames /\ {u} \subseteq FillNames /\ {} \cap {u} = {} /\ {u} = {} \cup {u}
    BY <1>1, <1>10
  <2>2. Stepped(o, s2, {}) /\ Stepped(o, e3, {u}) /\ o.target \in Path /\ s3 = s2 \o e3
    BY <1>0, <1>b, <1>5, <1>11
  <2> QED
    BY ONLY <2>1, <2>2, SteppedNext
<1>13. Stepped(o, s4, {u, k}) /\ Keeps(s4, s3, e4)
  <2>1. {u} \subseteq FillNames /\ {k} \subseteq FillNames /\ {u} \cap {k} = {} /\ {u, k} = {u} \cup {k}
    BY <1>1, <1>10
  <2>2. Stepped(o, s3, {u}) /\ Stepped(o, e4, {k}) /\ o.target \in Path /\ s4 = s3 \o e4
    BY <1>0, <1>b, <1>7, <1>12
  <2> QED
    BY ONLY <2>1, <2>2, SteppedNext
<1>14. Stepped(o, s5, {u, k, c}) /\ Keeps(s5, s4, e5)
  <2>1. {u, k} \subseteq FillNames /\ {c} \subseteq FillNames /\ {u, k} \cap {c} = {}
        /\ {u, k, c} = {u, k} \cup {c}
    BY <1>1, <1>10
  <2>2. Stepped(o, s4, {u, k}) /\ Stepped(o, e5, {c}) /\ o.target \in Path /\ s5 = s4 \o e5
    BY <1>0, <1>b, <1>7, <1>13
  <2> QED
    BY ONLY <2>1, <2>2, SteppedNext
<1>15. Stepped(o, s6, {u, k, c, g}) /\ Keeps(s6, s5, e6)
  <2>1. {u, k, c} \subseteq FillNames /\ {g} \subseteq FillNames /\ {u, k, c} \cap {g} = {}
        /\ {u, k, c, g} = {u, k, c} \cup {g}
    BY <1>1, <1>10
  <2>2. Stepped(o, s5, {u, k, c}) /\ Stepped(o, e6, {g}) /\ o.target \in Path /\ s6 = s5 \o e6
    BY <1>0, <1>b, <1>8, <1>14
  <2> QED
    BY ONLY <2>1, <2>2, SteppedNext
<1>16. Stepped(o, s7, {u, k, c, g, h, t, m}) /\ Keeps(s7, s6, e7)
  <2>1. {u, k, c, g} \subseteq FillNames /\ {h, t, m} \subseteq FillNames
        /\ {u, k, c, g} \cap {h, t, m} = {}
        /\ {u, k, c, g, h, t, m} = {u, k, c, g} \cup {h, t, m}
    BY <1>1, <1>10
  <2>2. Stepped(o, s6, {u, k, c, g}) /\ Stepped(o, e7, {h, t, m}) /\ o.target \in Path /\ s7 = s6 \o e7
    BY <1>0, <1>b, <1>9, <1>15
  <2> QED
    BY ONLY <2>1, <2>2, SteppedNext
<1>17. \A op, d : Has(e1, op, d) \/ Has(e2, op, d) => Has(s7, op, d)
  BY <1>11, <1>12, <1>13, <1>14, <1>15, <1>16 DEF Keeps
<1> QED
  BY <1>3, <1>4, <1>16, <1>17, <1>a

LEMMA StepsOK ==
  ASSUME NEW o \in Options
  PROVE  /\ PlanOK(o, Steps(o)) /\ \A k \in 1..Len(Steps(o)) : Steps(o)[k].op \in Kinds
         /\ Has(Steps(o), "mkdir", o.target \o <<"boot", "grub">>)
         /\ \A m \in Merged : Has(Steps(o), "link", In(o.target, m))
<1>1. PICK Y : Stepped(o, Steps(o), Y)
  BY StepsParts
<1>2. \A k \in 1..Len(Steps(o)) : Steps(o)[k].op \in Kinds
  BY <1>1 DEF Stepped
<1> QED
  BY <1>1, <1>2, SteppedPlan, StepsParts
-----------------------------------------------------------------------------
(* Directories on the way to a name, and what is left of them to be made.  *)

LEMMA IsDirAt ==
  ASSUME NEW f, NEW q
  PROVE  is_dir(f, q) <=> \E x \in Real(f, q) : x \in DOMAIN f.node /\ f.node[x] = Dir
BY DEF is_dir, stat

LEMMA StillLeads ==
  ASSUME NEW f, NEW g, LinksOk(f), LinksOk(g), Extends(g, f), NEW q \in Path,
         NEW x \in Real(f, q), x \in DOMAIN f.node
  PROVE  x \in Real(g, q) /\ x \in DOMAIN g.node /\ g.node[x] = f.node[x]
BY ExtendedLeads, LinksRange DEF Real, Extends

LEMMA DirStays ==
  ASSUME NEW f, NEW g, LinksOk(f), LinksOk(g), Extends(g, f), NEW q \in Path, is_dir(f, q)
  PROVE  is_dir(g, q)
<1>1. PICK x \in Real(f, q) : x \in DOMAIN f.node /\ f.node[x] = Dir
  BY IsDirAt
<1>2. x \in Real(g, q) /\ x \in DOMAIN g.node /\ g.node[x] = f.node[x]
  BY <1>1, StillLeads
<1> QED
  BY <1>1, <1>2, IsDirAt

LEMMA DirFront ==
  ASSUME NEW f, IsTree(f), NEW t \in Path, t # <<>>, is_dir(f, t)
  PROVE  is_dir(f, Front(t))
<1>0. LinksOk(f)
  BY TreeParts
<1>1. PICK x \in Real(f, t) : x \in DOMAIN f.node /\ f.node[x] = Dir
  BY IsDirAt
<1>2. PICK d, q : Looked(f, MaxLinks, t, d, q) /\ LeadsTo(f, MaxLinks, q, x)
  BY <1>0, <1>1, LeadsName, LinksRange DEF Real
<1>3. d \in Real(f, Front(t)) /\ KindAt(f, d) = "dir"
  BY <1>2 DEF Looked, Real
<1>4. d \in DOMAIN f.node /\ f.node[d] = Dir
  BY <1>3, TreeParts DEF KindAt
<1> QED
  BY <1>3, <1>4, IsDirAt

LEMMA FrontSub ==
  ASSUME NEW t \in Path, NEW n \in 1..Len(t)
  PROVE  /\ SubSeq(t, 1, n) \in Path /\ SubSeq(t, 1, n) # <<>>
         /\ Front(SubSeq(t, 1, n)) = SubSeq(t, 1, n - 1)
<1>1. Len(t) \in Nat /\ t \in Seq(STRING) /\ \A i \in 1..Len(t) : t[i] \in STRING
  BY LenProperties, ElementOfSeq DEF Path
<1> DEFINE b == SubSeq(t, 1, n - 1)
<1>2. Append(b, t[n]) = SubSeq(t, 1, n)
  BY OneMoreBlock
<1>3. b \in Path
  <2>1. \A i \in 1..(n - 1) : t[i] \in STRING
    BY <1>1
  <2>2. n - 1 \in Int /\ 1 \in Int
    BY <1>1
  <2> QED
    BY <2>1, <2>2, SubSeqProperties DEF Path
<1>4. t[n] \in STRING
  BY <1>1
<1> HIDE DEF b
<1>5. Append(b, t[n]) \in Path /\ Append(b, t[n]) # <<>> /\ Front(Append(b, t[n])) = b
  BY <1>3, <1>4, AppendIn
<1>6. SubSeq(t, 1, n) \in Path /\ SubSeq(t, 1, n) # <<>> /\ Front(SubSeq(t, 1, n)) = b
  BY <1>2, <1>5, Zenon
<1> QED
  BY <1>6 DEF b

LEMMA DirPrefix ==
  ASSUME NEW f, IsTree(f), NEW t \in Path, is_dir(f, t), NEW n \in 0..Len(t)
  PROVE  is_dir(f, SubSeq(t, 1, n))
<1> DEFINE Z == {k \in Nat : k <= Len(t) => is_dir(f, SubSeq(t, 1, Len(t) - k))}
<1>0. Len(t) \in Nat
  BY LenProperties DEF Path
<1>1. 0 \in Z
  <2>1. SubSeq(t, 1, Len(t)) = t /\ Len(t) - 0 = Len(t)
    BY <1>0, WholeSub
  <2> QED
    BY <2>1
<1>2. ASSUME NEW k \in Nat, k \in Z PROVE k + 1 \in Z
  <2> SUFFICES ASSUME k + 1 <= Len(t) PROVE is_dir(f, SubSeq(t, 1, Len(t) - (k + 1)))
    OBVIOUS
  <2> DEFINE m == Len(t) - k
  <2>1. m \in 1..Len(t) /\ Len(t) - (k + 1) = m - 1 /\ k <= Len(t)
    BY <1>0
  <2>2. is_dir(f, SubSeq(t, 1, m))
    BY <1>2, <2>1
  <2> HIDE DEF m
  <2> DEFINE b == SubSeq(t, 1, m)
  <2>3. b \in Path /\ b # <<>> /\ Front(b) = SubSeq(t, 1, m - 1)
    BY <2>1, FrontSub
  <2> HIDE DEF b
  <2>4. is_dir(f, Front(b))
    <3>1. is_dir(f, b)
      BY <2>2 DEF b
    <3> QED
      BY <2>3, <3>1, DirFront
  <2> QED
    BY <2>1, <2>3, <2>4, Zenon
<1> HIDE DEF Z
<1>3. \A k \in Nat : k \in Z
  BY <1>1, <1>2, SetInduction
<1>4. Len(t) - n \in Nat /\ Len(t) - n <= Len(t) /\ Len(t) - (Len(t) - n) = n
  BY <1>0
<1>5. Len(t) - n \in Z
  BY <1>3, <1>4
<1>6. is_dir(f, SubSeq(t, 1, Len(t) - (Len(t) - n)))
  BY <1>4, <1>5 DEF Z
<1> QED
  BY <1>4, <1>6

\* a prefix of a name of the target is one of the target, or a name of it
LEMMA PrefixSplit ==
  ASSUME NEW t \in Path, NEW y, Clear(y), NEW q \in Prefixes(t \o y)
  PROVE  \/ \E n \in 0..Len(t) : q = SubSeq(t, 1, n)
         \/ \E z : Clear(z) /\ q = t \o z
<1> DEFINE w == t \o y
<1>0. /\ y \in Path /\ y # <<>> /\ w \in Path /\ Len(w) = Len(t) + Len(y)
      /\ Len(t) \in Nat /\ Len(y) \in Nat
      /\ \A i \in 1..(Len(t) + Len(y)) : w[i] = IF i <= Len(t) THEN t[i] ELSE y[i - Len(t)]
  BY ConcatParts DEF Clear
<1>1. PICK l \in 0..Len(w) : q = SubSeq(w, 1, l)
  BY DEF Prefixes
<1> HIDE DEF w
<1>2. CASE l <= Len(t)
  <2>1. \A i \in 1..l : w[i] = t[i]
    BY <1>0, <1>2
  <2>2. SubSeq(w, 1, l) = SubSeq(t, 1, l)
    BY <1>0, <1>2, <2>1, SameStart
  <2>3. l \in 0..Len(t)
    BY <1>2
  <2> QED
    BY <1>1, <2>2, <2>3
<1>3. CASE ~(l <= Len(t))
  <2> DEFINE n == l - Len(t)
             z == SubSeq(y, 1, n)
  <2>1. n \in 1..Len(y) /\ l = Len(t) + n
    BY <1>0, <1>3
  <2> HIDE DEF n
  <2>2. /\ z \in Path /\ z # <<>> /\ Len(z) = n /\ \A i \in 1..n : z[i] = y[i]
    <3>1. z \in Path /\ z # <<>>
      BY <1>0, <2>1, FrontSub
    <3>2. \A i \in 1..n : y[i] \in STRING
      BY <1>0, <2>1, ElementOfSeq DEF Path
    <3>3. Len(z) = n /\ \A i \in 1..n : z[i] = y[i]
      BY <1>0, <2>1, <3>2, SubSeqProperties DEF Path
    <3> QED
      BY <3>1, <3>3
  <2> HIDE DEF z
  <2>3. Clear(z)
    <3>1. z[1] = y[1]
      BY <2>1, <2>2
    <3> QED
      BY <2>2, <3>1 DEF Clear
  <2> DEFINE v == t \o z
             s == SubSeq(w, 1, l)
  <2>4. /\ v \in Path /\ Len(v) = Len(t) + n
        /\ \A i \in 1..(Len(t) + n) : v[i] = IF i <= Len(t) THEN t[i] ELSE z[i - Len(t)]
    BY <2>2, ConcatParts
  <2>5. s \in Path /\ Len(s) = l /\ \A i \in 1..l : s[i] = w[i]
    <3>1. \A i \in 1..l : w[i] \in STRING
      BY <1>0, ElementOfSeq DEF Path
    <3> QED
      BY <1>0, <3>1, SubSeqProperties DEF Path
  <2> HIDE DEF v, s
  <2>6. \A i \in 1..l : v[i] = s[i]
    <3> SUFFICES ASSUME NEW i \in 1..l PROVE v[i] = w[i]
      BY <2>5
    <3>1. i \in 1..(Len(t) + n) /\ i \in 1..(Len(t) + Len(y))
      BY <1>0, <2>1
    <3>2. CASE i <= Len(t)
      BY <1>0, <2>4, <3>1, <3>2
    <3>3. CASE ~(i <= Len(t))
      <4>1. i - Len(t) \in 1..n
        BY <1>0, <2>1, <3>3
      <4> QED
        BY <1>0, <2>2, <2>4, <3>1, <3>3, <4>1
    <3> QED
      BY <3>2, <3>3
  <2>7. v = s
    BY <2>1, <2>4, <2>5, <2>6, SamePath
  <2>8. q = s
    BY <1>1 DEF s
  <2> QED
    BY <2>3, <2>7, <2>8 DEF v
<1> QED
  BY <1>2, <1>3

Lacking(f, w) == {q \in Prefixes(w) : q # <<>> /\ ~is_dir(f, q)}

LEMMA LackingParts ==
  ASSUME NEW a, NEW o, NEW p, Job(a, o, p), NEW f, Grown(f, a, o, p), NEW y, Clear(y)
  PROVE  /\ Lacking(f, o.target \o y) = {} => is_dir(f, o.target \o y)
         /\ \A q \in Lacking(f, o.target \o y) : InTarget(o, q)
<1> DEFINE w == o.target \o y
<1>0. /\ IsTree(f) /\ o.target \in Path /\ y \in Path /\ y # <<>> /\ w \in Path /\ w # <<>>
      /\ Len(o.target) \in Nat /\ Len(w) \in Nat
  <2>1. IsTree(f) /\ o.target \in Path /\ y \in Path /\ y # <<>>
    BY GrownParts, JobParts DEF Clear
  <2> QED
    BY <2>1, FrontAhead, ConcatParts, LenProperties DEF Path
<1>1. is_dir(f, o.target)
  BY GrownParts, IsDirAt
<1>2. Lacking(f, w) = {} => is_dir(f, w)
  <2>1. SubSeq(w, 1, Len(w)) = w
    BY <1>0, WholeSub
  <2>2. w \in Prefixes(w)
    BY <1>0, <2>1 DEF Prefixes
  <2> HIDE DEF w
  <2> QED
    BY <1>0, <2>2 DEF Lacking
<1>3. ASSUME NEW q \in Lacking(f, w) PROVE InTarget(o, q)
  <2>1. q \in Prefixes(w) /\ ~is_dir(f, q)
    BY DEF Lacking
  <2>2. CASE \E n \in 0..Len(o.target) : q = SubSeq(o.target, 1, n)
    BY <1>0, <1>1, <2>1, <2>2, DirPrefix
  <2>3. CASE \E z : Clear(z) /\ q = o.target \o z
    BY <2>3 DEF InTarget
  <2> QED
    BY <1>0, <2>1, <2>2, <2>3, PrefixSplit
<1> QED
  BY <1>2, <1>3

LEMMA FirstLacking ==
  ASSUME NEW f, NEW w \in Path, Lacking(f, w) # {}
  PROVE  (CHOOSE x \in Lacking(f, w) : \A y \in Lacking(f, w) : Len(x) <= Len(y)) \in Lacking(f, w)
<1> DEFINE M == Lacking(f, w)
           L == {n \in Nat : \E x \in M : Len(x) = n}
<1>1. M \subseteq Path
  <2>1. Prefixes(w) \subseteq Path
    <3> SUFFICES ASSUME NEW l \in 0..Len(w) PROVE SubSeq(w, 1, l) \in Path
      BY DEF Prefixes
    <3>1. CASE l = 0
      BY <3>1, NoneSub, NothingAhead
    <3>2. CASE l # 0
      <4>1. l \in 1..Len(w)
        BY <3>2, LenProperties DEF Path
      <4> QED
        BY <4>1, FrontSub
    <3> QED
      BY <3>1, <3>2
  <2> QED
    BY <2>1 DEF Lacking
<1> HIDE DEF M
<1>2. \A x \in M : Len(x) \in Nat
  BY <1>1, LenProperties DEF Path
<1>3. L \in SUBSET Nat /\ L # {}
  <2>1. M # {}
    BY DEF M
  <2> QED
    BY <1>2, <2>1
<1>4. PICK n \in L : \A k \in L : n <= k
  BY <1>3, LeastOf
<1>5. \E x \in M : \A y \in M : Len(x) <= Len(y)
  BY <1>2, <1>4
<1>6. (CHOOSE x \in M : \A y \in M : Len(x) <= Len(y)) \in M
  BY <1>5
<1> QED
  BY <1>6 DEF M
-----------------------------------------------------------------------------
(* The calls: each keeps the file system Grown, and what is there.         *)

LEMMA PresentMore ==
  ASSUME NEW f, NEW g, IsTree(f), IsTree(g), Extends(g, f), Len(f.data) <= Len(g.data),
         \A i \in DOMAIN f.data : g.data[i] = f.data[i], NEW w \in Path, NEW c, Present(f, w, c)
  PROVE  Present(g, w, c)
<1>1. PICK r \in Real(f, w) \cap DOMAIN f.node, i \in DOMAIN f.data :
        f.node[r] = File(i) /\ f.data[i] = c
  BY DEF Present
<1>2. r \in Real(g, w) \cap DOMAIN g.node /\ g.node[r] = File(i)
  BY <1>1, TreeParts, StillLeads
<1>3. i \in DOMAIN g.data /\ g.data[i] = c
  <2>1. DOMAIN f.data = 1..Len(f.data) /\ DOMAIN g.data = 1..Len(g.data)
        /\ Len(f.data) \in Nat /\ Len(g.data) \in Nat
    BY LenProperties DEF IsTree
  <2> QED
    BY <1>1, <2>1
<1> QED
  BY <1>2, <1>3 DEF Present

LEMMA MadeGrown ==
  ASSUME NEW a, NEW o, NEW p, Job(a, o, p), NEW f, Grown(f, a, o, p), NEW w, InTarget(o, w),
         NEW g \in mkdir(f, w)
  PROVE  Grown(g, a, o, p) /\ Extends(g, f) /\ g.data = f.data
<1>1. PICK y : Clear(y) /\ w = o.target \o y
  BY DEF InTarget
<1>2. PICK q \in Free(f, w) : g = Put(f, q, Dir)
  BY DEF mkdir
<1>3. f.data \in Seq(Seq(STRING)) /\ Len(f.data) <= Len(f.data)
  <2>1. f.data \in Seq(Seq(STRING))
    BY DEF Grown, IsTree
  <2> QED
    BY <2>1, LenProperties
<1>4. g = Tree(With(f.node, q, Dir), f.data) /\ q \in Free(f, o.target \o y) /\ y \in Path
  BY <1>1, <1>2 DEF Put, Clear
<1>5. Adds(a, o, p, f, y, q, f.data, Dir, g)
  BY <1>1, <1>3, <1>4 DEF Adds
<1> QED
  BY <1>5, MoreGrown

\* the name of a merge link leads to its place if it is not too long for one
LEMMA LinkPlace ==
  ASSUME NEW a, NEW o, NEW p, Job(a, o, p), NEW f, Grown(f, a, o, p), NEW m \in Merged,
         Len(In(p, m)) <= MaxDepth
  PROVE  Named(f, In(o.target, m)) = {In(p, m)}
<1> DEFINE w == o.target \o m
           q == p \o m
<1>0. /\ o.target \in Path /\ p \in Path /\ m \in Path /\ m # <<>> /\ Front(m) = <<>>
      /\ LinksOk(f) /\ p \in DOMAIN f.node /\ f.node[p] = Dir /\ Real(f, o.target) = {p}
  BY GrownParts, JobParts, MergeNames
<1>1. /\ w \in Path /\ w # <<>> /\ Front(w) = o.target \o Front(m) /\ Last(w) = Last(m)
      /\ m = Append(Front(m), Last(m)) /\ Last(m) \in STRING /\ <<>> \in Path
  BY <1>0, FrontAhead, FrontLast, ConcatParts, NothingAhead
<1>2. Front(w) = o.target
  BY <1>0, <1>1, NothingAhead, Zenon
<1>3. q = Append(p, Last(m))
  <2>1. Append(p \o <<>>, Last(m)) = p \o Append(<<>>, Last(m))
    BY <1>0, <1>1, ConcatAppend, Zenon
  <2>2. p \o <<>> = p
    BY <1>0, NothingAhead
  <2> QED
    BY <1>0, <1>1, <2>1, <2>2, Zenon
<1>4. In(p, m) = q /\ In(o.target, m) = w
  BY DEF In
<1> HIDE DEF w, q
<1>5. KindAt(f, p) = "dir"
  BY <1>0 DEF KindAt, Dir
<1>6. Looked(f, MaxLinks, w, p, q)
  BY <1>0, <1>1, <1>2, <1>3, <1>5 DEF Looked, Real
<1>7. q \in Named(f, w)
  BY <1>1, <1>4, <1>6, NamedBy
<1>8. \A x \in Named(f, w) : x = q
  BY <1>0, <1>1, <1>7, NamedOnce
<1> QED
  BY <1>4, <1>7, <1>8

LEMMA LinkGrown ==
  ASSUME NEW a, NEW o, NEW p, Job(a, o, p), NEW f, Grown(f, a, o, p), NEW m \in Merged,
         NEW g \in symlink(f, Beneath(o, m), In(o.target, m))
  PROVE  Grown(g, a, o, p) /\ Extends(g, f) /\ g.data = f.data /\ LinkSet(p, g, m)
<1>2. PICK q \in Free(f, In(o.target, m)) : g = Put(f, q, Link(Beneath(o, m)))
  BY DEF symlink
<1>3. f.data \in Seq(Seq(STRING)) /\ Len(f.data) <= Len(f.data)
  <2>1. f.data \in Seq(Seq(STRING))
    BY DEF Grown, IsTree
  <2> QED
    BY <2>1, LenProperties
<1>4. /\ g = Tree(With(f.node, q, Link(Beneath(o, m))), f.data)
      /\ q \in Free(f, o.target \o m) /\ m \in Path
  BY <1>2, MergeNames DEF Put, In
<1>5. Adds(a, o, p, f, m, q, f.data, Link(Beneath(o, m)), g)
  BY <1>3, <1>4 DEF Adds
<1>6. Grown(g, a, o, p) /\ Extends(g, f) /\ g.data = f.data /\ q = p \o m
      /\ DOMAIN g.node = DOMAIN f.node \cup {q}
  BY ONLY <1>5, MoreGrown
<1> QED
  BY <1>6 DEF LinkSet, In

LEMMA NotLinked ==
  ASSUME NEW a, NEW o, NEW p, Job(a, o, p), NEW f, Grown(f, a, o, p), NEW m \in Merged,
         symlink(f, Beneath(o, m), In(o.target, m)) = {}
  PROVE  LinkSet(p, f, m)
<1> SUFFICES ASSUME ~(Len(In(p, m)) > MaxDepth) PROVE In(p, m) \in DOMAIN f.node
  BY DEF LinkSet
<1>1. Len(In(p, m)) <= MaxDepth
  <2>1. Len(In(p, m)) \in Nat /\ MaxDepth \in Nat
    <3>1. In(p, m) \in Path
      BY JobParts, MergeNames, ConcatParts DEF In
    <3> QED
      BY <3>1, LenProperties, FileSysAssumption DEF Path
  <2> QED
    BY <2>1
<1>2. Named(f, In(o.target, m)) = {In(p, m)}
  BY <1>1, LinkPlace
<1>3. Free(f, In(o.target, m)) = {}
  BY DEF symlink
<1> QED
  BY <1>2, <1>3 DEF Free

\* a file that is opened to be written is empty, at its place, and its own
OpensAt(a, o, p, f, y, w, x) ==
  /\ Job(a, o, p) /\ Grown(f, a, o, p) /\ Clear(y) /\ w = o.target \o y
  /\ x \in open_trunc(f, w, TRUE)

GrewAt(a, o, p, f, y, w, g, i) ==
  /\ Grown(g, a, o, p) /\ Extends(g, f) /\ Len(f.data) <= Len(g.data)
  /\ p \o y \in Real(g, w) /\ p \o y \in DOMAIN g.node
  /\ g.node[p \o y] = File(i) /\ i \in DOMAIN g.data /\ g.data[i] = <<>>
  /\ \A j \in DOMAIN f.data : j # i => g.data[j] = f.data[j]

LEMMA OpenGrown ==
  ASSUME NEW a, NEW o, NEW p, NEW f, NEW y, NEW w, NEW x, OpensAt(a, o, p, f, y, w, x)
  PROVE  GrewAt(a, o, p, f, y, w, x[1], x[2])
<1>a. /\ Job(a, o, p) /\ Grown(f, a, o, p) /\ Clear(y) /\ w = o.target \o y
      /\ x \in open_trunc(f, w, TRUE)
  BY DEF OpensAt
<1>0. /\ IsTree(f) /\ LinksOk(f) /\ o.target \in Path /\ p \in Path /\ y \in Path /\ w \in Path
      /\ Len(f.data) \in Nat /\ f.data \in Seq(Seq(STRING)) /\ DOMAIN f.data = 1..Len(f.data)
  <2>1. IsTree(f) /\ LinksOk(f) /\ o.target \in Path /\ p \in Path /\ y \in Path
    BY <1>a, GrownParts, JobParts DEF Clear
  <2> QED
    BY <1>a, <2>1, ConcatParts, LenProperties DEF IsTree
<1>1. PICK q \in Real(f, w) :
        \/ /\ KindAt(f, q) = "file" /\ x[2] = f.node[q].ino
           /\ x[1] = Tree(f.node, [f.data EXCEPT ![f.node[q].ino] = <<>>])
        \/ q \notin DOMAIN f.node /\ x[1] = WithFile(f, q) /\ x[2] = NewIno(f)
  BY <1>a DEF open_trunc
<1>2. q = p \o y /\ q \in Named(f, w) /\ Under(p, q)
  <2>0. Real(f, o.target \o y) \subseteq {p \o y}
        /\ Real(f, o.target \o y) \subseteq Named(f, o.target \o y)
    BY <1>0, <1>a, Places
  <2>1. q = p \o y /\ q \in Named(f, w)
    BY <1>a, <2>0, Zenon
  <2> QED
    BY <1>0, <2>1, UnderAhead
<1>3. CASE /\ KindAt(f, q) = "file" /\ x[2] = f.node[q].ino
           /\ x[1] = Tree(f.node, [f.data EXCEPT ![f.node[q].ino] = <<>>])
  <2>1. q \in DOMAIN f.node /\ f.node[q].kind = "file"
    BY <1>3 DEF KindAt
  <2>2. PICK i \in DOMAIN f.data : f.node[q] = File(i)
    BY <1>0, <2>1, FileNode
  <2>3. f.node[q].ino = i /\ x[2] = i
    BY <1>3, <2>2 DEF File
  <2>4. x[1] = Tree(f.node, [f.data EXCEPT ![i] = <<>>]) /\ <<>> \in Seq(STRING)
    BY <1>3, <2>3
  <2> DEFINE g == x[1]
  <2> HIDE DEF g
  <2>5. g = Tree(f.node, [f.data EXCEPT ![i] = <<>>])
    BY <2>4 DEF g
  <2>6. /\ Grown(g, a, o, p) /\ g.node = f.node /\ g.data[i] = <<>> /\ Len(g.data) = Len(f.data)
        /\ \A j \in DOMAIN f.data : j # i => g.data[j] = f.data[j]
    <3>1. Writes(a, o, p, f, q, i, <<>>, g)
      BY <1>a, <1>2, <2>1, <2>2, <2>4, <2>5 DEF Writes
    <3> QED
      BY ONLY <3>1, WriteGrown
  <2>7. Extends(g, f)
    BY <2>6 DEF Extends
  <2>8. q \in Real(g, w)
    BY <1>0, <1>a, <2>1, <2>6, <2>7, GrownParts, StillLeads
  <2>9. i \in DOMAIN g.data
    <3>1. g.data \in Seq(Seq(STRING))
      BY <2>6 DEF Grown, IsTree
    <3> QED
      BY <1>0, <2>6, <3>1, LenProperties
  <2>10. Len(f.data) <= Len(g.data)
    BY <1>0, <2>6
  <2> QED
    BY <1>2, <2>1, <2>2, <2>3, <2>6, <2>7, <2>8, <2>9, <2>10 DEF g, GrewAt
<1>4. CASE q \notin DOMAIN f.node /\ x[1] = WithFile(f, q) /\ x[2] = NewIno(f)
  <2> DEFINE i == NewIno(f)
             d == Append(f.data, <<>>)
             g == x[1]
  <2>1. i = 1 + Len(f.data) /\ g = Tree(With(f.node, q, File(i)), d) /\ x[2] = i
    BY <1>4 DEF NewIno, WithFile
  <2>2. /\ d \in Seq(Seq(STRING)) /\ Len(d) = Len(f.data) + 1 /\ d[i] = <<>>
        /\ \A j \in 1..Len(f.data) : d[j] = f.data[j]
    <3>1. <<>> \in Seq(STRING)
      OBVIOUS
    <3> QED
      BY <1>0, <2>1, <3>1, AppendProperties
  <2> HIDE DEF i, d, g
  <2>3. i \in DOMAIN d \ DOMAIN f.data /\ Len(f.data) <= Len(d)
    <3>1. DOMAIN d = 1..Len(d)
      BY <2>2, LenProperties
    <3> QED
      BY <1>0, <2>1, <2>2, <3>1
  <2>4. q \in Free(f, w)
    BY <1>2, <1>4 DEF Free
  <2>5. /\ Grown(g, a, o, p) /\ Extends(g, f)
        /\ DOMAIN g.node = DOMAIN f.node \cup {q} /\ g.node[q] = File(i) /\ g.data = d
    <3>1. /\ Clear(y) \/ y \in Merged
          /\ \/ Clear(y) /\ File(i) = Dir
             \/ Clear(y) /\ \E j \in DOMAIN d \ DOMAIN f.data : File(i) = File(j)
             \/ y \in Merged /\ File(i) = Link(Beneath(o, y))
      BY <1>a, <2>3
    <3>2. \A j \in DOMAIN f.data : d[j] = f.data[j]
      BY <1>0, <2>2
    <3>3. Adds(a, o, p, f, y, q, d, File(i), g)
      BY <1>0, <1>a, <2>1, <2>2, <2>3, <2>4, <3>1, <3>2 DEF Adds
    <3> QED
      BY ONLY <3>3, MoreGrown
  <2>6. q \in Real(g, w)
    <3>1. LinksOk(g) /\ KindAt(g, q) # "link"
      BY <1>a, <2>5, GrownParts DEF KindAt, File
    <3>2. q \in Named(g, w)
      BY <1>0, <1>2, <1>a, <2>5, <3>1, ExtendedNames
    <3> QED
      BY <1>0, <3>1, <3>2, NamedIsReal
  <2>7. \A j \in DOMAIN f.data : d[j] = f.data[j]
    BY <1>0, <2>2
  <2> QED
    BY <1>2, <2>1, <2>2, <2>3, <2>5, <2>6, <2>7 DEF g, GrewAt
<1> QED
  BY <1>1, <1>3, <1>4

LEMMA SetData ==
  ASSUME NEW f, NEW i, NEW v, f = Tree(f.node, f.data)
  PROVE  [f EXCEPT !.data[i] = v] = Tree(f.node, [f.data EXCEPT ![i] = v])
BY DEF Tree

\* the file i at the name y of the target is written, and no other
Wrote(a, o, p, f, g, y, i) ==
  /\ Job(a, o, p) /\ Grown(f, a, o, p) /\ Grown(g, a, o, p) /\ Extends(g, f)
  /\ Len(f.data) <= Len(g.data) /\ \A j \in DOMAIN f.data : j # i => g.data[j] = f.data[j]
  /\ Clear(y) /\ p \o y \in DOMAIN g.node /\ g.node[p \o y] = File(i)

\* what is there by another name stays when the file at a name is written
LEMMA PresentElse ==
  ASSUME NEW a, NEW o, NEW p, NEW f, NEW g, NEW y, NEW i, Wrote(a, o, p, f, g, y, i),
         NEW z, Clear(z), z # y, NEW c, Present(f, o.target \o z, c)
  PROVE  Present(g, o.target \o z, c)
<1> DEFINE w == o.target \o z
           x == p \o y
<1>a. /\ Job(a, o, p) /\ Grown(f, a, o, p) /\ Grown(g, a, o, p) /\ Extends(g, f)
      /\ Len(f.data) <= Len(g.data) /\ \A j \in DOMAIN f.data : j # i => g.data[j] = f.data[j]
      /\ Clear(y) /\ p \o y \in DOMAIN g.node /\ g.node[p \o y] = File(i)
  BY DEF Wrote
<1>0. /\ IsTree(f) /\ IsTree(g) /\ LinksOk(f) /\ LinksOk(g) /\ o.target \in Path /\ p \in Path
      /\ y \in Path /\ z \in Path
      /\ Len(f.data) \in Nat /\ DOMAIN f.data = 1..Len(f.data)
      /\ Len(g.data) \in Nat /\ DOMAIN g.data = 1..Len(g.data)
  <2>1. IsTree(f) /\ IsTree(g) /\ LinksOk(f) /\ LinksOk(g) /\ o.target \in Path /\ p \in Path
    BY <1>a, GrownParts, JobParts
  <2> QED
    BY <1>a, <2>1, LenProperties DEF IsTree, Clear
<1>1. w \in Path /\ x \in Path
  BY <1>0, ConcatParts
<1>2. PICK r \in Real(f, w) \cap DOMAIN f.node, j \in DOMAIN f.data :
        f.node[r] = File(j) /\ f.data[j] = c
  BY DEF Present
<1>3. r = p \o z /\ Under(p, x)
  BY <1>a, <1>0, <1>2, Places, UnderAhead
<1>4. r # x
  BY <1>0, <1>3, SameAhead
<1>5. r \in Real(g, w) /\ r \in DOMAIN g.node /\ g.node[r] = File(j)
  BY <1>0, <1>1, <1>2, <1>a, StillLeads
<1>6. x \in DOMAIN g.node /\ g.node[x] = File(i) /\ g.node[x].kind = "file"
  BY <1>a DEF File
<1> HIDE DEF x, w
<1>7. g.node[r] # g.node[x]
  BY <1>a, <1>3, <1>4, <1>5, <1>6 DEF Grown
<1>8. j # i
  BY <1>5, <1>6, <1>7
<1>9. g.data[j] = c /\ j \in DOMAIN g.data
  BY <1>a, <1>0, <1>2, <1>8
<1> QED
  BY <1>5, <1>9 DEF Present, w
-----------------------------------------------------------------------------
(* What is copied stays as it was, and is found entry by entry.            *)

LEMMA TreeAbove ==
  ASSUME NEW f, IsTree(f), NEW q \in Path, NEW z \in Path, z # <<>>, NEW x, x = q \o z,
         x \in DOMAIN f.node
  PROVE  q \in DOMAIN f.node /\ f.node[q] = Dir
<1>1. /\ Len(q) \in Nat /\ Len(z) \in Nat \ {0} /\ x \in Path /\ Len(x) = Len(q) + Len(z)
      /\ \A i \in 1..(Len(q) + Len(z)) : x[i] = IF i <= Len(q) THEN q[i] ELSE z[i - Len(q)]
  BY ConcatParts, FrontIn
<1>2. Len(q) \in 0..(Len(x) - 1) /\ Len(q) <= Len(x) /\ Len(q) <= Len(q)
  BY <1>1
<1>3. \A i \in 1..Len(q) : x[i] = q[i]
  BY <1>1
<1>4. SubSeq(x, 1, Len(q)) = SubSeq(q, 1, Len(q))
  BY <1>1, <1>2, <1>3, SameStart
<1>5. SubSeq(q, 1, Len(q)) = q
  BY WholeSub
<1>6. SubSeq(x, 1, Len(q)) \in DOMAIN f.node /\ f.node[SubSeq(x, 1, Len(q))] = Dir
  BY <1>2 DEF IsTree
<1> QED
  BY <1>4, <1>5, <1>6, Zenon

\* q is a place of the source that is there, and apart from the target
Source(a, p, src, q) == src \in Path /\ q \in Real(a, src) /\ q \in DOMAIN a.node /\ Off(p, q)

LEMMA SourceSame ==
  ASSUME NEW a, NEW o, NEW p, Job(a, o, p), NEW f, Grown(f, a, o, p), NEW src, NEW q,
         Source(a, p, src, q)
  PROVE  /\ Real(f, src) = {q} /\ q \in DOMAIN f.node /\ f.node[q] = a.node[q] /\ q \in Path
         /\ \A i : a.node[q] = File(i) =>
              /\ i \in DOMAIN a.data /\ i \in DOMAIN f.data /\ f.data[i] = a.data[i]
              /\ a.data[i] \in Path
<1>0. /\ IsTree(f) /\ LinksOk(f) /\ Extends(f, a) /\ LinksOk(a) /\ IsTree(a) /\ src \in Path
      /\ q \in Real(a, src) /\ q \in DOMAIN a.node /\ ~Under(p, q) /\ q \in Path
  BY GrownParts, JobParts DEF Source, Off
<1>1. q \in Real(f, src) /\ q \in DOMAIN f.node /\ f.node[q] = a.node[q]
  BY <1>0, StillLeads
<1>2. \A x \in Real(f, src) : x = q
  BY <1>0, <1>1, LeadsOnce, LinksRange DEF Real
<1>3. ASSUME NEW i, a.node[q] = File(i)
      PROVE  /\ i \in DOMAIN a.data /\ i \in DOMAIN f.data /\ f.data[i] = a.data[i]
             /\ a.data[i] \in Path
  <2>1. a.node[q].kind = "file" /\ a.node[q].ino = i
    BY <1>3 DEF File
  <2>2. PICK j \in DOMAIN a.data : a.node[q] = File(j)
    BY <1>0, <2>1, FileNode
  <2>3. PICK k \in DOMAIN f.data : f.node[q] = File(k)
    BY <1>0, <1>1, <2>1, FileNode
  <2>4. j = i /\ k = i
    BY <1>1, <1>3, <2>2, <2>3 DEF File
  <2>5. f.data[i] = a.data[i]
    BY <1>0, <2>1 DEF Grown
  <2>6. a.data \in Seq(Seq(STRING))
    BY <1>0 DEF IsTree
  <2>7. a.data[i] \in Seq(STRING)
    BY <2>2, <2>4, <2>6, LenProperties, ElementOfSeq
  <2> QED
    BY <2>2, <2>3, <2>4, <2>5, <2>7 DEF Path
<1> QED
  BY <1>0, <1>1, <1>2, <1>3

LEMMA OffNext ==
  ASSUME NEW p \in Path, NEW q \in Path, Off(p, q), NEW n \in STRING
  PROVE  Off(p, Append(q, n))
<1> DEFINE x == Append(q, n)
<1>1. x \in Path
  BY AppendIn
<1>2. Under(q, x)
  BY UnderSelf, UnderMore
<1>3. Under(p, x) => Under(p, q) \/ p = x
  BY UnderNext
<1> HIDE DEF x
<1>4. ~Under(p, q) /\ ~Under(q, p)
  BY DEF Off
<1>5. ~Under(p, x)
  BY <1>2, <1>3, <1>4
<1>6. ~Under(x, p)
  BY <1>1, <1>2, <1>4, UnderTrans
<1>7. Off(p, x)
  BY <1>5, <1>6 DEF Off
<1> QED
  BY <1>7 DEF x

\* the name n of the source leads on to what is at z
Leading(a, p, f, src, q, z, n, y) ==
  /\ n \in STRING /\ y \in Path /\ n \in getdents(f, src)
  /\ Source(a, p, Append(src, n), Append(q, n))
  /\ \A b \in Path : b \o z = Append(b, n) \o y

LEMMA SourceNext ==
  ASSUME NEW a, NEW o, NEW p, Job(a, o, p), NEW f, Grown(f, a, o, p), NEW src, NEW q,
         Source(a, p, src, q), a.node[q] = Dir, NEW z \in Path, NEW i, NEW x, x = q \o z,
         x \in DOMAIN a.node, a.node[x] = File(i)
  PROVE  \E n, y : Leading(a, p, f, src, q, z, n, y)
<1>0. /\ IsTree(a) /\ LinksOk(a) /\ p \in Path /\ src \in Path /\ q \in Path
      /\ q \in Real(a, src) /\ q \in DOMAIN a.node /\ Off(p, q)
      /\ \A r \in DOMAIN a.node : r \in Path /\ Len(r) <= MaxDepth
  BY JobParts DEF Source
<1>1. z # <<>>
  <2> SUFFICES ASSUME z = <<>> PROVE FALSE
    OBVIOUS
  <2>1. x = q
    BY <1>0, NothingAhead
  <2> QED
    BY <2>1 DEF Dir, File
<1>2. PICK n \in STRING, y \in Path : \A b \in Path : b \o z = Append(b, n) \o y
  BY <1>1, FirstName
<1> DEFINE r == Append(q, n)
           t == Append(src, n)
<1>3. r \in Path /\ t \in Path /\ t # <<>> /\ r # <<>> /\ Front(t) = src /\ Last(t) = n
      /\ Front(r) = q /\ Last(r) = n
  BY <1>0, AppendIn
<1>4. Off(p, r)
  BY <1>0, OffNext
<1>5. x = r \o y
  BY <1>0, <1>2
<1>6. r = Append(q, Last(t))
  BY <1>3
<1> HIDE DEF r, t
<1>7. r \in DOMAIN a.node /\ KindAt(a, r) # "link"
  <2>1. CASE y = <<>>
    <3>1. r \o <<>> = r
      BY <1>3, NothingAhead
    <3>2. x = r
      BY <1>5, <2>1, <3>1, Zenon
    <3> QED
      BY <3>2 DEF KindAt, File
  <2>2. CASE y # <<>>
    <3>1. r \in DOMAIN a.node /\ a.node[r] = Dir
      BY <1>0, <1>3, <1>5, <2>2, TreeAbove
    <3> QED
      BY <3>1 DEF KindAt, Dir
  <2> QED
    BY <2>1, <2>2
<1>8. r \in Real(a, t)
  <2>1. KindAt(a, q) = "dir"
    BY <1>0 DEF KindAt, Dir
  <2>2. Looked(a, MaxLinks, t, q, r)
    BY <1>0, <1>3, <1>6, <2>1 DEF Looked, Real
  <2>3. LeadsTo(a, MaxLinks, r, r)
    BY <1>0, <1>7 DEF LeadsTo
  <2> QED
    BY <1>0, <1>3, <2>2, <2>3, LeadsName, LinksRange DEF Real
<1>9. Source(a, p, t, r)
  BY <1>3, <1>4, <1>7, <1>8 DEF Source
<1>10. n \in getdents(f, src)
  <2>1. r \in DOMAIN f.node
    BY <1>7, GrownParts DEF Extends
  <2>2. Front(r) \in Real(f, src)
    BY <1>3, SourceSame
  <2> QED
    BY <1>3, <2>1, <2>2 DEF getdents
<1>11. Source(a, p, Append(src, n), Append(q, n))
  BY <1>9 DEF r, t
<1> QED
  BY <1>2, <1>10, <1>11 DEF Leading

\* the names of a directory are finitely many
LEMMA NamesFinite ==
  ASSUME NEW a, NEW o, NEW p, Job(a, o, p), NEW f, Grown(f, a, o, p), NEW src
  PROVE  IsFiniteSet(getdents(f, src)) /\ getdents(f, src) \subseteq STRING
<1> DEFINE D == {x \in DOMAIN f.node : x # <<>> /\ Front(x) \in Real(f, src)}
           T == getdents(f, src)
           g == [x \in D |-> Last(x)]
<1>1. T = {Last(x) : x \in D}
  BY DEF getdents
<1>2. IsFiniteSet(DOMAIN f.node) /\ D \in SUBSET DOMAIN f.node
  BY DEF Grown
<1>3. IsFiniteSet(D)
  BY <1>2, FS_Subset
<1>4. DOMAIN f.node \subseteq Path
  BY GrownParts
<1>5. T \subseteq STRING
  BY <1>1, <1>4, FrontIn
<1> HIDE DEF D, T
<1>6. g \in Surjection(D, T)
  BY <1>1 DEF Surjection
<1> HIDE DEF g
<1>7. IsFiniteSet(T)
  BY <1>3, <1>6, FS_Surjection
<1> QED
  BY <1>5, <1>7 DEF T

\* a finite set as a sequence
Lists(s, S) ==
  /\ s \in Seq(S) /\ \A x \in S : \E k \in 1..Len(s) : s[k] = x
  /\ \A k \in 1..Len(s) : s[k] \in S
  /\ \A j, k \in 1..Len(s) : j # k => s[j] # s[k]

LEMMA SeqOfSet ==
  ASSUME NEW S, IsFiniteSet(S), NEW s, s = SetToSeq(S)
  PROVE  Lists(s, S)
<1> DEFINE c == Cardinality(S)
           F == {g \in [1..c -> S] : IsInjective(g)}
<1>1. c \in Nat /\ ExistsBijection(1..c, S)
  BY FS_CardinalityType
<1>2. F # {}
  BY <1>1 DEF ExistsBijection, Bijection, Injection
<1>3. s = CHOOSE g \in [1..c -> S] : IsInjective(g)
  BY DEF SetToSeq
<1>4. s \in [1..c -> S] /\ IsInjective(s)
  BY <1>2, <1>3
<1> HIDE DEF c
<1>5. s \in Injection(1..c, S)
  BY <1>4 DEF Injection
<1>6. Cardinality(1..c) = c
  <2>1. 1 \in Int /\ c \in Int /\ (1 > c => c = 0)
    BY <1>1
  <2>2. Cardinality(1..c) = IF 1 > c THEN 0 ELSE c - 1 + 1
    BY <2>1, FS_Interval
  <2> QED
    BY <1>1, <2>1, <2>2
<1>7. s \in Surjection(1..c, S)
  <2>1. Cardinality(1..c) = Cardinality(S)
    BY <1>6 DEF c
  <2> QED
    BY <1>5, <2>1, FS_Injection
<1>8. s \in Seq(S) /\ Len(s) = c
  BY <1>1, <1>4
<1> QED
  BY <1>4, <1>7, <1>8 DEF Surjection, IsInjective, Lists

-----------------------------------------------------------------------------
(* One step of the installation.                                           *)

Ready(a, o, p, f, s, st, h) ==
  Going(a, o, p, f, s) /\ (st # "failed" /\ ~h => Underway(a, o, p, f, s))

\* the first task of s gives way to u, and the file system f to g
Gives(a, o, p, f, s, u, g) ==
  /\ Job(a, o, p) /\ Going(a, o, p, f, s) /\ s # <<>> /\ Turn(o, Head(s), u)
  /\ Grown(g, a, o, p) /\ Extends(g, f) /\ (u # <<>> => BlockOK(a, p, g, u[1]))

\* what was due of it is done, or is due of u
Yields(a, o, p, f, s, u, g) ==
  /\ \A w, c : Due(a, p, Head(s), w, c) =>
       (\E k \in 1..Len(u) : Due(a, p, u[k], w, c)) \/ (u = <<>> /\ Present(g, w, c))
  /\ \A y, c : Clear(y) /\ Present(f, o.target \o y, c)
               /\ (Head(s).op \in Fillers => ~Under(Head(s).dst, o.target \o y))
               => Present(g, o.target \o y, c)
  /\ Head(s).op = "mkdir" => is_dir(g, Head(s).dst)
  /\ Head(s).op = "link" =>
       \A m \in Merged : Head(s).dst = In(o.target, m) => LinkSet(p, g, m)

LEMMA NoneReady ==
  ASSUME NEW a, NEW o, NEW p, NEW f, Grown(f, a, o, p), NEW h
  PROVE  Ready(a, o, p, f, <<>>, "failed", h)
<1> DEFINE s == <<>>
<1>1. s \in Seq({}) /\ Len(s) = 0 /\ s = <<>>
  OBVIOUS
<1> HIDE DEF s
<1>2. 1..Len(s) = {}
  BY <1>1
<1>3. PlanOK(o, s)
  BY <1>1, <1>2 DEF PlanOK
<1>4. Ready(a, o, p, f, s, "failed", h)
  BY <1>1, <1>3 DEF Ready, Going
<1> QED
  BY <1>4 DEF s

LEMMA GivesGoing ==
  ASSUME NEW a, NEW o, NEW p, NEW f, NEW s, NEW u, NEW g, Gives(a, o, p, f, s, u, g),
         NEW v, v = u \o Tail(s)
  PROVE  Going(a, o, p, g, v)
<1>0. /\ Job(a, o, p) /\ PlanOK(o, s) /\ s # <<>> /\ Turn(o, Head(s), u) /\ Grown(g, a, o, p)
      /\ (u # <<>> => BlockOK(a, p, g, u[1])) /\ o.target \in Path
  BY JobParts DEF Gives, Going
<1>1. PlanOK(o, v)
  BY <1>0, TurnPlan
<1>2. PICK S : s \in Seq(S)
  BY <1>0 DEF PlanOK
<1>3. PICK T : u \in Seq(T)
  BY <1>0 DEF Turn
<1>4. /\ v \in Seq(S \cup T) /\ Len(s) \in Nat \ {0} /\ Len(u) \in Nat /\ Len(v) \in Nat
      /\ \A k \in 1..Len(v) :
           \/ k \in 1..Len(u) /\ v[k] = u[k]
           \/ k \notin 1..Len(u) /\ \E j \in 2..Len(s) : k = Len(u) + j - 1 /\ v[k] = s[j]
  <2>1. s # <<>> /\ v = u \o Tail(s)
    BY <1>0
  <2> QED
    BY ONLY <1>2, <1>3, <2>1, GoesParts
<1>5. ASSUME v # <<>> PROVE BlockOK(a, p, g, Head(v))
  <2>1. Head(v) = v[1] /\ 1 \in 1..Len(v)
    <3>1. Len(v) # 0
      BY <1>4, <1>5, EmptySeq
    <3> QED
      BY <1>4, <1>5, <3>1
  <2>2. CASE 1 \in 1..Len(u) /\ v[1] = u[1]
    <3>1. u # <<>>
      BY <2>2, EmptySeq
    <3> QED
      BY <1>0, <2>1, <2>2, <3>1
  <2>3. CASE \E j \in 2..Len(s) : v[1] = s[j]
    <3>1. PICK j \in 2..Len(s) : v[1] = s[j]
      BY <2>3
    <3>2. j \in 1..Len(s) /\ j # 1
      BY <1>4
    <3>3. s[j].op # "block"
      BY <1>0, <3>2 DEF PlanOK
    <3> QED
      BY <2>1, <3>1, <3>3 DEF BlockOK
  <2> QED
    BY <1>4, <2>1, <2>2, <2>3
<1> QED
  BY <1>0, <1>1, <1>5 DEF Going

LEMMA GoesReady ==
  ASSUME NEW a, NEW o, NEW p, NEW f, NEW s, NEW u, NEW g, Gives(a, o, p, f, s, u, g),
         NEW v, v = u \o Tail(s), NEW st, NEW h,
         ~h => Underway(a, o, p, f, s) /\ Yields(a, o, p, f, s, u, g)
  PROVE  Ready(a, o, p, g, v, st, h)
<1>1. Going(a, o, p, g, v)
  BY GivesGoing
<1>2. ASSUME ~h PROVE Underway(a, o, p, g, v)
  <2>0. /\ Job(a, o, p) /\ PlanOK(o, s) /\ s # <<>> /\ Turn(o, Head(s), u) /\ Grown(f, a, o, p)
        /\ Grown(g, a, o, p) /\ Extends(g, f)
        /\ DirsOK(o, f, s) /\ LinksDone(o, p, f, s) /\ FilesOK(a, o, p, f, s)
    BY <1>2 DEF Gives, Going, Underway
  <2>1. LinksOk(f) /\ LinksOk(g) /\ o.target \in Path /\ PlanOK(o, Steps(o))
    <3>1. o \in Options
      BY <2>0 DEF Job
    <3> QED
      BY <2>0, <3>1, GrownParts, JobParts, StepsOK
  <2>2. \A q \in Path : is_dir(f, q) => is_dir(g, q)
    BY <2>0, <2>1, DirStays
  <2>3. /\ \A w, c : Due(a, p, Head(s), w, c) =>
             \/ \E k \in 1..Len(u) : Due(a, p, u[k], w, c)
             \/ u = <<>> /\ Present(g, w, c)
        /\ \A y, c : /\ Clear(y) /\ Present(f, o.target \o y, c)
                     /\ Head(s).op \in Fillers => ~Under(Head(s).dst, o.target \o y)
                     => Present(g, o.target \o y, c)
        /\ Head(s).op = "mkdir" => is_dir(g, Head(s).dst)
        /\ Head(s).op = "link" =>
             \A m \in Merged : Head(s).dst = In(o.target, m) => LinkSet(p, g, m)
    BY <1>2 DEF Yields
  <2>4. DirsOK(o, g, v) /\ LinksDone(o, p, g, v)
    BY <2>0, <2>1, <2>2, <2>3, TurnRest
  <2>5. FilesOK(a, o, p, g, v)
    BY <2>0, <2>1, <2>3, TurnFiles
  <2> QED
    BY <2>4, <2>5 DEF Underway
<1> QED
  BY <1>1, <1>2 DEF Ready

\* what is there stays where nothing is written
LEMMA PresentStays ==
  ASSUME NEW a, NEW o, NEW p, Job(a, o, p), NEW f, Grown(f, a, o, p), NEW g, Grown(g, a, o, p),
         Extends(g, f), g.data = f.data
  PROVE  \A y, c : Clear(y) /\ Present(f, o.target \o y, c) => Present(g, o.target \o y, c)
<1>1. IsTree(f) /\ IsTree(g) /\ o.target \in Path
  BY GrownParts, JobParts
<1>2. Len(f.data) <= Len(g.data) /\ \A i \in DOMAIN f.data : g.data[i] = f.data[i]
  <2>1. Len(f.data) \in Nat
    BY <1>1, LenProperties DEF IsTree
  <2> QED
    BY <2>1
<1>3. \A y : Clear(y) => o.target \o y \in Path
  BY <1>1, ConcatParts DEF Clear
<1> QED
  BY <1>1, <1>2, <1>3, PresentMore

LEMMA StayReady ==
  ASSUME NEW a, NEW o, NEW p, Job(a, o, p), NEW f, NEW s, NEW st, NEW h,
         Ready(a, o, p, f, s, st, h), s # <<>>, Head(s).op # "block",
         NEW g, Grown(g, a, o, p), Extends(g, f), g.data = f.data
  PROVE  Ready(a, o, p, g, s, st, h)
<1>0. /\ Going(a, o, p, f, s) /\ Grown(f, a, o, p) /\ PlanOK(o, s)
      /\ (st # "failed" /\ ~h => Underway(a, o, p, f, s))
  BY DEF Ready, Going
<1>1. Going(a, o, p, g, s)
  BY <1>0 DEF Going, BlockOK
<1>2. LinksOk(f) /\ LinksOk(g) /\ o.target \in Path /\ PlanOK(o, Steps(o))
  BY <1>0, GrownParts, JobParts, StepsOK DEF Job
<1>3. ASSUME Underway(a, o, p, f, s) PROVE Underway(a, o, p, g, s)
  <2>1. DirsOK(o, g, s)
    <3>1. \A k \in 1..Len(Steps(o)) : Steps(o)[k].dst \in Path
      BY <1>2, TaskDst DEF PlanOK
    <3>2. \A q \in Path : is_dir(f, q) => is_dir(g, q)
      BY <1>2, DirStays
    <3> QED
      BY <1>3, <3>1, <3>2 DEF Underway, DirsOK
  <2>2. LinksDone(o, p, g, s)
    BY <1>3 DEF Underway, LinksDone, LinkSet, Extends
  <2>3. FilesOK(a, o, p, g, s)
    <3> SUFFICES ASSUME NEW w, NEW c, Goal(a, o, p, w, c) PROVE Filled(a, p, g, s, w, c)
      BY DEF FilesOK
    <3>1. Filled(a, p, f, s, w, c)
      BY <1>3 DEF Underway, FilesOK
    <3>2. InTarget(o, w)
      BY <1>2, GoalAt
    <3>3. Present(f, w, c) => Present(g, w, c)
      BY <1>0, <3>2, PresentStays DEF InTarget
    <3> QED
      BY <3>1, <3>3 DEF Filled
  <2> QED
    BY <2>1, <2>2, <2>3 DEF Underway
<1> QED
  BY <1>0, <1>1, <1>3 DEF Ready

\* the installation starts, or starts again, on what is there
LEMMA FreshReady ==
  ASSUME NEW a, NEW o, NEW p, Job(a, o, p), NEW f, Grown(f, a, o, p), NEW st, NEW h
  PROVE  Ready(a, o, p, f, Steps(o), st, h)
<1> DEFINE s == Steps(o)
<1>1. /\ PlanOK(o, s) /\ \A k \in 1..Len(s) : s[k].op \in Kinds
      /\ \A m \in Merged : Has(s, "link", In(o.target, m))
  BY StepsOK DEF Job
<1> HIDE DEF s
<1>2. ASSUME s # <<>> PROVE BlockOK(a, p, f, Head(s))
  <2>1. PICK S : s \in Seq(S)
    BY <1>1 DEF PlanOK
  <2>2. 1 \in 1..Len(s) /\ Head(s) = s[1]
    <3>1. Len(s) \in Nat /\ Len(s) # 0
      BY <1>2, <2>1, EmptySeq, LenProperties
    <3> QED
      BY <1>2, <2>1, <3>1
  <2> QED
    BY <1>1, <2>2 DEF BlockOK, Kinds
<1>3. Going(a, o, p, f, s)
  BY <1>1, <1>2 DEF Going
<1>4. DirsOK(o, f, s) /\ FilesOK(a, o, p, f, s)
  BY DEF DirsOK, FilesOK, Goal, Filled, s
<1>5. LinksDone(o, p, f, s)
  BY <1>1 DEF LinksDone, Has
<1>6. Ready(a, o, p, f, s, st, h)
  BY <1>3, <1>4, <1>5 DEF Ready, Underway
<1> QED
  BY <1>6 DEF s

-----------------------------------------------------------------------------
(* The actions.                                                            *)

Now(p) == Ready(first, opts, p, rfs, plan, status, hushed)

LEMMA DoParts ==
  ASSUME NEW p, Job(first, opts, p), Now(p), NEW op, Doing(op)
  PROVE  /\ plan # <<>> /\ Do.op = op /\ TaskOf(opts, Do) /\ status = "running"
         /\ Do.op # "block" => Do = Task(Do.op, Do.src, Do.dst)
         /\ Grown(rfs, first, opts, p) /\ Going(first, opts, p, rfs, plan)
         /\ BlockOK(first, p, rfs, Do) /\ opts.target \in Path
         /\ ~hushed => Underway(first, opts, p, rfs, plan)
<1>1. /\ plan # <<>> /\ Do.op = op /\ status = "running"
      /\ Grown(rfs, first, opts, p) /\ Going(first, opts, p, rfs, plan)
      /\ BlockOK(first, p, rfs, Do) /\ PlanOK(opts, plan)
      /\ ~hushed => Underway(first, opts, p, rfs, plan)
  BY DEF Doing, Now, Ready, Going, Do
<1>2. PICK S : plan \in Seq(S)
  BY <1>1 DEF PlanOK
<1>3. 1 \in 1..Len(plan) /\ Do = plan[1]
  <2>1. Len(plan) \in Nat /\ Len(plan) # 0
    BY <1>1, <1>2, EmptySeq, LenProperties
  <2> QED
    BY <1>1, <1>2, <2>1 DEF Do
<1>4. TaskOf(opts, Do)
  BY <1>1, <1>3 DEF PlanOK
<1>5. Do.op # "block" => Do = Task(Do.op, Do.src, Do.dst)
  BY <1>4 DEF TaskOf
<1> QED
  BY <1>1, <1>4, <1>5, JobParts

LEMMA GoesNow ==
  ASSUME NEW p, Job(first, opts, p), Now(p), plan # <<>>, status = "running", NEW u, Goes(u),
         UNCHANGED <<first, opts>>, Turn(opts, Do, u), Grown(rfs', first, opts, p),
         Extends(rfs', rfs), u # <<>> => BlockOK(first, p, rfs', u[1]), hushed => hushed',
         ~hushed' => Yields(first, opts, p, rfs, plan, u, rfs')
  PROVE  Now(p)'
<1>1. Going(first, opts, p, rfs, plan) /\ (~hushed => Underway(first, opts, p, rfs, plan))
  BY DEF Now, Ready
<1>2. Gives(first, opts, p, rfs, plan, u, rfs')
  BY <1>1 DEF Gives, Do
<1>3. ~hushed' => /\ Underway(first, opts, p, rfs, plan)
                  /\ Yields(first, opts, p, rfs, plan, u, rfs')
  BY <1>1
<1>4. plan' = u \o Tail(plan)
  BY DEF Goes
<1>5. Ready(first, opts, p, rfs', plan', status', hushed')
  BY <1>2, <1>3, <1>4, GoesReady
<1> QED
  BY <1>5 DEF Now

LEMMA FailNow ==
  ASSUME NEW p, fail, UNCHANGED <<first, opts>>, Grown(rfs', first, opts, p)
  PROVE  Now(p)'
<1>1. Ready(first, opts, p, rfs', <<>>, "failed", hushed')
  BY NoneReady
<1> QED
  BY <1>1 DEF Now, fail

LEMMA MadeNow ==
  ASSUME NEW p, Job(first, opts, p), Now(p), plan # <<>>, Do.op # "block", NEW q,
         InTarget(opts, q), rfs' \in mkdir(rfs, q),
         UNCHANGED <<first, opts, plan, status, hushed>>
  PROVE  Now(p)'
<1>1. Grown(rfs, first, opts, p) /\ Ready(first, opts, p, rfs, plan, status, hushed)
  BY DEF Now, Ready, Going
<1>2. Grown(rfs', first, opts, p) /\ Extends(rfs', rfs) /\ rfs'.data = rfs.data
  BY <1>1, MadeGrown
<1>3. Ready(first, opts, p, rfs', plan, status, hushed)
  BY <1>1, <1>2, StayReady DEF Do
<1> QED
  BY <1>3 DEF Now

LEMMA PathParts ==
  ASSUME NEW p, Job(first, opts, p), Grown(rfs, first, opts, p), NEW w, InTarget(opts, w)
  PROVE  /\ ToMake(w) = {} => is_dir(rfs, w)
         /\ ToMake(w) # {} =>
              InTarget(opts, CHOOSE x \in ToMake(w) : \A y \in ToMake(w) : Len(x) <= Len(y))
<1>1. PICK y : Clear(y) /\ w = opts.target \o y
  BY DEF InTarget
<1>2. ToMake(w) = Lacking(rfs, w)
  BY DEF ToMake, Lacking
<1>3. w \in Path
  BY <1>1, JobParts, ConcatParts DEF Clear
<1>4. Lacking(rfs, w) = {} => is_dir(rfs, w)
  BY <1>1, LackingParts
<1>5. \A q \in Lacking(rfs, w) : InTarget(opts, q)
  BY <1>1, LackingParts
<1>6. ASSUME ToMake(w) # {}
      PROVE  InTarget(opts, CHOOSE x \in ToMake(w) : \A z \in ToMake(w) : Len(x) <= Len(z))
  <2> DEFINE q == CHOOSE x \in ToMake(w) : \A z \in ToMake(w) : Len(x) <= Len(z)
  <2>1. q \in ToMake(w)
    BY <1>2, <1>3, <1>6, FirstLacking
  <2> QED
    BY <1>2, <1>5, <2>1
<1> QED
  BY <1>2, <1>4, <1>6

\* a directory on the way is made, or the installation gives up
LEMMA PathNow ==
  ASSUME NEW p, Job(first, opts, p), Now(p), plan # <<>>, Do.op # "block", NEW w,
         InTarget(opts, w), ToMake(w) # {}, make_path(w, TRUE),
         UNCHANGED <<first, opts, hushed>>
  PROVE  Now(p)'
<1> DEFINE q == CHOOSE x \in ToMake(w) : \A y \in ToMake(w) : Len(x) <= Len(y)
<1>0. Grown(rfs, first, opts, p)
  BY DEF Now, Ready, Going
<1>1. InTarget(opts, q)
  BY <1>0, PathParts
<1>2. \/ \E f \in mkdir(rfs, q) : rfs' = f /\ UNCHANGED <<plan, status, rfaults>>
      \/ fail /\ rfs' = rfs
  BY DEF make_path
<1> HIDE DEF q
<1>3. CASE \E f \in mkdir(rfs, q) : rfs' = f /\ UNCHANGED <<plan, status, rfaults>>
  <2>1. rfs' \in mkdir(rfs, q) /\ UNCHANGED <<first, opts, plan, status, hushed>>
    BY <1>3
  <2> QED
    BY <1>1, <2>1, MadeNow
<1>4. CASE fail /\ rfs' = rfs
  <2>1. Grown(rfs', first, opts, p)
    BY <1>0, <1>4
  <2> QED
    BY <1>4, <2>1, FailNow
<1> QED
  BY <1>2, <1>3, <1>4

\* nothing is written: what is there stays
LEMMA SameYields ==
  ASSUME NEW a, NEW o, NEW p, NEW f, NEW s, NEW u,
         \A w, c : Due(a, p, Head(s), w, c) => \E k \in 1..Len(u) : Due(a, p, u[k], w, c),
         Head(s).op = "mkdir" => is_dir(f, Head(s).dst), Head(s).op # "link"
  PROVE  Yields(a, o, p, f, s, u, f)
BY DEF Yields

LEMMA NothingDue ==
  ASSUME NEW a, NEW p, NEW t, t.op \in {"mkdir", "link"}
  PROVE  \A w, c : ~Due(a, p, t, w, c)
BY DEF Due, Copies

LEMMA MakeDirReady ==
  ASSUME NEW p, Job(first, opts, p), Now(p), MakeDir
  PROVE  Now(p)'
<1>0. /\ plan # <<>> /\ Do.op = "mkdir" /\ TaskOf(opts, Do) /\ status = "running"
      /\ Grown(rfs, first, opts, p) /\ UNCHANGED <<first, opts, hushed>>
      /\ make_path(Do.dst, Goes(<<>>)) /\ Do.op # "block"
  <2>1. Doing("mkdir")
    BY DEF MakeDir
  <2> QED
    BY <2>1, DoParts DEF MakeDir, Steady
<1>1. InTarget(opts, Do.dst)
  BY <1>0 DEF TaskOf, InTarget
<1>2. CASE ToMake(Do.dst) = {}
  <2>1. Goes(<<>>) /\ rfs' = rfs
    BY <1>0, <1>2 DEF make_path
  <2>2. is_dir(rfs, Do.dst)
    BY <1>0, <1>1, <1>2, PathParts
  <2>3. Yields(first, opts, p, rfs, plan, <<>>, rfs)
    BY <1>0, <2>2, SameYields, NothingDue DEF Do
  <2>4. Extends(rfs, rfs) /\ Turn(opts, Do, <<>>)
    BY TurnNone DEF Extends
  <2>5. Grown(rfs', first, opts, p) /\ Extends(rfs', rfs) /\ Yields(first, opts, p, rfs, plan, <<>>, rfs')
    BY <1>0, <2>1, <2>3, <2>4
  <2> QED
    BY <1>0, <2>1, <2>4, <2>5, GoesNow
<1>3. CASE ToMake(Do.dst) # {}
  <2>1. make_path(Do.dst, TRUE)
    BY <1>0, <1>3 DEF make_path
  <2> QED
    BY <1>0, <1>1, <1>3, <2>1, PathNow
<1> QED
  BY <1>2, <1>3

LEMMA LinkReady ==
  ASSUME NEW p, Job(first, opts, p), Now(p), make_symlink
  PROVE  Now(p)'
<1>0. /\ plan # <<>> /\ Do.op = "link" /\ TaskOf(opts, Do) /\ status = "running"
      /\ Grown(rfs, first, opts, p) /\ UNCHANGED <<first, opts>> /\ Goes(<<>>)
      /\ opts.target \in Path
  <2>1. Doing("link")
    BY DEF make_symlink
  <2> QED
    BY <2>1, DoParts DEF make_symlink, Steady
<1>1. PICK m \in Merged : Do.dst = In(opts.target, m) /\ Do.src = Beneath(opts, m)
  BY <1>0 DEF TaskOf, Fillers, Copies
<1>2. \A x \in Merged : Do.dst = In(opts.target, x) => x = m
  <2> SUFFICES ASSUME NEW x \in Merged, Do.dst = In(opts.target, x) PROVE x = m
    OBVIOUS
  <2>1. opts.target \o x = opts.target \o m
    BY <1>1 DEF In
  <2>2. x \in Path /\ m \in Path
    BY MergeNames
  <2> QED
    BY <1>0, <2>1, <2>2, SameAhead
<1>3. Turn(opts, Do, <<>>)
  BY TurnNone
<1>4. ASSUME Grown(rfs', first, opts, p), Extends(rfs', rfs), rfs'.data = rfs.data,
             LinkSet(p, rfs', m)
      PROVE  Yields(first, opts, p, rfs, plan, <<>>, rfs')
  <2>1. \A y, c : Clear(y) /\ Present(rfs, opts.target \o y, c)
                  => Present(rfs', opts.target \o y, c)
    BY <1>0, <1>4, PresentStays
  <2> QED
    BY <1>0, <1>2, <1>4, <2>1, NothingDue DEF Yields, Do
<1>5. CASE symlink(rfs, Do.src, Do.dst) = {} /\ UNCHANGED <<rfs, hushed>>
  <2>1. LinkSet(p, rfs, m)
    BY <1>0, <1>1, <1>5, NotLinked
  <2>2. Grown(rfs', first, opts, p) /\ Extends(rfs', rfs) /\ rfs'.data = rfs.data /\ LinkSet(p, rfs', m)
    BY <1>0, <1>5, <2>1 DEF Extends
  <2> QED
    BY <1>0, <1>3, <1>4, <1>5, <2>2, GoesNow
<1>6. CASE rfs' \in symlink(rfs, Do.src, Do.dst) /\ UNCHANGED hushed
  <2>1. Grown(rfs', first, opts, p) /\ Extends(rfs', rfs) /\ rfs'.data = rfs.data /\ LinkSet(p, rfs', m)
    BY <1>0, <1>1, <1>6, LinkGrown
  <2> QED
    BY <1>0, <1>3, <1>4, <1>6, <2>1, GoesNow
<1>7. CASE hushed' = TRUE /\ UNCHANGED rfs
  <2>1. Grown(rfs', first, opts, p) /\ Extends(rfs', rfs)
    BY <1>0, <1>7 DEF Extends
  <2> QED
    BY <1>0, <1>3, <1>7, <2>1, GoesNow
<1> QED
  BY <1>5, <1>6, <1>7 DEF make_symlink

-----------------------------------------------------------------------------
(* A tree is listed and its entries are copied.                            *)

LEMMA Retask ==
  ASSUME NEW o, o.target \in Path, NEW t, TaskOf(o, t), t.op \in Fillers, t.op # "block",
         NEW x \in Fillers, x # "block", NEW b, b = [t EXCEPT !.op = x]
  PROVE  /\ b = Task(x, t.src, t.dst) /\ b.op = x /\ b.src = t.src /\ b.dst = t.dst
         /\ TaskOf(o, b) /\ Turn(o, t, <<b>>)
         /\ Len(<<b>>) = 1 /\ <<b>>[1] = b /\ <<b>> # <<>>
<1>1. t = Task(t.op, t.src, t.dst)
  BY DEF TaskOf
<1>2. b = Task(x, t.src, t.dst)
  BY <1>1 DEF Task
<1>3. b.op = x /\ b.src = t.src /\ b.dst = t.dst /\ b = Task(b.op, b.src, b.dst)
  BY <1>2, TaskIs
<1>4. t.src \in Path /\ \E y : Clear(y) /\ t.dst = o.target \o y
  BY TaskDst
<1>5. TaskOf(o, b)
  BY <1>3, <1>4 DEF TaskOf
<1>6. Turn(o, t, <<b>>)
  BY <1>3, <1>5, TurnOne
<1> QED
  BY <1>2, <1>3, <1>5, <1>6

\* a file of the source, at z of the place q
DueFrom(a, p, t, w, c, q, z, i) ==
  /\ Source(a, p, t.src, q) /\ z \in Path /\ w = t.dst \o z
  /\ q \o z \in DOMAIN a.node /\ a.node[q \o z] = File(i) /\ i \in DOMAIN a.data /\ c = a.data[i]
  /\ \/ z = <<>> /\ a.node[q] = File(i)
     \/ a.node[q] = Dir

LEMMA DueSource ==
  ASSUME NEW a, NEW o, NEW p, Job(a, o, p), NEW t, TaskOf(o, t), t.op \in Copies, NEW w, NEW c,
         Due(a, p, t, w, c)
  PROVE  \E q, z, i : /\ DueFrom(a, p, t, w, c, q, z, i)
                      /\ t.op \in {"tree", "list"} => a.node[q] = Dir
<1>0. IsTree(a) /\ t.src \in Path /\ \A r \in DOMAIN a.node : r \in Path
  <2>1. t.op \in Fillers /\ o.target \in Path
    BY JobParts DEF Fillers
  <2> QED
    BY <2>1, TaskDst, JobParts
<1>1. PICK z \in Path : w = t.dst \o z /\ Sourced(a, p, t, z, c)
  BY DEF Due, Copies
<1>2. PICK q \in Real(a, t.src), i \in DOMAIN a.data :
        /\ Off(p, q) /\ q \o z \in DOMAIN a.node /\ a.node[q \o z] = File(i) /\ c = a.data[i]
        /\ t.op \in {"tree", "list"} => KindAt(a, q) = "dir"
  BY <1>1 DEF Sourced
<1>q. q \in Path
  BY <1>0, RealIn, TreeParts
<1>3. q \in DOMAIN a.node /\ ((z = <<>> /\ a.node[q] = File(i)) \/ a.node[q] = Dir)
  <2>1. CASE z = <<>>
    <3>1. q \o z = q
      BY <1>q, <2>1, NothingAhead
    <3> QED
      BY <1>2, <2>1, <3>1
  <2>2. CASE z # <<>>
    BY <1>0, <1>2, <1>q, <2>2, TreeAbove
  <2> QED
    BY <2>1, <2>2
<1>4. Source(a, p, t.src, q)
  BY <1>0, <1>2, <1>3 DEF Source
<1>5. t.op \in {"tree", "list"} => a.node[q] = Dir
  BY <1>0, <1>2, <1>3, TreeParts DEF KindAt
<1> QED
  BY <1>1, <1>2, <1>3, <1>4, <1>5 DEF DueFrom

LEMMA DueAgain ==
  ASSUME NEW a, NEW p, NEW t, NEW w, NEW c, NEW q, NEW z, NEW i, DueFrom(a, p, t, w, c, q, z, i),
         NEW b, b.op \in Copies, b.src = t.src, b.dst = t.dst,
         b.op \in {"tree", "list"} => a.node[q] = Dir
  PROVE  Due(a, p, b, w, c)
<1>1. /\ q \in Real(a, b.src) /\ Off(p, q) /\ q \in DOMAIN a.node /\ z \in Path /\ w = b.dst \o z
      /\ q \o z \in DOMAIN a.node /\ a.node[q \o z] = File(i) /\ i \in DOMAIN a.data /\ c = a.data[i]
  BY DEF DueFrom, Source
<1>2. b.op \in {"tree", "list"} => KindAt(a, q) = "dir"
  BY <1>1 DEF KindAt, Dir
<1>3. Sourced(a, p, b, z, c)
  BY <1>1, <1>2 DEF Sourced
<1> QED
  BY <1>1, <1>3 DEF Due

LEMMA OneYields ==
  ASSUME NEW a, NEW o, NEW p, NEW f, NEW s, NEW b, NEW t, t = Head(s), t.op \in Copies,
         \A w, c : Due(a, p, t, w, c) => Due(a, p, b, w, c)
  PROVE  Yields(a, o, p, f, s, <<b>>, f)
<1> DEFINE u == <<b>>
<1>1. Len(u) = 1 /\ u[1] = b
  OBVIOUS
<1> HIDE DEF u
<1>2. 1 \in 1..Len(u) /\ t.op # "mkdir" /\ t.op # "link"
  BY <1>1 DEF Copies
<1>3. \A w, c : Due(a, p, t, w, c) => \E k \in 1..Len(u) : Due(a, p, u[k], w, c)
  BY <1>1, <1>2
<1>4. Yields(a, o, p, f, s, u, f)
  BY <1>2, <1>3, SameYields
<1> QED
  BY <1>4 DEF u

LEMMA CopyTreeReady ==
  ASSUME NEW p, Job(first, opts, p), Now(p), CopyTree
  PROVE  Now(p)'
<1>0. /\ plan # <<>> /\ Do.op = "tree" /\ TaskOf(opts, Do) /\ status = "running"
      /\ Grown(rfs, first, opts, p) /\ UNCHANGED <<first, opts, hushed>>
      /\ opts.target \in Path
      /\ IF ~is_dir(rfs, Do.src) THEN Goes(<<>>) /\ UNCHANGED <<rfs, rfaults>>
         ELSE make_path(Do.dst, Goes(<<[Do EXCEPT !.op = "list"]>>))
  <2>1. Doing("tree")
    BY DEF CopyTree
  <2> QED
    BY <2>1, DoParts DEF CopyTree, Steady
<1>1. InTarget(opts, Do.dst) /\ Do.op \in Fillers /\ Do.op \in Copies /\ Do.op # "block"
  BY <1>0 DEF TaskOf, InTarget, Fillers, Copies
<1>2. Extends(rfs, rfs) /\ Turn(opts, Do, <<>>)
  BY TurnNone DEF Extends
<1>3. CASE ~is_dir(rfs, Do.src)
  <2>1. Goes(<<>>) /\ rfs' = rfs
    BY <1>0, <1>3
  <2>2. ASSUME NEW w, NEW c, Due(first, p, Do, w, c) PROVE FALSE
    <3>1. PICK q, z, i : DueFrom(first, p, Do, w, c, q, z, i) /\ first.node[q] = Dir
      BY <1>0, <1>1, <2>2, DueSource
    <3>2. Source(first, p, Do.src, q)
      BY <3>1 DEF DueFrom
    <3>3. Real(rfs, Do.src) = {q} /\ q \in DOMAIN rfs.node /\ rfs.node[q] = Dir
      BY <1>0, <3>1, <3>2, SourceSame
    <3> QED
      BY <1>3, <3>3, IsDirAt
  <2>3. Yields(first, opts, p, rfs, plan, <<>>, rfs)
    BY <1>0, <2>2, SameYields DEF Do
  <2>4. Grown(rfs', first, opts, p) /\ Extends(rfs', rfs) /\ Yields(first, opts, p, rfs, plan, <<>>, rfs')
    BY <1>0, <1>2, <2>1, <2>3
  <2> QED
    BY <1>0, <1>2, <2>1, <2>4, GoesNow
<1>4. CASE is_dir(rfs, Do.src) /\ ToMake(Do.dst) = {}
  <2> DEFINE b == [Do EXCEPT !.op = "list"]
             u == <<b>>
  <2>1. Goes(u) /\ rfs' = rfs
    BY <1>0, <1>4 DEF make_path
  <2>2. /\ b.op = "list" /\ b.src = Do.src /\ b.dst = Do.dst
        /\ TaskOf(opts, b) /\ Turn(opts, Do, u) /\ u[1] = b /\ u # <<>>
    <3>1. "list" \in Fillers /\ "list" # "block"
      BY DEF Fillers, Copies
    <3> QED
      BY <1>0, <1>1, <3>1, Retask
  <2> HIDE DEF b
  <2>3. \A w, c : Due(first, p, Do, w, c) => Due(first, p, b, w, c)
    <3> SUFFICES ASSUME NEW w, NEW c, Due(first, p, Do, w, c) PROVE Due(first, p, b, w, c)
      OBVIOUS
    <3>1. PICK q, z, i : DueFrom(first, p, Do, w, c, q, z, i) /\ first.node[q] = Dir
      BY <1>0, <1>1, DueSource
    <3>2. b.op \in Copies
      BY <2>2 DEF Copies
    <3> QED
      BY <2>2, <3>1, <3>2, DueAgain
  <2>4. Yields(first, opts, p, rfs, plan, <<b>>, rfs)
    BY <1>1, <2>3, OneYields DEF Do
  <2>5. BlockOK(first, p, rfs', u[1])
    BY <2>2 DEF BlockOK
  <2>6. Yields(first, opts, p, rfs, plan, u, rfs)
    BY <2>4
  <2> HIDE DEF u
  <2>7. Grown(rfs', first, opts, p) /\ Extends(rfs', rfs) /\ Yields(first, opts, p, rfs, plan, u, rfs')
    BY <1>0, <1>2, <2>1, <2>6
  <2> QED
    BY <1>0, <2>1, <2>2, <2>5, <2>7, GoesNow
<1>5. CASE is_dir(rfs, Do.src) /\ ToMake(Do.dst) # {}
  <2>1. make_path(Do.dst, TRUE)
    BY <1>0, <1>5 DEF make_path
  <2> QED
    BY <1>0, <1>1, <1>5, <2>1, PathNow
<1> QED
  BY <1>3, <1>4, <1>5

LEMMA CopyEntryReady ==
  ASSUME NEW p, Job(first, opts, p), Now(p), CopyEntry
  PROVE  Now(p)'
<1> DEFINE x == IF is_dir(rfs, Do.src) THEN "tree" ELSE "copy"
           b == [Do EXCEPT !.op = x]
           u == <<b>>
<1>0. /\ plan # <<>> /\ Do.op = "entry" /\ TaskOf(opts, Do) /\ status = "running"
      /\ Grown(rfs, first, opts, p) /\ UNCHANGED <<first, opts, hushed, rfs>>
      /\ opts.target \in Path /\ Goes(u)
  <2>1. Doing("entry")
    BY DEF CopyEntry
  <2> QED
    BY <2>1, DoParts DEF CopyEntry, Steady
<1>1. Do.op \in Fillers /\ Do.op \in Copies /\ Do.op # "block"
  BY <1>0 DEF TaskOf, Fillers, Copies
<1>2. x \in Fillers /\ x # "block" /\ x \in Copies /\ x # "list"
      /\ (x = "tree" => is_dir(rfs, Do.src))
  BY DEF Fillers, Copies
<1> HIDE DEF x
<1>3. /\ b.op = x /\ b.src = Do.src /\ b.dst = Do.dst
      /\ TaskOf(opts, b) /\ Turn(opts, Do, u) /\ u[1] = b /\ u # <<>>
  BY <1>0, <1>1, <1>2, Retask
<1> HIDE DEF b
<1>4. \A w, c : Due(first, p, Do, w, c) => Due(first, p, b, w, c)
  <2> SUFFICES ASSUME NEW w, NEW c, Due(first, p, Do, w, c) PROVE Due(first, p, b, w, c)
    OBVIOUS
  <2>1. PICK q, z, i : DueFrom(first, p, Do, w, c, q, z, i)
    BY <1>0, <1>1, DueSource
  <2>2. ASSUME is_dir(rfs, Do.src) PROVE first.node[q] = Dir
    <3>1. Source(first, p, Do.src, q)
      BY <2>1 DEF DueFrom
    <3>2. Real(rfs, Do.src) = {q} /\ rfs.node[q] = first.node[q]
      BY <1>0, <3>1, SourceSame
    <3> QED
      BY <2>2, <3>2, IsDirAt
  <2> QED
    BY <1>2, <1>3, <2>1, <2>2, DueAgain
<1>5. Yields(first, opts, p, rfs, plan, <<b>>, rfs)
  BY <1>1, <1>4, OneYields DEF Do
<1>6. Yields(first, opts, p, rfs, plan, u, rfs)
  BY <1>5
<1>7. BlockOK(first, p, rfs', u[1])
  BY <1>2, <1>3 DEF BlockOK
<1> HIDE DEF u
<1>8. Grown(rfs', first, opts, p) /\ Extends(rfs', rfs) /\ Yields(first, opts, p, rfs, plan, u, rfs')
  BY <1>0, <1>6 DEF Extends
<1> QED
  BY <1>0, <1>3, <1>7, <1>8, GoesNow

-----------------------------------------------------------------------------
(* A directory gives way to its entries.                                   *)

Entry(h, n) == Task("entry", Append(h.src, n), Append(h.dst, n))
EntryTasks(h, N) == {Entry(h, n) : n \in N}

LEMMA EntryParts ==
  ASSUME NEW o, o.target \in Path, NEW h, TaskOf(o, h), h.op = "list", NEW n \in STRING,
         NEW b, b = Entry(h, n)
  PROVE  /\ b.op = "entry" /\ b.src = Append(h.src, n) /\ b.dst = Append(h.dst, n)
         /\ TaskOf(o, b) /\ Under(h.dst, b.dst)
<1>1. h.src \in Path /\ h.dst \in Path /\ \E y : Clear(y) /\ h.dst = o.target \o y
  BY TaskDst DEF Fillers, Copies
<1>2. /\ b.op = "entry" /\ b.src = Append(h.src, n) /\ b.dst = Append(h.dst, n)
      /\ b = Task(b.op, b.src, b.dst)
  <2> DEFINE x == Append(h.src, n)
             y == Append(h.dst, n)
  <2>1. b = Task("entry", x, y)
    BY DEF Entry
  <2> HIDE DEF x, y
  <2>2. b.op = "entry" /\ b.src = x /\ b.dst = y /\ b = Task(b.op, b.src, b.dst)
    BY ONLY <2>1, TaskIs
  <2> QED
    BY <2>2 DEF x, y
<1>3. Append(h.src, n) \in Path
  BY <1>1, AppendIn
<1>4. Under(h.dst, Append(h.dst, n))
  BY <1>1, UnderSelf, UnderMore
<1>5. InTarget(o, Append(h.dst, n))
  <2>1. PICK y : Clear(y) /\ h.dst = o.target \o y
    BY <1>1
  <2>2. Clear(Append(y, n)) /\ Append(o.target \o y, n) = o.target \o Append(y, n)
    BY <2>1, ClearNext
  <2>3. Append(h.dst, n) = o.target \o Append(y, n)
    BY <2>1, <2>2, Zenon
  <2> QED
    BY <2>2, <2>3, Zenon DEF InTarget
<1>6. "entry" \in Fillers
  BY DEF Fillers, Copies
<1>7. TaskOf(o, b)
  <2>1. b.op \in Fillers \cup {"mkdir"} /\ b.src \in Path /\ \E y : Clear(y) /\ b.dst = o.target \o y
    BY <1>2, <1>3, <1>5, <1>6 DEF InTarget
  <2> QED
    BY <1>2, <2>1 DEF TaskOf
<1> QED
  BY <1>2, <1>4, <1>7

LEMMA EntriesTurn ==
  ASSUME NEW o, o.target \in Path, NEW h, TaskOf(o, h), h.op = "list", NEW N, N \subseteq STRING,
         NEW u, Lists(u, EntryTasks(h, N))
  PROVE  /\ Turn(o, h, u) /\ \A n \in N : \E k \in 1..Len(u) : u[k] = Entry(h, n)
         /\ u # <<>> => u[1].op = "entry"
<1> DEFINE E == EntryTasks(h, N)
<1>a. \A x : x \in E <=> \E n \in N : x = Entry(h, n)
  BY DEF EntryTasks
<1> HIDE DEF E
<1>3. /\ u \in Seq(E) /\ \A x \in E : \E k \in 1..Len(u) : u[k] = x
      /\ \A k \in 1..Len(u) : u[k] \in E
      /\ \A j, k \in 1..Len(u) : j # k => u[j] # u[k]
  BY DEF Lists, E
<1>4. h.dst \in Path
  BY TaskDst
<1>5. "entry" \in Fillers /\ "entry" # "block" /\ h.op \in Fillers
  BY DEF Fillers, Copies
<1>6. ASSUME NEW k \in 1..Len(u)
      PROVE  \E n \in N : u[k] = Entry(h, n) /\ u[k].op = "entry" /\ u[k].dst = Append(h.dst, n)
                          /\ TaskOf(o, u[k]) /\ Under(h.dst, u[k].dst)
  <2>1. PICK n \in N : u[k] = Entry(h, n)
    BY <1>3, <1>a
  <2>2. n \in STRING
    OBVIOUS
  <2>3. /\ u[k].op = "entry" /\ u[k].dst = Append(h.dst, n) /\ TaskOf(o, u[k])
        /\ Under(h.dst, u[k].dst)
    BY <2>1, <2>2, EntryParts
  <2> QED
    BY <2>1, <2>3
<1>7. ASSUME NEW j \in 1..Len(u), NEW k \in 1..Len(u), j # k
      PROVE  ~Under(u[j].dst, u[k].dst)
  <2>1. PICK m \in N : u[j] = Entry(h, m) /\ u[j].dst = Append(h.dst, m)
    BY <1>6
  <2>2. PICK n \in N : u[k] = Entry(h, n) /\ u[k].dst = Append(h.dst, n)
    BY <1>6
  <2>3. m # n
    BY <1>3, <1>7, <2>1, <2>2
  <2>4. m \in STRING /\ n \in STRING
    OBVIOUS
  <2>5. ~Under(Append(h.dst, m), Append(h.dst, n))
    BY <1>4, <2>3, <2>4, AppendApart
  <2> QED
    BY <2>1, <2>2, <2>5, Zenon
<1>8. Turn(o, h, u)
  BY <1>3, <1>5, <1>6, <1>7 DEF Turn
<1>9. ASSUME u # <<>> PROVE u[1].op = "entry"
  <2>1. 1 \in 1..Len(u)
    <3>1. Len(u) \in Nat /\ Len(u) # 0
      BY <1>3, <1>9, EmptySeq, LenProperties
    <3> QED
      BY <3>1
  <2> QED
    BY <1>6, <2>1
<1> QED
  BY <1>3, <1>8, <1>9, <1>a

LEMMA EntriesFinite ==
  ASSUME NEW h, NEW N, IsFiniteSet(N)
  PROVE  IsFiniteSet(EntryTasks(h, N))
<1> DEFINE g == [n \in N |-> Entry(h, n)]
           E == EntryTasks(h, N)
<1>1. g \in Surjection(N, E)
  BY DEF Surjection, EntryTasks
<1> HIDE DEF g, E
<1>2. IsFiniteSet(E)
  BY <1>1, FS_Surjection
<1> QED
  BY <1>2 DEF E

LEMMA FirstNamesIn == ASSUME NEW N, NEW M \in FirstNames(N) PROVE M \subseteq N
BY DEF FirstNames

LEMMA EntryDue ==
  ASSUME NEW a, NEW o, NEW p, Job(a, o, p), NEW f, Grown(f, a, o, p), NEW h, TaskOf(o, h),
         h.op = "list", NEW w, NEW c, Due(a, p, h, w, c)
  PROVE  \E n \in getdents(f, h.src) : Due(a, p, Entry(h, n), w, c)
<1>0. o.target \in Path /\ h.op \in Fillers /\ h.op \in Copies
  BY JobParts DEF Fillers, Copies
<1>1. PICK q, z, i : DueFrom(a, p, h, w, c, q, z, i) /\ a.node[q] = Dir
  BY <1>0, DueSource
<1>2. /\ Source(a, p, h.src, q) /\ z \in Path /\ w = h.dst \o z /\ h.dst \in Path /\ q \in Path
      /\ i \in DOMAIN a.data /\ c = a.data[i]
  <2>1. Source(a, p, h.src, q) /\ h.dst \in Path
    BY <1>0, <1>1, TaskDst DEF DueFrom
  <2>2. q \in Path
    BY <2>1, SourceSame
  <2> QED
    BY <1>1, <2>1, <2>2 DEF DueFrom
<1> DEFINE x == q \o z
<1>3. x \in DOMAIN a.node /\ a.node[x] = File(i) /\ x = q \o z
  BY <1>1 DEF DueFrom
<1> HIDE DEF x
<1>4. PICK n, y : Leading(a, p, f, h.src, q, z, n, y)
  BY <1>1, <1>2, <1>3, SourceNext
<1> DEFINE b == Entry(h, n)
           r == Append(q, n)
           e == Append(h.dst, n)
<1>5. n \in STRING /\ y \in Path /\ n \in getdents(f, h.src)
  BY <1>4 DEF Leading
<1>6. b.op = "entry" /\ b.src = Append(h.src, n) /\ b.dst = e
  BY <1>0, <1>5, EntryParts
<1>7. Source(a, p, b.src, r)
  BY <1>4, <1>6 DEF Leading
<1>8. x = r \o y /\ w = e \o y
  BY <1>2, <1>3, <1>4 DEF Leading
<1> HIDE DEF b, r, e
<1>9. r \in Real(a, b.src) /\ Off(p, r)
  BY <1>7 DEF Source
<1>10. Sourced(a, p, b, y, c)
  <2>1. r \o y \in DOMAIN a.node /\ a.node[r \o y] = File(i)
    BY <1>3, <1>8, Zenon
  <2> QED
    BY <1>2, <1>6, <1>9, <2>1 DEF Sourced
<1>11. b.op \in Copies
  BY <1>6 DEF Copies
<1>12. Due(a, p, b, w, c)
  BY <1>5, <1>6, <1>8, <1>10, <1>11 DEF Due
<1> QED
  BY <1>5, <1>12 DEF b

LEMMA ListDirReady ==
  ASSUME NEW p, Job(first, opts, p), Now(p), ListDir
  PROVE  Now(p)'
<1> DEFINE N == getdents(rfs, Do.src)
<1>0. /\ plan # <<>> /\ Do.op = "list" /\ TaskOf(opts, Do) /\ status = "running"
      /\ Grown(rfs, first, opts, p) /\ UNCHANGED <<first, opts, rfs>>
      /\ opts.target \in Path
  <2>1. Doing("list")
    BY DEF ListDir
  <2> QED
    BY <2>1, DoParts DEF ListDir, Steady
<1>1. Grown(rfs', first, opts, p) /\ Extends(rfs', rfs)
  BY <1>0 DEF Extends
<1>2. IsFiniteSet(N) /\ N \subseteq STRING
  BY <1>0, NamesFinite
<1>a. \A w, c : Due(first, p, Do, w, c) => \E n \in N : Due(first, p, Entry(Do, n), w, c)
  BY <1>0, EntryDue
<1>3. ASSUME NEW names \in FirstNames(N),
             Goes(SetToSeq({Task("entry", Append(Do.src, n), Append(Do.dst, n)) : n \in names})),
             hushed' = (hushed \/ names # N)
      PROVE  Now(p)'
  <2> DEFINE E == {Task("entry", Append(Do.src, n), Append(Do.dst, n)) : n \in names}
             u == SetToSeq(E)
  <2>1. names \subseteq N
    BY FirstNamesIn
  <2>2. names \subseteq STRING /\ IsFiniteSet(names)
    BY <1>2, <2>1, FS_Subset
  <2>3. E = EntryTasks(Do, names) /\ u = SetToSeq(E) /\ Goes(u)
    BY <1>3 DEF Entry, EntryTasks
  <2>a. Lists(u, E)
    <3>1. IsFiniteSet(E)
      BY <2>2, <2>3, EntriesFinite
    <3> QED
      BY <3>1, SeqOfSet
  <2> HIDE DEF E, u, N
  <2>4. /\ Turn(opts, Do, u) /\ \A n \in names : \E k \in 1..Len(u) : u[k] = Entry(Do, n)
        /\ u # <<>> => u[1].op = "entry"
    <3>1. Lists(u, EntryTasks(Do, names))
      BY <2>3, <2>a
    <3> QED
      BY <1>0, <2>2, <3>1, EntriesTurn
  <2>5. u # <<>> => BlockOK(first, p, rfs', u[1])
    BY <2>4 DEF BlockOK
  <2>6. ASSUME ~hushed' PROVE Yields(first, opts, p, rfs, plan, u, rfs')
    <3>1. names = N
      BY <1>3, <2>6
    <3>2. \A w, c : Due(first, p, Do, w, c) => \E k \in 1..Len(u) : Due(first, p, u[k], w, c)
      <4> SUFFICES ASSUME NEW w, NEW c, Due(first, p, Do, w, c)
                   PROVE  \E k \in 1..Len(u) : Due(first, p, u[k], w, c)
        OBVIOUS
      <4>1. PICK n \in N : Due(first, p, Entry(Do, n), w, c)
        BY <1>a
      <4>2. PICK k \in 1..Len(u) : u[k] = Entry(Do, n)
        BY <2>4, <3>1
      <4> QED
        BY <4>1, <4>2
    <3>3. Yields(first, opts, p, rfs, plan, u, rfs)
      BY <1>0, <3>2, SameYields DEF Do
    <3> QED
      BY <1>0, <3>3
  <2>7. hushed => hushed'
    BY <1>3
  <2> QED
    BY <1>0, <1>1, <2>3, <2>4, <2>5, <2>6, <2>7, GoesNow
<1>4. CASE Goes(<<>>) /\ hushed' = TRUE
  <2>1. Turn(opts, Do, <<>>)
    BY TurnNone
  <2> QED
    BY <1>0, <1>1, <1>4, <2>1, GoesNow
<1> QED
  BY <1>3, <1>4 DEF ListDir

-----------------------------------------------------------------------------
(* A file is opened and written, block by block or at once.                *)

LEMMA WroteStays ==
  ASSUME NEW a, NEW o, NEW p, NEW f, NEW g, NEW y, NEW i, Wrote(a, o, p, f, g, y, i)
  PROVE  \A z, c : Clear(z) /\ z # y /\ Present(f, o.target \o z, c) => Present(g, o.target \o z, c)
BY PresentElse

LEMMA WroteYields ==
  ASSUME NEW a, NEW o, NEW p, NEW f, NEW g, NEW y, NEW i, Wrote(a, o, p, f, g, y, i),
         NEW s, NEW t, t = Head(s), t.op \in Fillers, t.dst = o.target \o y, NEW u,
         \A w, c : Due(a, p, t, w, c) =>
           (\E k \in 1..Len(u) : Due(a, p, u[k], w, c)) \/ (u = <<>> /\ Present(g, w, c))
  PROVE  Yields(a, o, p, f, s, u, g)
<1>1. o.target \in Path /\ y \in Path
  BY JobParts DEF Wrote, Clear
<1>2. Under(t.dst, t.dst)
  BY <1>1, ConcatParts, UnderSelf
<1>3. t.op # "mkdir" /\ t.op # "link"
  BY DEF Fillers, Copies
<1>4. \A z, c : Clear(z) /\ z # y /\ Present(f, o.target \o z, c) => Present(g, o.target \o z, c)
  BY WroteStays
<1>5. \A z, c : /\ Clear(z) /\ Present(f, o.target \o z, c)
                /\ (Head(s).op \in Fillers => ~Under(Head(s).dst, o.target \o z))
                => Present(g, o.target \o z, c)
  <2> SUFFICES ASSUME NEW z, NEW c, Clear(z), Present(f, o.target \o z, c),
                      Head(s).op \in Fillers => ~Under(Head(s).dst, o.target \o z)
               PROVE  Present(g, o.target \o z, c)
    OBVIOUS
  <2>1. ~Under(t.dst, o.target \o z)
    OBVIOUS
  <2>2. z # y
    BY <1>2, <2>1
  <2> QED
    BY <1>4, <2>2
<1> QED
  BY <1>3, <1>5 DEF Yields

\* the file at w is opened to be written: g is what there is then, i the file
Opens(a, o, p, f, y, w, g, i) ==
  /\ Job(a, o, p) /\ Grown(f, a, o, p) /\ Clear(y) /\ w = o.target \o y
  /\ \E x \in open_trunc(f, w, TRUE) : g = x[1] /\ i = x[2]

Opened(a, o, p, f, y, w, g, i) ==
  /\ Wrote(a, o, p, f, g, y, i) /\ i \in DOMAIN g.data /\ g.data[i] = <<>>
  /\ p \o y \in Real(g, w) \cap DOMAIN g.node /\ g.node[p \o y] = File(i) /\ Under(p, p \o y)
  /\ g = Tree(g.node, g.data)

LEMMA OpenedIsTree ==
  ASSUME NEW f, NEW w, NEW x \in open_trunc(f, w, TRUE)
  PROVE  x[1] = Tree(x[1].node, x[1].data)
<1>1. PICK q \in Real(f, w) :
        \/ x = <<Tree(f.node, [f.data EXCEPT ![f.node[q].ino] = <<>>]), f.node[q].ino>>
        \/ x = <<WithFile(f, q), NewIno(f)>>
  BY DEF open_trunc
<1>2. CASE x = <<Tree(f.node, [f.data EXCEPT ![f.node[q].ino] = <<>>]), f.node[q].ino>>
  <2> DEFINE n == f.node
             d == [f.data EXCEPT ![f.node[q].ino] = <<>>]
  <2>1. x[1] = Tree(n, d)
    BY <1>2
  <2> HIDE DEF n, d
  <2> QED
    BY <2>1, TreeFields
<1>3. CASE x = <<WithFile(f, q), NewIno(f)>>
  <2> DEFINE n == With(f.node, q, File(NewIno(f)))
             d == Append(f.data, <<>>)
  <2>1. x[1] = Tree(n, d)
    BY <1>3 DEF WithFile
  <2> HIDE DEF n, d
  <2> QED
    BY <2>1, TreeFields
<1> QED
  BY <1>1, <1>2, <1>3

LEMMA OpenWrote ==
  ASSUME NEW a, NEW o, NEW p, NEW f, NEW y, NEW w, NEW g, NEW i, Opens(a, o, p, f, y, w, g, i)
  PROVE  Opened(a, o, p, f, y, w, g, i)
<1>0. Job(a, o, p) /\ Grown(f, a, o, p) /\ Clear(y) /\ w = o.target \o y
  BY DEF Opens
<1>a. PICK x \in open_trunc(f, w, TRUE) : g = x[1] /\ i = x[2]
  BY DEF Opens
<1>b. OpensAt(a, o, p, f, y, w, x)
  BY <1>0 DEF OpensAt
<1>1. GrewAt(a, o, p, f, y, w, x[1], x[2])
  BY ONLY <1>b, OpenGrown
<1>2. x[1] = Tree(x[1].node, x[1].data)
  BY ONLY x \in open_trunc(f, w, TRUE), OpenedIsTree
<1>3. /\ Grown(g, a, o, p) /\ Extends(g, f) /\ Len(f.data) <= Len(g.data)
      /\ p \o y \in Real(g, w) /\ p \o y \in DOMAIN g.node
      /\ g.node[p \o y] = File(i) /\ i \in DOMAIN g.data /\ g.data[i] = <<>>
      /\ \A j \in DOMAIN f.data : j # i => g.data[j] = f.data[j]
      /\ g = Tree(g.node, g.data)
  <2>1. GrewAt(a, o, p, f, y, w, g, i) /\ g = Tree(g.node, g.data)
    BY <1>a, <1>1, <1>2, Zenon
  <2> QED
    BY <2>1 DEF GrewAt
<1>4. Wrote(a, o, p, f, g, y, i)
  BY <1>0, <1>3 DEF Wrote
<1>5. Under(p, p \o y)
  BY <1>0, JobParts, UnderAhead DEF Clear
<1> QED
  BY <1>3, <1>4, <1>5 DEF Opened

Block(t, i, to, at, left) ==
  [op |-> "block", src |-> t.src, dst |-> t.dst, in |-> i, to |-> to, at |-> at, left |-> left]

\* the block b of the copy t
Blocks(o, t, i, to, at, left, b) ==
  /\ o.target \in Path /\ TaskOf(o, t) /\ t.op \in {"copy", "block"}
  /\ b = Block(t, i, to, at, left)

Blocked(o, t, i, to, at, left, b) ==
  /\ b.op = "block" /\ b.src = t.src /\ b.dst = t.dst /\ b.in = i /\ b.to = to
  /\ b.at = at /\ b.left = left
  /\ b = [op |-> "block", src |-> b.src, dst |-> b.dst,
          in |-> b.in, to |-> b.to, at |-> b.at, left |-> b.left]
  /\ TaskOf(o, b) /\ Turn(o, t, <<b>>)

LEMMA BlockParts ==
  ASSUME NEW o, NEW t, NEW i, NEW to, NEW at, NEW left, NEW b, Blocks(o, t, i, to, at, left, b)
  PROVE  Blocked(o, t, i, to, at, left, b)
<1>0. /\ o.target \in Path /\ TaskOf(o, t) /\ t.op \in {"copy", "block"}
      /\ b = Block(t, i, to, at, left)
  BY DEF Blocks
<1>1. /\ b.op = "block" /\ b.src = t.src /\ b.dst = t.dst /\ b.in = i /\ b.to = to
      /\ b.at = at /\ b.left = left
  BY <1>0 DEF Block
<1>2. b = [op |-> "block", src |-> b.src, dst |-> b.dst,
           in |-> b.in, to |-> b.to, at |-> b.at, left |-> b.left]
  BY <1>0, <1>1 DEF Block
<1>3. t.op \in Fillers /\ "block" \in Fillers
  BY <1>0 DEF Fillers, Copies
<1>4. t.src \in Path /\ \E y : Clear(y) /\ t.dst = o.target \o y
  BY <1>0, <1>3, TaskDst
<1>5. TaskOf(o, b)
  BY <1>1, <1>3, <1>4 DEF TaskOf
<1>6. Turn(o, t, <<b>>)
  BY <1>0, <1>1, <1>3, <1>5, TurnOne
<1> QED
  BY <1>1, <1>2, <1>5, <1>6 DEF Blocked

\* how much of the file i is copied to the file to
CopiedSoFar(a, p, g, t, i, to, at, k) ==
  /\ at \in Nat \ {0} /\ i \in DOMAIN g.data
  /\ \E r \in Real(g, t.dst) \cap DOMAIN g.node : g.node[r] = File(to)
  /\ \A q \in Real(a, t.src) \cap DOMAIN a.node : Off(p, q) =>
       /\ a.node[q] = File(i) /\ at <= Len(a.data[i]) + 1 /\ k = Len(a.data[i]) + 1 - at
       /\ g.data[to] = SubSeq(a.data[i], 1, at - 1)

LEMMA BlockAt ==
  ASSUME NEW a, NEW o, NEW p, NEW t, NEW i, NEW to, NEW at, NEW k, NEW b, NEW g,
         Blocked(o, t, i, to, at, k, b), CopiedSoFar(a, p, g, t, i, to, at, k)
  PROVE  BlockOK(a, p, g, b)
<1>1. /\ b.src = t.src /\ b.dst = t.dst /\ b.in = i /\ b.to = to /\ b.at = at /\ b.left = k
      /\ b = [op |-> "block", src |-> b.src, dst |-> b.dst,
              in |-> b.in, to |-> b.to, at |-> b.at, left |-> b.left]
  BY DEF Blocked
<1>2. \E r \in Real(g, b.dst) \cap DOMAIN g.node : g.node[r] = File(b.to)
  BY <1>1 DEF CopiedSoFar
<1>3. b.in \in DOMAIN g.data /\ b.at \in Nat \ {0}
  BY <1>1 DEF CopiedSoFar
<1>4. \A q \in Real(a, b.src) \cap DOMAIN a.node : Off(p, q) =>
        /\ a.node[q] = File(b.in) /\ b.at <= Len(a.data[b.in]) + 1
        /\ b.left = Len(a.data[b.in]) + 1 - b.at
        /\ g.data[b.to] = SubSeq(a.data[b.in], 1, b.at - 1)
  BY <1>1, Zenon DEF CopiedSoFar
<1> QED
  BY <1>1, <1>2, <1>3, <1>4 DEF BlockOK

\* the first block is to be copied to an empty file
LEMMA BlockStarts ==
  ASSUME NEW a, NEW o, NEW p, Job(a, o, p), NEW f, Grown(f, a, o, p), NEW t, TaskOf(o, t),
         t.op = "copy", NEW n \in stat(f, t.src), n.kind = "file", NEW i, i = n.ino,
         NEW y, NEW g, NEW to, Opened(a, o, p, f, y, t.dst, g, to),
         NEW b, b = Block(t, i, to, 1, Len(f.data[i]))
  PROVE  BlockOK(a, p, g, b)
<1>0. o.target \in Path /\ t.op \in Fillers
  BY JobParts DEF Fillers, Copies
<1>2. /\ Wrote(a, o, p, f, g, y, to) /\ to \in DOMAIN g.data /\ g.data[to] = <<>>
      /\ \E r \in Real(g, t.dst) \cap DOMAIN g.node : g.node[r] = File(to)
  BY DEF Opened
<1>3. PICK r \in Real(f, t.src) \cap DOMAIN f.node : n = f.node[r]
  BY DEF stat
<1>4. PICK j \in DOMAIN f.data : n = File(j)
  BY <1>3, GrownParts, FileNode
<1>5. i = j /\ n = File(i) /\ i \in DOMAIN f.data
  BY <1>4 DEF File
<1>6. i \in DOMAIN g.data
  <2>1. IsTree(f) /\ IsTree(g) /\ Len(f.data) <= Len(g.data)
    BY <1>2, GrownParts DEF Wrote
  <2>2. DOMAIN f.data = 1..Len(f.data) /\ DOMAIN g.data = 1..Len(g.data)
        /\ Len(f.data) \in Nat /\ Len(g.data) \in Nat
    BY <2>1, LenProperties DEF IsTree
  <2> QED
    BY <1>5, <2>1, <2>2
<1>7. ASSUME NEW q \in Real(a, t.src) \cap DOMAIN a.node, Off(p, q)
      PROVE  /\ a.node[q] = File(i) /\ 1 <= Len(a.data[i]) + 1
             /\ Len(f.data[i]) = Len(a.data[i]) + 1 - 1
             /\ g.data[to] = SubSeq(a.data[i], 1, 1 - 1)
  <2>1. Source(a, p, t.src, q)
    BY <1>0, <1>7, TaskDst DEF Source
  <2>2. Real(f, t.src) = {q} /\ f.node[q] = a.node[q]
    BY <2>1, SourceSame
  <2>3. a.node[q] = File(i)
    BY <1>3, <1>5, <2>2
  <2>4. f.data[i] = a.data[i] /\ a.data[i] \in Path
    BY <2>1, <2>3, SourceSame
  <2>5. Len(a.data[i]) \in Nat
    BY <2>4, LenProperties DEF Path
  <2>6. SubSeq(a.data[i], 1, 0) = <<>> /\ 1 - 1 = 0
    BY <2>4, NoneSub
  <2>7. SubSeq(a.data[i], 1, 1 - 1) = <<>>
    BY <2>6, Zenon
  <2> QED
    BY <1>2, <2>3, <2>4, <2>5, <2>7
<1> DEFINE k == Len(f.data[i])
<1>8. Blocks(o, t, i, to, 1, k, b)
  BY <1>0 DEF Blocks
<1> HIDE DEF k
<1>9. Blocked(o, t, i, to, 1, k, b)
  BY ONLY <1>8, BlockParts
<1>10. CopiedSoFar(a, p, g, t, i, to, 1, k)
  BY <1>2, <1>6, <1>7 DEF CopiedSoFar, k
<1> QED
  BY ONLY <1>9, <1>10, BlockAt

\* a block more is copied
Advances(a, o, p, f, t, g, b) ==
  /\ Job(a, o, p) /\ Grown(f, a, o, p) /\ TaskOf(o, t) /\ t.op = "block"
  /\ BlockOK(a, p, f, t) /\ t.at <= Len(f.data[t.in])
  /\ g = append(f, t.to, f.data[t.in][t.at])
  /\ b = Block(t, t.in, t.to, t.at + 1, t.left - 1)

LEMMA BlockGoesOn ==
  ASSUME NEW a, NEW o, NEW p, NEW f, NEW t, NEW g, NEW b, Advances(a, o, p, f, t, g, b)
  PROVE  /\ BlockOK(a, p, g, b) /\ \E y : Wrote(a, o, p, f, g, y, t.to) /\ t.dst = o.target \o y
<1>h. /\ Job(a, o, p) /\ Grown(f, a, o, p) /\ TaskOf(o, t) /\ t.op = "block"
      /\ BlockOK(a, p, f, t) /\ t.at <= Len(f.data[t.in])
      /\ g = append(f, t.to, f.data[t.in][t.at])
      /\ b = Block(t, t.in, t.to, t.at + 1, t.left - 1)
  BY DEF Advances
<1> USE <1>h
<1> DEFINE i == t.in
           to == t.to
           k == t.at
           e == f.data[i]
           v == Append(f.data[to], e[k])
<1>0. o.target \in Path /\ p \in Path /\ t.op \in Fillers
  BY JobParts DEF Fillers, Copies
<1>1. PICK y : Clear(y) /\ t.dst = o.target \o y
  BY <1>0, TaskDst
<1>2. /\ i \in DOMAIN f.data /\ k \in Nat \ {0}
      /\ \A q \in Real(a, t.src) \cap DOMAIN a.node : Off(p, q) =>
           /\ a.node[q] = File(i) /\ k <= Len(a.data[i]) + 1
           /\ t.left = Len(a.data[i]) + 1 - k
           /\ f.data[to] = SubSeq(a.data[i], 1, k - 1)
  BY DEF BlockOK
<1>3. PICK x \in Real(f, t.dst) \cap DOMAIN f.node : f.node[x] = File(to)
  BY DEF BlockOK
<1>4. x = p \o y /\ Under(p, x)
  <2>1. Real(f, o.target \o y) \subseteq {p \o y} /\ y \in Path
    BY <1>1, Places DEF Clear
  <2>2. x = p \o y
    BY <1>1, <1>3, <2>1
  <2> QED
    BY <1>0, <2>1, <2>2, UnderAhead
<1>5. IsTree(f) /\ LinksOk(f) /\ f.data \in Seq(Seq(STRING)) /\ DOMAIN f.data = 1..Len(f.data)
      /\ Len(f.data) \in Nat
  <2>1. IsTree(f) /\ LinksOk(f)
    BY GrownParts
  <2> QED
    BY <2>1, LenProperties DEF IsTree
<1>6. to \in DOMAIN f.data
  <2>1. f.node[x].kind = "file"
    BY <1>3 DEF File
  <2>2. PICK j \in DOMAIN f.data : f.node[x] = File(j)
    BY <1>3, <1>5, <2>1, FileNode
  <2> QED
    BY <1>3, <2>2 DEF File
<1>7. e \in Seq(STRING) /\ f.data[to] \in Seq(STRING)
  BY <1>2, <1>5, <1>6, ElementOfSeq
<1>8. e[k] \in STRING
  <2>1. k \in 1..Len(e)
    BY <1>2, <1>7, LenProperties
  <2> QED
    BY <1>7, <2>1, ElementOfSeq
<1>9. v \in Seq(STRING)
  BY <1>7, <1>8, AppendIn DEF Path
<1>10. g = Tree(f.node, [f.data EXCEPT ![to] = v])
  BY DEF append
<1> HIDE DEF v
<1>11. Writes(a, o, p, f, x, to, v, g)
  BY <1>3, <1>4, <1>9, <1>10 DEF Writes
<1>12. /\ Grown(g, a, o, p) /\ g.node = f.node /\ g.data[to] = v /\ Len(g.data) = Len(f.data)
       /\ \A j \in DOMAIN f.data : j # to => g.data[j] = f.data[j]
  BY <1>11, WriteGrown
<1>13. Extends(g, f) /\ Len(f.data) <= Len(g.data)
  BY <1>5, <1>12 DEF Extends
<1>14. Wrote(a, o, p, f, g, y, to)
  BY <1>1, <1>3, <1>4, <1>12, <1>13 DEF Wrote
<1>15. x \in Real(g, t.dst) \cap DOMAIN g.node /\ g.node[x] = File(to)
  <2>1. LinksOk(g) /\ t.dst \in Path
    BY <1>0, <1>12, GrownParts, TaskDst
  <2> QED
    BY <1>3, <1>5, <1>13, <2>1, StillLeads
<1>16. i \in DOMAIN g.data
  <2>1. g.data \in Seq(Seq(STRING))
    BY <1>12 DEF Grown, IsTree
  <2> QED
    BY <1>2, <1>5, <1>12, <2>1, LenProperties
<1>17. ASSUME NEW q \in Real(a, t.src) \cap DOMAIN a.node, Off(p, q)
       PROVE  /\ a.node[q] = File(i) /\ k + 1 <= Len(a.data[i]) + 1
              /\ t.left - 1 = Len(a.data[i]) + 1 - (k + 1)
              /\ g.data[to] = SubSeq(a.data[i], 1, (k + 1) - 1)
  <2> DEFINE d == a.data[i]
  <2>1. Source(a, p, t.src, q)
    BY <1>0, <1>17, TaskDst DEF Source
  <2>2. a.node[q] = File(i) /\ t.left = Len(d) + 1 - k /\ f.data[to] = SubSeq(d, 1, k - 1)
    BY <1>2, <1>17
  <2>3. e = d /\ d \in Path
    BY <2>1, <2>2, SourceSame
  <2>4. Len(d) \in Nat
    BY <2>3, LenProperties DEF Path
  <2>5. k \in 1..Len(d)
    BY <1>2, <2>3, <2>4
  <2>6. Append(SubSeq(d, 1, k - 1), d[k]) = SubSeq(d, 1, k)
    BY <2>3, <2>5, OneMoreBlock
  <2>7. v = SubSeq(d, 1, k)
    BY <2>2, <2>3, <2>6, Zenon DEF v
  <2>8. k + 1 <= Len(d) + 1 /\ t.left - 1 = Len(d) + 1 - (k + 1) /\ (k + 1) - 1 = k
    <3> DEFINE n == Len(d)
               m == t.left
    <3>1. k \in Nat /\ n \in Nat /\ k <= n /\ m = n + 1 - k
      BY <1>2, <2>2, <2>4, <2>5
    <3> HIDE DEF k, n, m
    <3>2. k + 1 <= n + 1 /\ m - 1 = n + 1 - (k + 1) /\ (k + 1) - 1 = k
      BY ONLY <3>1
    <3> QED
      BY <3>2 DEF n, m
  <2>9. g.data[to] = SubSeq(d, 1, (k + 1) - 1)
    BY <1>12, <2>7, <2>8, Zenon
  <2> QED
    BY <2>2, <2>8, <2>9
<1>20. k + 1 \in Nat \ {0}
  BY <1>2
<1> DEFINE l == k + 1
           m == t.left - 1
<1>18. Blocks(o, t, i, to, l, m, b)
  BY <1>0 DEF Blocks
<1>22. CopiedSoFar(a, p, g, t, i, to, l, m)
  BY <1>15, <1>16, <1>17, <1>20 DEF CopiedSoFar
<1> HIDE DEF i, to, k, e, l, m
<1>19. Blocked(o, t, i, to, l, m, b)
  BY ONLY <1>18, BlockParts
<1>21. BlockOK(a, p, g, b)
  BY ONLY <1>19, <1>22, BlockAt
<1> QED
  BY <1>1, <1>14, <1>21 DEF to

\* the last block is copied
LEMMA BlockEnds ==
  ASSUME NEW a, NEW o, NEW p, Job(a, o, p), NEW f, Grown(f, a, o, p), NEW t, TaskOf(o, t),
         t.op = "block", BlockOK(a, p, f, t), t.left = 0 \/ t.at > Len(f.data[t.in]),
         NEW w, NEW c, Due(a, p, t, w, c)
  PROVE  Present(f, w, c)
<1>0. o.target \in Path /\ t.op \in Fillers /\ t.op \in Copies /\ IsTree(f)
  BY JobParts, GrownParts DEF Fillers, Copies
<1>1. PICK q, z, i : DueFrom(a, p, t, w, c, q, z, i)
  BY <1>0, DueSource
<1>2. /\ Source(a, p, t.src, q) /\ z \in Path /\ w = t.dst \o z
      /\ c = a.data[i] /\ ((z = <<>> /\ a.node[q] = File(i)) \/ a.node[q] = Dir)
  BY <1>1 DEF DueFrom
<1>3. /\ a.node[q] = File(t.in) /\ t.at <= Len(a.data[t.in]) + 1
      /\ t.left = Len(a.data[t.in]) + 1 - t.at
      /\ f.data[t.to] = SubSeq(a.data[t.in], 1, t.at - 1)
  BY <1>2 DEF BlockOK, Source
<1>4. z = <<>> /\ t.in = i
  BY <1>2, <1>3 DEF File, Dir
<1>5. w = t.dst
  <2>1. t.dst \in Path
    BY <1>0, TaskDst
  <2> QED
    BY <1>2, <1>4, <2>1, NothingAhead
<1> DEFINE d == a.data[t.in]
<1>6. f.data[t.in] = d /\ d \in Path /\ c = d
  BY <1>2, <1>3, <1>4, SourceSame
<1>7. t.at \in Nat \ {0} /\ Len(d) \in Nat
  BY <1>6, LenProperties DEF BlockOK, Path
<1>8. t.at - 1 = Len(d)
  BY <1>3, <1>6, <1>7
<1>9. SubSeq(d, 1, Len(d)) = d
  BY <1>6, WholeSub
<1>10. f.data[t.to] = c
  BY <1>3, <1>6, <1>8, <1>9, Zenon
<1>11. PICK x \in Real(f, t.dst) \cap DOMAIN f.node : f.node[x] = File(t.to)
  BY DEF BlockOK
<1>12. t.to \in DOMAIN f.data
  <2>1. f.node[x].kind = "file"
    BY <1>11 DEF File
  <2>2. PICK j \in DOMAIN f.data : f.node[x] = File(j)
    BY <1>0, <1>11, <2>1, FileNode
  <2> QED
    BY <1>11, <2>2 DEF File
<1> QED
  BY <1>5, <1>10, <1>11, <1>12 DEF Present

-----------------------------------------------------------------------------
(* The actions that write.                                                 *)

LEMMA OneDue ==
  ASSUME NEW a, NEW p, NEW t, NEW b, NEW u, u = <<b>>,
         \A w, c : Due(a, p, t, w, c) => Due(a, p, b, w, c)
  PROVE  \A w, c : Due(a, p, t, w, c) => \E k \in 1..Len(u) : Due(a, p, u[k], w, c)
<1>1. Len(u) = 1 /\ u[1] = b
  OBVIOUS
<1>2. 1 \in 1..Len(u)
  BY <1>1
<1> QED
  BY <1>1, <1>2

\* a copy goes on as a block of it: what was due is due
LEMMA BlockDue ==
  ASSUME NEW a, NEW o, NEW p, Job(a, o, p), NEW t, TaskOf(o, t), t.op \in {"copy", "block"},
         NEW b, b.op = "block", b.src = t.src, b.dst = t.dst
  PROVE  \A w, c : Due(a, p, t, w, c) => Due(a, p, b, w, c)
<1> SUFFICES ASSUME NEW w, NEW c, Due(a, p, t, w, c) PROVE Due(a, p, b, w, c)
  OBVIOUS
<1>1. t.op \in Copies /\ b.op \in Copies
  BY DEF Copies
<1>2. PICK q, z, i : DueFrom(a, p, t, w, c, q, z, i)
  BY <1>1, DueSource
<1> QED
  BY <1>1, <1>2, DueAgain

\* the block b takes the place of Do
LEMMA BlockNow ==
  ASSUME NEW p, Job(first, opts, p), Now(p), plan # <<>>, status = "running",
         TaskOf(opts, Do), Do.op \in {"copy", "block"}, UNCHANGED <<first, opts, hushed>>,
         NEW i, NEW to, NEW at, NEW k, NEW b, Blocked(opts, Do, i, to, at, k, b),
         BlockOK(first, p, rfs', b), NEW u, u = <<b>>, Goes(u),
         NEW y, Wrote(first, opts, p, rfs, rfs', y, to), Do.dst = opts.target \o y
  PROVE  Now(p)'
<1>1. /\ b.op = "block" /\ b.src = Do.src /\ b.dst = Do.dst /\ Turn(opts, Do, u)
      /\ u[1] = b /\ u # <<>>
  BY DEF Blocked
<1>2. \A w, c : Due(first, p, Do, w, c) => Due(first, p, b, w, c)
  BY <1>1, BlockDue
<1>3. \A w, c : Due(first, p, Do, w, c) => \E j \in 1..Len(u) : Due(first, p, u[j], w, c)
  BY <1>2, OneDue
<1>4. Do.op \in Fillers /\ Do = Head(plan)
  BY DEF Fillers, Copies, Do
<1>5. Yields(first, opts, p, rfs, plan, u, rfs')
  BY <1>3, <1>4, WroteYields
<1>6. Grown(rfs', first, opts, p) /\ Extends(rfs', rfs)
  BY DEF Wrote
<1> QED
  BY <1>1, <1>5, <1>6, GoesNow

LEMMA CopyFileOpenReady ==
  ASSUME NEW p, Job(first, opts, p), Now(p), CopyFileOpen
  PROVE  Now(p)'
<1>0. /\ plan # <<>> /\ Do.op = "copy" /\ TaskOf(opts, Do) /\ status = "running"
      /\ Grown(rfs, first, opts, p) /\ UNCHANGED <<first, opts, hushed>>
      /\ opts.target \in Path
  <2>1. Doing("copy")
    BY DEF CopyFileOpen
  <2> QED
    BY <2>1, DoParts DEF CopyFileOpen, Steady
<1>1. PICK y : Clear(y) /\ Do.dst = opts.target \o y
  <2>1. Do.op \in Fillers
    BY <1>0 DEF Fillers, Copies
  <2> QED
    BY <1>0, <2>1, TaskDst
<1>2. ASSUME NEW n \in stat(rfs, Do.src), n.kind = "file",
             NEW x \in open_trunc(rfs, Do.dst, TRUE), rfs' = x[1],
             Goes(<<Block(Do, n.ino, x[2], 1, Len(rfs.data[n.ino]))>>)
      PROVE  Now(p)'
  <2> DEFINE i == n.ino
             to == x[2]
             k == Len(rfs.data[i])
             b == Block(Do, i, to, 1, k)
             u == <<b>>
  <2>1. Opens(first, opts, p, rfs, y, Do.dst, rfs', to)
    BY <1>0, <1>1, <1>2 DEF Opens
  <2>2. Blocks(opts, Do, i, to, 1, k, b)
    BY <1>0 DEF Blocks
  <2>3. i = n.ino /\ b = Block(Do, i, to, 1, Len(rfs.data[i])) /\ Goes(u) /\ u = <<b>>
    BY <1>2
  <2> HIDE DEF u, b, k, to, i
  <2>4. Opened(first, opts, p, rfs, y, Do.dst, rfs', to)
    BY ONLY <2>1, OpenWrote
  <2>5. Blocked(opts, Do, i, to, 1, k, b)
    BY ONLY <2>2, BlockParts
  <2>6. BlockOK(first, p, rfs', b)
    BY <1>0, <1>2, <2>3, <2>4, BlockStarts
  <2>7. Wrote(first, opts, p, rfs, rfs', y, to)
    BY <2>4 DEF Opened
  <2> QED
    BY <1>0, <1>1, <2>3, <2>5, <2>6, <2>7, BlockNow
<1>3. CASE fail /\ rfs' = rfs
  <2>1. Grown(rfs', first, opts, p)
    BY <1>0, <1>3
  <2> QED
    BY <1>0, <1>3, <2>1, FailNow
<1>4. \/ \E n \in stat(rfs, Do.src), x \in open_trunc(rfs, Do.dst, TRUE) :
           /\ n.kind = "file" /\ rfs' = x[1]
           /\ Goes(<<Block(Do, n.ino, x[2], 1, Len(rfs.data[n.ino]))>>)
      \/ fail /\ rfs' = rfs
  BY DEF CopyFileOpen, Block
<1> QED
  BY <1>2, <1>3, <1>4

IsBlock(t) ==
  t = [op |-> "block", src |-> t.src, dst |-> t.dst,
       in |-> t.in, to |-> t.to, at |-> t.at, left |-> t.left]

LEMMA NextBlock ==
  ASSUME NEW t, IsBlock(t), NEW x, NEW y
  PROVE  [t EXCEPT !.at = x, !.left = y] = Block(t, t.in, t.to, x, y)
<1>0. t = [op |-> "block", src |-> t.src, dst |-> t.dst,
           in |-> t.in, to |-> t.to, at |-> t.at, left |-> t.left]
  BY DEF IsBlock
<1> DEFINE e == [t EXCEPT !.at = x, !.left = y]
<1>1. DOMAIN t = {"op", "src", "dst", "in", "to", "at", "left"}
  BY <1>0
<1>2. DOMAIN e = DOMAIN t /\ e = [n \in DOMAIN e |-> e[n]]
  OBVIOUS
<1>3. /\ e.op = "block" /\ e.src = t.src /\ e.dst = t.dst /\ e.in = t.in /\ e.to = t.to
      /\ e.at = x /\ e.left = y
  BY <1>0
<1> HIDE DEF e
<1>4. e = [op |-> "block", src |-> t.src, dst |-> t.dst,
           in |-> t.in, to |-> t.to, at |-> x, left |-> y]
  BY <1>1, <1>2, <1>3
<1> QED
  BY <1>4 DEF e, Block

LEMMA CopyFileBlockReady ==
  ASSUME NEW p, Job(first, opts, p), Now(p), CopyFileBlock
  PROVE  Now(p)'
<1>0. /\ plan # <<>> /\ Do.op = "block" /\ TaskOf(opts, Do) /\ status = "running"
      /\ Grown(rfs, first, opts, p) /\ UNCHANGED <<first, opts>>
      /\ opts.target \in Path /\ BlockOK(first, p, rfs, Do)
  <2>1. Doing("block")
    BY DEF CopyFileBlock
  <2> QED
    BY <2>1, DoParts DEF CopyFileBlock, Steady
<1>a. Turn(opts, Do, <<>>) /\ Do.op # "mkdir" /\ Do.op # "link" /\ Do = Head(plan)
  BY <1>0, TurnNone DEF Do
<1>1. CASE /\ Do.left = 0 \/ Do.at > Len(rfs.data[Do.in])
           /\ Goes(<<>>) /\ UNCHANGED <<rfs, hushed>>
  <2>1. \A w, c : Due(first, p, Do, w, c) => Present(rfs, w, c)
    BY <1>0, <1>1, BlockEnds
  <2>2. Yields(first, opts, p, rfs, plan, <<>>, rfs)
    BY <1>a, <2>1 DEF Yields
  <2>3. Grown(rfs', first, opts, p) /\ Extends(rfs', rfs) /\ Yields(first, opts, p, rfs, plan, <<>>, rfs')
    BY <1>0, <1>1, <2>2 DEF Extends
  <2> QED
    BY <1>0, <1>1, <1>a, <2>3, GoesNow
<1>2. CASE /\ ~(Do.left = 0 \/ Do.at > Len(rfs.data[Do.in]))
           /\ rfs' = append(rfs, Do.to, rfs.data[Do.in][Do.at])
           /\ Goes(<<[Do EXCEPT !.at = @ + 1, !.left = @ - 1]>>) /\ UNCHANGED hushed
  <2> DEFINE i == Do.in
             to == Do.to
             at == Do.at + 1
             k == Do.left - 1
             b == [Do EXCEPT !.at = @ + 1, !.left = @ - 1]
             u == <<b>>
  <2>1. b = Block(Do, i, to, at, k)
    <3> HIDE DEF at, k
    <3>1. IsBlock(Do) /\ b = [Do EXCEPT !.at = at, !.left = k]
      BY <1>0 DEF BlockOK, IsBlock, at, k
    <3> HIDE DEF b
    <3>2. b = Block(Do, Do.in, Do.to, at, k)
      BY ONLY <3>1, NextBlock
    <3> QED
      BY <3>2
  <2>2. Goes(u) /\ u = <<b>>
    BY <1>2
  <2> HIDE DEF b
  <2>3. Blocks(opts, Do, i, to, at, k, b)
    BY <1>0, <2>1 DEF Blocks
  <2>4. Do.at <= Len(rfs.data[Do.in])
    <3>1. Do.at \in Nat /\ Do.in \in DOMAIN rfs.data /\ IsTree(rfs)
      BY <1>0 DEF BlockOK, Grown
    <3>2. Len(rfs.data[Do.in]) \in Nat
      <4>1. rfs.data \in Seq(Seq(STRING))
        BY <3>1 DEF IsTree
      <4>2. rfs.data[Do.in] \in Seq(STRING)
        BY <3>1, <4>1, LenProperties, ElementOfSeq
      <4> QED
        BY <4>2, LenProperties
    <3> QED
      BY <1>2, <3>1, <3>2
  <2>5. /\ BlockOK(first, p, rfs', b)
        /\ \E y : Wrote(first, opts, p, rfs, rfs', y, Do.to) /\ Do.dst = opts.target \o y
    <3>1. Advances(first, opts, p, rfs, Do, rfs', b)
      BY <1>0, <1>2, <2>1, <2>4 DEF Advances
    <3> QED
      BY ONLY <3>1, BlockGoesOn
  <2>6. PICK y : Wrote(first, opts, p, rfs, rfs', y, to) /\ Do.dst = opts.target \o y
    BY <2>5
  <2> HIDE DEF i, to, at, k, u
  <2>7. Blocked(opts, Do, i, to, at, k, b)
    BY ONLY <2>3, BlockParts
  <2> QED
    BY <1>0, <1>2, <2>2, <2>5, <2>6, <2>7, BlockNow
<1>3. CASE fail /\ UNCHANGED rfs
  <2>1. Grown(rfs', first, opts, p)
    BY <1>0, <1>3
  <2> QED
    BY <1>0, <1>3, <2>1, FailNow
<1>4. CASE Goes(<<>>) /\ hushed' = TRUE /\ UNCHANGED rfs
  <2>1. Grown(rfs', first, opts, p) /\ Extends(rfs', rfs)
    BY <1>0, <1>4 DEF Extends
  <2> QED
    BY <1>0, <1>4, <1>a, <2>1, GoesNow
<1> QED
  BY <1>1, <1>2, <1>3, <1>4 DEF CopyFileBlock

LEMMA TextIn == ASSUME NEW w \in Path, w # <<>> PROVE text(w) \in Seq(STRING)
<1>1. Last(w) \in STRING
  BY FrontIn
<1>2. <<Last(w)>> \in Seq(STRING)
  BY <1>1, Single
<1>3. <<>> \in Seq(STRING)
  OBVIOUS
<1> QED
  BY <1>2, <1>3 DEF text

LEMMA write_fileReady ==
  ASSUME NEW p, Job(first, opts, p), Now(p), write_file
  PROVE  Now(p)'
<1> DEFINE d == Do.dst
           v == text(d)
<1>0. /\ plan # <<>> /\ Do.op = "text" /\ TaskOf(opts, Do) /\ status = "running"
      /\ Grown(rfs, first, opts, p) /\ UNCHANGED <<first, opts, hushed>>
      /\ opts.target \in Path
  <2>1. Doing("text")
    BY DEF write_file
  <2> QED
    BY <2>1, DoParts DEF write_file, Steady
<1>1. PICK y : Clear(y) /\ d = opts.target \o y
  <2>1. Do.op \in Fillers
    BY <1>0 DEF Fillers
  <2> QED
    BY <1>0, <2>1, TaskDst
<1>2. v \in Seq(STRING)
  <2>1. d \in Path /\ d # <<>>
    BY <1>0, <1>1, FrontAhead, ConcatParts DEF Clear
  <2> QED
    BY <2>1, TextIn
<1>3. ASSUME NEW x \in open_trunc(rfs, d, TRUE)
      PROVE  Opened(first, opts, p, rfs, y, d, x[1], x[2])
  <2> DEFINE g == x[1]
             i == x[2]
  <2>1. Opens(first, opts, p, rfs, y, d, g, i)
    BY <1>0, <1>1 DEF Opens
  <2> HIDE DEF g, i
  <2>2. Opened(first, opts, p, rfs, y, d, g, i)
    BY ONLY <2>1, OpenWrote
  <2> QED
    BY <2>2 DEF g, i
<1> HIDE DEF v, d
<1>4. ASSUME NEW x \in open_trunc(rfs, d, TRUE), rfs' = [x[1] EXCEPT !.data[x[2]] = v], Goes(<<>>)
      PROVE  Now(p)'
  <2> DEFINE g == x[1]
             i == x[2]
             h == rfs'
             r == p \o y
  <2>0. Opened(first, opts, p, rfs, y, d, g, i) /\ h = [g EXCEPT !.data[i] = v]
    BY <1>3, <1>4
  <2> HIDE DEF g, i, h, r
  <2>1. /\ Wrote(first, opts, p, rfs, g, y, i) /\ i \in DOMAIN g.data
        /\ r \in Real(g, d) \cap DOMAIN g.node /\ g.node[r] = File(i) /\ Under(p, r)
        /\ g = Tree(g.node, g.data)
    BY <2>0 DEF Opened, r
  <2>2. h = Tree(g.node, [g.data EXCEPT ![i] = v])
    BY <2>0, <2>1, SetData
  <2>3. Grown(g, first, opts, p) /\ Extends(g, rfs) /\ Len(rfs.data) <= Len(g.data)
        /\ \A j \in DOMAIN rfs.data : j # i => g.data[j] = rfs.data[j]
    BY <2>1 DEF Wrote
  <2>4. Writes(first, opts, p, g, r, i, v, h)
    BY <1>2, <2>1, <2>2, <2>3 DEF Writes
  <2>5. /\ Grown(h, first, opts, p) /\ h.node = g.node /\ h.data[i] = v /\ Len(h.data) = Len(g.data)
        /\ \A j \in DOMAIN g.data : j # i => h.data[j] = g.data[j]
    BY ONLY <2>4, WriteGrown
  <2>6. Extends(h, g) /\ Extends(h, rfs)
    BY <2>3, <2>5 DEF Extends
  <2>7. /\ IsTree(rfs) /\ IsTree(g) /\ IsTree(h) /\ LinksOk(g) /\ LinksOk(h) /\ d \in Path
        /\ Len(rfs.data) \in Nat /\ DOMAIN rfs.data = 1..Len(rfs.data)
        /\ Len(g.data) \in Nat /\ DOMAIN g.data = 1..Len(g.data)
        /\ DOMAIN h.data = 1..Len(h.data)
    <3>1. IsTree(rfs) /\ IsTree(g) /\ IsTree(h) /\ LinksOk(g) /\ LinksOk(h)
      BY <1>0, <2>3, <2>5, GrownParts
    <3>2. d \in Path
      BY <1>0, TaskDst DEF d
    <3> QED
      BY <3>1, <3>2, LenProperties DEF IsTree
  <2>8. Wrote(first, opts, p, rfs, h, y, i)
    <3>1. \A j \in DOMAIN rfs.data : j # i => h.data[j] = rfs.data[j]
      BY <2>3, <2>5, <2>7
    <3>2. Len(rfs.data) <= Len(h.data)
      BY <2>3, <2>5
    <3>3. p \o y \in DOMAIN h.node /\ h.node[p \o y] = File(i)
      BY <2>1, <2>5 DEF r
    <3> QED
      BY <1>0, <1>1, <2>5, <2>6, <3>1, <3>2, <3>3 DEF Wrote
  <2>9. r \in Real(h, d) /\ r \in DOMAIN h.node /\ h.node[r] = File(i) /\ i \in DOMAIN h.data
    <3>1. r \in Real(h, d) /\ r \in DOMAIN h.node /\ h.node[r] = File(i)
      BY <2>1, <2>6, <2>7, StillLeads
    <3> QED
      BY <2>1, <2>5, <2>7, <3>1
  <2>10. ASSUME NEW w, NEW c, Due(first, p, Do, w, c) PROVE Present(h, w, c)
    <3>1. PICK z \in Path : w = d \o z /\ z = <<>> /\ c = v
      BY <1>0, <2>10 DEF Due, Copies, d, v
    <3>2. w = d
      BY <2>7, <3>1, NothingAhead
    <3> QED
      BY <2>5, <2>9, <3>1, <3>2 DEF Present
  <2>11. Do.op \in Fillers /\ Do = Head(plan) /\ Do.dst = opts.target \o y
    BY <1>0, <1>1 DEF Fillers, Do, d
  <2>12. Yields(first, opts, p, rfs, plan, <<>>, h)
    BY <2>8, <2>10, <2>11, WroteYields
  <2>13. /\ Yields(first, opts, p, rfs, plan, <<>>, rfs') /\ Grown(rfs', first, opts, p)
         /\ Extends(rfs', rfs)
    BY <2>5, <2>6, <2>12 DEF h
  <2>14. Turn(opts, Do, <<>>)
    BY TurnNone
  <2> QED
    BY <1>0, <1>4, <2>13, <2>14, GoesNow
<1>5. ASSUME NEW x \in open_trunc(rfs, d, TRUE), rfs' = x[1], fail
      PROVE  Now(p)'
  <2>1. Opened(first, opts, p, rfs, y, d, rfs', x[2])
    BY <1>3, <1>5
  <2>2. Grown(rfs', first, opts, p)
    BY <2>1 DEF Opened, Wrote
  <2> QED
    BY <1>0, <1>5, <2>2, FailNow
<1>6. CASE fail /\ UNCHANGED rfs
  <2>1. Grown(rfs', first, opts, p)
    BY <1>0, <1>6
  <2> QED
    BY <1>0, <1>6, <2>1, FailNow
<1> QED
  BY <1>4, <1>5, <1>6 DEF write_file, v, d

LEMMA AgainReady ==
  ASSUME NEW p, Job(first, opts, p), Now(p), Again
  PROVE  Now(p)'
<1>1. Grown(rfs, first, opts, p)
  BY DEF Now, Ready, Going
<1>2. Ready(first, opts, p, rfs, Steps(opts), "running", FALSE)
  BY <1>1, FreshReady
<1>3. /\ plan' = Steps(opts) /\ status' = "running" /\ hushed' = FALSE
      /\ first' = first /\ rfs' = rfs /\ opts' = opts
  BY DEF Again
<1> QED
  BY <1>2, <1>3 DEF Now

-----------------------------------------------------------------------------
(* Whole.                                                                  *)

RootInv ==
  /\ first \in Hosts /\ opts \in Options
  /\ ~is_dir(first, opts.target) => rfs = first /\ status = "failed"
  /\ status = "deployed" => plan = <<>>
  /\ \A p : Job(first, opts, p) => Now(p)

LEMMA JobIsDir == ASSUME NEW a, NEW o, NEW p, Job(a, o, p) PROVE is_dir(a, o.target)
BY IsDirAt DEF Job

LEMMA RootStarts == RootInit => RootInv
<1> SUFFICES ASSUME RootInit PROVE RootInv
  OBVIOUS
<1>1. /\ first \in Hosts /\ opts \in Options /\ rfs = first /\ hushed = FALSE
      /\ plan = IF is_dir(first, opts.target) THEN Steps(opts) ELSE <<>>
      /\ status = IF is_dir(first, opts.target) THEN "running" ELSE "failed"
  BY DEF RootInit
<1>2. ASSUME NEW p, Job(first, opts, p) PROVE Now(p)
  <2>1. is_dir(first, opts.target)
    BY <1>2, JobIsDir
  <2>2. Grown(first, first, opts, p)
    BY <1>2, GrownStarts
  <2>3. Ready(first, opts, p, first, Steps(opts), "running", FALSE)
    BY <1>2, <2>2, FreshReady
  <2>4. plan = Steps(opts) /\ status = "running"
    BY <1>1, <2>1
  <2> QED
    BY <1>1, <2>3, <2>4 DEF Now
<1> QED
  BY <1>1, <1>2 DEF RootInv

\* an installation ends when nothing is left to be done
LEMMA PathSteps ==
  ASSUME NEW w, NEW u, make_path(w, Goes(u)), status = "running"
  PROVE  status' = "deployed" => plan' = <<>>
BY DEF make_path, Goes, fail

LEMMA RootSteps ==
  ASSUME RootNext, status = "deployed" => plan = <<>>
  PROVE  /\ UNCHANGED <<first, opts>> /\ (status' = "deployed" => plan' = <<>>)
         /\ \/ status = "running"
            \/ is_dir(rfs, opts.target) /\ Again
<1>1. CASE MakeDir
  BY <1>1, PathSteps DEF MakeDir, Doing, Steady
<1>2. CASE make_symlink
  BY <1>2 DEF make_symlink, Doing, Steady, Goes
<1>3. CASE CopyTree
  BY <1>3, PathSteps DEF CopyTree, Doing, Steady, Goes
<1>4. CASE ListDir
  BY <1>4 DEF ListDir, Doing, Steady, Goes
<1>5. CASE CopyEntry
  BY <1>5 DEF CopyEntry, Doing, Steady, Goes
<1>6. CASE CopyFileOpen
  BY <1>6 DEF CopyFileOpen, Doing, Steady, Goes, fail
<1>7. CASE CopyFileBlock
  BY <1>7 DEF CopyFileBlock, Doing, Steady, Goes, fail
<1>8. CASE write_file
  BY <1>8 DEF write_file, Doing, Steady, Goes, fail
<1>9. CASE Again
  BY <1>9 DEF Again
<1> QED
  BY <1>1, <1>2, <1>3, <1>4, <1>5, <1>6, <1>7, <1>8, <1>9 DEF RootNext

LEMMA NowGoesOn ==
  ASSUME NEW p, Job(first, opts, p), Now(p), RootNext
  PROVE  Now(p)'
BY MakeDirReady, LinkReady, CopyTreeReady, ListDirReady, CopyEntryReady, CopyFileOpenReady,
   CopyFileBlockReady, write_fileReady, AgainReady DEF RootNext

LEMMA RootGoesOn == RootInv /\ [RootNext]_rootVars => RootInv'
<1> SUFFICES ASSUME RootInv, [RootNext]_rootVars PROVE RootInv'
  OBVIOUS
<1>0. /\ first \in Hosts /\ opts \in Options
      /\ ~is_dir(first, opts.target) => rfs = first /\ status = "failed"
      /\ status = "deployed" => plan = <<>>
      /\ \A p : Job(first, opts, p) => Now(p)
  BY DEF RootInv
<1>1. CASE RootNext
  <2>1. /\ first' = first /\ opts' = opts /\ (status' = "deployed" => plan' = <<>>)
        /\ \/ status = "running"
           \/ is_dir(rfs, opts.target) /\ Again
    BY <1>0, <1>1, RootSteps
  <2>2. is_dir(first, opts.target)
    BY <1>0, <2>1
  <2>3. \A p : Job(first, opts, p) => Now(p)'
    BY <1>0, <1>1, NowGoesOn
  <2>4. is_dir(first', opts'.target) /\ \A p : Job(first', opts', p) => Now(p)'
    BY <2>1, <2>2, <2>3
  <2> QED
    BY <1>0, <2>1, <2>4 DEF RootInv
<1>2. CASE UNCHANGED rootVars
  <2>1. /\ first' = first /\ opts' = opts /\ rfs' = rfs /\ status' = status /\ plan' = plan
        /\ hushed' = hushed
    BY <1>2 DEF rootVars
  <2>2. \A p : Now(p) => Now(p)'
    BY <2>1 DEF Now
  <2>3. /\ ~is_dir(first', opts'.target) => rfs' = first' /\ status' = "failed"
        /\ status' = "deployed" => plan' = <<>>
        /\ \A p : Job(first', opts', p) => Now(p)'
    BY <1>0, <2>1, <2>2
  <2> QED
    BY <1>0, <2>1, <2>3 DEF RootInv
<1> QED
  BY <1>1, <1>2

LEMMA NoneLeft ==
  ASSUME NEW a, NEW o, NEW p, NEW f, Underway(a, o, p, f, <<>>)
  PROVE  /\ \A k \in 1..Len(Steps(o)) : Steps(o)[k].op = "mkdir" => is_dir(f, Steps(o)[k].dst)
         /\ \A m \in Merged : LinkSet(p, f, m)
         /\ \A w, c : Goal(a, o, p, w, c) => Present(f, w, c)
<1> DEFINE s == <<>>
<1>1. Len(s) = 0
  OBVIOUS
<1>2. Underway(a, o, p, f, s)
  OBVIOUS
<1> HIDE DEF s
<1>3. 1..Len(s) = {}
  BY <1>1
<1> QED
  BY <1>2, <1>3 DEF Underway, DirsOK, LinksDone, FilesOK, Filled

LEMMA PresentFound ==
  ASSUME NEW f, NEW w, NEW c, Present(f, w, c)
  PROVE  \E n \in stat(f, w) : Found(f, n) = <<"file", c>>
<1>1. PICK r \in Real(f, w) \cap DOMAIN f.node, i \in DOMAIN f.data :
        f.node[r] = File(i) /\ f.data[i] = c
  BY DEF Present
<1>2. File(i) \in stat(f, w)
  BY <1>1 DEF stat
<1>3. File(i).kind = "file" /\ File(i).ino = i
  BY DEF File
<1>4. Found(f, File(i)) = <<"file", c>>
  BY <1>1, <1>3 DEF Found
<1> QED
  BY <1>2, <1>4

\* what is found at a place of a view
LEMMA ViewParts ==
  ASSUME NEW f, IsTree(f), NEW q \in Path, NEW x \in ViewAt(f, q), x[2][1] = "file"
  PROVE  \E i \in DOMAIN f.data :
           /\ x[1] \in Path /\ q \o x[1] \in DOMAIN f.node /\ f.node[q \o x[1]] = File(i)
           /\ x[2] = <<"file", f.data[i]>>
<1>1. PICK y \in Below(f, q) :
        x = <<SubSeq(y, Len(q) + 1, Len(y)), Found(f, f.node[y])>>
  BY DEF ViewAt
<1> DEFINE z == SubSeq(y, Len(q) + 1, Len(y))
           n == f.node[y]
           v == Found(f, n)
<1>2. x[1] = z /\ x[2] = v
  BY <1>1
<1>3. y \in DOMAIN f.node /\ Under(q, y) /\ y \in Path
  BY TreeParts DEF Below
<1>4. z \in Path /\ q \o z = y
  BY <1>3, SuffixParts
<1> HIDE DEF z, v
<1>5. v[1] = "file"
  BY <1>2
<1>6. n.kind = "file"
  <2>1. n = Dir \/ n.kind = "file" \/ n.kind = "link"
    <3>1. n = Dir \/ (\E i \in DOMAIN f.data : n = File(i)) \/ n.kind = "link"
      BY <1>3 DEF IsTree
    <3>2. \A i : File(i).kind = "file"
      BY DEF File
    <3> QED
      BY <3>1, <3>2
  <2>2. CASE n = Dir
    <3>1. v = <<"dir">>
      BY <2>2 DEF v, Found, Dir
    <3> QED
      BY <1>5, <3>1
  <2>3. CASE n.kind = "link"
    <3>1. v = <<"link", n.to>>
      BY <2>3 DEF v, Found
    <3> QED
      BY <1>5, <3>1
  <2> QED
    BY <2>1, <2>2, <2>3
<1>7. PICK i \in DOMAIN f.data : n = File(i)
  BY <1>3, <1>6, FileNode
<1>8. v = <<"file", f.data[i]>>
  BY <1>7 DEF v, Found, File
<1>9. q \o x[1] = y /\ x[1] \in Path
  BY <1>2, <1>4
<1> QED
  BY <1>2, <1>3, <1>7, <1>8, <1>9

\* the place of a name of the target is within the longest path
LEMMA RoomForLinks ==
  ASSUME NEW a, NEW o, NEW p, Job(a, o, p), NEW f, Grown(f, a, o, p),
         is_dir(f, o.target \o <<"boot", "grub">>), NEW m \in Merged
  PROVE  Len(In(p, m)) <= MaxDepth
<1> DEFINE y == <<"boot", "grub">>
<1>1. Clear(y) /\ y \in Path /\ Len(y) = 2
  <2>1. Clear(y)
    <3>1. 1 \in 1..14
      OBVIOUS
    <3>2. Clear(BaseDirs[1]) /\ BaseDirs[1] = y
      BY <3>1, BaseNames, Zenon
    <3> QED
      BY <3>2, Zenon
  <2> QED
    BY <2>1 DEF Clear
<1> HIDE DEF y
<1>2. PICK x \in Real(f, o.target \o y) : TRUE
  BY IsDirAt DEF y
<1>3. x \in Named(f, o.target \o y)
  BY <1>1, <1>2, Places
<1>4. x = p \o y /\ Len(x) <= MaxDepth
  BY <1>1, <1>3, NamedPlaces
<1>5. p \in Path /\ m \in Path /\ Len(m) = 1
  BY JobParts, MergeNames
<1>6. Len(x) = Len(p) + 2 /\ Len(In(p, m)) = Len(p) + 1 /\ Len(p) \in Nat
  <2>1. Len(p \o y) = Len(p) + 2 /\ Len(p) \in Nat
    <3>1. p \in Path /\ y \in Path
      BY <1>1, <1>5
    <3>2. Len(p \o y) = Len(p) + Len(y) /\ Len(p) \in Nat
      BY ONLY <3>1, ConcatParts
    <3> QED
      BY <1>1, <3>2
  <2>2. Len(p \o m) = Len(p) + 1
    BY <1>5, ConcatParts
  <2> QED
    BY <1>4, <2>1, <2>2, Zenon DEF In
<1> QED
  BY <1>4, <1>6, FileSysAssumption

LEMMA LinkThere ==
  ASSUME NEW a, NEW o, NEW p, Job(a, o, p), NEW f, Grown(f, a, o, p), NEW m \in Merged,
         Len(In(p, m)) <= MaxDepth, LinkSet(p, f, m), NEW w, w = In(o.target, m)
  PROVE  \/ lstat(f, w) = {Link(Beneath(o, m))}
         \/ lstat(f, w) = lstat(a, w) /\ lstat(a, w) # {}
<1> DEFINE x == In(p, m)
<1>1. Named(f, w) = {x} /\ Named(a, w) = {x}
  <2>1. Grown(a, a, o, p)
    BY GrownStarts
  <2> QED
    BY <2>1, LinkPlace
<1>2. x \in DOMAIN f.node
  <2>1. Len(x) \in Nat
    BY JobParts, MergeNames, ConcatParts DEF In
  <2> QED
    BY <2>1, FileSysAssumption DEF LinkSet
<1> HIDE DEF x
<1>3. lstat(f, w) = {f.node[x]}
  BY <1>1, <1>2 DEF lstat
<1>4. CASE x \in DOMAIN a.node
  <2>1. lstat(a, w) = {a.node[x]} /\ f.node[x] = a.node[x]
    BY <1>1, <1>4, GrownParts DEF lstat, Extends
  <2> QED
    BY <1>3, <2>1
<1>5. CASE x \notin DOMAIN a.node
  <2>1. f.node[x] = Link(Beneath(o, m))
    BY <1>2, <1>5 DEF Grown, x
  <2> QED
    BY <1>3, <2>1
<1> QED
  BY <1>4, <1>5

\* the places Separate is about are those of a job
LEMMA SeparateParts ==
  ASSUME first \in Hosts, opts \in Options, Separate, is_dir(first, opts.target)
  PROVE  \E p : /\ Job(first, opts, p)
                /\ \A s \in Origins : \A q \in Real(first, s) : Off(p, q)
<1>1. PICK p \in Real(first, opts.target) : p \in DOMAIN first.node /\ first.node[p] = Dir
  BY IsDirAt
<1>2. Job(first, opts, p)
  BY <1>1 DEF Job, Separate, Merged
<1>3. \A s \in Origins : \A q \in Real(first, s) : Off(p, q)
  BY <1>1 DEF Separate, Off
<1> QED
  BY <1>2, <1>3

LEMMA RootSays == RootInv => DeployedIsWhole
<1> SUFFICES ASSUME RootInv, status = "deployed", ~hushed, Separate,
                    NEW k \in 1..Len(Steps(opts))
             PROVE  Accomplished(Steps(opts)[k])
  BY DEF DeployedIsWhole
<1>0. /\ first \in Hosts /\ opts \in Options /\ is_dir(first, opts.target) /\ plan = <<>>
      /\ \A p : Job(first, opts, p) => Now(p)
  BY DEF RootInv
<1>1. PICK p : /\ Job(first, opts, p)
               /\ \A s \in Origins : \A q \in Real(first, s) : Off(p, q)
  BY <1>0, SeparateParts
<1>2. Grown(rfs, first, opts, p) /\ Underway(first, opts, p, rfs, <<>>)
  BY <1>0, <1>1 DEF Now, Ready, Going
<1>3. /\ \A i \in 1..Len(Steps(opts)) : Steps(opts)[i].op = "mkdir" => is_dir(rfs, Steps(opts)[i].dst)
      /\ \A m \in Merged : LinkSet(p, rfs, m)
      /\ \A w, c : Goal(first, opts, p, w, c) => Present(rfs, w, c)
  BY <1>2, NoneLeft
<1>4. /\ PlanOK(opts, Steps(opts)) /\ \A i \in 1..Len(Steps(opts)) : Steps(opts)[i].op \in Kinds
      /\ Has(Steps(opts), "mkdir", opts.target \o <<"boot", "grub">>)
  BY <1>0, StepsOK
<1> DEFINE t == Steps(opts)[k]
<1>5. TaskOf(opts, t) /\ t.op \in Kinds
  BY <1>4 DEF PlanOK
<1>6. \A w, c : Due(first, p, t, w, c) => Present(rfs, w, c)
  BY <1>3 DEF Goal
<1>7. t.op \in {"tree", "copy"} => t.src \in Origins
  <2>1. PICK S : Steps(opts) \in Seq(S)
    BY <1>4 DEF PlanOK
  <2>2. k \in DOMAIN Steps(opts)
    BY <2>1, LenProperties
  <2> QED
    BY <2>2 DEF Origins, ToSet
<1>8. t.op = "mkdir" => is_dir(rfs, t.dst)
  BY <1>3
<1> SUFFICES Accomplished(t)
  OBVIOUS
<1> HIDE DEF t
<1>9. opts.target \in Path /\ t.dst \in Path /\ IsTree(first)
  <2>1. opts.target \in Path /\ IsTree(first)
    BY <1>1, JobParts
  <2> QED
    BY <1>5, <2>1, TaskDst
<1>10. CASE t.op = "mkdir"
  BY <1>8, <1>10 DEF Accomplished
<1>11. CASE t.op = "link"
  <2>1. PICK m \in Merged : t.dst = In(opts.target, m) /\ t.src = Beneath(opts, m)
    BY <1>5, <1>11 DEF TaskOf, Fillers, Copies
  <2>2. is_dir(rfs, opts.target \o <<"boot", "grub">>)
    BY <1>3, <1>4 DEF Has
  <2>3. Len(In(p, m)) <= MaxDepth
    BY <1>1, <1>2, <2>2, RoomForLinks
  <2>4. \/ lstat(rfs, t.dst) = {Link(t.src)}
        \/ lstat(rfs, t.dst) = lstat(first, t.dst) /\ lstat(first, t.dst) # {}
    <3>1. Job(first, opts, p) /\ Grown(rfs, first, opts, p) /\ LinkSet(p, rfs, m)
      BY <1>1, <1>2, <1>3
    <3>2. \/ lstat(rfs, t.dst) = {Link(Beneath(opts, m))}
          \/ lstat(rfs, t.dst) = lstat(first, t.dst) /\ lstat(first, t.dst) # {}
      BY ONLY <2>1, <2>3, <3>1, m \in Merged, LinkThere
    <3> QED
      BY <2>1, <3>2
  <2> QED
    BY <1>11, <2>4 DEF Accomplished
<1>12. CASE t.op = "text"
  <2>1. t.dst \o <<>> = t.dst /\ <<>> \in Path
    BY <1>9, NothingAhead
  <2>2. Due(first, p, t, t.dst, text(t.dst))
    BY <1>12, <2>1 DEF Due
  <2>3. \E n \in stat(rfs, t.dst) : Found(rfs, n) = <<"file", text(t.dst)>>
    BY <1>6, <2>2, PresentFound
  <2> QED
    BY <1>12, <2>3 DEF Accomplished
<1>13. CASE t.op \in {"tree", "copy"}
  <2> SUFFICES ASSUME NEW q \in Real(first, t.src), t.op = "tree" => KindAt(first, q) = "dir",
                      NEW x \in ViewAt(first, q), x[2][1] = "file"
               PROVE  \E n \in stat(rfs, t.dst \o x[1]) : Found(rfs, n) = x[2]
    BY <1>13 DEF Accomplished
  <2>1. Off(p, q)
    BY <1>1, <1>7, <1>13
  <2>2. q \in Path
    <3>1. t.src \in Path
      BY <1>5, <1>9, <1>13, TaskDst DEF Fillers, Copies
    <3> QED
      BY <1>9, <3>1, RealIn, TreeParts
  <2>3. PICK i \in DOMAIN first.data :
          /\ x[1] \in Path /\ q \o x[1] \in DOMAIN first.node /\ first.node[q \o x[1]] = File(i)
          /\ x[2] = <<"file", first.data[i]>>
    BY <1>9, <2>2, ViewParts
  <2> DEFINE z == x[1]
             c == first.data[i]
             w == t.dst \o z
  <2>4. Sourced(first, p, t, z, c)
    BY <1>13, <2>1, <2>3 DEF Sourced
  <2>5. Due(first, p, t, w, c)
    BY <1>13, <2>3, <2>4 DEF Due, Copies
  <2>6. \E n \in stat(rfs, w) : Found(rfs, n) = <<"file", c>>
    BY <1>6, <2>5, PresentFound
  <2> QED
    BY <2>3, <2>6
<1> QED
  BY <1>5, <1>10, <1>11, <1>12, <1>13 DEF t, Kinds

(* cact-rootfs (main.c:214) says "skeleton deployed" only when the whole   *)
(* of it is there: every directory, every link, every text and a copy of   *)
(* every file it was asked to copy, as it was before.  It is so on a fresh *)
(* target and on what any number of killed or failed installations left    *)
(* behind, whichever call failed, for every file system, every source and  *)
(* target that are Separate, and every number and depth of links.          *)
THEOREM DeployedIsWholeHolds == RootSpec => []DeployedIsWhole
BY RootStarts, RootGoesOn, RootSays, PTL DEF RootSpec

=============================================================================
