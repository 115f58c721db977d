----------------------------- MODULE TarProofs -----------------------------
(***************************************************************************)
(* An archive that tar makes while its files may grow, entries may be      *)
(* missing and outputs may fail to be created keeps its headers where the  *)
(* reader looks for them, and gives back what went in, for every size of a *)
(* block, every list of entries and whatever pieces reads and writes come  *)
(* in.                                                                     *)
(***************************************************************************)
EXTENDS Tar, SequenceTheorems, TLAPS

-----------------------------------------------------------------------------
(* Blocks: the size that the reader rounds up is the size that the writer  *)
(* pads.                                                                   *)

LEMMA Euclid ==
  ASSUME NEW n \in Nat, NEW b \in Nat \ {0}
  PROVE  n = b * (n \div b) + (n % b) /\ n % b \in 0..(b - 1) /\ n \div b \in Nat
OBVIOUS

LEMMA NoMultiple ==
  ASSUME NEW b \in Nat \ {0}, NEW q \in Int, NEW r \in Int, r > -b, r < b, b * q = r
  PROVE  q = 0
<1>1. ~(q >= 1)
  <2> SUFFICES ASSUME q >= 1 PROVE FALSE
    OBVIOUS
  <2>1. b * q = b * (q - 1) + b
    OBVIOUS
  <2>2. b * (q - 1) >= 0
    OBVIOUS
  <2> QED
    BY <2>1, <2>2
<1>2. ~(q <= -1)
  <2> SUFFICES ASSUME q <= -1 PROVE FALSE
    OBVIOUS
  <2>1. b * q = b * (q + 1) - b
    OBVIOUS
  <2>2. b * (q + 1) <= 0
    OBVIOUS
  <2> QED
    BY <2>1, <2>2
<1> QED
  BY <1>1, <1>2

LEMMA Rounds ==
  ASSUME NEW n \in Nat, NEW b \in Nat \ {0}
  PROVE  ((n + b - 1) \div b) * b = n + (IF n % b = 0 THEN 0 ELSE b - (n % b))
<1>1. PICK q, r : q = n \div b /\ r = n % b
  OBVIOUS
<1>2. n = b * q + r /\ r \in 0..(b - 1) /\ q \in Nat
  BY <1>1, Euclid
<1>3. PICK m : m = n + b - 1
  OBVIOUS
<1>4. m \in Nat
  BY <1>3
<1>5. PICK Q, R : Q = m \div b /\ R = m % b
  OBVIOUS
<1>6. m = b * Q + R /\ R \in 0..(b - 1) /\ Q \in Nat
  BY <1>4, <1>5, Euclid
<1>7. CASE r = 0
  <2>1. b * (Q - q) = (b - 1) - R
    BY <1>2, <1>3, <1>6, <1>7
  <2>2. Q - q = 0
    BY <1>2, <1>6, <2>1, NoMultiple
  <2>3. Q * b = n
    BY <1>2, <1>6, <1>7, <2>2
  <2> QED
    BY <1>1, <1>3, <1>5, <1>7, <2>3
<1>8. CASE r # 0
  <2>1. b * (Q - (q + 1)) = (r - 1) - R
    BY <1>2, <1>3, <1>6
  <2>2. Q - (q + 1) = 0
    BY <1>2, <1>6, <1>8, <2>1, NoMultiple
  <2>3. Q * b = n + (b - r)
    BY <1>2, <1>6, <2>2
  <2> QED
    BY <1>1, <1>3, <1>5, <1>8, <2>3
<1> QED
  BY <1>7, <1>8

LEMMA PaddingIs ==
  ASSUME NEW n \in Nat
  PROVE  /\ Padding(n) \in Nat
         /\ ((n + Block - 1) \div Block) * Block = n + Padding(n)
<1>1. Block \in Nat \ {0}
  BY TarAssumption
<1>2. n % Block \in 0..(Block - 1)
  BY <1>1, Euclid
<1>3. Padding(n) \in Nat
  BY <1>1, <1>2 DEF Padding
<1>4. ((n + Block - 1) \div Block) * Block = n + Padding(n)
  BY <1>1, Rounds DEF Padding
<1> QED
  BY <1>3, <1>4

LEMMA NoPadding == Padding(0) = 0
<1>1. Block \in Nat \ {0}
  BY TarAssumption
<1>2. 0 % Block = 0
  <2>1. PICK q, r : q = 0 \div Block /\ r = 0 % Block
    OBVIOUS
  <2>2. 0 = Block * q + r /\ r \in 0..(Block - 1) /\ q \in Nat
    BY <1>1, <2>1, Euclid
  <2>3. Block * q = -r /\ -r \in Int /\ -r > -Block /\ -r < Block
    BY <1>1, <2>2
  <2>4. q = 0
    BY <1>1, <2>2, <2>3, NoMultiple
  <2> QED
    BY <1>1, <2>1, <2>2, <2>4
<1> QED
  BY <1>2 DEF Padding

-----------------------------------------------------------------------------
(* The layout of an archive.                                               *)

Units == Content \cup {Zero, Rest} \cup {Unit(t, m, n) : t \in Types, m \in Names, n \in Nat}
Outputs == [name : Names, type : Types, data : Seq(Units)]
Heads == Seq([at : Nat, of : Nat, n : Nat])
Good == trouble \subseteq Harmless

\* entry h.of stands after h.at units, with n units of data
Span(n) == Block + n + Padding(n)
After(hs, i) == IF i = 0 THEN 0 ELSE hs[i].at + Span(hs[i].n)
Tip(hs) == After(hs, Len(hs))

HeaderAt(b, e, n) ==
  /\ archive[b + 1] = Unit(e.type, e.name, n)
  /\ \A p \in 2..Block : archive[b + p] = Rest
DataAt(b, e, n) == \A p \in 1..n : archive[b + Block + p] = e.data[p]

Whole(h) ==
  /\ h.of \in 1..Len(entries)
  /\ h.n <= Len(entries[h.of].data)
  /\ HeaderAt(h.at, entries[h.of], h.n) /\ DataAt(h.at, entries[h.of], h.n)
  /\ h.at + Span(h.n) <= Len(archive)

Laid(hs) ==
  /\ \A i \in 1..Len(hs) : hs[i].at = After(hs, i - 1) /\ Whole(hs[i])
  /\ trouble = {} => \A i \in 1..Len(hs) : hs[i].of = i /\ hs[i].n = Len(entries[i].data)

TarTypes ==
  /\ mode \in {"list", "extract"}
  /\ entries \in Seq(TarEntry) /\ Len(entries) > 0
  /\ \A i \in 1..Len(entries) : entries[i].type # "file" => entries[i].data = <<>>
  /\ archive \in Seq(Units) /\ k \in Nat /\ size \in Nat /\ done \in Nat /\ pos \in Nat
  /\ dest \in Seq(Outputs) /\ printed \in Seq(Names)
  /\ tarAt \in {"add", "open", "copy", "end", "read", "data", "skip", "done"}

\* the writer has put down the entries hs and is at the next
Making(hs) ==
  /\ tarAt \in {"add", "open", "copy", "end"}
  /\ dest = <<>> /\ printed = <<>> /\ pos = 0
  /\ tarAt # "end" => k \in 1..Len(entries) /\ (trouble = {} => k = Len(hs) + 1)
  /\ tarAt = "add" => Len(archive) = Tip(hs) /\ done = 0
  /\ tarAt \in {"open", "copy"} =>
       /\ Entry.type = "file" /\ size <= Len(Entry.data) /\ done <= size
       /\ tarAt = "open" => done = 0
       /\ Len(archive) = Tip(hs) + Block + done
       /\ HeaderAt(Tip(hs), Entry, size) /\ DataAt(Tip(hs), Entry, done)
       /\ trouble = {} => size = Len(Entry.data)
  /\ tarAt = "end" => Len(archive) = Tip(hs) /\ (trouble = {} => Len(hs) = Len(entries))

\* an output is the entry, or a beginning of its data
Comes(d) ==
  \E i \in 1..Len(entries) :
    /\ d.name = entries[i].name /\ d.type = entries[i].type
    /\ \E n \in 0..Len(entries[i].data) : d.data = SubSeq(entries[i].data, 1, n)
\* the first j entries have been listed or taken out
Got(j) ==
  /\ \A i \in 1..Len(dest) : Comes(dest[i])
  /\ trouble = {} =>
       /\ mode = "list" => Len(printed) = j /\ \A i \in 1..j : printed[i] = entries[i].name
       /\ mode = "extract" => Len(dest) = j /\ \A i \in 1..j : dest[i] = Stored[i]
\* and n units of the next
Getting(j, e, n) ==
  /\ mode = "extract" /\ dest # <<>>
  /\ dest[Len(dest)] = [name |-> e.name, type |-> "file", data |-> SubSeq(e.data, 1, n)]
  /\ \A i \in 1..Len(dest) - 1 : Comes(dest[i])
  /\ trouble = {} => Len(dest) = j + 1 /\ \A i \in 1..j : dest[i] = Stored[i]

\* the archive is done and the reader has passed the entries up to j
Unpacking(hs) ==
  /\ tarAt \in {"read", "data", "skip", "done"}
  /\ Len(archive) = Tip(hs) + 2 * Block
  /\ \A p \in 1..Block : archive[Tip(hs) + p] = Zero
  /\ trouble = {} => Len(hs) = Len(entries)
  /\ \E j \in 0..Len(hs) :
       /\ tarAt = "read" => pos = After(hs, j) /\ Got(j)
       /\ tarAt \in {"data", "skip"} =>
            /\ j < Len(hs) /\ size = hs[j + 1].n /\ done <= size
            /\ entries[hs[j + 1].of].type = "file"
            /\ pos = hs[j + 1].at + Block + done
            /\ Getting(j, entries[hs[j + 1].of], done)
            /\ tarAt = "skip" => done = size
       /\ tarAt = "done" => j = Len(hs) /\ Got(j)

TarInv ==
  Good => TarTypes /\ \E hs \in Heads : Laid(hs) /\ (Making(hs) \/ Unpacking(hs))

-----------------------------------------------------------------------------
(* What is written behind the end of the archive, and what files grow by,  *)
(* changes nothing in front of it.                                         *)

Kept ==
  /\ archive \in Seq(Units) /\ Len(archive)' \in Nat /\ Len(archive) <= Len(archive)'
  /\ \A p \in 1..Len(archive) : archive'[p] = archive[p]
\* an entry that has at least the data it had
Longer(e, f) ==
  /\ f.name = e.name /\ f.type = e.type
  /\ Len(f.data) \in Nat /\ Len(e.data) <= Len(f.data)
  /\ \A p \in 1..Len(e.data) : f.data[p] = e.data[p]
Grew ==
  /\ Len(entries)' = Len(entries)
  /\ \A i \in 1..Len(entries) : Longer(entries[i], entries'[i])

LEMMA HeaderKept ==
  ASSUME Kept, NEW b \in Nat, b + Block <= Len(archive),
         NEW e, NEW f, Longer(e, f), NEW n, HeaderAt(b, e, n)
  PROVE  HeaderAt(b, f, n)'
<1>1. Len(archive) \in Nat /\ Block \in Nat \ {0}
  BY TarAssumption DEF Kept
<1>2. b + 1 \in 1..Len(archive) /\ \A p \in 2..Block : b + p \in 1..Len(archive)
  BY <1>1
<1> QED
  BY <1>2 DEF HeaderAt, Kept, Longer

LEMMA DataKept ==
  ASSUME Kept, NEW b \in Nat, NEW n \in Nat, b + Block + n <= Len(archive),
         NEW e, NEW f, Longer(e, f), Len(e.data) \in Nat, n <= Len(e.data),
         DataAt(b, e, n)
  PROVE  DataAt(b, f, n)'
<1>1. Len(archive) \in Nat /\ Block \in Nat \ {0}
  BY TarAssumption DEF Kept
<1>2. SUFFICES ASSUME NEW p \in 1..n
               PROVE  archive'[b + Block + p] = f.data[p]
  BY DEF DataAt
<1>3. b + Block + p \in 1..Len(archive) /\ p \in 1..Len(e.data)
  BY <1>1
<1>4. archive[b + Block + p] = e.data[p]
  BY DEF DataAt
<1> QED
  BY <1>3, <1>4 DEF Kept, Longer

LEMMA WholeKept ==
  ASSUME TarTypes, Kept, Grew, NEW h \in [at : Nat, of : Nat, n : Nat], Whole(h)
  PROVE  Whole(h)'
<1>1. PICK b, n, e : b = h.at /\ n = h.n /\ e = entries[h.of]
  OBVIOUS
<1>2. PICK f : f = entries'[h.of]
  OBVIOUS
<1>3. /\ b \in Nat /\ n \in Nat /\ Padding(n) \in Nat /\ Block \in Nat \ {0}
      /\ Len(archive) \in Nat /\ b + (Block + n + Padding(n)) <= Len(archive)
      /\ Len(archive)' \in Nat /\ Len(archive) <= Len(archive)'
  <2>1. b \in Nat /\ n \in Nat
    BY <1>1
  <2>2. Padding(n) \in Nat /\ Block \in Nat \ {0}
    BY <2>1, PaddingIs, TarAssumption
  <2>3. b + (Block + n + Padding(n)) <= Len(archive)
    BY <1>1 DEF Whole, Span
  <2>4. Len(archive) \in Nat /\ Len(archive)' \in Nat /\ Len(archive) <= Len(archive)'
    BY DEF Kept
  <2> QED
    BY <2>1, <2>2, <2>3, <2>4
<1>4. HeaderAt(b, e, n) /\ DataAt(b, e, n) /\ h.of \in 1..Len(entries) /\ n <= Len(e.data)
  BY <1>1 DEF Whole
<1>5. Longer(e, f) /\ Len(entries)' = Len(entries)
  BY <1>1, <1>2, <1>4 DEF Grew
<1>6. Len(e.data) \in Nat
  <2>1. entries \in Seq(TarEntry)
    BY DEF TarTypes
  <2>2. e \in TarEntry
    BY <1>1, <1>4, <2>1
  <2> QED
    BY <2>2 DEF TarEntry
<1>7. b + Block <= Len(archive) /\ b + Block + n <= Len(archive)
      /\ b + Span(n) <= Len(archive)'
  BY <1>3 DEF Span
<1>8. HeaderAt(b, f, n)'
  BY <1>3, <1>4, <1>5, <1>7, HeaderKept
<1>9. DataAt(b, f, n)'
  BY <1>3, <1>4, <1>5, <1>6, <1>7, DataKept
<1>10. n <= Len(f.data)
  BY <1>3, <1>4, <1>5, <1>6 DEF Longer
<1> QED
  BY <1>1, <1>2, <1>4, <1>5, <1>7, <1>8, <1>9, <1>10 DEF Whole

LEMMA HeadIs ==
  ASSUME NEW hs \in Heads, NEW i \in 1..Len(hs)
  PROVE  /\ hs[i] \in [at : Nat, of : Nat, n : Nat]
         /\ hs[i].at \in Nat /\ hs[i].of \in Nat /\ hs[i].n \in Nat
<1>1. hs[i] \in [at : Nat, of : Nat, n : Nat]
  BY ElementOfSeq DEF Heads
<1> QED
  BY <1>1

\* h is put after hs
LEMMA TipIs ==
  ASSUME NEW hs \in Heads, NEW h \in [at : Nat, of : Nat, n : Nat]
  PROVE  /\ Append(hs, h) \in Heads /\ Len(Append(hs, h)) = Len(hs) + 1 /\ Len(hs) \in Nat
         /\ \A i \in 1..Len(hs) : Append(hs, h)[i] = hs[i]
         /\ Append(hs, h)[Len(hs) + 1] = h
         /\ \A i \in 0..Len(hs) : After(Append(hs, h), i) = After(hs, i)
         /\ Tip(Append(hs, h)) = h.at + Span(h.n)
<1>1. /\ Append(hs, h) \in Heads /\ Len(Append(hs, h)) = Len(hs) + 1 /\ Len(hs) \in Nat
      /\ \A i \in 1..Len(hs) : Append(hs, h)[i] = hs[i]
      /\ Append(hs, h)[Len(hs) + 1] = h
  BY AppendProperties DEF Heads
<1>2. \A i \in 0..Len(hs) : i # 0 => i \in 1..Len(hs)
  BY <1>1
<1>3. \A i \in 0..Len(hs) : After(Append(hs, h), i) = After(hs, i)
  BY <1>1, <1>2 DEF After
<1>4. Tip(Append(hs, h)) = h.at + Span(h.n)
  <2>1. Len(Append(hs, h)) = Len(hs) + 1 /\ Len(hs) + 1 # 0
    BY <1>1
  <2> QED
    BY <1>1, <2>1 DEF Tip, After
<1> QED
  BY <1>1, <1>3, <1>4

LEMMA LaidKept ==
  ASSUME TarTypes, Kept, Grew, NEW hs \in Heads, Laid(hs),
         trouble' = {} => trouble = {} /\ UNCHANGED entries
  PROVE  Laid(hs)'
<1>1. ASSUME NEW i \in 1..Len(hs) PROVE (hs[i].at = After(hs, i - 1) /\ Whole(hs[i]))'
  <2>1. hs[i] \in [at : Nat, of : Nat, n : Nat]
    BY HeadIs
  <2>2. PICK h : h = hs[i]
    OBVIOUS
  <2>3. Whole(h) /\ h.at = After(hs, i - 1)
    BY <2>2 DEF Laid
  <2>4. Whole(h)'
    BY <2>1, <2>2, <2>3, WholeKept
  <2> QED
    BY <2>2, <2>3, <2>4
<1>2. (trouble = {} => \A i \in 1..Len(hs) : hs[i].of = i /\ hs[i].n = Len(entries[i].data))'
  BY DEF Laid
<1> QED
  BY <1>1, <1>2 DEF Laid

LEMMA LaidMore ==
  ASSUME NEW hs \in Heads, Laid(hs)', NEW h \in [at : Nat, of : Nat, n : Nat],
         h.at = Tip(hs), Whole(h)',
         trouble' = {} => h.of = Len(hs) + 1 /\ h.n = Len(entries'[h.of].data)
  PROVE  Laid(Append(hs, h))'
<1>1. PICK gs : gs = Append(hs, h)
  OBVIOUS
<1>2. /\ Len(gs) = Len(hs) + 1 /\ Len(hs) \in Nat
      /\ \A i \in 1..Len(hs) : gs[i] = hs[i]
      /\ gs[Len(hs) + 1] = h
      /\ \A i \in 0..Len(hs) : After(gs, i) = After(hs, i)
  BY <1>1, TipIs
<1>3. ASSUME NEW i \in 1..Len(gs) PROVE (gs[i].at = After(gs, i - 1) /\ Whole(gs[i]))'
  <2>1. i - 1 \in 0..Len(hs)
    BY <1>2
  <2>2. After(gs, i - 1) = After(hs, i - 1)
    BY <1>2, <2>1
  <2>3. CASE i \in 1..Len(hs)
    <3>1. gs[i] = hs[i]
      BY <1>2, <2>3
    <3>2. (hs[i].at = After(hs, i - 1) /\ Whole(hs[i]))'
      BY <2>3 DEF Laid
    <3> QED
      BY <2>2, <3>1, <3>2
  <2>4. CASE i = Len(hs) + 1
    <3>1. gs[i] = h /\ i - 1 = Len(hs)
      BY <1>2, <2>4
    <3> QED
      BY <2>2, <3>1 DEF Tip
  <2> QED
    BY <1>2, <2>3, <2>4
<1>4. (trouble = {} => \A i \in 1..Len(gs) : gs[i].of = i /\ gs[i].n = Len(entries[i].data))'
  <2>1. SUFFICES ASSUME trouble' = {}, NEW i \in 1..Len(gs)
                 PROVE  gs[i].of = i /\ gs[i].n = Len(entries'[i].data)
    OBVIOUS
  <2>2. CASE i \in 1..Len(hs)
    BY <1>2, <2>1, <2>2 DEF Laid
  <2>3. CASE i = Len(hs) + 1
    BY <1>2, <2>1, <2>3
  <2> QED
    BY <1>2, <2>2, <2>3
<1> QED
  BY <1>1, <1>3, <1>4 DEF Laid

LEMMA Put ==
  ASSUME archive \in Seq(Units), NEW us \in Seq(Units), archive' = archive \o us
  PROVE  /\ archive' \in Seq(Units) /\ Len(archive)' = Len(archive) + Len(us)
         /\ \A p \in 1..Len(archive) : archive'[p] = archive[p]
         /\ \A p \in 1..Len(us) : archive'[Len(archive) + p] = us[p]
         /\ Len(archive) \in Nat /\ Len(us) \in Nat
<1>1. PICK s : s = archive
  OBVIOUS
<1>2. s \in Seq(Units) /\ Len(s) \in Nat /\ Len(us) \in Nat
  BY <1>1
<1>3. /\ s \o us \in Seq(Units) /\ Len(s \o us) = Len(s) + Len(us)
      /\ \A i \in 1..Len(s) + Len(us) :
           (s \o us)[i] = IF i <= Len(s) THEN s[i] ELSE us[i - Len(s)]
  BY <1>2, ConcatProperties
<1>4. \A p \in 1..Len(s) : (s \o us)[p] = s[p]
  BY <1>2, <1>3
<1>5. ASSUME NEW p \in 1..Len(us) PROVE (s \o us)[Len(s) + p] = us[p]
  <2>1. Len(s) + p \in 1..Len(s) + Len(us) /\ ~(Len(s) + p <= Len(s)) /\ (Len(s) + p) - Len(s) = p
    BY <1>2
  <2> QED
    BY <1>3, <2>1
<1> QED
  BY <1>1, <1>2, <1>3, <1>4, <1>5

LEMMA EntryIs ==
  ASSUME TarTypes, NEW i \in 1..Len(entries)
  PROVE  /\ entries[i] \in TarEntry /\ entries[i].name \in Names /\ entries[i].type \in Types
         /\ entries[i].data \in Seq(Content) /\ Len(entries[i].data) \in Nat
         /\ entries[i].type # "file" => Len(entries[i].data) = 0
<1>1. entries \in Seq(TarEntry)
  BY DEF TarTypes
<1>2. entries[i] \in TarEntry
  BY <1>1
<1>3. /\ entries[i].name \in Names /\ entries[i].type \in Types
      /\ entries[i].data \in Seq(Content)
  BY <1>2 DEF TarEntry
<1>4. entries[i].type # "file" => entries[i].data = <<>>
  BY DEF TarTypes
<1> QED
  BY <1>2, <1>3, <1>4

LEMMA HeaderPut ==
  ASSUME archive \in Seq(Units), NEW e \in TarEntry, archive' = archive \o header(e),
         NEW b, b = Len(archive)
  PROVE  /\ archive' \in Seq(Units) /\ Len(archive)' = Len(archive) + Block
         /\ \A p \in 1..Len(archive) : archive'[p] = archive[p]
         /\ HeaderAt(b, e, Len(e.data))'
         /\ Len(archive) \in Nat
<1>1. e.name \in Names /\ e.type \in Types /\ Len(e.data) \in Nat
  BY DEF TarEntry
<1>2. PICK us : us = header(e)
  OBVIOUS
<1>3. PICK u : u = Unit(e.type, e.name, Len(e.data))
  OBVIOUS
<1>4. u \in Units /\ Rest \in Units
  BY <1>1, <1>3 DEF Units
<1>5. Block \in Nat \ {0}
  BY TarAssumption
<1>6. PICK rs : rs = [i \in 1..Block - 1 |-> Rest]
  OBVIOUS
<1>7. rs \in Seq(Units) /\ Len(rs) = Block - 1 /\ \A i \in 1..Block - 1 : rs[i] = Rest
  <2>1. rs \in [1..Block - 1 -> Units]
    BY <1>4, <1>6
  <2>2. Block - 1 \in Nat
    BY <1>5
  <2>3. rs \in Seq(Units)
    BY <2>1, <2>2
  <2>4. DOMAIN rs = 1..Block - 1 /\ \A i \in 1..Block - 1 : rs[i] = Rest
    BY <1>6
  <2> QED
    BY <2>2, <2>3, <2>4, LenProperties
<1>8. us = <<u>> \o rs
  BY <1>2, <1>3, <1>6 DEF header
<1>9. <<u>> \in Seq(Units) /\ Len(<<u>>) = 1 /\ <<u>>[1] = u
  BY <1>4
<1>10. /\ us \in Seq(Units) /\ Len(us) = 1 + (Block - 1)
       /\ \A i \in 1..1 + (Block - 1) : us[i] = IF i <= 1 THEN <<u>>[i] ELSE rs[i - 1]
  BY <1>7, <1>8, <1>9, ConcatProperties
<1>11. Len(us) = Block /\ us[1] = u /\ \A p \in 2..Block : us[p] = Rest
  <2>1. Len(us) = Block /\ 1 \in 1..1 + (Block - 1)
    BY <1>5, <1>10
  <2>2. ASSUME NEW p \in 2..Block PROVE us[p] = Rest
    <3>1. p \in 1..1 + (Block - 1) /\ ~(p <= 1) /\ p - 1 \in 1..Block - 1
      BY <1>5
    <3> QED
      BY <1>7, <1>10, <3>1
  <2> QED
    BY <1>9, <1>10, <2>1, <2>2
<1>12. /\ archive' \in Seq(Units) /\ Len(archive)' = Len(archive) + Block
       /\ \A p \in 1..Len(archive) : archive'[p] = archive[p]
       /\ \A p \in 1..Block : archive'[Len(archive) + p] = us[p]
       /\ Len(archive) \in Nat
  BY <1>2, <1>10, <1>11, Put
<1>13. HeaderAt(b, e, Len(e.data))'
  <2>1. 1 \in 1..Block /\ \A p \in 2..Block : p \in 1..Block
    BY <1>5
  <2> QED
    BY <1>3, <1>11, <1>12, <2>1 DEF HeaderAt
<1> QED
  BY <1>12, <1>13, <1>13


-----------------------------------------------------------------------------
(* The writer.                                                             *)

LEMMA SameKept ==
  ASSUME TarTypes, UNCHANGED <<archive, entries>>
  PROVE  Kept /\ Grew
<1>1. archive \in Seq(Units) /\ Len(archive) \in Nat
  BY DEF TarTypes
<1>2. Kept
  BY <1>1 DEF Kept
<1>3. Grew
  BY EntryIs DEF Grew, Longer
<1> QED
  BY <1>2, <1>3

LEMMA Extended ==
  ASSUME TarTypes, NEW us \in Seq(Units), archive' = archive \o us, UNCHANGED entries
  PROVE  /\ Kept /\ Grew
         /\ archive' \in Seq(Units) /\ Len(archive)' = Len(archive) + Len(us)
         /\ \A p \in 1..Len(us) : archive'[Len(archive) + p] = us[p]
         /\ Len(archive) \in Nat /\ Len(us) \in Nat
<1>1. archive \in Seq(Units)
  BY DEF TarTypes
<1>2. /\ archive' \in Seq(Units) /\ Len(archive)' = Len(archive) + Len(us)
      /\ \A p \in 1..Len(archive) : archive'[p] = archive[p]
      /\ \A p \in 1..Len(us) : archive'[Len(archive) + p] = us[p]
      /\ Len(archive) \in Nat /\ Len(us) \in Nat
  BY <1>1, Put
<1>3. Len(archive) + Len(us) \in Nat /\ Len(archive) <= Len(archive) + Len(us)
  BY <1>2
<1>4. Kept
  BY <1>1, <1>2, <1>3 DEF Kept
<1>5. Grew
  BY EntryIs DEF Grew, Longer
<1> QED
  BY <1>2, <1>4, <1>5

LEMMA TipTyped ==
  ASSUME TarTypes, NEW hs \in Heads, Laid(hs)
  PROVE  Tip(hs) \in Nat
<1>1. CASE Len(hs) = 0
  BY <1>1 DEF Tip, After
<1>2. CASE Len(hs) # 0
  <2>1. Len(hs) \in 1..Len(hs)
    BY <1>2 DEF Heads
  <2>2. PICK h : h = hs[Len(hs)]
    OBVIOUS
  <2>3. h.at \in Nat /\ h.n \in Nat
    BY <2>1, <2>2, HeadIs
  <2>4. Padding(h.n) \in Nat /\ Block \in Nat
    BY <2>3, PaddingIs, TarAssumption
  <2> QED
    BY <1>2, <2>2, <2>3, <2>4 DEF Tip, After, Span
<1> QED
  BY <1>1, <1>2

\* the header and then the data of an entry have been written
LEMMA WholeNow ==
  ASSUME NEW b \in Nat, NEW i \in Nat, NEW n \in Nat, (TarTypes)',
         i \in 1..Len(entries'), n <= Len(entries'[i].data),
         HeaderAt(b, entries[i], n)', DataAt(b, entries[i], n)',
         b + Span(n) <= Len(archive')
  PROVE  /\ [at |-> b, of |-> i, n |-> n] \in [at : Nat, of : Nat, n : Nat]
         /\ Whole([at |-> b, of |-> i, n |-> n])'
<1>1. PICK h : h = [at |-> b, of |-> i, n |-> n]
  OBVIOUS
<1>2. h.at = b /\ h.of = i /\ h.n = n /\ h \in [at : Nat, of : Nat, n : Nat]
  BY <1>1
<1>3. Whole(h)'
  BY <1>2 DEF Whole
<1> QED
  BY <1>1, <1>2, <1>3

LEMMA NextTyped ==
  ASSUME TarTypes, k \in 1..Len(entries), NEW f \in BOOLEAN, NextEntry(f), Writing,
         archive' \in Seq(Units)
  PROVE  /\ TarTypes'
         /\ k' = k + 1 /\ size' = 0 /\ done' = 0
         /\ \/ tarAt' = "add" /\ k' \in 1..Len(entries)
            \/ tarAt' = "end" /\ k = Len(entries)
<1>1. k' = k + 1 /\ size' = 0 /\ done' = 0 /\ k \in Nat /\ Len(entries) \in Nat
  BY DEF NextEntry, TarTypes
<1>2. \/ tarAt' = "add" /\ k' \in 1..Len(entries)
      \/ tarAt' = "end" /\ k = Len(entries)
  BY <1>1 DEF NextEntry
<1>3. TarTypes'
  BY <1>1, <1>2 DEF TarTypes, Writing
<1> QED
  BY <1>1, <1>2, <1>3

LEMMA MakingNext ==
  ASSUME TarTypes, NEW hs \in Heads, Making(hs), tarAt # "end",
         NEW f \in BOOLEAN, NextEntry(f), Writing, archive' \in Seq(Units),
         NEW gs \in Heads, Len(archive') = Tip(gs), trouble' = {} => Len(gs) = k
  PROVE  TarTypes' /\ Making(gs)'
<1>1. k \in 1..Len(entries) /\ dest = <<>> /\ printed = <<>> /\ pos = 0
  BY DEF Making
<1>2. /\ TarTypes'
      /\ k' = k + 1 /\ size' = 0 /\ done' = 0
      /\ \/ tarAt' = "add" /\ k' \in 1..Len(entries)
         \/ tarAt' = "end" /\ k = Len(entries)
  BY <1>1, NextTyped
<1>3. entries' = entries /\ dest' = dest /\ printed' = printed /\ pos' = pos
  BY DEF Writing
<1>4. Making(gs)'
  <2>1. CASE tarAt' = "add" /\ k' \in 1..Len(entries)
    BY <1>1, <1>2, <1>3, <2>1 DEF Making
  <2>2. CASE tarAt' = "end" /\ k = Len(entries)
    BY <1>1, <1>2, <1>3, <2>2 DEF Making
  <2> QED
    BY <1>2, <2>1, <2>2
<1> QED
  BY <1>2, <1>4

LEMMA EntryDone ==
  ASSUME NEW hs \in Heads, Laid(hs)', NEW b \in Nat, b = Tip(hs),
         NEW i \in 1..Len(entries), i = k, NEW e, e = entries[i], TarTypes, TarTypes',
         UNCHANGED entries, NEW n \in Nat, n <= Len(e.data),
         HeaderAt(b, e, n)', DataAt(b, e, n)', b + Span(n) = Len(archive'),
         trouble' = {} => i = Len(hs) + 1 /\ n = Len(e.data)
  PROVE  \E gs \in Heads : Laid(gs)' /\ Len(archive') = Tip(gs) /\ (trouble' = {} => Len(gs) = k)
<1>1. PICK h : h = [at |-> b, of |-> i, n |-> n]
  OBVIOUS
<1>2. h.at = b /\ h.of = i /\ h.n = n
  BY <1>1
<1>3. i \in Nat /\ entries'[i] = e /\ i \in 1..Len(entries') /\ Len(archive') \in Nat
  BY DEF TarTypes
<1>4. HeaderAt(b, entries[i], n)' /\ DataAt(b, entries[i], n)'
  BY <1>3
<1>5. h \in [at : Nat, of : Nat, n : Nat] /\ Whole(h)'
  BY <1>1, <1>3, <1>4, WholeNow
<1>6. Laid(Append(hs, h))'
  BY <1>2, <1>3, <1>5, LaidMore
<1>7. /\ Append(hs, h) \in Heads /\ Len(Append(hs, h)) = Len(hs) + 1
      /\ Tip(Append(hs, h)) = b + Span(n)
  BY <1>2, <1>5, TipIs
<1> QED
  BY <1>6, <1>7

LEMMA AddKeeps ==
  ASSUME TarTypes, NEW hs \in Heads, Laid(hs), Making(hs), AddEntry, Good'
  PROVE  TarTypes' /\ \E gs \in Heads : Laid(gs)' /\ Making(gs)'
<1>1. /\ tarAt = "add" /\ k \in 1..Len(entries) /\ (trouble = {} => k = Len(hs) + 1)
      /\ Len(archive) = Tip(hs) /\ done = 0 /\ dest = <<>> /\ printed = <<>> /\ pos = 0
  BY DEF Making, AddEntry
<1>2. Writing /\ entries' = entries
  BY DEF AddEntry, Writing
<1>3. PICK e : e = Entry
  OBVIOUS
<1>4. PICK b : b = Tip(hs)
  OBVIOUS
<1>5. /\ e \in TarEntry /\ Len(e.data) \in Nat /\ e = entries[k]
      /\ e.type # "file" => Len(e.data) = 0
  BY <1>1, <1>3, EntryIs DEF Entry
<1>6. b \in Nat
  BY <1>4, TipTyped
<1>7. CASE archive' = archive \o header(Entry) /\ UNCHANGED trouble
           /\ IF Entry.type = "file"
              THEN size' = Len(Entry.data) /\ tarAt' = "open" /\ UNCHANGED <<k, done, created>>
              ELSE NextEntry(FALSE)
  <2>1. archive \in Seq(Units)
    BY DEF TarTypes
  <2>2. /\ archive' \in Seq(Units) /\ Len(archive)' = Len(archive) + Block
        /\ \A p \in 1..Len(archive) : archive'[p] = archive[p]
        /\ HeaderAt(b, e, Len(e.data))'
        /\ Len(archive) \in Nat
    BY <1>1, <1>3, <1>4, <1>5, <1>7, <2>1, HeaderPut
  <2>3. Block \in Nat \ {0}
    BY TarAssumption
  <2>4. Kept
    BY <2>1, <2>2, <2>3 DEF Kept
  <2>5. Grew
    BY <1>2, EntryIs DEF Grew, Longer
  <2>6. Laid(hs)'
    BY <1>2, <1>7, <2>4, <2>5, LaidKept
  <2>7. CASE e.type = "file"
    <3>1. size' = Len(e.data) /\ tarAt' = "open" /\ k' = k /\ done' = 0
      BY <1>1, <1>3, <1>7, <2>7
    <3>2. TarTypes'
      BY <1>2, <1>5, <2>2, <3>1 DEF TarTypes, Writing
    <3>3. Entry' = e
      BY <1>2, <1>5, <3>1 DEF Entry
    <3>4. DataAt(b, e, 0)'
      BY DEF DataAt
    <3>5. Making(hs)'
      <4>1. dest' = <<>> /\ printed' = <<>> /\ pos' = 0
        BY <1>1, <1>2 DEF Writing
      <4>2. k' \in 1..Len(entries)' /\ (trouble' = {} => k' = Len(hs) + 1)
        BY <1>1, <1>2, <1>7, <3>1
      <4>3. (Entry.type = "file" /\ size <= Len(Entry.data) /\ done <= size /\ done = 0
             /\ (trouble = {} => size = Len(Entry.data)))'
        BY <1>5, <2>7, <3>1, <3>3
      <4>4. Len(archive)' = Tip(hs) + Block + 0
        BY <1>1, <1>4, <1>6, <2>2, <2>3
      <4>5. (HeaderAt(Tip(hs), Entry, size) /\ DataAt(Tip(hs), Entry, done))'
        BY <1>4, <2>2, <3>1, <3>3, <3>4
      <4> QED
        BY <3>1, <4>1, <4>2, <4>3, <4>4, <4>5 DEF Making
    <3> QED
      BY <2>6, <3>2, <3>5
  <2>8. CASE e.type # "file"
    <3>1. NextEntry(FALSE) /\ Len(e.data) = 0
      BY <1>3, <1>5, <1>7, <2>8
    <3>2. TarTypes'
      BY <1>1, <1>2, <2>2, <3>1, NextTyped
    <3>3. b + Span(0) = Len(archive)'
      BY <1>1, <1>4, <1>6, <2>2, <2>3, NoPadding DEF Span
    <3>4. HeaderAt(b, e, 0)' /\ DataAt(b, e, 0)'
      BY <2>2, <3>1 DEF DataAt
    <3>5. PICK i : i = k
      OBVIOUS
    <3>6. i \in 1..Len(entries) /\ e = entries[i] /\ (trouble' = {} => i = Len(hs) + 1)
      BY <1>1, <1>5, <1>7, <3>5
    <3>7. 0 \in Nat /\ 0 <= Len(e.data)
      BY <3>1
    <3>8. PICK gs \in Heads : Laid(gs)' /\ Len(archive') = Tip(gs) /\ (trouble' = {} => Len(gs) = k)
      BY <1>2, <1>4, <1>6, <2>6, <3>1, <3>2, <3>3, <3>4, <3>5, <3>6, <3>7, EntryDone
    <3>9. Making(gs)'
      BY <1>1, <1>2, <2>2, <3>1, <3>8, MakingNext
    <3> QED
      BY <3>2, <3>8, <3>9
  <2> QED
    BY <2>7, <2>8
<1>8. CASE WriteFails(header(Entry))
  BY <1>8 DEF WriteFails, Trouble, Good, Harmless
<1>9. CASE Trouble("stat") /\ NextEntry(TRUE) /\ UNCHANGED archive
  <2>1. trouble' # {}
    BY <1>9 DEF Trouble
  <2>2. Kept /\ Grew
    BY <1>2, <1>9, SameKept
  <2>3. Laid(hs)'
    BY <2>1, <2>2, LaidKept
  <2>4. archive' \in Seq(Units) /\ Len(archive)' = Tip(hs)
    BY <1>1, <1>9 DEF TarTypes
  <2>5. TarTypes' /\ Making(hs)'
    BY <1>1, <1>2, <1>9, <2>1, <2>4, MakingNext
  <2> QED
    BY <2>3, <2>5
<1> QED
  BY <1>7, <1>8, <1>9 DEF AddEntry

LEMMA OpenKeeps ==
  ASSUME TarTypes, NEW hs \in Heads, Laid(hs), Making(hs), OpenEntry, Good'
  PROVE  TarTypes' /\ \E gs \in Heads : Laid(gs)' /\ Making(gs)'
<1>1. CASE tarAt' = "copy" /\ UNCHANGED <<archive, k, size, done, created, trouble>>
  <2>1. entries' = entries /\ Writing /\ tarAt = "open"
    BY DEF OpenEntry, Writing
  <2>2. TarTypes'
    BY <1>1, <2>1 DEF TarTypes, Writing
  <2>3. Laid(hs)'
    BY <1>1, <2>1, SameKept, LaidKept
  <2>4. Making(hs)'
    BY <1>1, <2>1 DEF Making, Entry, HeaderAt, DataAt, Writing
  <2> QED
    BY <2>2, <2>3, <2>4
<1>2. CASE Trouble("open")
  BY <1>2 DEF Trouble, Good, Harmless
<1> QED
  BY <1>1, <1>2 DEF OpenEntry

\* what the writer knows while it copies the data of an entry
LEMMA Copying ==
  ASSUME TarTypes, NEW hs \in Heads, Laid(hs), Making(hs), tarAt \in {"open", "copy"},
         NEW b, b = Tip(hs), NEW i, i = k, NEW e, e = Entry
  PROVE  /\ b \in Nat /\ i \in 1..Len(entries) /\ e = entries[i] /\ e \in TarEntry
         /\ e.type = "file" /\ e.data \in Seq(Content) /\ Len(e.data) \in Nat
         /\ size \in Nat /\ done \in Nat /\ size <= Len(e.data) /\ done <= size
         /\ Len(archive) = b + Block + done /\ Block \in Nat \ {0}
         /\ HeaderAt(b, e, size) /\ DataAt(b, e, done)
         /\ trouble = {} => i = Len(hs) + 1 /\ size = Len(e.data)
<1>1. tarAt # "end" /\ i \in 1..Len(entries) /\ (trouble = {} => i = Len(hs) + 1)
  BY DEF Making
<1>2. e = entries[i]
  BY DEF Entry
<1>3. e \in TarEntry /\ e.data \in Seq(Content) /\ Len(e.data) \in Nat
  BY <1>1, <1>2, EntryIs
<1>4. /\ e.type = "file" /\ size <= Len(e.data) /\ done <= size
      /\ Len(archive) = b + Block + done
      /\ HeaderAt(b, e, size) /\ DataAt(b, e, done)
      /\ trouble = {} => size = Len(e.data)
  BY DEF Making
<1>5. b \in Nat /\ size \in Nat /\ done \in Nat /\ Block \in Nat \ {0}
  BY TipTyped, TarAssumption DEF TarTypes
<1> QED
  BY <1>1, <1>2, <1>3, <1>4, <1>5

LEMMA LongerSelf ==
  ASSUME NEW e \in TarEntry
  PROVE  Longer(e, e)
<1>1. Len(e.data) \in Nat
  BY DEF TarEntry
<1> QED
  BY <1>1 DEF Longer

LEMMA CopyKeeps ==
  ASSUME TarTypes, NEW hs \in Heads, Laid(hs), Making(hs), CopyChunk, Good'
  PROVE  TarTypes' /\ \E gs \in Heads : Laid(gs)' /\ Making(gs)'
<1>1. PICK b, i, e : b = Tip(hs) /\ i = k /\ e = Entry
  OBVIOUS
<1>2. tarAt = "copy" /\ Writing /\ entries' = entries /\ tarAt \in {"open", "copy"}
  BY DEF CopyChunk, Writing
<1>3. /\ b \in Nat /\ i \in 1..Len(entries) /\ e = entries[i] /\ e \in TarEntry
      /\ e.type = "file" /\ e.data \in Seq(Content) /\ Len(e.data) \in Nat
      /\ size \in Nat /\ done \in Nat /\ size <= Len(e.data) /\ done <= size
      /\ Len(archive) = b + Block + done /\ Block \in Nat \ {0}
      /\ HeaderAt(b, e, size) /\ DataAt(b, e, done)
      /\ trouble = {} => i = Len(hs) + 1 /\ size = Len(e.data)
  BY <1>1, <1>2, Copying
<1>4. PICK n \in 1..Len(Entry.data) - done :
        /\ done + n <= size
        /\ \/ /\ archive' = archive \o SubSeq(Entry.data, done + 1, done + n) /\ done' = done + n
              /\ UNCHANGED <<tarAt, k, size, created, trouble>>
           \/ WriteFails(SubSeq(Entry.data, done + 1, done + n))
           \/ Trouble("read")
  BY DEF CopyChunk
<1>5. ~WriteFails(SubSeq(Entry.data, done + 1, done + n)) /\ ~Trouble("read")
  BY DEF WriteFails, Trouble, Good, Harmless
<1>6. PICK us, d : us = SubSeq(e.data, done + 1, done + n) /\ d = done
  OBVIOUS
<1>7. archive' = archive \o us /\ done' = d + n /\ UNCHANGED <<tarAt, k, size, created, trouble>>
  BY <1>1, <1>4, <1>5, <1>6
<1>8. n \in Nat /\ d \in Nat /\ d + n <= size /\ d = done /\ n \in 1..Len(e.data) - d
  BY <1>1, <1>3, <1>4, <1>6
<1>9. /\ us \in Seq(Units) /\ Len(us) = n
      /\ \A p \in 1..n : us[p] = e.data[d + p]
  <2>1. d + 1 \in Int /\ d + n \in Int /\ \A p \in d + 1..d + n : p \in 1..Len(e.data)
    BY <1>3, <1>8
  <2>2. \A p \in d + 1..d + n : e.data[p] \in Units
    BY <1>3, <2>1, ElementOfSeq DEF Units
  <2>3. /\ us \in Seq(Units)
        /\ Len(us) = IF d + 1 <= d + n THEN (d + n) - (d + 1) + 1 ELSE 0
        /\ \A p \in 1..(d + n) - (d + 1) + 1 : us[p] = e.data[(d + 1) + p - 1]
    BY <1>6, <2>1, <2>2, SubSeqProperties
  <2>4. d + 1 <= d + n /\ (d + n) - (d + 1) + 1 = n
    BY <1>8
  <2>5. \A p \in 1..n : (d + 1) + p - 1 = d + p
    BY <1>8
  <2> QED
    BY <2>3, <2>4, <2>5
<1>10. /\ Kept /\ Grew /\ archive' \in Seq(Units)
       /\ Len(archive)' = Len(archive) + n
       /\ \A p \in 1..n : archive'[Len(archive) + p] = us[p]
  BY <1>2, <1>7, <1>9, Extended
<1>11. Laid(hs)'
  BY <1>2, <1>7, <1>10, LaidKept
<1>12. TarTypes'
  BY <1>2, <1>7, <1>8, <1>10 DEF TarTypes, Writing
<1>13. Longer(e, e) /\ d <= Len(e.data) /\ b + Block <= Len(archive) /\ b + Block + d <= Len(archive)
  BY <1>3, <1>8, LongerSelf
<1>14. HeaderAt(b, e, size)'
  <2>1. PICK s : s = size
    OBVIOUS
  <2>2. HeaderAt(b, e, s)'
    BY <1>3, <1>10, <1>13, <2>1, HeaderKept
  <2> QED
    BY <1>7, <2>1, <2>2
<1>15. DataAt(b, e, d + n)'
  <2>1. DataAt(b, e, d)'
    BY <1>3, <1>8, <1>10, <1>13, DataKept
  <2>2. SUFFICES ASSUME NEW p \in 1..d + n PROVE archive'[b + Block + p] = e.data[p]
    BY DEF DataAt
  <2>3. CASE p \in 1..d
    BY <2>1, <2>3 DEF DataAt
  <2>4. CASE p \in d + 1..d + n
    <3>1. PICK q : q = p - d
      OBVIOUS
    <3>2. q \in 1..n /\ b + Block + p = Len(archive) + q /\ d + q = p
      BY <1>3, <1>8, <2>4, <3>1
    <3> QED
      BY <1>9, <1>10, <3>2
  <2> QED
    BY <1>8, <2>3, <2>4
<1>16. Making(hs)'
  <2>1. Entry' = e /\ k' = i
    BY <1>1, <1>2, <1>3, <1>7 DEF Entry
  <2>2. dest' = <<>> /\ printed' = <<>> /\ pos' = 0
    BY <1>2 DEF Writing, Making
  <2>3. Len(archive)' = b + Block + (d + n)
    BY <1>3, <1>8, <1>10
  <2>4. (HeaderAt(Tip(hs), Entry, size) /\ DataAt(Tip(hs), Entry, done))'
    BY <1>1, <1>7, <1>14, <1>15, <2>1
  <2>5. tarAt' = "copy"
    BY <1>2, <1>7
  <2>6. (Entry.type = "file" /\ size <= Len(Entry.data) /\ done <= size
         /\ (trouble = {} => size = Len(Entry.data)))'
    BY <1>3, <1>7, <1>8, <2>1
  <2>7. k' \in 1..Len(entries)' /\ (trouble' = {} => k' = Len(hs) + 1)
    BY <1>2, <1>3, <1>7, <2>1
  <2>8. Len(archive)' = Tip(hs) + Block + done'
    BY <1>1, <1>7, <2>3
  <2> QED
    BY <2>2, <2>4, <2>5, <2>6, <2>7, <2>8 DEF Making
<1> QED
  BY <1>11, <1>12, <1>16

LEMMA ZerosAre ==
  ASSUME NEW n \in Nat
  PROVE  Zeros(n) \in Seq(Units) /\ Len(Zeros(n)) = n /\ \A p \in 1..n : Zeros(n)[p] = Zero
<1>1. Zero \in Units
  BY DEF Units
<1>2. PICK s : s = [i \in 1..n |-> Zero]
  OBVIOUS
<1>3. s \in [1..n -> Units] /\ DOMAIN s = 1..n /\ \A p \in 1..n : s[p] = Zero
  BY <1>1, <1>2
<1>4. s \in Seq(Units)
  BY <1>3
<1>5. Len(s) = n
  BY <1>3, <1>4, LenProperties
<1> QED
  BY <1>2, <1>3, <1>4, <1>5 DEF Zeros

LEMMA PadKeeps ==
  ASSUME TarTypes, NEW hs \in Heads, Laid(hs), Making(hs), PadEntry, Good'
  PROVE  TarTypes' /\ \E gs \in Heads : Laid(gs)' /\ Making(gs)'
<1>1. PICK b, i, e, n : b = Tip(hs) /\ i = k /\ e = Entry /\ n = size
  OBVIOUS
<1>2. tarAt = "copy" /\ Writing /\ entries' = entries /\ tarAt \in {"open", "copy"}
  BY DEF PadEntry, Writing
<1>3. /\ b \in Nat /\ i \in 1..Len(entries) /\ e = entries[i] /\ e \in TarEntry
      /\ e.type = "file" /\ e.data \in Seq(Content) /\ Len(e.data) \in Nat
      /\ size \in Nat /\ done \in Nat /\ size <= Len(e.data) /\ done <= size
      /\ Len(archive) = b + Block + done /\ Block \in Nat \ {0}
      /\ HeaderAt(b, e, size) /\ DataAt(b, e, done)
      /\ trouble = {} => i = Len(hs) + 1 /\ size = Len(e.data)
  BY <1>1, <1>2, Copying
<1>4. done = size
  BY <1>1, <1>3 DEF PadEntry
<1>5. archive' = archive \o Zeros(PadLen) /\ NextEntry(FALSE) /\ UNCHANGED trouble
  BY DEF PadEntry, WriteFails, Trouble, Good, Harmless
<1>6. PadLen = Padding(n) /\ Padding(n) \in Nat /\ n \in Nat
  BY <1>1, <1>3, PaddingIs DEF PadLen
<1>7. Zeros(Padding(n)) \in Seq(Units) /\ Len(Zeros(Padding(n))) = Padding(n)
  BY <1>6, ZerosAre
<1>8. /\ Kept /\ Grew /\ archive' \in Seq(Units)
      /\ Len(archive)' = Len(archive) + Padding(n)
  BY <1>2, <1>5, <1>6, <1>7, Extended
<1>9. Laid(hs)'
  BY <1>2, <1>5, <1>8, LaidKept
<1>10. Longer(e, e) /\ n <= Len(e.data) /\ b + Block <= Len(archive) /\ b + Block + n <= Len(archive)
  BY <1>1, <1>3, <1>4, <1>6, LongerSelf
<1>11. HeaderAt(b, e, n)' /\ DataAt(b, e, n)'
  <2>1. HeaderAt(b, e, n) /\ DataAt(b, e, n)
    BY <1>1, <1>3, <1>4
  <2> QED
    BY <1>3, <1>6, <1>8, <1>10, <2>1, HeaderKept, DataKept
<1>12. TarTypes'
  BY <1>1, <1>2, <1>3, <1>5, <1>8, NextTyped
<1>13. b + Span(n) = Len(archive')
  <2>1. Len(archive)' = (b + Block + n) + Padding(n)
    BY <1>1, <1>3, <1>4, <1>8
  <2> QED
    BY <1>3, <1>6, <2>1 DEF Span
<1>14. PICK gs \in Heads : Laid(gs)' /\ Len(archive') = Tip(gs) /\ (trouble' = {} => Len(gs) = k)
  <2>1. trouble' = {} => i = Len(hs) + 1 /\ n = Len(e.data)
    BY <1>1, <1>3, <1>5
  <2> QED
    BY <1>1, <1>2, <1>3, <1>6, <1>9, <1>10, <1>11, <1>12, <1>13, <2>1, EntryDone
<1>15. Making(gs)'
  BY <1>2, <1>5, <1>8, <1>14, MakingNext
<1> QED
  BY <1>12, <1>14, <1>15

LEMMA EndKeeps ==
  ASSUME TarTypes, NEW hs \in Heads, Laid(hs), Making(hs), tar_create_end, Good'
  PROVE  TarTypes' /\ \E gs \in Heads : Laid(gs)' /\ Unpacking(gs)'
<1>1. PICK b : b = Tip(hs)
  OBVIOUS
<1>2. /\ tarAt = "end" /\ tarAt' = "read" /\ Writing /\ entries' = entries
      /\ UNCHANGED <<k, size, done, created>>
  BY DEF tar_create_end, Writing
<1>3. archive' = archive \o Zeros(2 * Block) /\ UNCHANGED trouble
  BY DEF tar_create_end, Trouble, Good, Harmless
<1>4. Block \in Nat \ {0} /\ 2 * Block \in Nat
  BY TarAssumption
<1>5. PICK us : us = Zeros(2 * Block)
  OBVIOUS
<1>6. us \in Seq(Units) /\ Len(us) = 2 * Block /\ \A p \in 1..2 * Block : us[p] = Zero
  BY <1>4, <1>5, ZerosAre
<1>7. /\ Kept /\ Grew /\ archive' \in Seq(Units)
      /\ Len(archive)' = Len(archive) + 2 * Block
      /\ \A p \in 1..2 * Block : archive'[Len(archive) + p] = us[p]
  BY <1>2, <1>3, <1>5, <1>6, Extended
<1>8. Laid(hs)'
  BY <1>2, <1>3, <1>7, LaidKept
<1>9. TarTypes'
  BY <1>2, <1>7 DEF TarTypes, Writing
<1>10. Len(archive) = b /\ (trouble = {} => Len(hs) = Len(entries))
       /\ dest = <<>> /\ printed = <<>> /\ pos = 0
  BY <1>1, <1>2 DEF Making
<1>11. \A p \in 1..Block : archive'[b + p] = Zero
  BY <1>4, <1>6, <1>7, <1>10
<1>12. dest' = <<>> /\ printed' = <<>> /\ pos' = 0
  BY <1>2, <1>10 DEF Writing
<1>13. Got(0)'
  BY <1>12 DEF Got
<1>14. 0 \in 0..Len(hs)
  BY DEF Heads
<1>15. pos' = After(hs, 0)
  BY <1>12 DEF After
<1>16. Unpacking(hs)'
  BY <1>1, <1>2, <1>3, <1>7, <1>10, <1>11, <1>13, <1>14, <1>15 DEF Unpacking
<1> QED
  BY <1>8, <1>9, <1>16

LEMMA ChangeKeeps ==
  ASSUME TarTypes, NEW hs \in Heads, Laid(hs), Making(hs), ChangeFile, Good'
  PROVE  TarTypes' /\ \E gs \in Heads : Laid(gs)' /\ Making(gs)'
<1>1. PICK b, i, e, g : b = Tip(hs) /\ i = k /\ e = Entry /\ g = Datum(Grown)
  OBVIOUS
<1>2. /\ tarAt \in {"add", "open", "copy"} /\ e.type = "file" /\ e = entries[i]
      /\ UNCHANGED <<mode, archive, tarAt, k, size, done, pos, dest, printed>>
  BY <1>1 DEF ChangeFile, Entry
<1>3. entries' = [entries EXCEPT ![i].data = Append(@, g)] /\ trouble' # {}
  BY <1>1 DEF ChangeFile, Trouble, Good, Harmless
<1>4. i \in 1..Len(entries) /\ entries \in Seq(TarEntry) /\ Len(entries) > 0
  BY <1>1, <1>2 DEF Making, TarTypes
<1>5. e \in TarEntry /\ e.data \in Seq(Content) /\ g \in Content
  BY <1>1, <1>2, <1>4, EntryIs DEF Content
<1>6. PICK f : f = [e EXCEPT !.data = Append(@, g)]
  OBVIOUS
<1>7. /\ Append(e.data, g) \in Seq(Content) /\ Len(Append(e.data, g)) = Len(e.data) + 1
      /\ \A p \in 1..Len(e.data) : Append(e.data, g)[p] = e.data[p]
      /\ Len(e.data) \in Nat
  BY <1>5, AppendProperties
<1>8. f.name = e.name /\ f.type = e.type /\ f.data = Append(e.data, g) /\ f \in TarEntry
  BY <1>5, <1>6, <1>7 DEF TarEntry
<1>9. Longer(e, f)
  BY <1>7, <1>8 DEF Longer
<1>10. entries' = [entries EXCEPT ![i] = f]
  BY <1>2, <1>3, <1>4, <1>6
<1>11. /\ entries' \in Seq(TarEntry) /\ Len(entries') = Len(entries) /\ entries'[i] = f
       /\ \A j \in 1..Len(entries) : j # i => entries'[j] = entries[j]
  BY <1>4, <1>8, <1>10, ExceptSeq
<1>12. Grew
  <2>1. ASSUME NEW j \in 1..Len(entries) PROVE Longer(entries[j], entries'[j])
    <3>1. CASE j = i
      BY <1>2, <1>9, <1>11, <3>1
    <3>2. CASE j # i
      BY <1>11, <3>2, EntryIs, LongerSelf
    <3> QED
      BY <3>1, <3>2
  <2> QED
    BY <1>11, <2>1 DEF Grew
<1>13. Kept
  BY <1>2 DEF Kept, TarTypes
<1>14. Laid(hs)'
  BY <1>3, <1>12, <1>13, LaidKept
<1>15. TarTypes'
  <2>1. ASSUME NEW j \in 1..Len(entries'), entries'[j].type # "file" PROVE entries'[j].data = <<>>
    <3>1. j # i
      BY <1>2, <1>8, <1>11, <2>1
    <3>2. entries'[j] = entries[j] /\ j \in 1..Len(entries)
      BY <1>11, <3>1
    <3> QED
      BY <2>1, <3>2 DEF TarTypes
  <2>2. tarAt' \in {"add", "open", "copy", "end", "read", "data", "skip", "done"}
    BY <1>2
  <2>3. entries' \in Seq(TarEntry) /\ Len(entries') > 0
    BY <1>4, <1>11
  <2>4. /\ mode' \in {"list", "extract"}
        /\ archive' \in Seq(Units) /\ k' \in Nat /\ size' \in Nat /\ done' \in Nat /\ pos' \in Nat
        /\ dest' \in Seq(Outputs) /\ printed' \in Seq(Names)
    BY <1>2 DEF TarTypes
  <2> QED
    BY <2>1, <2>2, <2>3, <2>4 DEF TarTypes
<1>16. Making(hs)'
  <2>1. Entry' = f /\ k' = i /\ k' \in 1..Len(entries)'
    BY <1>1, <1>2, <1>4, <1>11 DEF Entry
  <2>2. dest' = <<>> /\ printed' = <<>> /\ pos' = 0 /\ tarAt' \in {"add", "open", "copy"}
    BY <1>2 DEF Making
  <2>3. tarAt' = "add" => Len(archive)' = Tip(hs) /\ done' = 0
    BY <1>2 DEF Making
  <2>4. ASSUME tarAt \in {"open", "copy"}
        PROVE  (/\ Entry.type = "file" /\ size <= Len(Entry.data) /\ done <= size
                /\ (tarAt = "open" => done = 0)
                /\ Len(archive) = Tip(hs) + Block + done
                /\ HeaderAt(Tip(hs), Entry, size) /\ DataAt(Tip(hs), Entry, done))'
    <3>1. /\ b \in Nat /\ Block \in Nat \ {0}
          /\ size \in Nat /\ done \in Nat /\ size <= Len(e.data) /\ done <= size
          /\ Len(archive) = b + Block + done
          /\ HeaderAt(b, e, size) /\ DataAt(b, e, done)
      BY <1>1, <2>4, Copying
    <3>2. PICK n, d : n = size /\ d = done
      OBVIOUS
    <3>3. b + Block <= Len(archive) /\ b + Block + d <= Len(archive) /\ d \in Nat /\ d <= Len(e.data)
      BY <1>7, <3>1, <3>2
    <3>4. HeaderAt(b, f, n)' /\ DataAt(b, f, d)'
      <4>1. HeaderAt(b, e, n) /\ DataAt(b, e, d)
        BY <3>1, <3>2
      <4> QED
        BY <1>7, <1>9, <1>13, <3>1, <3>3, <4>1, HeaderKept, DataKept
    <3>5. (HeaderAt(Tip(hs), Entry, size) /\ DataAt(Tip(hs), Entry, done))'
      BY <1>1, <1>2, <2>1, <3>2, <3>4
    <3>6. size <= Len(f.data) /\ f.type = "file"
      BY <1>2, <1>7, <1>8, <3>1
    <3>7. tarAt' = "open" => done' = 0
      BY <1>2 DEF Making
    <3> QED
      BY <1>1, <1>2, <2>1, <3>1, <3>5, <3>6, <3>7
  <2> QED
    BY <1>2, <1>3, <2>1, <2>2, <2>3, <2>4 DEF Making
<1> QED
  BY <1>14, <1>15, <1>16

-----------------------------------------------------------------------------
(* The reader.                                                             *)

\* h, the entry after the first j, holds units of e
Following(hs, j, h, e) ==
  /\ h.at \in Nat /\ h.n \in Nat /\ h.of \in 1..Len(entries)
  /\ h.at = After(hs, j) /\ After(hs, j + 1) = h.at + Span(h.n)
  /\ e \in TarEntry /\ e.data \in Seq(Content) /\ Len(e.data) \in Nat /\ h.n <= Len(e.data)
  /\ e.type # "file" => Len(e.data) = 0
  /\ HeaderAt(h.at, e, h.n) /\ DataAt(h.at, e, h.n)
  /\ h.at + Span(h.n) <= Len(archive) /\ Len(archive) \in Nat
  /\ Padding(h.n) \in Nat /\ Block \in Nat \ {0}
  /\ trouble = {} => h.of = j + 1 /\ h.n = Len(e.data)

LEMMA NextEntryIs ==
  ASSUME TarTypes, NEW hs \in Heads, Laid(hs), NEW j \in 0..Len(hs), j < Len(hs),
         NEW h, h = hs[j + 1], NEW e, e = entries[h.of]
  PROVE  Following(hs, j, h, e)
<1>1. Len(hs) \in Nat /\ j \in Nat
  BY DEF Heads
<1>2. j + 1 \in 1..Len(hs) /\ (j + 1) - 1 = j /\ j + 1 # 0
  BY <1>1
<1>3. h.at \in Nat /\ h.n \in Nat
  BY <1>2, HeadIs
<1>4. h.at = After(hs, j) /\ Whole(h)
  BY <1>2 DEF Laid
<1>5. /\ h.of \in 1..Len(entries) /\ h.n <= Len(e.data)
      /\ HeaderAt(h.at, e, h.n) /\ DataAt(h.at, e, h.n)
      /\ h.at + Span(h.n) <= Len(archive)
  BY <1>4 DEF Whole
<1>6. /\ e \in TarEntry /\ e.data \in Seq(Content) /\ Len(e.data) \in Nat
      /\ e.type # "file" => Len(e.data) = 0
  BY <1>5, EntryIs
<1>7. After(hs, j + 1) = h.at + Span(h.n)
  BY <1>2 DEF After
<1>8. trouble = {} => h.of = j + 1 /\ h.n = Len(entries[j + 1].data)
  BY <1>2 DEF Laid
<1>9. Len(archive) \in Nat
  BY DEF TarTypes
<1>10. Padding(h.n) \in Nat /\ Block \in Nat \ {0}
  BY <1>3, PaddingIs, TarAssumption
<1> QED
  BY <1>3, <1>4, <1>5, <1>6, <1>7, <1>8, <1>9, <1>10 DEF Following

LEMMA TypesAreNoZero == \A t \in Types : t # "zero" /\ t # "rest"
BY DEF Types

LEMMA AtHeader ==
  ASSUME NEW b \in Nat, pos = b, NEW e \in TarEntry, NEW n \in Nat, HeaderAt(b, e, n),
         b + Block <= Len(archive), Len(archive) \in Nat
  PROVE  /\ IsHeader /\ ~AtZeros /\ Ahead > 0
         /\ Head0.name = e.name /\ Head0.type = e.type /\ Head0.size = n
<1>1. Block \in Nat \ {0}
  BY TarAssumption
<1>2. Ahead >= Block /\ Ahead > 0
  BY <1>1 DEF Ahead
<1>3. archive[pos + 1] = Unit(e.type, e.name, n) /\ \A p \in 2..Block : archive[pos + p] = Rest
  BY DEF HeaderAt
<1>4. Head0.name = e.name /\ Head0.type = e.type /\ Head0.size = n
  BY <1>3 DEF Head0, Unit
<1>5. e.type \in Types
  BY DEF TarEntry
<1>6. IsHeader
  BY <1>2, <1>3, <1>4, <1>5 DEF IsHeader, Head0
<1>7. ~AtZeros
  <2>1. 1 \in 1..Block
    BY <1>1
  <2>2. Zero.type = "zero"
    BY DEF Zero, Unit
  <2>3. archive[pos + 1] # Zero
    BY <1>4, <1>5, <2>2, TypesAreNoZero DEF Head0
  <2> QED
    BY <2>1, <2>3 DEF AtZeros
<1> QED
  BY <1>2, <1>4, <1>6, <1>7

LEMMA AtTheZeros ==
  ASSUME NEW b \in Nat, pos = b, Len(archive) = b + 2 * Block,
         \A p \in 1..Block : archive[b + p] = Zero
  PROVE  AtZeros /\ ~IsHeader
<1>1. Block \in Nat \ {0}
  BY TarAssumption
<1>2. Ahead >= Block
  BY <1>1 DEF Ahead
<1>3. AtZeros
  BY <1>2 DEF AtZeros
<1>4. ~IsHeader
  <2>1. 1 \in 1..Block
    BY <1>1
  <2>2. archive[pos + 1] = Zero
    BY <2>1
  <2>3. Zero.type = "zero"
    BY DEF Zero, Unit
  <2>4. archive[pos + 1].type = "zero"
    BY <2>2, <2>3
  <2> QED
    BY <2>4, TypesAreNoZero DEF IsHeader
<1> QED
  BY <1>3, <1>4

\* the reader is at the beginning of a header, or at the end of the archive
LEMMA ReadingAt ==
  ASSUME TarTypes, NEW hs \in Heads, Laid(hs), Unpacking(hs), tarAt = "read"
  PROVE  \E j \in 0..Len(hs) :
           /\ pos = After(hs, j) /\ Got(j)
           /\ \/ j < Len(hs) /\ IsHeader /\ ~AtZeros /\ Ahead > 0
              \/ j = Len(hs) /\ AtZeros /\ ~IsHeader
<1>1. PICK j \in 0..Len(hs) : pos = After(hs, j) /\ Got(j)
  BY DEF Unpacking
<1>2. Len(hs) \in Nat /\ j \in Nat
  BY <1>1 DEF Heads
<1>3. CASE j < Len(hs)
  <2>1. PICK h, e : h = hs[j + 1] /\ e = entries[h.of]
    OBVIOUS
  <2>2. PICK b, n : b = h.at /\ n = h.n
    OBVIOUS
  <2>3. /\ b \in Nat /\ n \in Nat /\ b = After(hs, j) /\ e \in TarEntry /\ HeaderAt(b, e, n)
        /\ b + Span(n) <= Len(archive) /\ Len(archive) \in Nat
        /\ Padding(n) \in Nat /\ Block \in Nat \ {0}
    <3>1. Following(hs, j, h, e)
      BY <1>1, <1>3, <2>1, NextEntryIs
    <3> QED
      BY <1>1, <2>2, <3>1 DEF Following
  <2>4. b + Block <= Len(archive)
    BY <2>3 DEF Span
  <2>5. IsHeader /\ ~AtZeros /\ Ahead > 0
    BY <1>1, <2>3, <2>4, AtHeader
  <2> QED
    BY <1>1, <1>3, <2>5
<1>4. CASE j = Len(hs)
  <2>1. PICK b : b = Tip(hs)
    OBVIOUS
  <2>2. b \in Nat /\ pos = b
    BY <1>1, <1>4, <2>1, TipTyped DEF Tip
  <2>3. Len(archive) = b + 2 * Block /\ \A p \in 1..Block : archive[b + p] = Zero
    BY <2>1 DEF Unpacking
  <2>4. AtZeros /\ ~IsHeader
    BY <2>2, <2>3, AtTheZeros
  <2> QED
    BY <1>1, <1>4, <2>4
<1> QED
  BY <1>1, <1>2, <1>3, <1>4

\* a reader's step leaves the archive as it is
LEMMA LaidStays ==
  ASSUME TarTypes, NEW hs \in Heads, Laid(hs), Unpacking(hs), Reading,
         trouble' = {} => trouble = {}
  PROVE  /\ Laid(hs)'
         /\ Len(archive)' = Tip(hs) + 2 * Block
         /\ \A p \in 1..Block : archive'[Tip(hs) + p] = Zero
         /\ trouble' = {} => Len(hs) = Len(entries)'
<1>1. UNCHANGED <<archive, entries>>
  BY DEF Reading
<1>2. Laid(hs)'
  BY <1>1, SameKept, LaidKept
<1> QED
  BY <1>1, <1>2 DEF Unpacking

LEMMA ReadEndKeeps ==
  ASSUME TarTypes, NEW hs \in Heads, Laid(hs), Unpacking(hs), ReadEnd
  PROVE  TarTypes' /\ \E gs \in Heads : Laid(gs)' /\ Unpacking(gs)'
<1>1. /\ tarAt = "read" /\ tarAt' = "done" /\ Reading /\ (Ahead <= 0 \/ AtZeros)
      /\ UNCHANGED <<k, size, done, pos, dest, printed, extracted, trouble>>
  BY DEF ReadEnd
<1>2. PICK j \in 0..Len(hs) :
        /\ pos = After(hs, j) /\ Got(j)
        /\ \/ j < Len(hs) /\ IsHeader /\ ~AtZeros /\ Ahead > 0
           \/ j = Len(hs) /\ AtZeros /\ ~IsHeader
  BY <1>1, ReadingAt
<1>3. Ahead \in Int
  BY DEF Ahead, TarTypes
<1>4. j = Len(hs)
  BY <1>1, <1>2, <1>3
<1>5. TarTypes'
  BY <1>1 DEF TarTypes, Reading
<1>6. /\ Laid(hs)' /\ Len(archive)' = Tip(hs) + 2 * Block
      /\ \A p \in 1..Block : archive'[Tip(hs) + p] = Zero
      /\ trouble' = {} => Len(hs) = Len(entries)'
  BY <1>1, LaidStays
<1>7. Got(j)'
  BY <1>1, <1>2 DEF Got, Comes, Stored, Reading
<1>8. Unpacking(hs)'
  BY <1>1, <1>2, <1>4, <1>6, <1>7 DEF Unpacking
<1> QED
  BY <1>5, <1>6, <1>8

LEMMA NoGarbage ==
  ASSUME TarTypes, NEW hs \in Heads, Laid(hs), Unpacking(hs)
  PROVE  ~ReadGarbage
<1>1. SUFFICES ASSUME ReadGarbage PROVE FALSE
  OBVIOUS
<1>2. tarAt = "read" /\ ~AtZeros /\ ~IsHeader
  BY <1>1 DEF ReadGarbage
<1> QED
  BY <1>2, ReadingAt

\* The reader is at the header of entry i, with n units of data, after the
\* first j of hs.
NextRead(hs, j, i, n, b) ==
  /\ j < Len(hs) /\ j + 1 \in 0..Len(hs) /\ j \in Nat /\ Got(j)
  /\ i = hs[j + 1].of /\ n = hs[j + 1].n /\ b = hs[j + 1].at /\ pos = b
  /\ After(hs, j + 1) = b + (Block + n + Padding(n)) /\ Padding(n) \in Nat
  /\ Block \in Nat \ {0}
  /\ Head0.name = entries[i].name /\ Head0.type = entries[i].type /\ Head0.size = n
  /\ entries[i].name \in Names /\ entries[i].type \in Types
  /\ entries[i].data \in Seq(Content) /\ Len(entries[i].data) \in Nat
  /\ n <= Len(entries[i].data)
  /\ entries[i].type # "file" => n = 0 /\ entries[i].data = <<>>
  /\ trouble = {} => i = j + 1 /\ n = Len(entries[i].data)

LEMMA HeaderRead ==
  ASSUME TarTypes, NEW hs \in Heads, Laid(hs), Unpacking(hs), tarAt = "read", IsHeader
  PROVE  \E j \in 0..Len(hs), i \in 1..Len(entries), n \in Nat, b \in Nat : NextRead(hs, j, i, n, b)
<1>1. PICK j \in 0..Len(hs) : pos = After(hs, j) /\ Got(j) /\ j < Len(hs)
  BY ReadingAt
<1>2. Len(hs) \in Nat /\ j \in Nat
  BY <1>1 DEF Heads
<1>3. PICK h, e : h = hs[j + 1] /\ e = entries[h.of]
  OBVIOUS
<1>4. PICK b, n, i : b = h.at /\ n = h.n /\ i = h.of
  OBVIOUS
<1>5. /\ b \in Nat /\ n \in Nat /\ i \in 1..Len(entries)
      /\ b = After(hs, j) /\ After(hs, j + 1) = b + Span(n)
      /\ e \in TarEntry /\ e.data \in Seq(Content) /\ Len(e.data) \in Nat /\ n <= Len(e.data)
      /\ e.type # "file" => Len(e.data) = 0
      /\ HeaderAt(b, e, n)
      /\ b + Span(n) <= Len(archive) /\ Len(archive) \in Nat
      /\ Padding(n) \in Nat /\ Block \in Nat \ {0}
      /\ trouble = {} => i = j + 1 /\ n = Len(e.data)
  <2>1. /\ h.at \in Nat /\ h.n \in Nat /\ h.of \in 1..Len(entries)
        /\ h.at = After(hs, j) /\ After(hs, j + 1) = h.at + Span(h.n)
        /\ e \in TarEntry /\ e.data \in Seq(Content) /\ Len(e.data) \in Nat /\ h.n <= Len(e.data)
        /\ e.type # "file" => Len(e.data) = 0
        /\ HeaderAt(h.at, e, h.n)
        /\ h.at + Span(h.n) <= Len(archive) /\ Len(archive) \in Nat
        /\ Padding(h.n) \in Nat /\ Block \in Nat \ {0}
        /\ trouble = {} => h.of = j + 1 /\ h.n = Len(e.data)
    <3>1. Following(hs, j, h, e)
      BY <1>1, <1>3, NextEntryIs
    <3> QED
      BY <3>1 DEF Following
  <2> QED
    BY <1>4, <2>1
<1>6. b + Block <= Len(archive)
  BY <1>5 DEF Span
<1>7. Head0.name = e.name /\ Head0.type = e.type /\ Head0.size = n
  BY <1>1, <1>5, <1>6, AtHeader
<1>8. e = entries[i]
  BY <1>3, <1>4
<1>9. e.name \in Names /\ e.type \in Types /\ (e.type # "file" => e.data = <<>>)
  BY <1>5, <1>8, EntryIs DEF TarTypes
<1>10. e.type # "file" => n = 0
  BY <1>5
<1>11. j + 1 \in 0..Len(hs)
  BY <1>1, <1>2
<1>12. i = hs[j + 1].of /\ n = hs[j + 1].n /\ b = hs[j + 1].at /\ pos = b
  BY <1>1, <1>3, <1>4, <1>5
<1>13. After(hs, j + 1) = b + (Block + n + Padding(n))
  BY <1>5 DEF Span
<1>14. NextRead(hs, j, i, n, b)
  BY <1>1, <1>2, <1>5, <1>7, <1>8, <1>9, <1>10, <1>11, <1>12, <1>13 DEF NextRead
<1> QED
  BY <1>1, <1>5, <1>14

LEMMA ListKeeps ==
  ASSUME TarTypes, NEW hs \in Heads, Laid(hs), Unpacking(hs), ListEntry
  PROVE  TarTypes' /\ \E gs \in Heads : Laid(gs)' /\ Unpacking(gs)'
<1>1. /\ tarAt = "read" /\ tarAt' = "read" /\ mode = "list" /\ IsHeader /\ Reading
      /\ printed' = Append(printed, Head0.name)
      /\ pos' = pos + Block + ((Head0.size + Block - 1) \div Block) * Block
      /\ UNCHANGED <<k, size, done, dest, extracted, trouble>>
      /\ entries' = entries /\ archive' = archive /\ mode' = mode
  BY DEF ListEntry, tar_skip_data, Reading
<1>2. PICK j \in 0..Len(hs), i \in 1..Len(entries), n \in Nat, b \in Nat :
        /\ j < Len(hs) /\ j + 1 \in 0..Len(hs) /\ j \in Nat /\ Got(j) /\ pos = b
        /\ After(hs, j + 1) = b + (Block + n + Padding(n)) /\ Padding(n) \in Nat
        /\ Block \in Nat \ {0}
        /\ Head0.name = entries[i].name /\ Head0.size = n
        /\ entries[i].name \in Names
        /\ trouble = {} => i = j + 1
  <2>1. PICK j \in 0..Len(hs), i \in 1..Len(entries), n \in Nat, b \in Nat : NextRead(hs, j, i, n, b)
    BY <1>1, HeaderRead
  <2> QED
    BY <2>1 DEF NextRead
<1>3. pos' = After(hs, j + 1) /\ pos' \in Nat
  <2>1. ((n + Block - 1) \div Block) * Block = n + Padding(n)
    BY <1>2, PaddingIs
  <2>2. pos' = b + Block + (n + Padding(n))
    BY <1>1, <1>2, <2>1
  <2> QED
    BY <1>2, <2>2
<1>4. /\ printed' \in Seq(Names) /\ Len(printed') = Len(printed) + 1
      /\ \A p \in 1..Len(printed) : printed'[p] = printed[p]
      /\ printed'[Len(printed) + 1] = entries[i].name
  BY <1>1, <1>2, AppendProperties DEF TarTypes
<1>5. TarTypes'
  BY <1>1, <1>3, <1>4 DEF TarTypes
<1>6. /\ Laid(hs)' /\ Len(archive)' = Tip(hs) + 2 * Block
      /\ \A p \in 1..Block : archive'[Tip(hs) + p] = Zero
      /\ trouble' = {} => Len(hs) = Len(entries)'
  BY <1>1, LaidStays
<1>7. Got(j + 1)'
  <2>1. \A p \in 1..Len(dest') : Comes(dest[p])'
    BY <1>1, <1>2 DEF Got, Comes
  <2>2. ASSUME trouble' = {}
        PROVE  Len(printed') = j + 1 /\ \A p \in 1..j + 1 : printed'[p] = entries'[p].name
    <3>1. Len(printed) = j /\ (\A p \in 1..j : printed[p] = entries[p].name) /\ i = j + 1
      BY <1>1, <1>2, <2>2 DEF Got
    <3>2. ASSUME NEW p \in 1..j + 1 PROVE printed'[p] = entries'[p].name
      <4>1. CASE p \in 1..j
        BY <1>1, <1>4, <3>1, <4>1
      <4>2. CASE p = j + 1
        BY <1>1, <1>4, <3>1, <4>2
      <4> QED
        BY <1>2, <4>1, <4>2
    <3> QED
      BY <1>4, <3>1, <3>2
  <2>3. mode' # "extract"
    BY <1>1
  <2> QED
    BY <2>1, <2>2, <2>3 DEF Got
<1>8. Unpacking(hs)'
  BY <1>1, <1>2, <1>3, <1>6, <1>7 DEF Unpacking
<1> QED
  BY <1>5, <1>6, <1>8

LEMMA StoredIs ==
  ASSUME NEW i \in 1..Len(entries)
  PROVE  Stored[i] = [name |-> entries[i].name, type |-> entries[i].type, data |-> entries[i].data]
BY DEF Stored

LEMMA Took ==
  ASSUME TarTypes, NEW j \in Nat, NEW d \in Outputs, Comes(d), Got(j), mode = "extract",
         UNCHANGED <<entries, mode>>, dest' = Append(dest, d),
         trouble' = {} => trouble = {} /\ d = Stored[j + 1]
  PROVE  Got(j + 1)' /\ dest' \in Seq(Outputs)
<1>1. dest \in Seq(Outputs)
  BY DEF TarTypes
<1>2. /\ dest' \in Seq(Outputs) /\ Len(dest') = Len(dest) + 1 /\ Len(dest) \in Nat
      /\ \A p \in 1..Len(dest) : dest'[p] = dest[p]
      /\ dest'[Len(dest) + 1] = d
  BY <1>1, AppendProperties
<1>3. ASSUME NEW p \in 1..Len(dest') PROVE Comes(dest[p])'
  <2>1. CASE p \in 1..Len(dest)
    BY <1>2, <2>1 DEF Got, Comes
  <2>2. CASE p = Len(dest) + 1
    BY <1>2, <2>2 DEF Comes
  <2> QED
    BY <1>2, <2>1, <2>2
<1>4. Stored' = Stored
  BY DEF Stored
<1>5. ASSUME trouble' = {} PROVE Len(dest') = j + 1 /\ \A p \in 1..j + 1 : dest'[p] = Stored'[p]
  <2>1. Len(dest) = j /\ (\A p \in 1..j : dest[p] = Stored[p]) /\ d = Stored[j + 1]
    BY <1>5 DEF Got
  <2>2. ASSUME NEW p \in 1..j + 1 PROVE dest'[p] = Stored'[p]
    <3>1. CASE p \in 1..j
      BY <1>2, <1>4, <2>1, <3>1
    <3>2. CASE p = j + 1
      BY <1>2, <1>4, <2>1, <3>2
    <3>3. p \in 1..j \/ p = j + 1
      OBVIOUS
    <3> QED
      BY <3>1, <3>2, <3>3
  <2> QED
    BY <1>2, <2>1, <2>2
<1>6. mode' # "list"
  OBVIOUS
<1> QED
  BY <1>2, <1>3, <1>5, <1>6 DEF Got

\* nothing is kept of an entry
LEMMA Missed ==
  ASSUME NEW j \in Nat, Got(j), UNCHANGED <<entries, mode, dest>>, trouble' # {}
  PROVE  Got(j + 1)'
BY DEF Got, Comes

LEMMA OtherKeeps ==
  ASSUME TarTypes, NEW hs \in Heads, Laid(hs), Unpacking(hs), ExtractOther
  PROVE  TarTypes' /\ \E gs \in Heads : Laid(gs)' /\ Unpacking(gs)'
<1>1. /\ tarAt = "read" /\ tarAt' = "read" /\ mode = "extract" /\ IsHeader /\ Reading
      /\ Head0.type \in {"dir", "link"} /\ pos' = pos + Block
      /\ \/ dest' = Append(dest, Made(Head0.type, <<>>)) /\ UNCHANGED trouble
         \/ Trouble("make") /\ UNCHANGED dest
      /\ UNCHANGED <<k, size, done, printed>>
      /\ entries' = entries /\ archive' = archive /\ mode' = mode
  BY DEF ExtractOther, Reading
<1>2. PICK j \in 0..Len(hs), i \in 1..Len(entries), n \in Nat, b \in Nat :
        /\ j < Len(hs) /\ j + 1 \in 0..Len(hs) /\ j \in Nat /\ Got(j) /\ pos = b
        /\ After(hs, j + 1) = b + (Block + n + Padding(n))
        /\ Block \in Nat \ {0}
        /\ Head0.name = entries[i].name /\ Head0.type = entries[i].type
        /\ entries[i].name \in Names /\ entries[i].type \in Types
        /\ entries[i].type # "file" => n = 0 /\ entries[i].data = <<>>
        /\ trouble = {} => i = j + 1
  <2>1. PICK j \in 0..Len(hs), i \in 1..Len(entries), n \in Nat, b \in Nat : NextRead(hs, j, i, n, b)
    BY <1>1, HeaderRead
  <2> QED
    BY <2>1 DEF NextRead
<1>3. entries[i].type # "file" /\ n = 0 /\ entries[i].data = <<>>
  BY <1>1, <1>2
<1>4. pos' = After(hs, j + 1) /\ pos' \in Nat
  BY <1>1, <1>2, <1>3, NoPadding
<1>5. PICK d : d = Made(Head0.type, <<>>)
  OBVIOUS
<1>6. d = [name |-> entries[i].name, type |-> entries[i].type, data |-> <<>>]
  BY <1>2, <1>5 DEF Made
<1>7. d \in Outputs
  BY <1>2, <1>6 DEF Outputs
<1>8. Comes(d)
  <2>1. Len(entries[i].data) = 0 /\ 0 \in 0..0
    BY <1>3
  <2>2. SubSeq(entries[i].data, 1, 0) = <<>>
    BY SubSeqEmpty
  <2>3. d.name = entries[i].name /\ d.type = entries[i].type /\ d.data = <<>>
    BY <1>6
  <2> QED
    BY <2>1, <2>2, <2>3 DEF Comes
<1>9. trouble = {} => d = Stored[j + 1]
  BY <1>2, <1>3, <1>6, StoredIs
<1>10. Got(j + 1)' /\ dest' \in Seq(Outputs) /\ (trouble' = {} => trouble = {})
  <2>1. CASE dest' = Append(dest, d) /\ UNCHANGED trouble
    BY <1>1, <1>2, <1>7, <1>8, <1>9, <2>1, Took
  <2>2. CASE Trouble("make") /\ UNCHANGED dest
    <3>1. trouble' # {}
      BY <2>2 DEF Trouble
    <3> QED
      BY <1>1, <1>2, <2>2, <3>1, Missed DEF TarTypes
  <2> QED
    BY <1>1, <1>5, <2>1, <2>2
<1>11. TarTypes'
  BY <1>1, <1>4, <1>10 DEF TarTypes
<1>12. /\ Laid(hs)' /\ Len(archive)' = Tip(hs) + 2 * Block
       /\ \A p \in 1..Block : archive'[Tip(hs) + p] = Zero
       /\ trouble' = {} => Len(hs) = Len(entries)'
  BY <1>1, <1>10, LaidStays
<1>13. Unpacking(hs)'
  BY <1>1, <1>2, <1>4, <1>10, <1>12 DEF Unpacking
<1> QED
  BY <1>11, <1>12, <1>13

LEMMA OpenOutKeeps ==
  ASSUME TarTypes, NEW hs \in Heads, Laid(hs), Unpacking(hs), ExtractOpen
  PROVE  TarTypes' /\ \E gs \in Heads : Laid(gs)' /\ Unpacking(gs)'
<1>1. /\ tarAt = "read" /\ mode = "extract" /\ IsHeader /\ Reading /\ Head0.type = "file"
      /\ UNCHANGED <<k, printed>>
      /\ entries' = entries /\ archive' = archive /\ mode' = mode
  BY DEF ExtractOpen, Reading
<1>2. PICK j \in 0..Len(hs), i \in 1..Len(entries), n \in Nat, b \in Nat :
        /\ j < Len(hs) /\ j + 1 \in 0..Len(hs) /\ j \in Nat /\ Got(j)
        /\ i = hs[j + 1].of /\ n = hs[j + 1].n /\ b = hs[j + 1].at /\ pos = b
        /\ After(hs, j + 1) = b + (Block + n + Padding(n)) /\ Padding(n) \in Nat
        /\ Block \in Nat \ {0}
        /\ Head0.name = entries[i].name /\ Head0.type = entries[i].type /\ Head0.size = n
        /\ entries[i].name \in Names /\ entries[i].type \in Types
  <2>1. PICK j \in 0..Len(hs), i \in 1..Len(entries), n \in Nat, b \in Nat : NextRead(hs, j, i, n, b)
    BY <1>1, HeaderRead
  <2> QED
    BY <2>1 DEF NextRead
<1>3. CASE /\ dest' = Append(dest, Made("file", <<>>))
           /\ tarAt' = "data" /\ size' = Head0.size /\ done' = 0 /\ pos' = pos + Block
           /\ UNCHANGED trouble
  <2>1. PICK d : d = Made("file", <<>>)
    OBVIOUS
  <2>2. d = [name |-> entries[i].name, type |-> "file", data |-> <<>>] /\ d \in Outputs
    BY <1>1, <1>2, <2>1 DEF Made, Outputs
  <2>3. /\ dest' \in Seq(Outputs) /\ Len(dest') = Len(dest) + 1 /\ Len(dest) \in Nat
        /\ \A p \in 1..Len(dest) : dest'[p] = dest[p]
        /\ dest'[Len(dest) + 1] = d /\ dest' # <<>>
    <3>1. dest \in Seq(Outputs) /\ dest' = Append(dest, d)
      BY <1>3, <2>1 DEF TarTypes
    <3> QED
      BY <2>2, <3>1, AppendProperties
  <2>4. TarTypes'
    <3>1. pos' \in Nat /\ size' \in Nat /\ done' \in Nat
      BY <1>2, <1>3
    <3> QED
      BY <1>1, <1>3, <2>3, <3>1 DEF TarTypes
  <2>5. /\ Laid(hs)' /\ Len(archive)' = Tip(hs) + 2 * Block
        /\ \A p \in 1..Block : archive'[Tip(hs) + p] = Zero
        /\ trouble' = {} => Len(hs) = Len(entries)'
    BY <1>1, <1>3, LaidStays
  <2>6. Getting(j, entries[i], 0)'
    <3>1. SubSeq(entries'[i].data, 1, 0) = <<>>
      BY SubSeqEmpty
    <3>2. dest'[Len(dest')] = [name |-> entries'[i].name, type |-> "file",
                               data |-> SubSeq(entries'[i].data, 1, 0)]
      BY <1>1, <2>2, <2>3, <3>1
    <3>3. ASSUME NEW p \in 1..Len(dest') - 1 PROVE Comes(dest[p])'
      <4>1. p \in 1..Len(dest)
        BY <2>3
      <4>2. dest'[p] = dest[p] /\ Comes(dest[p])
        BY <1>2, <2>3, <4>1 DEF Got
      <4> QED
        BY <1>1, <4>2 DEF Comes
    <3>4. ASSUME trouble' = {} PROVE Len(dest') = j + 1 /\ \A p \in 1..j : dest'[p] = Stored'[p]
      <4>1. Len(dest) = j /\ \A p \in 1..j : dest[p] = Stored[p]
        BY <1>1, <1>2, <1>3, <3>4 DEF Got
      <4>2. Stored' = Stored
        BY <1>1 DEF Stored
      <4> QED
        BY <2>3, <4>1, <4>2
    <3> QED
      BY <1>1, <2>3, <3>2, <3>3, <3>4 DEF Getting
  <2>7. /\ size' = hs[j + 1].n /\ done' = 0 /\ done' <= size'
        /\ entries'[hs[j + 1].of].type = "file"
        /\ pos' = hs[j + 1].at + Block + done'
    BY <1>1, <1>2, <1>3
  <2>8. Getting(j, entries[hs[j + 1].of], done)'
    BY <1>2, <2>6, <2>7
  <2>9. Unpacking(hs)'
    BY <1>2, <1>3, <2>5, <2>7, <2>8 DEF Unpacking
  <2> QED
    BY <2>4, <2>5, <2>9
<1>4. CASE Trouble("create") /\ tar_skip_data(Head0.size) /\ UNCHANGED <<tarAt, size, done, dest>>
  <2>1. pos' = After(hs, j + 1) /\ pos' \in Nat
    <3>1. ((n + Block - 1) \div Block) * Block = n + Padding(n)
      BY <1>2, PaddingIs
    <3>2. pos' = b + Block + (n + Padding(n))
      BY <1>2, <1>4, <3>1 DEF tar_skip_data
    <3>3. PICK m : m = Padding(n)
      OBVIOUS
    <3>4. m \in Nat /\ pos' = b + Block + (n + m) /\ After(hs, j + 1) = b + (Block + n + m)
          /\ b \in Nat /\ n \in Nat /\ Block \in Nat
      BY <1>2, <3>2, <3>3
    <3> QED
      BY <3>4
  <2>2. trouble' # {}
    BY <1>4 DEF Trouble
  <2>3. Got(j + 1)'
    BY <1>1, <1>2, <1>4, <2>2, Missed
  <2>4. TarTypes'
    BY <1>1, <1>4, <2>1 DEF TarTypes
  <2>5. /\ Laid(hs)' /\ Len(archive)' = Tip(hs) + 2 * Block
        /\ \A p \in 1..Block : archive'[Tip(hs) + p] = Zero
        /\ trouble' = {} => Len(hs) = Len(entries)'
    BY <1>1, <2>2, LaidStays
  <2>6. Unpacking(hs)'
    BY <1>1, <1>2, <1>4, <2>1, <2>3, <2>5 DEF Unpacking
  <2> QED
    BY <2>4, <2>5, <2>6
<1> QED
  BY <1>3, <1>4 DEF ExtractOpen

\* The reader is in the data of entry i.
InData(hs, j, i, n, b) ==
  /\ j < Len(hs) /\ j + 1 \in 0..Len(hs) /\ j \in Nat
  /\ i = hs[j + 1].of /\ n = hs[j + 1].n /\ b = hs[j + 1].at
  /\ size = n /\ done \in Nat /\ done <= n /\ pos = b + Block + done
  /\ tarAt = "skip" => done = n
  /\ After(hs, j + 1) = b + (Block + n + Padding(n)) /\ Padding(n) \in Nat
  /\ Block \in Nat \ {0}
  /\ b + (Block + n + Padding(n)) <= Len(archive) /\ Len(archive) \in Nat
  /\ DataAt(b, entries[i], n)
  /\ entries[i].type = "file"
  /\ entries[i].data \in Seq(Content) /\ Len(entries[i].data) \in Nat /\ n <= Len(entries[i].data)
  /\ trouble = {} => i = j + 1 /\ n = Len(entries[i].data)
  /\ Getting(j, entries[i], done)

LEMMA DataRead ==
  ASSUME TarTypes, NEW hs \in Heads, Laid(hs), Unpacking(hs), tarAt \in {"data", "skip"}
  PROVE  \E j \in 0..Len(hs), i \in 1..Len(entries), n \in Nat, b \in Nat : InData(hs, j, i, n, b)
<1>1. PICK j \in 0..Len(hs) :
            /\ j < Len(hs) /\ size = hs[j + 1].n /\ done <= size
            /\ entries[hs[j + 1].of].type = "file"
            /\ pos = hs[j + 1].at + Block + done
            /\ Getting(j, entries[hs[j + 1].of], done)
            /\ tarAt = "skip" => done = size
  BY DEF Unpacking
<1>2. Len(hs) \in Nat /\ j \in Nat
  BY <1>1 DEF Heads
<1>3. PICK h, e : h = hs[j + 1] /\ e = entries[h.of]
  OBVIOUS
<1>4. PICK b, n, i : b = h.at /\ n = h.n /\ i = h.of
  OBVIOUS
<1>5. /\ b \in Nat /\ n \in Nat /\ i \in 1..Len(entries)
      /\ After(hs, j + 1) = b + Span(n)
      /\ e.data \in Seq(Content) /\ Len(e.data) \in Nat /\ n <= Len(e.data)
      /\ DataAt(b, e, n)
      /\ b + Span(n) <= Len(archive) /\ Len(archive) \in Nat
      /\ Padding(n) \in Nat /\ Block \in Nat \ {0}
      /\ trouble = {} => i = j + 1 /\ n = Len(e.data)
  <2>0. j \in 0..Len(hs) /\ j < Len(hs)
    BY <1>1
  <2>1. /\ h.at \in Nat /\ h.n \in Nat /\ h.of \in 1..Len(entries)
        /\ h.at = After(hs, j) /\ After(hs, j + 1) = h.at + Span(h.n)
        /\ e \in TarEntry /\ e.data \in Seq(Content) /\ Len(e.data) \in Nat /\ h.n <= Len(e.data)
        /\ e.type # "file" => Len(e.data) = 0
        /\ HeaderAt(h.at, e, h.n) /\ DataAt(h.at, e, h.n)
        /\ h.at + Span(h.n) <= Len(archive) /\ Len(archive) \in Nat
        /\ Padding(h.n) \in Nat /\ Block \in Nat \ {0}
        /\ trouble = {} => h.of = j + 1 /\ h.n = Len(e.data)
    <3>1. Following(hs, j, h, e)
      BY <2>0, <1>3, NextEntryIs
    <3> QED
      BY <3>1 DEF Following
  <2> QED
    BY <1>4, <2>1
<1>6. e = entries[i] /\ i = hs[j + 1].of /\ n = hs[j + 1].n /\ b = hs[j + 1].at
  BY <1>3, <1>4
<1>7. /\ size = n /\ done \in Nat /\ done <= n /\ pos = b + Block + done
      /\ (tarAt = "skip" => done = n) /\ entries[i].type = "file"
      /\ Getting(j, entries[i], done)
  BY <1>1, <1>6 DEF TarTypes
<1>8. After(hs, j + 1) = b + (Block + n + Padding(n)) /\ b + (Block + n + Padding(n)) <= Len(archive)
  BY <1>5 DEF Span
<1>9. j + 1 \in 0..Len(hs)
  BY <1>1, <1>2
<1>10. InData(hs, j, i, n, b)
  BY <1>1, <1>2, <1>5, <1>6, <1>7, <1>8, <1>9 DEF InData
<1> QED
  BY <1>1, <1>5, <1>10

\* the next m units of the archive are the next m units of the data
LEMMA Piece ==
  ASSUME NEW b \in Nat, NEW e, e.data \in Seq(Content), NEW n \in Nat, DataAt(b, e, n),
         n <= Len(e.data), NEW d \in Nat, NEW m \in Nat \ {0}, d + m <= n, pos = b + Block + d
  PROVE  /\ SubSeq(e.data, 1, d) \o SubSeq(archive, pos + 1, pos + m) = SubSeq(e.data, 1, d + m)
         /\ SubSeq(e.data, 1, d + m) \in Seq(Content)
<1>1. Block \in Nat /\ Len(e.data) \in Nat
  BY TarAssumption
<1>2. PICK p, x : p = pos /\ x = e.data
  OBVIOUS
<1>3. p \in Nat /\ \A q \in 1..m : p + q = b + Block + (d + q) /\ d + q \in 1..n /\ d + q \in 1..Len(x)
  BY <1>1, <1>2
<1>4. \A q \in 1..m : archive[p + q] = x[d + q] /\ x[d + q] \in Content
  <2>1. x \in Seq(Content)
    BY <1>2
  <2> QED
    BY <1>2, <1>3, <2>1, ElementOfSeq DEF DataAt
<1>5. PICK s : s = SubSeq(archive, p + 1, p + m)
  OBVIOUS
<1>6. s \in Seq(Content) /\ Len(s) = m /\ \A q \in 1..m : s[q] = archive[p + q]
  <2>1. ASSUME NEW q \in p + 1..p + m PROVE archive[q] \in Content
    <3>1. PICK r : r = q - p
      OBVIOUS
    <3>2. r \in 1..m /\ p + r = q
      BY <1>3, <2>1, <3>1
    <3> QED
      BY <1>4, <3>2
  <2>2. p + 1 \in Int /\ p + m \in Int
    BY <1>3
  <2>3. /\ s \in Seq(Content)
        /\ Len(s) = IF p + 1 <= p + m THEN (p + m) - (p + 1) + 1 ELSE 0
        /\ \A q \in 1..(p + m) - (p + 1) + 1 : s[q] = archive[(p + 1) + q - 1]
    BY <1>5, <2>1, <2>2, SubSeqProperties
  <2>4. p + 1 <= p + m /\ (p + m) - (p + 1) + 1 = m /\ \A q \in 1..m : (p + 1) + q - 1 = p + q
    BY <1>3
  <2> QED
    BY <2>3, <2>4
<1>7. PICK t : t = SubSeq(x, d + 1, d + m)
  OBVIOUS
<1>8. t \in Seq(Content) /\ Len(t) = m /\ \A q \in 1..m : t[q] = x[d + q]
  <2>1. ASSUME NEW q \in d + 1..d + m PROVE x[q] \in Content
    <3>1. PICK r : r = q - d
      OBVIOUS
    <3>2. r \in 1..m /\ d + r = q
      BY <2>1, <3>1
    <3> QED
      BY <1>4, <3>2
  <2>2. d + 1 \in Int /\ d + m \in Int
    OBVIOUS
  <2>3. /\ t \in Seq(Content)
        /\ Len(t) = IF d + 1 <= d + m THEN (d + m) - (d + 1) + 1 ELSE 0
        /\ \A q \in 1..(d + m) - (d + 1) + 1 : t[q] = x[(d + 1) + q - 1]
    BY <1>7, <2>1, <2>2, SubSeqProperties
  <2>4. d + 1 <= d + m /\ (d + m) - (d + 1) + 1 = m /\ \A q \in 1..m : (d + 1) + q - 1 = d + q
    OBVIOUS
  <2> QED
    BY <2>3, <2>4
<1>9. s = t
  BY <1>4, <1>6, <1>8, SeqEqual
<1>10. SubSeq(x, 1, d) \o SubSeq(x, d + 1, d + m) = SubSeq(x, 1, d + m)
       /\ SubSeq(x, 1, d + m) \in Seq(Content)
  <2>1. x \in Seq(Content) /\ d + m \in 1..Len(x) /\ d \in 0..d + m
    BY <1>1, <1>2
  <2>2. \A q \in 1..d + m : x[q] \in Content
    BY <2>1, ElementOfSeq
  <2>3. SubSeq(x, 1, d + m) \in Seq(Content)
    BY <2>1, <2>2, SubSeqProperties
  <2>4. SubSeq(x, 1, d) \o SubSeq(x, d + 1, d + m) = SubSeq(x, 1, d + m)
    BY <2>1, ConcatAdjacentSubSeq
  <2> QED
    BY <2>3, <2>4
<1> QED
  BY <1>2, <1>5, <1>7, <1>9, <1>10

LEMMA PieceKeeps ==
  ASSUME TarTypes, NEW hs \in Heads, Laid(hs), Unpacking(hs), ExtractData, Good'
  PROVE  TarTypes' /\ \E gs \in Heads : Laid(gs)' /\ Unpacking(gs)'
<1>1. /\ tarAt = "data" /\ Reading /\ UNCHANGED <<k, size, printed>>
      /\ entries' = entries /\ archive' = archive /\ mode' = mode
      /\ tarAt \in {"data", "skip"}
  BY DEF ExtractData, Reading
<1>2. PICK j \in 0..Len(hs), i \in 1..Len(entries), n \in Nat, b \in Nat : InData(hs, j, i, n, b)
  BY <1>1, DataRead
<1>3. PICK m \in 1..Block :
        /\ m <= size - done /\ m <= Ahead
        /\ pos' = pos + m
        /\ \/ /\ dest' = [dest EXCEPT ![Len(dest)].data = @ \o SubSeq(archive, pos + 1, pos + m)]
              /\ done' = done + m
              /\ UNCHANGED <<tarAt, extracted, trouble>>
           \/ Trouble("full")
  BY DEF ExtractData
<1>4. PICK d, e, l : d = done /\ e = entries[i] /\ l = Len(dest)
  OBVIOUS
<1>5. /\ pos' = pos + m /\ done' = d + m /\ UNCHANGED <<tarAt, trouble>>
      /\ dest' = [dest EXCEPT ![l].data = @ \o SubSeq(archive, pos + 1, pos + m)]
  BY <1>3, <1>4 DEF Trouble, Good, Harmless
<1>6. /\ j < Len(hs) /\ i = hs[j + 1].of /\ n = hs[j + 1].n /\ b = hs[j + 1].at
      /\ size = n /\ d \in Nat /\ d <= n /\ pos = b + Block + d /\ Block \in Nat \ {0}
      /\ DataAt(b, e, n) /\ e.type = "file"
      /\ e.data \in Seq(Content) /\ Len(e.data) \in Nat /\ n <= Len(e.data)
      /\ Getting(j, e, d)
  BY <1>2, <1>4 DEF InData
<1>7. m \in Nat \ {0} /\ d + m <= n
  <2>1. m \in 1..Block /\ m <= n - d
    BY <1>3, <1>4, <1>6
  <2>2. n \in Nat /\ d \in Nat /\ Block \in Nat
    BY <1>2, <1>6
  <2> QED
    BY <2>1, <2>2
<1>8. PICK us : us = SubSeq(archive, pos + 1, pos + m)
  OBVIOUS
<1>9. SubSeq(e.data, 1, d) \o us = SubSeq(e.data, 1, d + m) /\ SubSeq(e.data, 1, d + m) \in Seq(Content)
  <2>1. b \in Nat /\ n \in Nat
    BY <1>2
  <2> QED
    <3>1. pos = b + Block + d /\ e.data \in Seq(Content) /\ DataAt(b, e, n) /\ n <= Len(e.data)
          /\ d \in Nat /\ m \in Nat \ {0} /\ d + m <= n
      BY <1>6, <1>7
    <3>2. /\ SubSeq(e.data, 1, d) \o SubSeq(archive, pos + 1, pos + m) = SubSeq(e.data, 1, d + m)
          /\ SubSeq(e.data, 1, d + m) \in Seq(Content)
      BY <2>1, <3>1, Piece
    <3> QED
      BY <1>8, <3>2
<1>10. dest \in Seq(Outputs) /\ dest # <<>> /\ l \in 1..Len(dest)
  BY <1>4, <1>6 DEF Getting, TarTypes
<1>11. PICK f : f = [name |-> e.name, type |-> "file", data |-> SubSeq(e.data, 1, d + m)]
  OBVIOUS
<1>12. dest[l] = [name |-> e.name, type |-> "file", data |-> SubSeq(e.data, 1, d)]
  BY <1>4, <1>6 DEF Getting
<1>13. dest' = [dest EXCEPT ![l] = f]
  <2>1. [dest[l] EXCEPT !.data = @ \o us] = f
    <3>1. PICK v, w : v = SubSeq(e.data, 1, d) /\ w = SubSeq(e.data, 1, d + m)
      OBVIOUS
    <3>2. v \o us = w /\ dest[l] = [name |-> e.name, type |-> "file", data |-> v]
      BY <1>9, <1>12, <3>1
    <3>3. f = [name |-> e.name, type |-> "file", data |-> w]
      BY <1>11, <3>1
    <3>4. [dest[l] EXCEPT !.data = @ \o us] = [name |-> e.name, type |-> "file", data |-> v \o us]
      <4>1. PICK r, x : r = dest[l] /\ x = v \o us
        OBVIOUS
      <4>2. r = [name |-> e.name, type |-> "file", data |-> v] /\ r.data = v
        BY <3>2, <4>1
      <4>3. [r EXCEPT !.data = x] = [name |-> e.name, type |-> "file", data |-> x]
        BY <4>2
      <4>4. r.data \o us = x
        BY <4>1, <4>2
      <4> QED
        BY <4>1, <4>3, <4>4
    <3> QED
      BY <3>2, <3>3, <3>4
  <2>2. dest' = [dest EXCEPT ![l] = [dest[l] EXCEPT !.data = @ \o us]]
    BY <1>5, <1>8, <1>10
  <2> QED
    BY <2>1, <2>2
<1>14. f \in Outputs
  <2>1. e.name \in Names /\ "file" \in Types
    BY <1>2, <1>4, EntryIs DEF Types
  <2>2. Seq(Content) \subseteq Seq(Units)
    <3>1. Content \subseteq Units
      BY DEF Units
    <3> QED
      BY <3>1, SeqMonotonic
  <2> QED
    BY <1>9, <1>11, <2>1, <2>2 DEF Outputs
<1>15. /\ dest' \in Seq(Outputs) /\ Len(dest') = Len(dest) /\ dest'[l] = f
       /\ \A q \in 1..Len(dest) : q # l => dest'[q] = dest[q]
  BY <1>10, <1>13, <1>14, ExceptSeq
<1>16. Getting(j, e, d + m)'
  <2>1. Len(dest') = l /\ l \in Nat \ {0} /\ dest' # <<>>
    BY <1>4, <1>10, <1>15
  <2>2. \A q \in 1..l - 1 : dest'[q] = dest[q] /\ Comes(dest[q])
    <3>1. \A q \in 1..l - 1 : Comes(dest[q])
      BY <1>4, <1>6 DEF Getting
    <3>2. \A q \in 1..l - 1 : q \in 1..l /\ q # l
      BY <2>1
    <3>3. Len(dest) = l
      BY <1>4
    <3> QED
      BY <1>15, <3>1, <3>2, <3>3
  <2>3. \A q \in 1..l - 1 : Comes(dest[q])'
    BY <1>1, <2>2 DEF Comes
  <2>4. ASSUME trouble' = {} PROVE l = j + 1 /\ \A q \in 1..j : dest'[q] = Stored'[q]
    <3>1. l = j + 1 /\ \A q \in 1..j : dest[q] = Stored[q]
      BY <1>4, <1>5, <1>6, <2>4 DEF Getting
    <3>2. Stored' = Stored
      BY <1>1 DEF Stored
    <3>3. l - 1 = j
      BY <3>1, <2>1
    <3> QED
      BY <2>2, <3>1, <3>2, <3>3
  <2>5. mode' = "extract"
    BY <1>1, <1>6 DEF Getting
  <2>6. dest'[Len(dest')] = [name |-> e.name, type |-> "file", data |-> SubSeq(e.data, 1, d + m)]
    BY <1>11, <1>15, <2>1
  <2> QED
    BY <2>1, <2>3, <2>4, <2>5, <2>6 DEF Getting
<1>17. TarTypes'
  <2>1. pos' \in Nat /\ done' \in Nat /\ size' \in Nat
    BY <1>1, <1>5, <1>6, <1>7, <1>2
  <2> QED
    BY <1>1, <1>5, <1>15, <2>1 DEF TarTypes
<1>18. /\ Laid(hs)' /\ Len(archive)' = Tip(hs) + 2 * Block
       /\ \A p \in 1..Block : archive'[Tip(hs) + p] = Zero
       /\ trouble' = {} => Len(hs) = Len(entries)'
  BY <1>1, <1>5, LaidStays
<1>19. /\ size' = hs[j + 1].n /\ done' <= size' /\ entries'[hs[j + 1].of].type = "file"
       /\ pos' = hs[j + 1].at + Block + done'
  <2>1. pos' = b + Block + (d + m)
    BY <1>2, <1>5, <1>6, <1>7
  <2> QED
    BY <1>1, <1>4, <1>5, <1>6, <1>7, <2>1
<1>20. Getting(j, entries[hs[j + 1].of], done)'
  <2>1. entries'[hs[j + 1].of] = e
    BY <1>1, <1>4, <1>6
  <2> QED
    BY <1>5, <1>16, <2>1
<1>21. Unpacking(hs)'
  <2>1. tarAt' = "data" /\ j \in 0..Len(hs)
    BY <1>1, <1>2, <1>5
  <2> QED
    BY <1>6, <1>18, <1>19, <1>20, <2>1 DEF Unpacking
<1> QED
  BY <1>17, <1>18, <1>21

LEMMA StopKeeps ==
  ASSUME TarTypes, NEW hs \in Heads, Laid(hs), Unpacking(hs), ExtractStop, Good'
  PROVE  TarTypes' /\ \E gs \in Heads : Laid(gs)' /\ Unpacking(gs)'
<1>1. /\ tarAt = "data" /\ tarAt' = "skip" /\ Reading
      /\ UNCHANGED <<k, size, done, pos, dest, printed, extracted>>
      /\ entries' = entries /\ archive' = archive /\ mode' = mode
      /\ tarAt \in {"data", "skip"}
  BY DEF ExtractStop, Reading
<1>2. PICK j \in 0..Len(hs), i \in 1..Len(entries), n \in Nat, b \in Nat : InData(hs, j, i, n, b)
  BY <1>1, DataRead
<1>3. (done = size \/ Ahead <= 0) /\ UNCHANGED trouble
  BY DEF ExtractStop, Trouble, Good, Harmless
<1>4. /\ j < Len(hs) /\ i = hs[j + 1].of /\ n = hs[j + 1].n /\ b = hs[j + 1].at
      /\ size = n /\ done \in Nat /\ done <= n /\ pos = b + Block + done
      /\ b + (Block + n + Padding(n)) <= Len(archive) /\ Len(archive) \in Nat
      /\ Padding(n) \in Nat /\ Block \in Nat \ {0}
      /\ entries[i].type = "file"
      /\ Getting(j, entries[i], done)
  BY <1>2 DEF InData
<1>5. done = n
  <2>1. Ahead = Len(archive) - (b + Block + done)
    BY <1>4 DEF Ahead
  <2>2. PICK m, a : m = Padding(n) /\ a = Ahead
    OBVIOUS
  <2>3. PICK c, x : c = Len(archive) /\ x = done
    OBVIOUS
  <2>4. /\ b \in Nat /\ n \in Nat /\ m \in Nat /\ c \in Nat /\ x \in Nat /\ Block \in Nat
        /\ x <= n /\ b + (Block + n + m) <= c /\ a = c - (b + Block + x)
    BY <1>2, <1>4, <2>1, <2>2, <2>3
  <2>5. a <= 0 => x = n
    BY <2>4
  <2> QED
    BY <1>3, <1>4, <2>2, <2>3, <2>5
<1>6. TarTypes'
  BY <1>1 DEF TarTypes
<1>7. /\ Laid(hs)' /\ Len(archive)' = Tip(hs) + 2 * Block
      /\ \A p \in 1..Block : archive'[Tip(hs) + p] = Zero
      /\ trouble' = {} => Len(hs) = Len(entries)'
  BY <1>1, <1>3, LaidStays
<1>8. Getting(j, entries[i], done)'
  BY <1>1, <1>3, <1>4 DEF Getting, Comes, Stored
<1>9. /\ size' = hs[j + 1].n /\ done' = size' /\ done' <= size' /\ pos' = hs[j + 1].at + Block + done'
      /\ entries'[hs[j + 1].of].type = "file"
      /\ Getting(j, entries[hs[j + 1].of], done)'
  BY <1>1, <1>2, <1>4, <1>5, <1>8
<1>10. Unpacking(hs)'
  BY <1>1, <1>2, <1>4, <1>7, <1>9 DEF Unpacking
<1> QED
  BY <1>6, <1>7, <1>10

LEMMA SkipKeeps ==
  ASSUME TarTypes, NEW hs \in Heads, Laid(hs), Unpacking(hs), SkipPadding
  PROVE  TarTypes' /\ \E gs \in Heads : Laid(gs)' /\ Unpacking(gs)'
<1>1. /\ tarAt = "skip" /\ tarAt' = "read" /\ Reading
      /\ pos' = IF PadLen <= Ahead THEN pos + PadLen ELSE Len(archive)
      /\ UNCHANGED <<k, size, done, dest, printed, extracted, trouble>>
      /\ entries' = entries /\ archive' = archive /\ mode' = mode
      /\ tarAt \in {"data", "skip"}
  BY DEF SkipPadding, Reading
<1>2. PICK j \in 0..Len(hs), i \in 1..Len(entries), n \in Nat, b \in Nat : InData(hs, j, i, n, b)
  BY <1>1, DataRead
<1>3. PICK e, m, l : e = entries[i] /\ m = Padding(n) /\ l = Len(dest)
  OBVIOUS
<1>4. /\ j < Len(hs) /\ j + 1 \in 0..Len(hs) /\ j \in Nat
      /\ size = n /\ done = n /\ pos = b + Block + n
      /\ After(hs, j + 1) = b + (Block + n + m) /\ m \in Nat
      /\ Block \in Nat \ {0}
      /\ b + (Block + n + m) <= Len(archive) /\ Len(archive) \in Nat
      /\ e.type = "file"
      /\ e.data \in Seq(Content) /\ Len(e.data) \in Nat /\ n <= Len(e.data)
      /\ trouble = {} => i = j + 1 /\ n = Len(e.data)
      /\ Getting(j, e, n)
  BY <1>1, <1>2, <1>3 DEF InData
<1>5. pos' = After(hs, j + 1) /\ pos' \in Nat
  <2>1. PadLen = m
    BY <1>3, <1>4 DEF PadLen
  <2>2. Ahead = Len(archive) - (b + Block + n)
    BY <1>4 DEF Ahead
  <2>3. m <= Ahead
    BY <1>2, <1>4, <2>2
  <2>4. pos' = b + Block + n + m
    BY <1>1, <1>4, <2>1, <2>3
  <2> QED
    BY <1>2, <1>4, <2>4
<1>6. TarTypes'
  BY <1>1, <1>5 DEF TarTypes
<1>7. /\ Laid(hs)' /\ Len(archive)' = Tip(hs) + 2 * Block
      /\ \A p \in 1..Block : archive'[Tip(hs) + p] = Zero
      /\ trouble' = {} => Len(hs) = Len(entries)'
  BY <1>1, LaidStays
<1>8. dest[l] = [name |-> e.name, type |-> "file", data |-> SubSeq(e.data, 1, n)]
      /\ l \in Nat \ {0} /\ l = Len(dest) /\ mode = "extract"
  BY <1>3, <1>4 DEF Getting, TarTypes
<1>9. Comes(dest[l])
  <2>1. n \in 0..Len(e.data)
    BY <1>2, <1>4
  <2>2. dest[l].name = e.name /\ dest[l].type = e.type /\ dest[l].data = SubSeq(e.data, 1, n)
    BY <1>4, <1>8
  <2> QED
    BY <1>2, <1>3, <2>1, <2>2 DEF Comes
<1>10. ASSUME NEW q \in 1..Len(dest') PROVE Comes(dest[q])'
  <2>1. Comes(dest[q])
    <3>1. CASE q = l
      BY <1>9, <3>1
    <3>2. CASE q # l
      <4>1. q \in 1..Len(dest) - 1
        BY <1>1, <1>8, <1>10, <3>2
      <4> QED
        BY <1>4, <4>1 DEF Getting
    <3> QED
      BY <3>1, <3>2
  <2> QED
    BY <1>1, <2>1 DEF Comes
<1>11. ASSUME trouble' = {} PROVE Len(dest') = j + 1 /\ \A q \in 1..j + 1 : dest'[q] = Stored'[q]
  <2>1. l = j + 1 /\ (\A q \in 1..j : dest[q] = Stored[q]) /\ i = j + 1 /\ n = Len(e.data)
    BY <1>1, <1>3, <1>4, <1>11 DEF Getting
  <2>2. SubSeq(e.data, 1, n) = e.data
    BY <1>4, <2>1, SubSeqFull
  <2>3. Stored[j + 1] = [name |-> e.name, type |-> e.type, data |-> e.data]
    BY <1>2, <1>3, <2>1, StoredIs
  <2>4. dest[j + 1] = Stored[j + 1]
    BY <1>4, <1>8, <2>1, <2>2, <2>3
  <2>5. Stored' = Stored
    BY <1>1 DEF Stored
  <2>6. ASSUME NEW q \in 1..j + 1 PROVE dest'[q] = Stored'[q]
    <3>1. q \in 1..j \/ q = j + 1
      BY <1>4
    <3> QED
      BY <1>1, <2>1, <2>4, <2>5, <3>1
  <2> QED
    BY <1>1, <1>3, <2>1, <2>6
<1>12. Got(j + 1)'
  BY <1>1, <1>8, <1>10, <1>11 DEF Got
<1>13. Unpacking(hs)'
  BY <1>1, <1>4, <1>5, <1>7, <1>12 DEF Unpacking
<1> QED
  BY <1>6, <1>7, <1>13

-----------------------------------------------------------------------------
(* The whole run.                                                          *)

LEMMA TarStarts == TarInit => TarInv
<1>1. SUFFICES ASSUME TarInit PROVE TarTypes /\ \E hs \in Heads : Laid(hs) /\ Making(hs)
  BY DEF TarInv
<1>2. /\ mode \in {"list", "extract"} /\ entries \in Entries0 /\ tarAt = "add"
      /\ archive = <<>> /\ k = 1 /\ size = 0 /\ done = 0 /\ pos = 0
      /\ dest = <<>> /\ printed = <<>>
  BY <1>1 DEF TarInit, Blank
<1>3. entries \in Seq(TarEntry) /\ entries # <<>>
      /\ \A i \in 1..Len(entries) : entries[i].type # "file" => entries[i].data = <<>>
  BY <1>2, TarAssumption
<1>4. Len(entries) \in Nat /\ Len(entries) > 0
  BY <1>3, EmptySeq
<1>5. TarTypes
  BY <1>2, <1>3, <1>4 DEF TarTypes
<1>6. <<>> \in Heads /\ Len(<<>>) = 0
  BY DEF Heads
<1>7. PICK hs : hs = <<>>
  OBVIOUS
<1>8. hs \in Heads /\ Len(hs) = 0 /\ Tip(hs) = 0
  BY <1>6, <1>7 DEF Tip, After
<1>9. Laid(hs)
  BY <1>8 DEF Laid
<1>10. Making(hs)
  BY <1>2, <1>4, <1>8 DEF Making
<1> QED
  BY <1>5, <1>8, <1>9, <1>10

LEMMA TarKeeps ==
  ASSUME TarInv, [TarNext]_tarVars
  PROVE  TarInv'
<1>1. SUFFICES ASSUME Good'
               PROVE  TarTypes' /\ \E hs \in Heads : Laid(hs)' /\ (Making(hs)' \/ Unpacking(hs)')
  BY DEF TarInv
<1>2. trouble \subseteq trouble'
  BY DEF TarNext, tarVars, tar_create, tar_extract, AddEntry, OpenEntry, CopyChunk, PadEntry,
         tar_create_end, ChangeFile, ListEntry, ReadEnd, ReadGarbage, ExtractOther, ExtractOpen,
         ExtractData, ExtractStop, SkipPadding, WriteFails, Trouble
<1>3. TarTypes
  BY <1>1, <1>2 DEF TarInv, Good
<1>4. PICK hs \in Heads : Laid(hs) /\ (Making(hs) \/ Unpacking(hs))
  BY <1>1, <1>2 DEF TarInv, Good
<1>5. Making(hs) => tarAt \in {"add", "open", "copy", "end"}
  BY DEF Making
<1>6. Unpacking(hs) => tarAt \in {"read", "data", "skip", "done"}
  BY DEF Unpacking
<1>7. CASE AddEntry
  <2>1. Making(hs)
    BY <1>4, <1>6, <1>7 DEF AddEntry
  <2> QED
    BY <1>1, <1>3, <1>4, <1>7, <2>1, AddKeeps
<1>8. CASE OpenEntry
  <2>1. Making(hs)
    BY <1>4, <1>6, <1>8 DEF OpenEntry
  <2> QED
    BY <1>1, <1>3, <1>4, <1>8, <2>1, OpenKeeps
<1>9. CASE CopyChunk
  <2>1. Making(hs)
    BY <1>4, <1>6, <1>9 DEF CopyChunk
  <2> QED
    BY <1>1, <1>3, <1>4, <1>9, <2>1, CopyKeeps
<1>10. CASE PadEntry
  <2>1. Making(hs)
    BY <1>4, <1>6, <1>10 DEF PadEntry
  <2> QED
    BY <1>1, <1>3, <1>4, <1>10, <2>1, PadKeeps
<1>11. CASE tar_create_end
  <2>1. Making(hs)
    BY <1>4, <1>6, <1>11 DEF tar_create_end
  <2> QED
    BY <1>1, <1>3, <1>4, <1>11, <2>1, EndKeeps
<1>12. CASE ChangeFile
  <2>1. Making(hs)
    BY <1>4, <1>6, <1>12 DEF ChangeFile
  <2> QED
    BY <1>1, <1>3, <1>4, <1>12, <2>1, ChangeKeeps
<1>13. CASE ListEntry
  <2>1. Unpacking(hs)
    BY <1>4, <1>5, <1>13 DEF ListEntry
  <2> QED
    BY <1>3, <1>4, <1>13, <2>1, ListKeeps
<1>14. CASE ReadEnd
  <2>1. Unpacking(hs)
    BY <1>4, <1>5, <1>14 DEF ReadEnd
  <2> QED
    BY <1>3, <1>4, <1>14, <2>1, ReadEndKeeps
<1>15. CASE ReadGarbage
  <2>1. Unpacking(hs)
    BY <1>4, <1>5, <1>15 DEF ReadGarbage
  <2> QED
    BY <1>3, <1>4, <1>15, <2>1, NoGarbage
<1>16. CASE ExtractOther
  <2>1. Unpacking(hs)
    BY <1>4, <1>5, <1>16 DEF ExtractOther
  <2> QED
    BY <1>3, <1>4, <1>16, <2>1, OtherKeeps
<1>17. CASE ExtractOpen
  <2>1. Unpacking(hs)
    BY <1>4, <1>5, <1>17 DEF ExtractOpen
  <2> QED
    BY <1>3, <1>4, <1>17, <2>1, OpenOutKeeps
<1>18. CASE ExtractData
  <2>1. Unpacking(hs)
    BY <1>4, <1>5, <1>18 DEF ExtractData
  <2> QED
    BY <1>1, <1>3, <1>4, <1>18, <2>1, PieceKeeps
<1>19. CASE ExtractStop
  <2>1. Unpacking(hs)
    BY <1>4, <1>5, <1>19 DEF ExtractStop
  <2> QED
    BY <1>1, <1>3, <1>4, <1>19, <2>1, StopKeeps
<1>20. CASE SkipPadding
  <2>1. Unpacking(hs)
    BY <1>4, <1>5, <1>20 DEF SkipPadding
  <2> QED
    BY <1>3, <1>4, <1>20, <2>1, SkipKeeps
<1>21. CASE UNCHANGED tarVars
  <2>1. /\ mode' = mode /\ entries' = entries /\ archive' = archive /\ tarAt' = tarAt /\ k' = k
        /\ size' = size /\ done' = done /\ pos' = pos /\ dest' = dest /\ printed' = printed
        /\ trouble' = trouble
    BY <1>21 DEF tarVars
  <2>2. TarTypes'
    BY <1>3, <2>1 DEF TarTypes
  <2>3. Laid(hs)'
    BY <1>3, <1>4, <2>1, SameKept, LaidKept
  <2>4. Making(hs) => Making(hs)'
    BY <2>1 DEF Making, Entry, HeaderAt, DataAt
  <2>5. Unpacking(hs) => Unpacking(hs)'
    <3>1. SUFFICES ASSUME Unpacking(hs) PROVE Unpacking(hs)'
      OBVIOUS
    <3>2. PICK j \in 0..Len(hs) :
            /\ tarAt = "read" => pos = After(hs, j) /\ Got(j)
            /\ tarAt \in {"data", "skip"} =>
                 /\ j < Len(hs) /\ size = hs[j + 1].n /\ done <= size
                 /\ entries[hs[j + 1].of].type = "file"
                 /\ pos = hs[j + 1].at + Block + done
                 /\ Getting(j, entries[hs[j + 1].of], done)
                 /\ tarAt = "skip" => done = size
            /\ tarAt = "done" => j = Len(hs) /\ Got(j)
      BY <3>1 DEF Unpacking
    <3>3. Stored' = Stored /\ \A d : Comes(d) => Comes(d)'
      BY <2>1 DEF Stored, Comes
    <3>4. Got(j) => Got(j)'
      BY <2>1, <3>3 DEF Got
    <3>5. PICK e, n : e = entries[hs[j + 1].of] /\ n = done
      OBVIOUS
    <3>6. Getting(j, e, n) => Getting(j, e, n)'
      BY <2>1, <3>3 DEF Getting
    <3>7. e = entries'[hs[j + 1].of] /\ n = done'
      BY <2>1, <3>5
    <3>8. Getting(j, entries[hs[j + 1].of], done) => Getting(j, entries[hs[j + 1].of], done)'
      BY <3>5, <3>6, <3>7
    <3> QED
      BY <2>1, <3>1, <3>2, <3>4, <3>8 DEF Unpacking
  <2> QED
    BY <1>4, <2>2, <2>3, <2>4, <2>5
<1> QED
  BY <1>7, <1>8, <1>9, <1>10, <1>11, <1>12, <1>13, <1>14, <1>15, <1>16, <1>17, <1>18,
     <1>19, <1>20, <1>21 DEF TarNext, tar_create, tar_extract

\* a beginning of an entry's data is a prefix of it
LEMMA Beginning ==
  ASSUME NEW x \in Seq(Content), NEW n \in 0..Len(x)
  PROVE  IsPrefix(SubSeq(x, 1, n), x)
<1>1. Len(x) \in Nat /\ n \in Nat /\ n <= Len(x)
  OBVIOUS
<1>2. PICK s : s = SubSeq(x, 1, n)
  OBVIOUS
<1>3. s \in Seq(Content) /\ Len(s) = n
  <2>1. \A q \in 1..n : q \in 1..Len(x)
    BY <1>1
  <2>2. \A q \in 1..n : x[q] \in Content
    BY <2>1, ElementOfSeq
  <2>3. s \in Seq(Content) /\ Len(s) = IF 1 <= n THEN n - 1 + 1 ELSE 0
    BY <1>1, <1>2, <2>2, SubSeqProperties
  <2> QED
    BY <1>1, <2>3
<1>4. SubSeq(s, 1, Len(s)) = s
  BY <1>3, SubSeqFull
<1> QED
  BY <1>1, <1>2, <1>3, <1>4 DEF IsPrefix

LEMMA TarInStep == TarInv => TarStaysInStep
<1>1. SUFFICES ASSUME TarInv PROVE TarStaysInStep
  OBVIOUS
<1>2. tarAt = "lost" => ~(trouble \subseteq Harmless)
  BY <1>1 DEF TarInv, TarTypes, Good
<1>3. ASSUME tarAt = "done", trouble \subseteq Harmless
      PROVE  /\ \A d \in ToSet(dest) : \E e \in ToSet(Stored) : ComesFrom(d, e)
             /\ trouble = {} =>
                  IF mode = "list" THEN printed = [i \in 1..Len(entries) |-> entries[i].name]
                  ELSE dest = Stored
  <2>1. TarTypes
    BY <1>1, <1>3 DEF TarInv, Good
  <2>2. PICK hs \in Heads : Unpacking(hs)
    BY <1>1, <1>3 DEF TarInv, Good, Making
  <2>3. PICK j : j = Len(hs)
    OBVIOUS
  <2>4. Got(j) /\ (trouble = {} => j = Len(entries))
    BY <1>3, <2>2, <2>3 DEF Unpacking
  <2>5. entries \in Seq(TarEntry) /\ dest \in Seq(Outputs) /\ printed \in Seq(Names)
        /\ mode \in {"list", "extract"}
    BY <2>1 DEF TarTypes
  <2>6. /\ Len(entries) \in Nat /\ DOMAIN dest = 1..Len(dest)
        /\ printed \in [1..Len(printed) -> Names] /\ dest \in [1..Len(dest) -> Outputs]
    BY <2>5, LenProperties
  <2>7. DOMAIN Stored = 1..Len(entries)
    BY DEF Stored
  <2>8. ASSUME NEW d \in ToSet(dest) PROVE \E e \in ToSet(Stored) : ComesFrom(d, e)
    <3>1. PICK q \in 1..Len(dest) : d = dest[q]
      BY <2>6, <2>8 DEF ToSet
    <3>2. Comes(d)
      BY <2>4, <3>1 DEF Got
    <3>3. PICK i \in 1..Len(entries) :
            /\ d.name = entries[i].name /\ d.type = entries[i].type
            /\ \E n \in 0..Len(entries[i].data) : d.data = SubSeq(entries[i].data, 1, n)
      BY <3>2 DEF Comes
    <3>4. PICK n \in 0..Len(entries[i].data) : d.data = SubSeq(entries[i].data, 1, n)
      BY <3>3
    <3>5. entries[i].data \in Seq(Content)
      BY <2>1, <3>3, EntryIs
    <3>6. IsPrefix(d.data, entries[i].data)
      BY <3>4, <3>5, Beginning
    <3>7. PICK e : e = Stored[i]
      OBVIOUS
    <3>8. e \in ToSet(Stored)
      BY <2>7, <3>3, <3>7 DEF ToSet
    <3>9. e.name = entries[i].name /\ e.type = entries[i].type /\ e.data = entries[i].data
      <4>1. Stored[i] = [name |-> entries[i].name, type |-> entries[i].type, data |-> entries[i].data]
        BY <3>3, StoredIs
      <4> QED
        BY <3>7, <4>1
    <3>10. ComesFrom(d, e)
      BY <3>3, <3>6, <3>9 DEF ComesFrom
    <3> QED
      BY <3>8, <3>10
  <2>9. ASSUME trouble = {}, mode = "list"
        PROVE  printed = [i \in 1..Len(entries) |-> entries[i].name]
    <3>1. Len(printed) = Len(entries) /\ \A i \in 1..Len(entries) : printed[i] = entries[i].name
      BY <2>4, <2>9 DEF Got
    <3> QED
      BY <2>6, <3>1
  <2>10. ASSUME trouble = {}, mode # "list"
         PROVE  dest = Stored
    <3>1. Len(dest) = Len(entries) /\ \A i \in 1..Len(entries) : dest[i] = Stored[i]
      BY <2>4, <2>5, <2>10 DEF Got
    <3>2. PICK s : s = Stored
      OBVIOUS
    <3>3. s = [i \in 1..Len(entries) |-> s[i]]
      BY <3>2 DEF Stored
    <3>4. dest = [i \in 1..Len(entries) |-> dest[i]]
      BY <2>6, <3>1
    <3>5. \A i \in 1..Len(entries) : dest[i] = s[i]
      BY <3>1, <3>2
    <3> QED
      BY <3>2, <3>3, <3>4, <3>5
  <2> QED
    BY <2>8, <2>9, <2>10
<1> QED
  BY <1>2, <1>3 DEF TarStaysInStep

(* Headers stay where the reader looks for them, and an archive that was   *)
(* made and read without trouble gives back what went in (ex_archive.c:    *)
(* tar_add_path, tar_skip_data, tar_extract).                              *)
THEOREM TarStaysInStepHolds == TarSpec => []TarStaysInStep
<1>1. TarInit => TarInv
  BY TarStarts
<1>2. TarInv /\ [TarNext]_tarVars => TarInv'
  BY TarKeeps
<1>3. TarInv => TarStaysInStep
  BY TarInStep
<1> QED
  BY <1>1, <1>2, <1>3, PTL DEF TarSpec
=============================================================================
