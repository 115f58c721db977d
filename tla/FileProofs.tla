----------------------------- MODULE FileProofs -----------------------------
(***************************************************************************)
(* What the tools that work on files leave alone, what they have done when *)
(* they say so, and what one that follows a file shows.                    *)
(*                                                                         *)
(* The file tools (FileTools): a command changes nothing but what its      *)
(* arguments name.  The proof has three parts: what a path leads to, by    *)
(* induction on the links it goes through and its length; how that changes *)
(* when names are removed, files made, or directories added; and the       *)
(* invariant of the calls, ToolInv, action by action.                      *)
(*                                                                         *)
(* A command that ends with status 0 has done what it is for, if it is one *)
(* of rm, rmdir, mkdir, touch, ln and wrt: Progress says of the arguments  *)
(* main has passed that they are done, and Apt what ln and wrt still find  *)
(* as it was when they make their one change.                              *)
(*                                                                         *)
(* mv of one source loses nothing: Mv says at each call what has become of *)
(* the source, and that the copy stands beside it until it is whole.       *)
(*                                                                         *)
(* tail -f (Filters), at the end: for every number of characters a read    *)
(* returns at most, however often the followed file is added to and cut.   *)
(***************************************************************************)
EXTENDS Filters, FileTools, SequenceTheorems, WellFoundedInduction, TLAPS

-----------------------------------------------------------------------------
(* Induction: a set of naturals with 0 and the successors of its members   *)
(* has them all; and a step taken again and again is a sequence.           *)

LEMMA LeastOf ==
  ASSUME NEW Z \in SUBSET Nat, Z # {}
  PROVE  \E k \in Z : \A y \in Z : k <= y
<1>1. PICK k \in Z : \A y \in Z : ~ (<<y, k>> \in OpToRel(<, Nat))
  BY NatLessThanWellFounded, WFMin
<1>2. \A y \in Z : ~ (y < k)
  BY <1>1 DEF OpToRel
<1>3. \A y \in Z : k <= y
  BY <1>2
<1> QED
  BY <1>3

LEMMA SetInduction ==
  ASSUME NEW Z, 0 \in Z, \A n \in Nat : n \in Z => n + 1 \in Z
  PROVE  \A n \in Nat : n \in Z
<1> DEFINE Out == Nat \ Z
<1>1. ASSUME Out # {} PROVE FALSE
  <2>1. PICK k \in Out : \A y \in Out : k <= y
    BY <1>1, LeastOf
  <2>2. k # 0 /\ k - 1 \in Nat /\ (k - 1) + 1 = k
    BY <2>1
  <2>3. k - 1 \in Z
    BY <2>1, <2>2
  <2> QED
    BY <2>1, <2>2, <2>3
<1> QED
  BY <1>1

\* g is s, step[s], step[step[s]] ... up to its n-th member
StepsTo(S, s, step, g, n) ==
  g \in [Nat -> S] /\ g[0] = s /\ \A k \in Nat : k < n => g[k + 1] = step[g[k]]

LEMMA StepsAgree ==
  ASSUME NEW S, NEW s, NEW step, NEW g, NEW h, NEW m \in Nat, NEW n \in Nat,
         StepsTo(S, s, step, g, m), StepsTo(S, s, step, h, n)
  PROVE  \A k \in Nat : k <= m /\ k <= n => g[k] = h[k]
<1> DEFINE Z == {k \in Nat : k <= m /\ k <= n => g[k] = h[k]}
<1>1. 0 \in Z
  BY DEF StepsTo
<1>2. ASSUME NEW k \in Nat, k \in Z PROVE k + 1 \in Z
  <2> SUFFICES ASSUME k + 1 <= m, k + 1 <= n PROVE g[k + 1] = h[k + 1]
    OBVIOUS
  <2>1. k < m /\ k < n /\ g[k] = h[k]
    BY <1>2
  <2> QED
    BY <2>1 DEF StepsTo
<1> HIDE DEF Z
<1>3. \A k \in Nat : k \in Z
  BY <1>1, <1>2, SetInduction
<1> QED
  BY <1>3 DEF Z

LEMMA StepsExist ==
  ASSUME NEW S, NEW s \in S, NEW step \in [S -> S]
  PROVE  \E g \in [Nat -> S] : g[0] = s /\ \A k \in Nat : g[k + 1] = step[g[k]]
<1> DEFINE Z == {n \in Nat : \E g : StepsTo(S, s, step, g, n)}
<1>1. 0 \in Z
  <2> DEFINE g == [k \in Nat |-> s]
  <2>1. StepsTo(S, s, step, g, 0)
    BY DEF StepsTo
  <2> QED
    BY <2>1
<1>2. ASSUME NEW n \in Nat, n \in Z PROVE n + 1 \in Z
  <2>1. PICK g : StepsTo(S, s, step, g, n)
    BY <1>2
  <2> DEFINE h == [g EXCEPT ![n + 1] = step[g[n]]]
  <2>2. g \in [Nat -> S] /\ step[g[n]] \in S
    BY <2>1 DEF StepsTo
  <2>3. /\ h \in [Nat -> S] /\ h[n + 1] = step[g[n]]
        /\ \A k \in Nat : k # n + 1 => h[k] = g[k]
    BY <2>2
  <2> HIDE DEF h
  <2>4. h[0] = s
    BY <2>1, <2>3 DEF StepsTo
  <2>5. ASSUME NEW k \in Nat, k < n + 1 PROVE h[k + 1] = step[h[k]]
    <3>1. h[k] = g[k]
      BY <2>3, <2>5
    <3>2. CASE k = n
      BY <2>3, <3>1, <3>2
    <3>3. CASE k < n
      BY <2>1, <2>3, <3>1, <3>3 DEF StepsTo
    <3> QED
      BY <2>5, <3>2, <3>3
  <2>6. StepsTo(S, s, step, h, n + 1)
    BY <2>3, <2>4, <2>5 DEF StepsTo
  <2> QED
    BY <2>6
<1> HIDE DEF Z
<1>3. \A n \in Nat : n \in Z
  BY <1>1, <1>2, SetInduction
<1> DEFINE G(n) == CHOOSE g : StepsTo(S, s, step, g, n)
           g == [n \in Nat |-> G(n)[n]]
<1>4. \A n \in Nat : StepsTo(S, s, step, G(n), n)
  BY <1>3 DEF Z
<1>5. \A n \in Nat : g[n] \in S /\ G(n)[n] \in S
  BY <1>4 DEF StepsTo
<1>6. g \in [Nat -> S]
  BY <1>5
<1>7. g[0] = s
  BY <1>4 DEF StepsTo
<1>8. ASSUME NEW k \in Nat PROVE g[k + 1] = step[g[k]]
  <2>1. StepsTo(S, s, step, G(k + 1), k + 1) /\ StepsTo(S, s, step, G(k), k)
    BY <1>4
  <2> HIDE DEF G
  <2>2. G(k + 1)[k] = G(k)[k]
    BY <2>1, StepsAgree
  <2>3. G(k + 1)[k + 1] = step[G(k + 1)[k]]
    BY <2>1 DEF StepsTo
  <2> QED
    BY <2>2, <2>3
<1> QED
  BY <1>6, <1>7, <1>8

-----------------------------------------------------------------------------
(* What a name leads to is well defined.                                   *)

Links(f) == {q \in DOMAIN f.node : f.node[q].kind = "link"}
LinksOk(f) == \A q \in Links(f) : f.node[q].to \in Path

\* where p leads to if its directory leads to ds and the links to their place
\* in below
Led1(f, ds, below, p) ==
  IF p = <<>> THEN {p}
  ELSE UNION { IF KindAt(f, q) # "link" THEN Fitting({q}) ELSE below[f.node[q].to]
             : q \in Entered(f, ds, p) }
Layer == [Path -> SUBSET Path]
Nowhere == [p \in Path |-> {}]

LEMMA FrontIn ==
  ASSUME NEW p \in Path, p # <<>>
  PROVE  /\ Front(p) \in Path /\ Len(Front(p)) = Len(p) - 1 /\ Last(p) \in STRING
         /\ Len(p) \in Nat \ {0}
<1>1. p \in Seq(STRING)
  BY DEF Path
<1>2. Len(p) \in Nat \ {0} /\ \A i \in 1..Len(p) : p[i] \in STRING
  BY <1>1, LenProperties, EmptySeq, ElementOfSeq
<1>3. /\ SubSeq(p, 1, Len(p) - 1) \in Seq(STRING)
      /\ Len(SubSeq(p, 1, Len(p) - 1)) = IF 1 <= Len(p) - 1 THEN Len(p) - 1 - 1 + 1 ELSE 0
  <2>1. 1 \in Int /\ Len(p) - 1 \in Int /\ \A i \in 1..(Len(p) - 1) : p[i] \in STRING
    BY <1>2
  <2> QED
    BY <2>1, SubSeqProperties
<1>4. p[Len(p)] \in STRING
  BY <1>2
<1>5. Len(SubSeq(p, 1, Len(p) - 1)) = Len(p) - 1
  <2> DEFINE k == Len(SubSeq(p, 1, Len(p) - 1))
             m == Len(p)
  <2>1. m \in Nat \ {0} /\ k = IF 1 <= m - 1 THEN m - 1 - 1 + 1 ELSE 0
    BY <1>2, <1>3
  <2> HIDE DEF k, m
  <2>2. k = m - 1
    BY <2>1
  <2> QED
    BY <2>2 DEF k, m
<1>6. Front(p) \in Path /\ Len(Front(p)) = Len(p) - 1
  BY <1>3, <1>5 DEF Front, Path
<1> QED
  BY <1>2, <1>4, <1>6 DEF Last

LEMMA AppendIn ==
  ASSUME NEW p \in Path, NEW x \in STRING
  PROVE  /\ Append(p, x) \in Path /\ Append(p, x) # <<>> /\ Front(Append(p, x)) = p
         /\ Last(Append(p, x)) = x
<1> DEFINE a == Append(p, x)
<1>1. p \in Seq(STRING) /\ Len(p) \in Nat
  BY LenProperties DEF Path
<1>2. /\ a \in Seq(STRING) /\ Len(a) = Len(p) + 1
      /\ \A i \in 1..Len(p) : a[i] = p[i]
      /\ a[Len(p) + 1] = x
  <2>1. p \in Seq(STRING) /\ x \in STRING
    BY <1>1
  <2>2. a \in Seq(STRING)
    BY ONLY <2>1, AppendProperties, Zenon DEF a
  <2>3. Len(a) = Len(p) + 1
    BY ONLY <2>1, SMT DEF a
  <2>4. \A i \in 1..Len(p) : a[i] = p[i]
    BY ONLY <2>1, SMT DEF a
  <2>5. a[Len(p) + 1] = x
    BY ONLY <2>1, AppendProperties, Zenon DEF a
  <2> QED
    BY <2>2, <2>3, <2>4, <2>5
<1> HIDE DEF a
<1>3. a # <<>>
  BY <1>1, <1>2, EmptySeq
<1>4. Front(a) = p
  <2>1. a \in Path
    BY <1>2 DEF Path
  <2>2. Front(a) \in Seq(STRING) /\ Len(Front(a)) = Len(p)
    BY <2>1, <1>1, <1>2, <1>3, FrontIn DEF Path
  <2>3. \A i \in 1..Len(p) : Front(a)[i] = a[i]
    <3>1. 1 \in Int /\ Len(a) - 1 \in Int /\ \A i \in 1..(Len(a) - 1) : a[i] \in STRING
      BY <1>1, <1>2, ElementOfSeq
    <3>2. \A i \in 1..(Len(a) - 1 - 1 + 1) : SubSeq(a, 1, Len(a) - 1)[i] = a[1 + i - 1]
      BY <3>1, SubSeqProperties
    <3>3. Len(a) - 1 - 1 + 1 = Len(p) /\ \A i \in 1..Len(p) : 1 + i - 1 = i
      BY <1>1, <1>2
    <3> QED
      BY <3>2, <3>3 DEF Front
  <2> QED
    BY <1>1, <1>2, <2>2, <2>3, SeqEqual
<1>5. Last(a) = x
  BY <1>2 DEF Last
<1> QED
  BY <1>2, <1>3, <1>4, <1>5 DEF a, Path

LEMMA Led1In ==
  ASSUME NEW f, LinksOk(f), NEW ds \in SUBSET Path, NEW below \in Layer, NEW p \in Path
  PROVE  Led1(f, ds, below, p) \in SUBSET Path
<1> SUFFICES ASSUME p # <<>> PROVE Led1(f, ds, below, p) \in SUBSET Path
  BY DEF Led1
<1>1. \A q \in Entered(f, ds, p) : q \in Path
  BY FrontIn, AppendIn DEF Entered
<1>2. \A q \in Entered(f, ds, p) : KindAt(f, q) = "link" => below[f.node[q].to] \in SUBSET Path
  BY <1>1 DEF LinksOk, Links, Layer, KindAt
<1> QED
  BY <1>1, <1>2 DEF Led1, Fitting

\* One more link: a layer above another one.
IsAbove(f, here, below) ==
  here \in Layer /\ \A p \in Path : here[p] = Led1(f, here[Front(p)], below, p)

LEMMA AboveExists ==
  ASSUME NEW f, LinksOk(f), NEW below \in Layer
  PROVE  \E here : IsAbove(f, here, below)
<1> DEFINE step == [h \in Layer |-> [p \in Path |->
                      IF p = <<>> THEN {p} ELSE Led1(f, h[Front(p)], below, p)]]
           s == [p \in Path |-> {<<>>}]
<1>0. <<>> \in Path
  BY DEF Path
<1>1. s \in Layer
  BY <1>0 DEF Layer
<1>2. ASSUME NEW h \in Layer, NEW p \in Path, p # <<>> PROVE Led1(f, h[Front(p)], below, p) \in SUBSET Path
  <2>1. h[Front(p)] \in SUBSET Path
    BY <1>2, FrontIn DEF Layer
  <2> QED
    BY <2>1, Led1In
<1>3. step \in [Layer -> Layer]
  BY <1>0, <1>2 DEF Layer
<1> HIDE DEF s, step
<1>4. PICK g \in [Nat -> Layer] : g[0] = s /\ \A k \in Nat : g[k + 1] = step[g[k]]
  BY <1>1, <1>3, StepsExist
<1> DEFINE here == [p \in Path |-> g[Len(p)][p]]
<1>5. \A p \in Path : g[Len(p)] \in Layer
  BY <1>4 DEF Path
<1>6. here \in Layer
  BY <1>5 DEF Layer
<1>7. ASSUME NEW p \in Path PROVE here[p] = Led1(f, here[Front(p)], below, p)
  <2>1. CASE p = <<>>
    <3>1. here[p] = g[0][p]
      BY <2>1
    <3> QED
      BY <1>4, <2>1, <3>1 DEF s, Led1
  <2>2. CASE p # <<>>
    <3>1. Len(p) - 1 \in Nat /\ Len(p) = (Len(p) - 1) + 1 /\ Front(p) \in Path
          /\ Len(Front(p)) = Len(p) - 1
      BY <2>2, FrontIn
    <3>2. here[Front(p)] = g[Len(p) - 1][Front(p)]
      BY <3>1
    <3>3. g[Len(p)] = step[g[Len(p) - 1]] /\ g[Len(p) - 1] \in Layer
      BY <1>4, <3>1
    <3>4. g[Len(p)][p] = Led1(f, g[Len(p) - 1][Front(p)], below, p)
      BY <2>2, <3>3 DEF step
    <3> QED
      BY <3>2, <3>4
  <2> QED
    BY <2>1, <2>2
<1> HIDE DEF here
<1> QED
  BY <1>6, <1>7 DEF IsAbove

\* the equation of leads
Leads(f, to) ==
  to = [n \in 0..MaxLinks |->
          [p \in Path |->
             IF p = <<>> THEN {p}
             ELSE UNION { IF KindAt(f, q) # "link" THEN Fitting({q})
                          ELSE IF n = 0 THEN {} ELSE to[n - 1][f.node[q].to]
                        : q \in Entered(f, to[n][Front(p)], p) }]]
Fewer(to, n) == IF n = 0 THEN Nowhere ELSE to[n - 1]

LEMMA LeadsExists ==
  ASSUME NEW f, LinksOk(f)
  PROVE  \E to : Leads(f, to) /\ \A n \in 0..MaxLinks : to[n] \in Layer
<1> DEFINE next == [h \in Layer |-> CHOOSE here : IsAbove(f, here, h)]
<1>1. \A h \in Layer : IsAbove(f, next[h], h) /\ next[h] \in Layer
  BY AboveExists DEF IsAbove
<1>2. next \in [Layer -> Layer]
  BY <1>1
<1>3. Nowhere \in Layer
  BY DEF Nowhere, Layer
<1>4. next[Nowhere] \in Layer
  BY <1>1, <1>3
<1> DEFINE s == next[Nowhere]
<1> HIDE DEF next, s
<1>a. s \in Layer
  BY <1>4 DEF s
<1>b. PICK R \in [Nat -> Layer] : R[0] = s /\ \A k \in Nat : R[k + 1] = next[R[k]]
  BY <1>2, <1>a, StepsExist
<1>5. R[0] = next[Nowhere] /\ \A k \in Nat : R[k + 1] = next[R[k]]
  BY <1>b DEF s
<1>6. ASSUME NEW n \in Nat PROVE IsAbove(f, R[n], IF n = 0 THEN Nowhere ELSE R[n - 1])
  <2>1. CASE n = 0
    BY <2>1, <1>1, <1>3, <1>5
  <2>2. CASE n # 0
    <3>1. n - 1 \in Nat /\ (n - 1) + 1 = n
      BY <2>2
    <3>2. R[n] = next[R[n - 1]] /\ R[n - 1] \in Layer
      BY <3>1, <1>5
    <3> QED
      BY <2>2, <3>2, <1>1
  <2> QED
    BY <2>1, <2>2
<1> DEFINE to == [n \in 0..MaxLinks |-> R[n]]
<1>7. \A n \in 0..MaxLinks : n \in Nat /\ to[n] = R[n] /\ (n # 0 => n - 1 \in 0..MaxLinks)
  BY FileSysAssumption
<1>8. \A n \in 0..MaxLinks : to[n] \in Layer
  BY <1>5, <1>7
<1>9. ASSUME NEW n \in 0..MaxLinks, NEW p \in Path
      PROVE  to[n][p] = IF p = <<>> THEN {p}
             ELSE UNION { IF KindAt(f, q) # "link" THEN Fitting({q})
                          ELSE IF n = 0 THEN {} ELSE to[n - 1][f.node[q].to]
                        : q \in Entered(f, to[n][Front(p)], p) }
  <2>1. to[n][p] = Led1(f, to[n][Front(p)], Fewer(to, n), p)
    <3>1. Fewer(to, n) = IF n = 0 THEN Nowhere ELSE R[n - 1]
      BY <1>7 DEF Fewer
    <3> HIDE DEF to
    <3>2. n \in Nat /\ to[n] = R[n]
      BY <1>7
    <3> QED
      BY <1>6, <3>1, <3>2 DEF IsAbove
  <2> HIDE DEF to
  <2>2. CASE p = <<>>
    BY <2>1, <2>2 DEF Led1
  <2>3. CASE p # <<>>
    <3>1. \A q \in Entered(f, to[n][Front(p)], p) : KindAt(f, q) = "link" => f.node[q].to \in Path
      BY FrontIn DEF LinksOk, Links, KindAt
    <3>2. \A q \in Entered(f, to[n][Front(p)], p) : KindAt(f, q) = "link" =>
            Fewer(to, n)[f.node[q].to] = IF n = 0 THEN {} ELSE to[n - 1][f.node[q].to]
      BY <3>1 DEF Fewer, Nowhere
    <3> DEFINE S == Entered(f, to[n][Front(p)], p)
               a(q) == IF KindAt(f, q) # "link" THEN Fitting({q}) ELSE Fewer(to, n)[f.node[q].to]
               b(q) == IF KindAt(f, q) # "link" THEN Fitting({q})
                       ELSE IF n = 0 THEN {} ELSE to[n - 1][f.node[q].to]
    <3>3. \A q \in S : a(q) = b(q)
      BY <3>2
    <3>4. to[n][p] = UNION {a(q) : q \in S}
      BY <2>1, <2>3 DEF Led1
    <3> HIDE DEF S, a, b
    <3>5. to[n][p] = UNION {b(q) : q \in S}
      BY <3>3, <3>4
    <3> USE DEF S, b
    <3> QED
      BY <2>3, <3>5
  <2> QED
    BY <2>2, <2>3
<1> HIDE DEF to
<1>10. \A n \in 0..MaxLinks : to[n] =
         [p \in Path |->
             IF p = <<>> THEN {p}
             ELSE UNION { IF KindAt(f, q) # "link" THEN Fitting({q})
                          ELSE IF n = 0 THEN {} ELSE to[n - 1][f.node[q].to]
                        : q \in Entered(f, to[n][Front(p)], p) }]
  BY <1>8, <1>9 DEF Layer
<1>11. to = [n \in 0..MaxLinks |-> to[n]]
  BY DEF to
<1>12. Leads(f, to)
  BY <1>10, <1>11 DEF Leads
<1> QED
  BY <1>8, <1>12

-----------------------------------------------------------------------------
(* What a name leads to: the equation, the induction, and what follows.    *)

LEMMA LeadsLayers ==
  ASSUME NEW f, LinksOk(f)
  PROVE  Leads(f, leads(f))
<1>1. leads(f) = CHOOSE to : Leads(f, to)
  BY DEF leads, Leads
<1> QED
  BY <1>1, LeadsExists

Reached(f, to, n, p, x) ==
  \E q \in Entered(f, to[n][Front(p)], p) :
    \/ KindAt(f, q) # "link" /\ x \in Fitting({q})
    \/ KindAt(f, q) = "link" /\ n # 0 /\ x \in to[n - 1][f.node[q].to]

LEMMA LeadsAt ==
  ASSUME NEW f, NEW to, Leads(f, to), NEW n \in 0..MaxLinks, NEW p \in Path, NEW x
  PROVE  /\ p = <<>> => to[n][p] = {p}
         /\ p # <<>> => (x \in to[n][p] <=> Reached(f, to, n, p, x))
<1> DEFINE R == [p1 \in Path |->
             IF p1 = <<>> THEN {p1}
             ELSE UNION { IF KindAt(f, q) # "link" THEN Fitting({q})
                          ELSE IF n = 0 THEN {} ELSE to[n - 1][f.node[q].to]
                        : q \in Entered(f, to[n][Front(p1)], p1) }]
<1>1. to[n] = R
  BY DEF Leads
<1>2. to[n][p] = R[p]
  BY <1>1
<1>3. R[p] = IF p = <<>> THEN {p}
             ELSE UNION { IF KindAt(f, q) # "link" THEN Fitting({q})
                          ELSE IF n = 0 THEN {} ELSE to[n - 1][f.node[q].to]
                        : q \in Entered(f, to[n][Front(p)], p) }
  OBVIOUS
<1> HIDE DEF R
<1> DEFINE S == Entered(f, to[n][Front(p)], p)
           b(q) == IF KindAt(f, q) # "link" THEN Fitting({q})
                   ELSE IF n = 0 THEN {} ELSE to[n - 1][f.node[q].to]
<1>4. p # <<>> => to[n][p] = UNION {b(q) : q \in S}
  BY <1>2, <1>3
<1>5. \A q : x \in b(q) <=> \/ KindAt(f, q) # "link" /\ x \in Fitting({q})
                            \/ KindAt(f, q) = "link" /\ n # 0 /\ x \in to[n - 1][f.node[q].to]
  OBVIOUS
<1> HIDE DEF S, b
<1>6. p # <<>> => (x \in to[n][p] <=> \E q \in S : x \in b(q))
  BY <1>4
<1> QED
  BY <1>2, <1>3, <1>5, <1>6 DEF S, Reached

\* q is where the last name of p is looked up, in d
Looked(f, n, p, d, q) ==
  /\ d \in leads(f)[n][Front(p)] /\ KindAt(f, d) = "dir" /\ q = Append(d, Last(p))

\* x is where q leads to, q itself if it is no link
LeadsTo(f, n, q, x) ==
  \/ KindAt(f, q) # "link" /\ x = q /\ Len(q) <= MaxDepth
  \/ KindAt(f, q) = "link" /\ n # 0 /\ x \in leads(f)[n - 1][f.node[q].to]

LEMMA LeadsRoot ==
  ASSUME NEW f, LinksOk(f), NEW n \in 0..MaxLinks
  PROVE  leads(f)[n][<<>>] = {<<>>}
<1>1. <<>> \in Path
  BY DEF Path
<1> QED
  BY <1>1, LeadsLayers, LeadsAt

LEMMA LeadsName ==
  ASSUME NEW f, LinksOk(f), NEW n \in 0..MaxLinks, NEW p \in Path, p # <<>>, NEW x
  PROVE  x \in leads(f)[n][p] <=> \E d, q : Looked(f, n, p, d, q) /\ LeadsTo(f, n, q, x)
<1> DEFINE to == leads(f)
<1>1. Leads(f, to)
  BY LeadsLayers
<1> HIDE DEF to
<1>2. x \in to[n][p] <=> Reached(f, to, n, p, x)
  BY <1>1, LeadsAt
<1> QED
  BY <1>2 DEF Reached, LeadsTo, Fitting, Entered, Looked, to

LEMMA LinkInduction ==
  ASSUME NEW Z,
         \A n \in 0..MaxLinks : <<n, <<>>>> \in Z,
         ASSUME NEW n \in 0..MaxLinks, NEW p \in Path, p # <<>>, <<n, Front(p)>> \in Z,
                n # 0 => \A t \in Path : <<n - 1, t>> \in Z
         PROVE  <<n, p>> \in Z
  PROVE  \A n \in 0..MaxLinks, p \in Path : <<n, p>> \in Z
<1> DEFINE W == {n \in Nat : n <= MaxLinks => \A p \in Path : <<n, p>> \in Z}
<1>1. ASSUME NEW n \in 0..MaxLinks, n # 0 => \A t \in Path : <<n - 1, t>> \in Z
      PROVE  \A p \in Path : <<n, p>> \in Z
  <2> DEFINE V == {k \in Nat : \A p \in Path : Len(p) = k => <<n, p>> \in Z}
  <2>1. 0 \in V
    <3>1. \A p \in Path : Len(p) = 0 => p = <<>>
      BY EmptySeq DEF Path
    <3> QED
      BY <3>1
  <2>2. ASSUME NEW k \in Nat, k \in V PROVE k + 1 \in V
    <3>1. ASSUME NEW p \in Path, Len(p) = k + 1 PROVE <<n, p>> \in Z
      <4>1. p # <<>>
        BY <3>1, EmptySeq DEF Path
      <4>2. Front(p) \in Path /\ Len(Front(p)) = k
        BY <3>1, <4>1, FrontIn
      <4>3. <<n, Front(p)>> \in Z
        BY <2>2, <4>2
      <4> QED
        BY <1>1, <4>1, <4>3
    <3> QED
      BY <3>1
  <2> HIDE DEF V
  <2>3. \A k \in Nat : k \in V
    BY <2>1, <2>2, SetInduction
  <2>4. \A p \in Path : Len(p) \in Nat
    BY LenProperties DEF Path
  <2> QED
    BY <2>3, <2>4 DEF V
<1>2. 0 \in W
  <2>1. 0 <= MaxLinks => 0 \in 0..MaxLinks
    BY FileSysAssumption
  <2> QED
    BY <2>1, <1>1
<1>3. ASSUME NEW n \in Nat, n \in W PROVE n + 1 \in W
  <2> SUFFICES ASSUME n + 1 <= MaxLinks PROVE \A p \in Path : <<n + 1, p>> \in Z
    OBVIOUS
  <2>1. n + 1 \in 0..MaxLinks /\ (n + 1) - 1 = n /\ n <= MaxLinks
    BY FileSysAssumption
  <2>2. \A t \in Path : <<(n + 1) - 1, t>> \in Z
    BY <1>3, <2>1
  <2> QED
    BY <1>1, <2>1, <2>2
<1> HIDE DEF W
<1>4. \A n \in Nat : n \in W
  BY <1>2, <1>3, SetInduction
<1>5. ASSUME NEW n \in 0..MaxLinks, NEW p \in Path PROVE <<n, p>> \in Z
  <2>1. n \in W /\ n <= MaxLinks
    BY <1>4, FileSysAssumption
  <2> QED
    BY <2>1 DEF W
<1> QED
  BY <1>5

\* a name leads to one place at most
LEMMA LeadsOnce ==
  ASSUME NEW f, LinksOk(f)
  PROVE  \A n \in 0..MaxLinks, p \in Path : \A x, y \in leads(f)[n][p] : x = y
<1> DEFINE Z == {z \in (0..MaxLinks) \X Path : \A x, y \in leads(f)[z[1]][z[2]] : x = y}
<1>1. ASSUME NEW n \in 0..MaxLinks PROVE <<n, <<>>>> \in Z
  <2>1. <<>> \in Path /\ leads(f)[n][<<>>] = {<<>>}
    BY LeadsRoot DEF Path
  <2> QED
    BY <2>1
<1>2. ASSUME NEW n \in 0..MaxLinks, NEW p \in Path, p # <<>>, <<n, Front(p)>> \in Z,
             n # 0 => \A t \in Path : <<n - 1, t>> \in Z
      PROVE  <<n, p>> \in Z
  <2> SUFFICES ASSUME NEW x \in leads(f)[n][p], NEW y \in leads(f)[n][p] PROVE x = y
    OBVIOUS
  <2>1. PICK d, q : Looked(f, n, p, d, q) /\ LeadsTo(f, n, q, x)
    BY <1>2, LeadsName
  <2>2. PICK e, r : Looked(f, n, p, e, r) /\ LeadsTo(f, n, r, y)
    BY <1>2, LeadsName
  <2>3. d = e /\ q = r
    BY <1>2, <2>1, <2>2 DEF Looked
  <2>4. KindAt(f, q) = "link" => f.node[q].to \in Path
    BY DEF LinksOk, Links, KindAt
  <2> QED
    BY <1>2, <2>1, <2>2, <2>3, <2>4 DEF LeadsTo
<1> HIDE DEF Z
<1>3. \A n \in 0..MaxLinks, p \in Path : <<n, p>> \in Z
  BY <1>1, <1>2, LinkInduction
<1> QED
  <2> SUFFICES ASSUME NEW n \in 0..MaxLinks, NEW p \in Path
      PROVE  \A x, y \in leads(f)[n][p] : x = y
    OBVIOUS
  <2>1. <<n, p>> \in Z
    BY <1>3
  <2> QED
    BY <2>1 DEF Z

\* to a path, and to no link
LEMMA LeadsIn ==
  ASSUME NEW f, LinksOk(f), KindAt(f, <<>>) # "link"
  PROVE  \A n \in 0..MaxLinks, p \in Path : \A x \in leads(f)[n][p] :
           x \in Path /\ KindAt(f, x) # "link"
<1> DEFINE Z == {z \in (0..MaxLinks) \X Path : \A x \in leads(f)[z[1]][z[2]] :
                   x \in Path /\ KindAt(f, x) # "link"}
<1>1. ASSUME NEW n \in 0..MaxLinks PROVE <<n, <<>>>> \in Z
  <2>1. <<>> \in Path /\ leads(f)[n][<<>>] = {<<>>}
    BY LeadsRoot DEF Path
  <2> QED
    BY <2>1
<1>2. ASSUME NEW n \in 0..MaxLinks, NEW p \in Path, p # <<>>, <<n, Front(p)>> \in Z,
             n # 0 => \A t \in Path : <<n - 1, t>> \in Z
      PROVE  <<n, p>> \in Z
  <2> SUFFICES ASSUME NEW x \in leads(f)[n][p] PROVE x \in Path /\ KindAt(f, x) # "link"
    OBVIOUS
  <2>1. PICK d, q : Looked(f, n, p, d, q) /\ LeadsTo(f, n, q, x)
    BY <1>2, LeadsName
  <2>2. q \in Path
    BY <1>2, <2>1, FrontIn, AppendIn DEF Looked
  <2>3. KindAt(f, q) = "link" => f.node[q].to \in Path
    BY DEF LinksOk, Links, KindAt
  <2> QED
    BY <1>2, <2>1, <2>2, <2>3 DEF LeadsTo
<1> HIDE DEF Z
<1>3. \A n \in 0..MaxLinks, p \in Path : <<n, p>> \in Z
  BY <1>1, <1>2, LinkInduction
<1> QED
  <2> SUFFICES ASSUME NEW n \in 0..MaxLinks, NEW p \in Path, NEW x \in leads(f)[n][p]
      PROVE  x \in Path /\ KindAt(f, x) # "link"
    OBVIOUS
  <2>1. <<n, p>> \in Z
    BY <1>3
  <2> QED
    BY <2>1 DEF Z

\* the place a name names, and where it leads to if it is no link
LEMMA NamedBy ==
  ASSUME NEW f, NEW p, p # <<>>, NEW q
  PROVE  q \in Named(f, p) <=> /\ \E d : Looked(f, MaxLinks, p, d, q)
                               /\ Len(q) <= MaxDepth
BY DEF Named, Fitting, Entered, Real, Looked

LEMMA NamedOnce ==
  ASSUME NEW f, LinksOk(f), NEW p \in Path, NEW x \in Named(f, p), NEW y \in Named(f, p)
  PROVE  x = y
<1>1. CASE p = <<>>
  BY <1>1 DEF Named
<1>2. CASE p # <<>>
  <2>1. MaxLinks \in 0..MaxLinks /\ Front(p) \in Path
    BY <1>2, FrontIn, FileSysAssumption
  <2> QED
    BY <1>2, <2>1, NamedBy, LeadsOnce DEF Looked
<1> QED
  BY <1>1, <1>2

LEMMA NamedIsReal ==
  ASSUME NEW f, LinksOk(f), NEW p \in Path, NEW x \in Named(f, p), KindAt(f, x) # "link"
  PROVE  x \in Real(f, p)
<1>0. MaxLinks \in 0..MaxLinks
  BY FileSysAssumption
<1>1. CASE p = <<>>
  BY <1>0, <1>1, LeadsRoot DEF Named, Real
<1>2. CASE p # <<>>
  <2>1. PICK d : Looked(f, MaxLinks, p, d, x) /\ Len(x) <= MaxDepth
    BY <1>2, NamedBy
  <2> QED
    BY <1>0, <1>2, <2>1, LeadsName DEF LeadsTo, Real
<1> QED
  BY <1>1, <1>2

-----------------------------------------------------------------------------
(* Two file systems: what a name leads to in one of them and in the other. *)

LEMMA TreeParts ==
  ASSUME NEW f, IsTree(f)
  PROVE  /\ LinksOk(f) /\ KindAt(f, <<>>) = "dir" /\ DOMAIN f.node \subseteq Path
         /\ \A p \in DOMAIN f.node : p # <<>> =>
              Front(p) \in DOMAIN f.node /\ KindAt(f, Front(p)) = "dir"
         /\ \A p \in DOMAIN f.node : f.node[p].kind = "dir" => f.node[p] = Dir
<1>1. \A p \in DOMAIN f.node :
        \/ f.node[p] = Dir
        \/ \E i \in DOMAIN f.data : f.node[p] = File(i)
        \/ f.node[p].kind = "link" /\ f.node[p].to \in Path
  BY DEF IsTree
<1>2. Dir.kind = "dir" /\ \A i : File(i).kind = "file"
  BY DEF Dir, File
<1>3. LinksOk(f)
  BY <1>1, <1>2 DEF LinksOk, Links
<1>4. KindAt(f, <<>>) = "dir"
  BY <1>2 DEF IsTree, KindAt
<1>5. ASSUME NEW p \in DOMAIN f.node, p # <<>>
      PROVE  Front(p) \in DOMAIN f.node /\ KindAt(f, Front(p)) = "dir"
  <2>1. p \in Path
    BY DEF IsTree
  <2>2. Len(p) - 1 \in 0..(Len(p) - 1)
    BY <1>5, <2>1, FrontIn
  <2>3. Front(p) \in DOMAIN f.node /\ f.node[Front(p)] = Dir
    BY <2>2 DEF IsTree, Front
  <2> QED
    BY <2>3, <1>2 DEF KindAt
<1>6. DOMAIN f.node \subseteq Path
  BY DEF IsTree
<1>7. \A p \in DOMAIN f.node : f.node[p].kind = "dir" => f.node[p] = Dir
  BY <1>1, <1>2
<1> QED
  BY <1>3, <1>4, <1>5, <1>6, <1>7

\* What is there in f was there in f0, but for new files.
Shrunk(f, f0) ==
  /\ DOMAIN f.node \subseteq Path
  /\ \A q \in DOMAIN f.node :
       \/ q \in DOMAIN f0.node /\ f.node[q] = f0.node[q]
       \/ f.node[q].kind = "file" /\ f.node[q].ino \notin DOMAIN f0.data

LEMMA ShrunkLinks ==
  ASSUME NEW f, NEW f0, Shrunk(f, f0), IsTree(f0)
  PROVE  LinksOk(f) /\ KindAt(f, <<>>) # "link"
<1>1. LinksOk(f0) /\ KindAt(f0, <<>>) = "dir"
  BY TreeParts
<1>2. LinksOk(f)
  BY <1>1 DEF LinksOk, Links, Shrunk
<1>3. ASSUME KindAt(f, <<>>) = "link" PROVE FALSE
  BY <1>1, <1>3 DEF Shrunk, KindAt
<1> QED
  BY <1>2, <1>3

LEMMA ShrunkKinds ==
  ASSUME NEW f, NEW f0, Shrunk(f, f0), NEW q
  PROVE  /\ KindAt(f, q) = "dir" => KindAt(f0, q) = "dir" /\ f.node[q] = f0.node[q]
         /\ KindAt(f, q) = "link" => KindAt(f0, q) = "link" /\ f.node[q] = f0.node[q]
BY DEF Shrunk, KindAt

\* a link of f0 that f does not have
Unlinked(f, f0, x) == KindAt(f0, x) = "link" /\ KindAt(f, x) # "link"

\* a name that leads somewhere led there before others went
LEMMA FewerLeads ==
  ASSUME NEW f, NEW f0, Shrunk(f, f0), LinksOk(f), LinksOk(f0)
  PROVE  \A n \in 0..MaxLinks, p \in Path : \A x \in leads(f)[n][p] :
           x \in leads(f0)[n][p] \/ Unlinked(f, f0, x)
<1> DEFINE Z == {z \in (0..MaxLinks) \X Path : \A x \in leads(f)[z[1]][z[2]] :
                   x \in leads(f0)[z[1]][z[2]] \/ Unlinked(f, f0, x)}
<1>1. ASSUME NEW n \in 0..MaxLinks PROVE <<n, <<>>>> \in Z
  <2>1. <<>> \in Path /\ leads(f)[n][<<>>] = {<<>>} /\ leads(f0)[n][<<>>] = {<<>>}
    BY LeadsRoot DEF Path
  <2> QED
    BY <2>1
<1>2. ASSUME NEW n \in 0..MaxLinks, NEW p \in Path, p # <<>>, <<n, Front(p)>> \in Z,
             n # 0 => \A t \in Path : <<n - 1, t>> \in Z
      PROVE  <<n, p>> \in Z
  <2> SUFFICES ASSUME NEW x \in leads(f)[n][p]
      PROVE  x \in leads(f0)[n][p] \/ Unlinked(f, f0, x)
    OBVIOUS
  <2>1. PICK d, q : Looked(f, n, p, d, q) /\ LeadsTo(f, n, q, x)
    BY <1>2, LeadsName
  <2>2. KindAt(f, d) = "dir" /\ KindAt(f0, d) = "dir" /\ ~Unlinked(f, f0, d)
    BY <2>1, ShrunkKinds DEF Looked, Unlinked
  <2>3. Looked(f0, n, p, d, q)
    BY <1>2, <2>1, <2>2 DEF Looked
  <2>4. CASE KindAt(f, q) = "link"
    <3>1. /\ KindAt(f0, q) = "link" /\ f.node[q] = f0.node[q]
          /\ n # 0 /\ x \in leads(f)[n - 1][f.node[q].to]
      BY <2>1, <2>4, ShrunkKinds DEF LeadsTo
    <3>2. f.node[q].to \in Path
      BY <2>4 DEF LinksOk, Links, KindAt
    <3>3. x \in leads(f0)[n - 1][f0.node[q].to] \/ Unlinked(f, f0, x)
      BY <1>2, <3>1, <3>2
    <3>4. LeadsTo(f0, n, q, x) \/ Unlinked(f, f0, x)
      BY <3>1, <3>3 DEF LeadsTo
    <3> QED
      BY <1>2, <2>3, <3>4, LeadsName
  <2>5. CASE KindAt(f, q) # "link"
    <3>1. x = q /\ Len(q) <= MaxDepth
      BY <2>1, <2>5 DEF LeadsTo
    <3>2. LeadsTo(f0, n, q, x) \/ Unlinked(f, f0, x)
      BY <2>5, <3>1 DEF LeadsTo, Unlinked
    <3> QED
      BY <1>2, <2>3, <3>2, LeadsName
  <2> QED
    BY <2>4, <2>5
<1> HIDE DEF Z
<1>3. \A n \in 0..MaxLinks, p \in Path : <<n, p>> \in Z
  BY <1>1, <1>2, LinkInduction
<1> QED
  <2> SUFFICES ASSUME NEW n \in 0..MaxLinks, NEW p \in Path, NEW x \in leads(f)[n][p]
      PROVE  x \in leads(f0)[n][p] \/ Unlinked(f, f0, x)
    OBVIOUS
  <2>1. <<n, p>> \in Z
    BY <1>3
  <2> QED
    BY <2>1 DEF Z

LEMMA ShrunkLeads ==
  ASSUME NEW f, NEW f0, Shrunk(f, f0), IsTree(f0)
  PROVE  \A n \in 0..MaxLinks, p \in Path : \A x \in leads(f)[n][p] :
           x \in leads(f0)[n][p] \/ Unlinked(f, f0, x)
BY FewerLeads, ShrunkLinks, TreeParts

LEMMA LinksRange == MaxLinks \in 0..MaxLinks
BY FileSysAssumption

LEMMA ShrunkReal ==
  ASSUME NEW f, NEW f0, Shrunk(f, f0), IsTree(f0), NEW p \in Path, NEW x \in Real(f, p)
  PROVE  x \in Real(f0, p) \/ Unlinked(f, f0, x)
BY ShrunkLeads, LinksRange DEF Real

\* what is named was so before other names went
LEMMA FewerNamed ==
  ASSUME NEW f, NEW f0, Shrunk(f, f0), LinksOk(f), LinksOk(f0), NEW p \in Path
  PROVE  Named(f, p) \subseteq Named(f0, p)
<1>1. CASE p = <<>>
  BY <1>1 DEF Named
<1>2. CASE p # <<>>
  <2> SUFFICES ASSUME NEW q \in Named(f, p) PROVE q \in Named(f0, p)
    OBVIOUS
  <2>1. PICK d : Looked(f, MaxLinks, p, d, q) /\ Len(q) <= MaxDepth
    BY <1>2, NamedBy
  <2>2. Front(p) \in Path
    BY <1>2, FrontIn
  <2>3. KindAt(f0, d) = "dir" /\ ~Unlinked(f, f0, d)
    BY <2>1, ShrunkKinds DEF Looked, Unlinked
  <2>4. Looked(f0, MaxLinks, p, d, q)
    BY <2>1, <2>2, <2>3, FewerLeads, LinksRange DEF Looked
  <2> QED
    BY <1>2, <2>1, <2>4, NamedBy
<1> QED
  BY <1>1, <1>2

LEMMA ShrunkNamed ==
  ASSUME NEW f, NEW f0, Shrunk(f, f0), IsTree(f0), NEW p \in Path
  PROVE  Named(f, p) \subseteq Named(f0, p)
BY FewerNamed, ShrunkLinks, TreeParts

\* f has all f0 has, and perhaps more.
Extends(f, f0) ==
  DOMAIN f0.node \subseteq DOMAIN f.node /\ \A q \in DOMAIN f0.node : f.node[q] = f0.node[q]

\* a name that leads somewhere still leads there when names are made, unless
\* a link was made there
LEMMA GrownLeads ==
  ASSUME NEW f, NEW f0, LinksOk(f), LinksOk(f0), Extends(f, f0)
  PROVE  \A n \in 0..MaxLinks, p \in Path : \A x \in leads(f0)[n][p] :
           x \in leads(f)[n][p] \/ (x \notin DOMAIN f0.node /\ KindAt(f, x) = "link")
<1> DEFINE Made(x) == x \notin DOMAIN f0.node /\ KindAt(f, x) = "link"
           Z == {z \in (0..MaxLinks) \X Path :
                   \A x \in leads(f0)[z[1]][z[2]] : x \in leads(f)[z[1]][z[2]] \/ Made(x)}
<1>1. ASSUME NEW n \in 0..MaxLinks PROVE <<n, <<>>>> \in Z
  <2>1. <<>> \in Path /\ leads(f)[n][<<>>] = {<<>>} /\ leads(f0)[n][<<>>] = {<<>>}
    BY LeadsRoot DEF Path
  <2> QED
    BY <2>1
<1>2. ASSUME NEW n \in 0..MaxLinks, NEW p \in Path, p # <<>>, <<n, Front(p)>> \in Z,
             n # 0 => \A t \in Path : <<n - 1, t>> \in Z
      PROVE  <<n, p>> \in Z
  <2> SUFFICES ASSUME NEW x \in leads(f0)[n][p], ~Made(x)
      PROVE  x \in leads(f)[n][p]
    OBVIOUS
  <2>1. PICK d, q : Looked(f0, n, p, d, q) /\ LeadsTo(f0, n, q, x)
    BY <1>2, LeadsName
  <2>2. d \in DOMAIN f0.node /\ KindAt(f, d) = "dir"
    BY <2>1 DEF Looked, KindAt, Extends
  <2>3. Looked(f, n, p, d, q)
    BY <1>2, <2>1, <2>2 DEF Looked
  <2>4. CASE KindAt(f0, q) = "link"
    <3>1. /\ KindAt(f, q) = "link" /\ f.node[q] = f0.node[q]
          /\ n # 0 /\ x \in leads(f0)[n - 1][f0.node[q].to]
      BY <2>1, <2>4 DEF LeadsTo, KindAt, Extends
    <3>2. f0.node[q].to \in Path
      BY <2>4 DEF LinksOk, Links, KindAt
    <3>3. x \in leads(f)[n - 1][f.node[q].to]
      BY <1>2, <3>1, <3>2
    <3>4. LeadsTo(f, n, q, x)
      BY <3>1, <3>3 DEF LeadsTo
    <3> QED
      BY <1>2, <2>3, <3>4, LeadsName
  <2>5. CASE KindAt(f0, q) # "link"
    <3>1. x = q /\ Len(q) <= MaxDepth
      BY <2>1, <2>5 DEF LeadsTo
    <3>2. KindAt(f, q) # "link"
      BY <2>5, <3>1 DEF KindAt, Extends
    <3>3. LeadsTo(f, n, q, x)
      BY <3>1, <3>2 DEF LeadsTo
    <3> QED
      BY <1>2, <2>3, <3>3, LeadsName
  <2> QED
    BY <2>4, <2>5
<1> HIDE DEF Z
<1>3. \A n \in 0..MaxLinks, p \in Path : <<n, p>> \in Z
  BY <1>1, <1>2, LinkInduction
<1> QED
  <2> SUFFICES ASSUME NEW n \in 0..MaxLinks, NEW p \in Path, NEW x \in leads(f0)[n][p]
      PROVE  x \in leads(f)[n][p] \/ Made(x)
    OBVIOUS
  <2>1. <<n, p>> \in Z
    BY <1>3
  <2> QED
    BY <2>1 DEF Z

\* a name that leads to something in f0 leads to it in f
LEMMA ExtendedLeads ==
  ASSUME NEW f, NEW f0, LinksOk(f), LinksOk(f0), Extends(f, f0)
  PROVE  \A n \in 0..MaxLinks, p \in Path : \A x \in leads(f0)[n][p] \cap DOMAIN f0.node :
           x \in leads(f)[n][p]
BY GrownLeads

\* what is new is no link
MoreDirs(f, f0) ==
  Extends(f, f0) /\ \A q \in DOMAIN f.node \ DOMAIN f0.node : f.node[q] = Dir

LEMMA MoreDirsLinks ==
  ASSUME NEW f, NEW f0, MoreDirs(f, f0), IsTree(f0)
  PROVE  LinksOk(f)
<1>1. LinksOk(f0)
  BY TreeParts
<1> QED
  BY <1>1 DEF LinksOk, Links, MoreDirs, Extends, Dir

\* a name that leads in f to what f0 has leads to it in f0
LEMMA MoreDirsLeads ==
  ASSUME NEW f, NEW f0, MoreDirs(f, f0), IsTree(f0)
  PROVE  \A n \in 0..MaxLinks, p \in Path : \A x \in leads(f)[n][p] \cap DOMAIN f0.node :
           x \in leads(f0)[n][p]
<1> DEFINE Z == {z \in (0..MaxLinks) \X Path :
                   \A x \in leads(f)[z[1]][z[2]] \cap DOMAIN f0.node : x \in leads(f0)[z[1]][z[2]]}
<1>0. LinksOk(f) /\ LinksOk(f0) /\ KindAt(f, <<>>) # "link"
  BY MoreDirsLinks, TreeParts DEF MoreDirs, Extends, KindAt
<1>1. ASSUME NEW n \in 0..MaxLinks PROVE <<n, <<>>>> \in Z
  <2>1. <<>> \in Path /\ leads(f)[n][<<>>] = {<<>>} /\ leads(f0)[n][<<>>] = {<<>>}
    BY <1>0, LeadsRoot DEF Path
  <2> QED
    BY <2>1
<1>2. ASSUME NEW n \in 0..MaxLinks, NEW p \in Path, p # <<>>, <<n, Front(p)>> \in Z,
             n # 0 => \A t \in Path : <<n - 1, t>> \in Z
      PROVE  <<n, p>> \in Z
  <2> SUFFICES ASSUME NEW x \in leads(f)[n][p], x \in DOMAIN f0.node
      PROVE  x \in leads(f0)[n][p]
    OBVIOUS
  <2>1. PICK d, q : Looked(f, n, p, d, q) /\ LeadsTo(f, n, q, x)
    BY <1>0, <1>2, LeadsName
  <2>2. d \in Path /\ q # <<>> /\ Front(q) = d
    <3>1. Front(p) \in Path /\ Last(p) \in STRING
      BY <1>2, FrontIn
    <3>2. d \in Path
      BY <1>0, <2>1, <3>1, LeadsIn DEF Looked
    <3> QED
      BY <2>1, <3>1, <3>2, AppendIn DEF Looked
  <2>3. q \in DOMAIN f0.node
    <3>1. CASE KindAt(f, q) = "link"
      BY <3>1 DEF MoreDirs, Extends, KindAt, Dir
    <3>2. CASE KindAt(f, q) # "link"
      BY <2>1, <3>2 DEF LeadsTo
    <3> QED
      BY <3>1, <3>2
  <2>4. d \in DOMAIN f0.node /\ KindAt(f0, d) = "dir"
    BY <2>2, <2>3, TreeParts
  <2>5. Looked(f0, n, p, d, q)
    BY <1>2, <2>1, <2>4 DEF Looked
  <2>6. KindAt(f, q) = KindAt(f0, q) /\ f.node[q] = f0.node[q]
    BY <2>3 DEF KindAt, MoreDirs, Extends
  <2>7. LeadsTo(f0, n, q, x)
    <3>1. CASE KindAt(f, q) = "link"
      <4>1. f.node[q].to \in Path
        BY <1>0, <3>1 DEF LinksOk, Links, KindAt
      <4>2. n # 0 /\ x \in leads(f)[n - 1][f.node[q].to]
        BY <2>1, <3>1 DEF LeadsTo
      <4>3. x \in leads(f0)[n - 1][f0.node[q].to]
        BY <1>2, <2>6, <4>1, <4>2
      <4> QED
        BY <2>6, <3>1, <4>2, <4>3 DEF LeadsTo
    <3>2. CASE KindAt(f, q) # "link"
      BY <2>1, <2>6, <3>2 DEF LeadsTo
    <3> QED
      BY <3>1, <3>2
  <2> QED
    BY <1>0, <1>2, <2>5, <2>7, LeadsName
<1> HIDE DEF Z
<1>3. \A n \in 0..MaxLinks, p \in Path : <<n, p>> \in Z
  BY <1>1, <1>2, LinkInduction
<1> QED
  <2> SUFFICES ASSUME NEW n \in 0..MaxLinks, NEW p \in Path, NEW x \in leads(f)[n][p],
                      x \in DOMAIN f0.node
      PROVE  x \in leads(f0)[n][p]
    OBVIOUS
  <2>1. <<n, p>> \in Z
    BY <1>3
  <2> QED
    BY <2>1 DEF Z

-----------------------------------------------------------------------------
(* Paths below paths, and the paths names lead to.                         *)

LEMMA UnderSelf == ASSUME NEW p \in Path PROVE Under(p, p)
BY LenProperties DEF Under, IsPrefix, Path

LEMMA SameStart ==
  ASSUME NEW s \in Path, NEW t \in Path, NEW n \in Nat, n <= Len(s), n <= Len(t),
         \A i \in 1..n : s[i] = t[i]
  PROVE  SubSeq(s, 1, n) = SubSeq(t, 1, n)
<1>1. \A i \in 1..n : s[i] \in STRING /\ t[i] \in STRING
  BY LenProperties, ElementOfSeq DEF Path
<1>2. 1 \in Int /\ n \in Int
  OBVIOUS
<1> DEFINE u == SubSeq(s, 1, n)
           v == SubSeq(t, 1, n)
<1>3. /\ u \in Seq(STRING) /\ Len(u) = IF 1 <= n THEN n - 1 + 1 ELSE 0
      /\ \A i \in 1..(n - 1 + 1) : u[i] = s[1 + i - 1]
  BY <1>1, <1>2, SubSeqProperties
<1>4. /\ v \in Seq(STRING) /\ Len(v) = IF 1 <= n THEN n - 1 + 1 ELSE 0
      /\ \A i \in 1..(n - 1 + 1) : v[i] = t[1 + i - 1]
  BY <1>1, <1>2, SubSeqProperties
<1> HIDE DEF u, v
<1>5. Len(u) = n /\ Len(v) = n /\ \A i \in 1..n : i \in 1..(n - 1 + 1) /\ 1 + i - 1 = i
  BY <1>3, <1>4
<1>6. u = v
  BY <1>3, <1>4, <1>5, SeqEqual
<1> QED
  BY <1>6 DEF u, v

LEMMA AppendParts ==
  ASSUME NEW q \in Path, NEW x \in STRING
  PROVE  /\ Append(q, x) \in Path /\ Len(Append(q, x)) = Len(q) + 1
         /\ \A i \in 1..Len(q) : Append(q, x)[i] = q[i]
<1> DEFINE a == Append(q, x)
<1>1. q \in Seq(STRING) /\ Len(q) \in Nat
  BY LenProperties DEF Path
<1>2. a \in Seq(STRING) /\ Len(a) = Len(q) + 1
  BY <1>1, AppendProperties
<1>3. \A i \in 1..Len(q) : a[i] = q[i]
  BY <1>1, AppendProperties
<1> HIDE DEF a
<1> QED
  BY <1>2, <1>3 DEF Path, a

LEMMA UnderMore ==
  ASSUME NEW p \in Path, NEW q \in Path, Under(p, q), NEW x \in STRING
  PROVE  Under(p, Append(q, x))
<1> DEFINE a == Append(q, x)
<1>1. q \in Seq(STRING) /\ Len(q) \in Nat /\ Len(p) \in Nat
  BY LenProperties DEF Path
<1>2. a \in Path /\ Len(a) = Len(q) + 1 /\ \A i \in 1..Len(q) : a[i] = q[i]
  BY AppendParts
<1> HIDE DEF a
<1>3. Len(p) <= Len(q) /\ SubSeq(p, 1, Len(p)) = SubSeq(q, 1, Len(p))
  BY DEF Under, IsPrefix
<1>4. Len(p) <= Len(a) /\ \A i \in 1..Len(p) : a[i] = q[i]
  BY <1>1, <1>2, <1>3
<1>5. SubSeq(a, 1, Len(p)) = SubSeq(q, 1, Len(p))
  BY <1>1, <1>2, <1>3, <1>4, SameStart
<1>6. Under(p, a)
  BY <1>3, <1>4, <1>5 DEF Under, IsPrefix
<1> QED
  BY <1>6 DEF a

LEMMA UnderAhead ==
  ASSUME NEW q \in Path, NEW s \in Path
  PROVE  q \o s \in Path /\ Under(q, q \o s)
<1> DEFINE a == q \o s
<1>1. q \in Seq(STRING) /\ s \in Seq(STRING) /\ Len(q) \in Nat /\ Len(s) \in Nat
  BY LenProperties DEF Path
<1>2. a \in Path /\ Len(a) = Len(q) + Len(s) /\ \A i \in 1..Len(q) : a[i] = q[i]
  BY <1>1, ConcatProperties DEF Path
<1> HIDE DEF a
<1>3. Len(q) <= Len(a)
  BY <1>1, <1>2
<1>4. SubSeq(a, 1, Len(q)) = SubSeq(q, 1, Len(q))
  BY <1>1, <1>2, <1>3, SameStart
<1>5. Under(q, a)
  BY <1>3, <1>4 DEF Under, IsPrefix
<1> QED
  BY <1>2, <1>5 DEF a

LEMMA RealIn ==
  ASSUME NEW f, LinksOk(f), KindAt(f, <<>>) # "link", NEW p \in Path
  PROVE  Real(f, p) \subseteq Path /\ \A x \in Real(f, p) : KindAt(f, x) # "link"
BY LeadsIn, LinksRange DEF Real

LEMMA NamedIn ==
  ASSUME NEW f, LinksOk(f), KindAt(f, <<>>) # "link", NEW p \in Path
  PROVE  Named(f, p) \subseteq Path
<1>1. CASE p = <<>>
  BY <1>1 DEF Named
<1>2. CASE p # <<>>
  <2> SUFFICES ASSUME NEW q \in Named(f, p) PROVE q \in Path
    OBVIOUS
  <2>1. PICK d : Looked(f, MaxLinks, p, d, q)
    BY <1>2, NamedBy
  <2>2. Front(p) \in Path /\ Last(p) \in STRING
    BY <1>2, FrontIn
  <2>3. d \in Path
    BY <2>1, <2>2, LeadsIn, LinksRange DEF Looked
  <2> QED
    BY <2>1, <2>2, <2>3, AppendIn DEF Looked
<1> QED
  BY <1>1, <1>2

\* a place that is named and there, and what it leads to if it is no link
LEMMA RealAsNamed ==
  ASSUME NEW f, LinksOk(f), NEW p \in Path, NEW x \in Named(f, p), KindAt(f, x) # "link",
         NEW y \in Real(f, p)
  PROVE  y = x
BY NamedIsReal, LeadsOnce, LinksRange DEF Real

-----------------------------------------------------------------------------
(* The arguments of a command, and the places it may change.               *)

\* The commands of the theorem: cp without -r, mv with one source, and mv and
\* mkdir without another process that makes and removes names.
Confined == /\ cmd.tool = "cp" => "r" \notin cmd.flags
            /\ cmd.tool = "mv" => Len(cmd.args) = 2
            /\ cmd.tool \in {"mv", "mkdir"} => cmd.tool \notin Raced
Started == cmd \in Commands /\ fs0 \in Trees

LEMMA Args ==
  ASSUME Started
  PROVE  /\ SrcArgs \subseteq Path \ {<<>>} /\ Last(cmd.args) \in Path \ {<<>>}
         /\ Sources(cmd) \in Seq(SrcArgs)
         /\ \A s \in SrcArgs : Target(s) \in Path
         /\ Confined /\ cmd.tool \in {"mv", "ln"} => Len(Sources(cmd)) = 1
         /\ cmd.tool \in {"cp", "mv", "rm", "rmdir", "ln", "mkdir", "touch", "cat", "wrt"}
<1> DEFINE P == Path \ {<<>>}
<1>1. cmd.args \in Seq(P) /\ Len(cmd.args) >= 1 /\ (cmd.tool = "ln" => Len(cmd.args) = 2)
      /\ (cmd.tool = "wrt" => Len(cmd.args) = 1)
      /\ cmd.tool \in {"cp", "mv", "rm", "rmdir", "ln", "mkdir", "touch", "cat", "wrt"}
  <2>1. Len(cmd.args) >= 2 => Len(cmd.args) >= 1
    <3>1. Len(cmd.args) \in Nat
      BY FileToolsAssumption, LenProperties DEF Started
    <3> QED
      BY <3>1
  <2> QED
    BY <2>1, FileToolsAssumption DEF Started
<1>2. Len(cmd.args) \in Nat \ {0} /\ \A i \in 1..Len(cmd.args) : cmd.args[i] \in P
  BY <1>1, LenProperties, ElementOfSeq
<1>3. Last(cmd.args) \in P /\ cmd.args[1] \in P
  BY <1>2 DEF Last
<1>4. Front(cmd.args) \in Seq(P) /\ (Len(cmd.args) = 2 => Len(Front(cmd.args)) = 1)
  <2>1. 1 \in Int /\ Len(cmd.args) - 1 \in Int /\ \A i \in 1..(Len(cmd.args) - 1) : cmd.args[i] \in P
    BY <1>2
  <2> HIDE DEF P
  <2>2. /\ SubSeq(cmd.args, 1, Len(cmd.args) - 1) \in Seq(P)
        /\ Len(SubSeq(cmd.args, 1, Len(cmd.args) - 1)) =
             IF 1 <= Len(cmd.args) - 1 THEN Len(cmd.args) - 1 - 1 + 1 ELSE 0
    BY <2>1, SubSeqProperties
  <2>3. Front(cmd.args) \in Seq(P)
    BY <2>2 DEF Front
  <2>4. ASSUME Len(cmd.args) = 2 PROVE Len(Front(cmd.args)) = 1
    <3> DEFINE k == Len(Front(cmd.args))
    <3>1. k = IF 1 <= 2 - 1 THEN 2 - 1 - 1 + 1 ELSE 0
      BY <2>2, <2>4 DEF Front
    <3> HIDE DEF k
    <3>2. k = 1
      BY <3>1
    <3> QED
      BY <3>2 DEF k
  <2> QED
    BY <2>3, <2>4
<1>5. <<cmd.args[1]>> \in Seq(P)
  BY <1>3
<1> HIDE DEF P
<1>6. Sources(cmd) \in Seq(P) /\ (Confined /\ cmd.tool \in {"mv", "ln"} => Len(Sources(cmd)) = 1)
  <2>1. CASE ToDst(cmd) \/ cmd.tool = "ln"
    BY <2>1, <1>1, <1>4 DEF Sources, Confined
  <2>2. CASE ~(ToDst(cmd) \/ cmd.tool = "ln")
    BY <2>2, <1>1, <1>5 DEF Sources, ToDst
  <2> QED
    BY <2>1, <2>2
<1>7. SrcArgs \subseteq P
  BY <1>6, LenProperties, ElementOfSeq DEF SrcArgs, ToSet
<1>8. Sources(cmd) \in Seq(SrcArgs)
  <2>1. Sources(cmd) \in Seq(ToSet(Sources(cmd)))
    <3> DEFINE s == Sources(cmd)
    <3>1. s \in [1..Len(s) -> P] /\ DOMAIN s = 1..Len(s) /\ Len(s) \in Nat
      BY <1>6, LenProperties
    <3> HIDE DEF s
    <3>2. s \in [1..Len(s) -> ToSet(s)]
      BY <3>1 DEF ToSet
    <3>3. s \in Seq(ToSet(s))
      BY <3>1, <3>2, SeqDef
    <3> QED
      BY <3>3 DEF s
  <2> QED
    BY <2>1 DEF SrcArgs
<1>9. \A s \in SrcArgs : Target(s) \in Path
  BY <1>3, <1>7, FrontIn, AppendIn DEF Target, target, P
<1> QED
  BY <1>1, <1>3, <1>6, <1>7, <1>8, <1>9 DEF P

LEMMA Fixed ==
  ASSUME UNCHANGED <<cmd, fs0>>
  PROVE  /\ SrcArgs' = SrcArgs /\ Led' = Led /\ MayName' = MayName /\ MayWrite' = MayWrite
         /\ (Confined' <=> Confined) /\ (Started' <=> Started)
<1>1. SrcArgs' = SrcArgs
  BY DEF SrcArgs
<1>2. \A s : Target(s)' = Target(s)
  BY DEF Target
<1>3. Led' = Led
  BY <1>1, <1>2 DEF Led, LedBy, Reaches, Linked
<1>4. MayName' = MayName
  BY <1>1, <1>3 DEF MayName
<1>5. MayWrite' = MayWrite
  BY <1>3 DEF MayWrite, FilesBelow
<1> QED
  BY <1>1, <1>3, <1>4, <1>5 DEF Confined, Started

LEMMA LedIn ==
  ASSUME Started
  PROVE  Led \subseteq Path /\ \A s \in SrcArgs : Reaches(Target(s)) \subseteq Led
<1>1. LinksOk(fs0) /\ KindAt(fs0, <<>>) # "link" /\ DOMAIN fs0.node \subseteq Path
  BY TreeParts, FileToolsAssumption DEF Started
<1>2. \A p \in Path : Reaches(p) \subseteq Path
  BY <1>1, RealIn, NamedIn DEF Reaches
<1>3. \A q : Linked(q) \subseteq Path
  BY <1>1, RealIn DEF Linked, Below
<1>4. \A s \in SrcArgs : Target(s) \in Path
  BY Args
<1> QED
  BY <1>2, <1>3, <1>4 DEF Led, LedBy

LEMMA MayNameIn ==
  ASSUME Started
  PROVE  MayName \subseteq Path
<1>1. LinksOk(fs0) /\ KindAt(fs0, <<>>) # "link"
  BY TreeParts, FileToolsAssumption DEF Started
<1>2. \A p \in Path : Real(fs0, p) \subseteq Path /\ Named(fs0, p) \subseteq Path
  BY <1>1, RealIn, NamedIn
<1>3. SrcArgs \subseteq Path /\ Last(cmd.args) \in Path
  BY Args
<1>4. \A s \in SrcArgs : Prefixes(s) \subseteq Path
  <2> SUFFICES ASSUME NEW s \in SrcArgs, NEW l \in 0..Len(s) PROVE SubSeq(s, 1, l) \in Path
    BY DEF Prefixes
  <2>1. s \in Seq(STRING) /\ Len(s) \in Nat /\ \A i \in 1..Len(s) : s[i] \in STRING
    BY <1>3, LenProperties, ElementOfSeq DEF Path
  <2>2. 1 \in Int /\ l \in Int /\ \A i \in 1..l : s[i] \in STRING
    BY <2>1
  <2> QED
    BY <2>2, SubSeqProperties DEF Path
<1>5. Led \subseteq Path
  BY LedIn
<1> QED
  BY <1>2, <1>3, <1>4, <1>5 DEF MayName, Free

-----------------------------------------------------------------------------
(* The invariant.                                                          *)

\* The command may make, remove or write q; another process may, too.
Allowed(q) == \E r \in MayName : Under(r, q)
Spared(q) == (cmd.tool \in Raced /\ q \in Meddled) \/ Allowed(q)
Inside(qs) == \A q \in qs : Allowed(q)
KeptData == DOMAIN fs0.data \ MayWrite

PlacesOK ==
  \A p \in DOMAIN fs.node \cup DOMAIN fs0.node :
    Spared(p) \/ (p \in DOMAIN fs.node \cap DOMAIN fs0.node /\ fs.node[p] = fs0.node[p])
DataOK == \A i \in KeptData : fs.data[i] = fs0.data[i]

Calls(ops) == [op : ops, src : Path, dst : Path]
RmOps == {"rm", "rmdir", "rmTree", "rmList", "rmDir", "rmUnlink"}
CpOps == {"cp", "cpCopied", "cpForce"}
MvOps == {"mv", "mvAcross", "mvLink", "mvCopied", "mvUnlink"}
SmallOps == {"ln", "lnMake", "mkdir", "touch", "cat", "wrt"}

\* What the frames of the stack may do.
MainCall(fr) ==
  /\ fr = MainFrame(fr.left, fr.into) /\ fr.left \in Seq(SrcArgs)
  /\ Len(fr.left) <= Len(Sources(cmd))
  /\ fr.into = is_dir(fs0, Last(cmd.args))
RmCall(fr) ==
  /\ cmd.tool = "rm" \/ (cmd.tool = "rmdir" /\ fr.op = "rmdir")
  /\ fr \in Calls(RmOps)
  /\ Inside(Named(fs0, fr.src)) /\ (fr.op = "rmList" => Inside(Real(fs0, fr.src)))
RmLoop(fr) ==
  /\ cmd.tool = "rm" /\ fr \in [op : {"rmEntry"}, src : Path, left : SUBSET STRING]
  /\ Inside(Named(fs0, fr.src)) /\ Inside(Real(fs0, fr.src))
CopyCall(fr) ==
  /\ cmd.tool \in {"cp", "mv"} /\ fr \in Calls(CpOps \cup MvOps \cup {"copy"})
  /\ (fr.op \in CpOps => cmd.tool = "cp") /\ (fr.op \in MvOps => cmd.tool = "mv")
  /\ Reaches(fr.dst) \subseteq Led
  /\ cmd.tool = "mv" => Named(fs0, fr.src) \subseteq MayName
CopyLoop(fr) ==
  /\ cmd.tool \in {"cp", "mv"} /\ fr.to \notin KeptData
  /\ fr = [op |-> "copying", in |-> fr.in, to |-> fr.to, at |-> fr.at]
SmallCall(fr) ==
  /\ fr \in Calls(SmallOps) /\ fr.src \in SrcArgs
  /\ fr.op = cmd.tool \/ (fr.op = "lnMake" /\ cmd.tool = "ln")
  /\ cmd.tool = "ln" => fr.dst = Last(cmd.args)
MkdirLoop(fr) ==
  /\ cmd.tool = "mkdir" /\ fr = [op |-> "mkdirP", src |-> fr.src, upto |-> fr.upto]
  /\ fr.src \in SrcArgs /\ fr.upto \in 1..Len(fr.src)
CatLoop(fr) == cmd.tool = "cat" /\ fr = [op |-> "catRead", in |-> fr.in, at |-> fr.at]
WrtCall(fr) == cmd.tool = "wrt" /\ fr = [op |-> "wrtText", to |-> fr.to] /\ fr.to \notin KeptData

FrameOK(fr) ==
  \/ MainCall(fr) \/ RmCall(fr) \/ RmLoop(fr) \/ CopyCall(fr) \/ CopyLoop(fr)
  \/ SmallCall(fr) \/ MkdirLoop(fr) \/ CatLoop(fr) \/ WrtCall(fr)

\* mv and ln have one source: after the change it is over.
LastCall(m) == m.op = "main" /\ m.left = <<>>
LineUp ==
  \/ todo = <<>>
  \/ \E m \in {todo[1]} : todo = <<m>> /\ m.op = "main"
  \/ \E fr \in {todo[1]}, m \in {todo[2]} : todo = <<fr, m>> /\ LastCall(m)
  \/ \E fr \in {todo[1]}, c \in {todo[2]}, m \in {todo[3]} :
       /\ todo = <<fr, c, m>> /\ fr.op \in {"copy", "copying"} /\ c.op = "mvCopied"
       /\ LastCall(m)
LastDone == todo = <<>> \/ LastCall(Top)
Late ==
  /\ LineUp
  /\ LastDone \/ Shrunk(fs, fs0) \/ (At("mvUnlink") /\ Inside(Named(fs, Top.src)))
  /\ At("mvLink") => \A n \in lstat(fs, Top.src) : n.kind = "link"

Stack(seq) == \E S : seq \in Seq(S) /\ \A fr \in S : FrameOK(fr)
Data(f) == \E S : f.data \in Seq(S)

FsInv ==
  /\ Data(fs) /\ Len(fs0.data) <= Len(fs.data) /\ PlacesOK /\ DataOK
  /\ cmd.tool = "mkdir" => MoreDirs(fs, fs0)
  /\ cmd.tool \notin {"mkdir", "mv", "ln"} => Shrunk(fs, fs0)
ToolInv ==
  /\ Started /\ FsInv /\ Stack(todo)
  /\ cmd.tool \in {"mv", "ln"} => Late

-----------------------------------------------------------------------------
(* What the calls do to the file system.                                   *)

\* f and g differ at qs only
Same(f, g, qs) ==
  \A x \in (DOMAIN f.node \cup DOMAIN g.node) \ qs :
    x \in DOMAIN f.node \cap DOMAIN g.node /\ f.node[x] = g.node[x]

LEMMA FixedMore ==
  ASSUME UNCHANGED <<cmd, fs0>>
  PROVE  /\ KeptData' = KeptData /\ (\A q : Allowed(q)' <=> Allowed(q))
         /\ (\A q : Spared(q)' <=> Spared(q))
         /\ (\A qs : Inside(qs)' <=> Inside(qs))
<1>1. MayName' = MayName /\ MayWrite' = MayWrite
  BY Fixed
<1>2. \A q : Allowed(q)' <=> Allowed(q)
  BY <1>1 DEF Allowed
<1> QED
  BY <1>1, <1>2 DEF KeptData, Spared, Inside

LEMMA FrameStays ==
  ASSUME UNCHANGED <<cmd, fs0>>, NEW fr, FrameOK(fr)
  PROVE  FrameOK(fr)'
<1>1. /\ KeptData' = KeptData /\ SrcArgs' = SrcArgs /\ Led' = Led /\ MayName' = MayName
      /\ \A qs : Inside(qs)' <=> Inside(qs)
  BY Fixed, FixedMore
<1>2. MainCall(fr) => MainCall(fr)'
  BY <1>1 DEF MainCall
<1>3. RmCall(fr) => RmCall(fr)'
  BY <1>1 DEF RmCall
<1>4. RmLoop(fr) => RmLoop(fr)'
  BY <1>1 DEF RmLoop
<1>5. CopyCall(fr) => CopyCall(fr)'
  BY <1>1 DEF CopyCall, Reaches
<1>6. CopyLoop(fr) => CopyLoop(fr)'
  BY <1>1 DEF CopyLoop
<1>7. SmallCall(fr) => SmallCall(fr)'
  BY <1>1 DEF SmallCall
<1>8. MkdirLoop(fr) => MkdirLoop(fr)'
  BY <1>1 DEF MkdirLoop
<1>9. (CatLoop(fr) => CatLoop(fr)') /\ (WrtCall(fr) => WrtCall(fr)')
  BY <1>1 DEF CatLoop, WrtCall
<1> QED
  BY <1>2, <1>3, <1>4, <1>5, <1>6, <1>7, <1>8, <1>9 DEF FrameOK

\* a change at places that are allowed, and of data that may be written
LEMMA ChangeStays ==
  ASSUME FsInv, UNCHANGED <<cmd, fs0>>, NEW qs, \A q \in qs : Spared(q), Same(fs, fs', qs),
         Data(fs'), Len(fs.data) <= Len(fs'.data), Started,
         \A i \in DOMAIN fs.data : fs'.data[i] = fs.data[i] \/ i \notin KeptData
  PROVE  Data(fs)' /\ Len(fs0'.data) <= Len(fs'.data) /\ PlacesOK' /\ DataOK'
<1>1. KeptData' = KeptData /\ \A q : Spared(q)' <=> Spared(q)
  BY FixedMore
<1>2. PlacesOK'
  <2> SUFFICES ASSUME NEW p \in DOMAIN fs'.node \cup DOMAIN fs0.node, ~Spared(p)
      PROVE  p \in DOMAIN fs'.node \cap DOMAIN fs0.node /\ fs'.node[p] = fs0.node[p]
    BY <1>1 DEF PlacesOK
  <2>1. p \notin qs
    OBVIOUS
  <2>2. p \in DOMAIN fs.node \cup DOMAIN fs0.node
    BY <2>1 DEF Same
  <2>3. p \in DOMAIN fs.node \cap DOMAIN fs0.node /\ fs.node[p] = fs0.node[p]
    BY <2>2 DEF FsInv, PlacesOK
  <2> QED
    BY <2>1, <2>3 DEF Same
<1>3. Len(fs0.data) \in Nat /\ Len(fs.data) \in Nat /\ Len(fs'.data) \in Nat
      /\ DOMAIN fs0.data = 1..Len(fs0.data) /\ DOMAIN fs.data = 1..Len(fs.data)
  <2>1. fs0.data \in Seq(Seq(STRING))
    BY FileToolsAssumption DEF Started, IsTree
  <2>2. PICK S : fs.data \in Seq(S)
    BY DEF FsInv, Data
  <2>3. PICK T : fs'.data \in Seq(T)
    BY DEF Data
  <2> QED
    BY <2>1, <2>2, <2>3, LenProperties
<1>4. Len(fs0.data) <= Len(fs'.data) /\ DOMAIN fs0.data \subseteq DOMAIN fs.data
  BY <1>3 DEF FsInv
<1>5. DataOK'
  <2> SUFFICES ASSUME NEW i \in KeptData PROVE fs'.data[i] = fs0.data[i]
    BY <1>1 DEF DataOK
  <2>1. i \in DOMAIN fs.data
    BY <1>4 DEF KeptData
  <2> QED
    BY <2>1 DEF FsInv, DataOK
<1> QED
  BY <1>2, <1>4, <1>5 DEF Data

LEMMA DataParts ==
  ASSUME NEW f, Data(f)
  PROVE  /\ Len(f.data) \in Nat /\ DOMAIN f.data = 1..Len(f.data)
         /\ NewIno(f) \notin DOMAIN f.data
<1>1. PICK S : f.data \in Seq(S)
  BY DEF Data
<1> QED
  BY <1>1, LenProperties DEF NewIno

\* e is d, but for its member i
ButFor(d, e, i) == Len(e) = Len(d) /\ \A j \in DOMAIN d : e[j] = d[j] \/ j = i
\* e is d, and one more
OneMore(d, e) == Len(e) = Len(d) + 1 /\ \A j \in DOMAIN d : e[j] = d[j]

LEMMA ExceptParts ==
  ASSUME NEW f, Data(f), NEW i, NEW v, NEW node,
         NEW g, g = Tree(node, [f.data EXCEPT ![i] = v])
  PROVE  Data(g) /\ ButFor(f.data, g.data, i)
<1>1. PICK S : f.data \in Seq(S)
  BY DEF Data
<1> DEFINE d == [f.data EXCEPT ![i] = v]
           T == S \cup {v}
<1>2. f.data \in Seq(T)
  BY <1>1, SeqMonotonic
<1>3. DOMAIN f.data = 1..Len(f.data) /\ Len(f.data) \in Nat
  BY <1>1, LenProperties
<1>4. d \in Seq(T) /\ Len(d) = Len(f.data) /\ \A j \in DOMAIN f.data : d[j] = f.data[j] \/ j = i
  <2>1. CASE i \in 1..Len(f.data)
    <3>1. v \in T
      OBVIOUS
    <3> HIDE DEF T
    <3> QED
      BY <1>2, <1>3, <2>1, <3>1, ExceptSeq
  <2>2. CASE i \notin 1..Len(f.data)
    <3>1. d = f.data
      BY <1>2, <1>3, <2>2
    <3> QED
      BY <1>2, <3>1
  <2> QED
    BY <2>1, <2>2
<1>5. g.data = d
  BY DEF Tree
<1> HIDE DEF d, T
<1> QED
  BY <1>4, <1>5 DEF Data, ButFor

LEMMA AppendKeepsData ==
  ASSUME NEW f, Data(f), NEW v, NEW node,
         NEW g, g = Tree(node, Append(f.data, v))
  PROVE  Data(g) /\ OneMore(f.data, g.data)
<1>1. PICK S : f.data \in Seq(S)
  BY DEF Data
<1> DEFINE d == Append(f.data, v)
           T == S \cup {v}
<1>2. f.data \in Seq(T) /\ v \in T
  BY <1>1, SeqMonotonic
<1>3. DOMAIN f.data = 1..Len(f.data) /\ Len(f.data) \in Nat
  BY <1>1, LenProperties
<1> HIDE DEF T
<1>4. d \in Seq(T) /\ Len(d) = Len(f.data) + 1
  BY <1>2, <1>3, AppendProperties
<1>5. \A j \in 1..Len(f.data) : d[j] = f.data[j]
  BY <1>2, <1>3, AppendProperties
<1>6. g.data = d
  BY DEF Tree
<1> HIDE DEF d
<1> QED
  BY <1>3, <1>4, <1>5, <1>6 DEF Data, OneMore

LEMMA TreeFields == ASSUME NEW n, NEW d PROVE Tree(n, d).node = n /\ Tree(n, d).data = d
BY DEF Tree

LEMMA NothingStays ==
  ASSUME FsInv, Started, UNCHANGED <<fs, cmd, fs0>>
  PROVE  FsInv' /\ (Shrunk(fs, fs0) => Shrunk(fs', fs0'))
<1>1. Same(fs, fs', {})
  BY DEF Same
<1>2. Data(fs') /\ Len(fs.data) <= Len(fs'.data)
  BY DataParts DEF FsInv
<1> QED
  BY <1>1, <1>2, ChangeStays DEF FsInv

LEMMA RemovedStays ==
  ASSUME FsInv, Started, cmd.tool # "mkdir", UNCHANGED <<cmd, fs0>>,
         NEW q, Spared(q), fs' = Removed(fs, {q})
  PROVE  FsInv' /\ (Shrunk(fs, fs0) => Shrunk(fs', fs0'))
<1>1. /\ fs'.data = fs.data /\ DOMAIN fs'.node = DOMAIN fs.node \ {q}
      /\ \A x \in DOMAIN fs.node \ {q} : fs'.node[x] = fs.node[x]
  BY TreeFields DEF Removed, Restrict
<1>2. Same(fs, fs', {q})
  BY <1>1 DEF Same
<1>3. Data(fs') /\ Len(fs.data) <= Len(fs'.data)
  BY <1>1, DataParts DEF FsInv, Data
<1>4. Shrunk(fs, fs0) => Shrunk(fs', fs0')
  BY <1>1 DEF Shrunk
<1>5. Data(fs)' /\ Len(fs0'.data) <= Len(fs'.data) /\ PlacesOK' /\ DataOK'
  BY <1>1, <1>2, <1>3, ChangeStays
<1> QED
  BY <1>4, <1>5 DEF FsInv

LEMMA FileStays ==
  ASSUME FsInv, Started, cmd.tool # "mkdir", UNCHANGED <<cmd, fs0>>,
         NEW q \in Path, q \notin DOMAIN fs.node, Spared(q), fs' = WithFile(fs, q)
  PROVE  FsInv' /\ (Shrunk(fs, fs0) => Shrunk(fs', fs0'))
<1> DEFINE n == With(fs.node, q, File(NewIno(fs)))
<1>1. fs' = Tree(n, Append(fs.data, <<>>))
  BY DEF WithFile
<1>2. /\ DOMAIN n = DOMAIN fs.node \cup {q} /\ n[q] = File(NewIno(fs))
      /\ \A x \in DOMAIN fs.node : n[x] = fs.node[x]
  BY DEF With
<1> HIDE DEF n
<1>3. fs'.node = n
  BY <1>1, TreeFields
<1>4. /\ Data(fs') /\ Len(fs'.data) = Len(fs.data) + 1
      /\ \A j \in DOMAIN fs.data : fs'.data[j] = fs.data[j]
  <2>1. Data(fs)
    BY DEF FsInv
  <2> DEFINE g == fs'
  <2>2. g = Tree(n, Append(fs.data, <<>>))
    BY <1>1
  <2> HIDE DEF g
  <2>3. Data(g) /\ OneMore(fs.data, g.data)
    BY <2>1, <2>2, AppendKeepsData
  <2> QED
    BY <2>3 DEF g, OneMore
<1>5. Same(fs, fs', {q})
  BY <1>2, <1>3 DEF Same
<1>6. Len(fs.data) <= Len(fs'.data)
  BY <1>4, DataParts DEF FsInv
<1>7. Data(fs)' /\ Len(fs0'.data) <= Len(fs'.data) /\ PlacesOK' /\ DataOK'
  BY <1>4, <1>5, <1>6, ChangeStays
<1>8. NewIno(fs) \notin DOMAIN fs0.data
  <2>1. fs0.data \in Seq(Seq(STRING))
    BY FileToolsAssumption DEF Started, IsTree
  <2>2. DOMAIN fs0.data = 1..Len(fs0.data) /\ Len(fs0.data) \in Nat
    BY <2>1, LenProperties
  <2>3. Len(fs0.data) <= Len(fs.data) /\ Len(fs.data) \in Nat
    BY DataParts DEF FsInv
  <2> QED
    BY <2>2, <2>3 DEF NewIno
<1>9. Shrunk(fs, fs0) => Shrunk(fs', fs0')
  <2>1. n[q].kind = "file" /\ n[q].ino = NewIno(fs)
    BY <1>2 DEF File
  <2> QED
    BY <1>2, <1>3, <1>8, <2>1 DEF Shrunk
<1> QED
  BY <1>7, <1>9 DEF FsInv

LEMMA WriteStays ==
  ASSUME FsInv, Started, UNCHANGED <<cmd, fs0>>, cmd.tool # "mkdir",
         NEW i, i \notin KeptData, NEW v, fs' = Tree(fs.node, [fs.data EXCEPT ![i] = v])
  PROVE  FsInv' /\ (Shrunk(fs, fs0) => Shrunk(fs', fs0'))
<1>1. fs'.node = fs.node
  BY TreeFields
<1>2. /\ Data(fs') /\ Len(fs'.data) = Len(fs.data)
      /\ \A j \in DOMAIN fs.data : fs'.data[j] = fs.data[j] \/ j = i
  <2>1. Data(fs)
    BY DEF FsInv
  <2> DEFINE g == fs'
             node == fs.node
  <2>2. g = Tree(node, [fs.data EXCEPT ![i] = v])
    OBVIOUS
  <2> HIDE DEF g, node
  <2>3. Data(g) /\ ButFor(fs.data, g.data, i)
    BY <2>1, <2>2, ExceptParts
  <2> QED
    BY <2>3 DEF g, ButFor
<1>3. Same(fs, fs', {})
  BY <1>1 DEF Same
<1>4. Len(fs.data) <= Len(fs'.data)
  BY <1>2, DataParts DEF FsInv
<1>5. Data(fs)' /\ Len(fs0'.data) <= Len(fs'.data) /\ PlacesOK' /\ DataOK'
  BY <1>2, <1>3, <1>4, ChangeStays
<1>6. Shrunk(fs, fs0) => Shrunk(fs', fs0')
  BY <1>1 DEF Shrunk
<1> QED
  BY <1>5, <1>6 DEF FsInv

LEMMA PutStays ==
  ASSUME FsInv, Started, UNCHANGED <<cmd, fs0>>, NEW q, Spared(q), NEW n, fs' = Put(fs, q, n),
         \/ cmd.tool \in {"mv", "ln"}
         \/ cmd.tool = "mkdir" /\ q \notin DOMAIN fs.node /\ n = Dir
  PROVE  FsInv'
<1>1. /\ fs'.data = fs.data /\ DOMAIN fs'.node = DOMAIN fs.node \cup {q} /\ fs'.node[q] = n
      /\ \A x \in DOMAIN fs.node \ {q} : fs'.node[x] = fs.node[x]
  BY TreeFields DEF Put, With
<1>2. Same(fs, fs', {q})
  BY <1>1 DEF Same
<1>3. Data(fs') /\ Len(fs.data) <= Len(fs'.data)
  BY <1>1, DataParts DEF FsInv, Data
<1>4. Data(fs)' /\ Len(fs0'.data) <= Len(fs'.data) /\ PlacesOK' /\ DataOK'
  BY <1>1, <1>2, <1>3, ChangeStays
<1>5. cmd.tool = "mkdir" => MoreDirs(fs', fs0')
  BY <1>1 DEF FsInv, MoreDirs, Extends
<1> QED
  BY <1>4, <1>5 DEF FsInv

LEMMA MovedStays ==
  ASSUME FsInv, Started, UNCHANGED <<cmd, fs0>>, cmd.tool = "mv", DOMAIN fs.node \subseteq Path,
         NEW r \in MayName, NEW q \in MayName, fs' = Moved(fs, r, q)
  PROVE  FsInv'
<1>0. r \in Path /\ q \in Path
  BY MayNameIn
<1> DEFINE kept == DOMAIN fs.node \ (Below(fs, r) \cup {q})
           new == {q \o SubSeq(x, Len(r) + 1, Len(x)) : x \in Below(fs, r)}
           qs == Below(fs, r) \cup {q} \cup new
           node == [x \in kept \cup new |->
                     IF x \in kept THEN fs.node[x]
                     ELSE fs.node[r \o SubSeq(x, Len(q) + 1, Len(x))]]
<1>1. fs' = Tree(node, fs.data)
  BY DEF Moved
<1>2. fs'.data = fs.data /\ fs'.node = node
  BY <1>1, TreeFields
<1>3. Same(fs, fs', qs)
  BY <1>2 DEF Same
<1>4. ASSUME NEW x \in Below(fs, r) PROVE Under(q, q \o SubSeq(x, Len(r) + 1, Len(x)))
  <2>1. x \in Seq(STRING)
    BY DEF Below, Path
  <2>2. Len(x) \in Nat /\ Len(r) \in Nat /\ \A i \in 1..Len(x) : x[i] \in STRING
    BY <1>0, <2>1, LenProperties, ElementOfSeq DEF Path
  <2>3. Len(r) + 1 \in Int /\ Len(x) \in Int /\ \A i \in (Len(r) + 1)..Len(x) : x[i] \in STRING
    BY <2>2
  <2>4. SubSeq(x, Len(r) + 1, Len(x)) \in Path
    BY <2>3, SubSeqProperties DEF Path
  <2> QED
    BY <1>0, <2>4, UnderAhead
<1>5. \A x \in qs : Spared(x)
  <2>1. \A x \in Below(fs, r) : Spared(x)
    BY DEF Below, Spared, Allowed
  <2>2. Spared(q)
    BY <1>0, UnderSelf DEF Spared, Allowed
  <2>3. \A x \in new : Spared(x)
    BY <1>4 DEF Spared, Allowed
  <2> QED
    BY <2>1, <2>2, <2>3
<1>6. Data(fs') /\ Len(fs.data) <= Len(fs'.data)
  BY <1>2, DataParts DEF FsInv, Data
<1> HIDE DEF qs
<1>7. Data(fs)' /\ Len(fs0'.data) <= Len(fs'.data) /\ PlacesOK' /\ DataOK'
  BY <1>2, <1>3, <1>5, <1>6, ChangeStays
<1> QED
  BY <1>7 DEF FsInv

-----------------------------------------------------------------------------
(* Where the calls of a command act.                                       *)

LEMMA TreeThere ==
  ASSUME Started
  PROVE  IsTree(fs0) /\ LinksOk(fs0) /\ KindAt(fs0, <<>>) = "dir"
BY TreeParts, FileToolsAssumption DEF Started

\* what was named at the start, and what is named now
LEMMA NamedNow ==
  ASSUME Started, Shrunk(fs, fs0), NEW p \in Path, Inside(Named(fs0, p)), NEW q \in Named(fs, p)
  PROVE  Allowed(q) /\ Spared(q)
BY TreeThere, ShrunkNamed DEF Inside, Spared

LEMMA MayNameAllowed ==
  ASSUME Started, NEW q \in MayName
  PROVE  Allowed(q) /\ Spared(q)
BY MayNameIn, UnderSelf DEF Allowed, Spared

LEMMA OpenedBy ==
  ASSUME NEW f, NEW p, NEW create, NEW x \in open_trunc(f, p, create)
  PROVE  \E q \in Real(f, p) :
           \/ /\ KindAt(f, q) = "file" /\ x[2] = f.node[q].ino
              /\ x[1] = Tree(f.node, [f.data EXCEPT ![f.node[q].ino] = <<>>])
           \/ /\ create /\ q \notin DOMAIN f.node
              /\ x[1] = WithFile(f, q) /\ x[2] = NewIno(f)
BY DEF open_trunc

\* the file a name leads to is one that may be written
LEMMA WrittenThere ==
  ASSUME Started, FsInv, Shrunk(fs, fs0), NEW p \in Path, NEW q \in Real(fs, p),
         KindAt(fs, q) = "file", cmd.tool \in {"cp", "mv", "wrt"},
         \A x \in Real(fs0, p) : KindAt(fs0, x) = "file" => x \in Led
  PROVE  fs.node[q].ino \notin KeptData
<1>1. q \in DOMAIN fs.node /\ fs.node[q].kind = "file"
  BY DEF KindAt
<1>2. CASE fs.node[q].ino \notin DOMAIN fs0.data
  BY <1>2 DEF KeptData
<1>3. CASE q \in DOMAIN fs0.node /\ fs.node[q] = fs0.node[q]
  <2>1. KindAt(fs0, q) = "file"
    BY <1>1, <1>3 DEF KindAt
  <2>2. q \in Real(fs0, p)
    BY <2>1, TreeThere, ShrunkReal DEF Unlinked
  <2>3. q \in Led /\ q \in Path
    BY <2>1, <2>2, LedIn
  <2>4. q \in Below(fs0, q)
    BY <1>3, <2>3, UnderSelf DEF Below
  <2>5. fs0.node[q].ino \in MayWrite
    BY <2>1, <2>3, <2>4 DEF MayWrite, FilesBelow
  <2> QED
    BY <1>3, <2>5 DEF KeptData
<1> QED
  BY <1>1, <1>2, <1>3 DEF Shrunk

\* the free place a name leads to is one that may be made
LEMMA MadeThere ==
  ASSUME Started, FsInv, Shrunk(fs, fs0), NEW p \in Path, NEW q \in Real(fs, p),
         q \notin DOMAIN fs.node, Real(fs0, p) \subseteq MayName
  PROVE  Spared(q) /\ q \in Path
<1>1. q \in Path
  BY TreeThere, ShrunkLinks, RealIn
<1>2. CASE q \in Real(fs0, p)
  BY <1>1, <1>2, MayNameAllowed
<1>3. CASE Unlinked(fs, fs0, q)
  <2>1. q \in DOMAIN fs0.node
    BY <1>3 DEF Unlinked, KindAt
  <2> QED
    BY <1>1, <2>1 DEF FsInv, PlacesOK
<1> QED
  BY <1>2, <1>3, TreeThere, ShrunkReal

\* a file opened for writing
LEMMA OpenStays ==
  ASSUME Started, FsInv, Shrunk(fs, fs0), UNCHANGED <<cmd, fs0>>, NEW p \in Path, NEW create,
         NEW x \in open_trunc(fs, p, create), fs' = x[1], cmd.tool \in {"cp", "mv", "wrt"},
         create => Real(fs0, p) \subseteq MayName,
         \A y \in Real(fs0, p) : KindAt(fs0, y) = "file" => y \in Led
  PROVE  FsInv' /\ Shrunk(fs', fs0') /\ x[2] \notin KeptData
<1>1. PICK q \in Real(fs, p) :
           \/ /\ KindAt(fs, q) = "file" /\ x[2] = fs.node[q].ino
              /\ x[1] = Tree(fs.node, [fs.data EXCEPT ![fs.node[q].ino] = <<>>])
           \/ /\ create /\ q \notin DOMAIN fs.node
              /\ x[1] = WithFile(fs, q) /\ x[2] = NewIno(fs)
  BY OpenedBy
<1>2. CASE /\ KindAt(fs, q) = "file" /\ x[2] = fs.node[q].ino
           /\ x[1] = Tree(fs.node, [fs.data EXCEPT ![fs.node[q].ino] = <<>>])
  <2>1. fs.node[q].ino \notin KeptData
    BY <1>2, WrittenThere
  <2>2. cmd.tool # "mkdir"
    OBVIOUS
  <2> QED
    BY <1>2, <2>1, <2>2, WriteStays
<1>3. CASE /\ create /\ q \notin DOMAIN fs.node
           /\ x[1] = WithFile(fs, q) /\ x[2] = NewIno(fs)
  <2>1. Spared(q) /\ q \in Path
    BY <1>3, MadeThere
  <2>2. NewIno(fs) \notin KeptData
    <3>1. DOMAIN fs0.data \subseteq DOMAIN fs.data
      <4>1. fs0.data \in Seq(Seq(STRING))
        BY FileToolsAssumption DEF Started, IsTree
      <4>2. DOMAIN fs0.data = 1..Len(fs0.data) /\ Len(fs0.data) \in Nat
        BY <4>1, LenProperties
      <4>3. Len(fs0.data) <= Len(fs.data) /\ Len(fs.data) \in Nat /\ DOMAIN fs.data = 1..Len(fs.data)
        BY DataParts DEF FsInv
      <4> QED
        BY <4>2, <4>3
    <3> QED
      BY <3>1, DataParts DEF FsInv, KeptData
  <2>3. cmd.tool # "mkdir"
    OBVIOUS
  <2> QED
    BY <1>3, <2>1, <2>2, <2>3, FileStays
<1> QED
  BY <1>1, <1>2, <1>3

-----------------------------------------------------------------------------
(* The stack.                                                              *)

LEMMA FrameKinds ==
  ASSUME NEW fr, FrameOK(fr)
  PROVE  /\ fr.op = "main" => MainCall(fr)
         /\ fr.op \in RmOps => RmCall(fr)
         /\ fr.op = "rmEntry" => RmLoop(fr)
         /\ fr.op \in CpOps \cup MvOps \cup {"copy"} => CopyCall(fr)
         /\ fr.op = "copying" => CopyLoop(fr)
         /\ fr.op \in SmallOps => SmallCall(fr)
         /\ fr.op = "mkdirP" => MkdirLoop(fr)
         /\ fr.op = "catRead" => CatLoop(fr)
         /\ fr.op = "wrtText" => WrtCall(fr)
         /\ fr.op \notin {"cpLink", "cpDir", "cpList", "cpEntry"}
<1>1. MainCall(fr) => fr.op = "main"
  BY DEF MainCall, MainFrame
<1>2. RmCall(fr) => fr.op \in RmOps
  BY DEF RmCall, Calls
<1>3. RmLoop(fr) => fr.op = "rmEntry"
  BY DEF RmLoop
<1>4. CopyCall(fr) => fr.op \in CpOps \cup MvOps \cup {"copy"}
  BY DEF CopyCall, Calls
<1>5. CopyLoop(fr) => fr.op = "copying"
  BY DEF CopyLoop
<1>6. SmallCall(fr) => fr.op \in SmallOps
  BY DEF SmallCall, Calls
<1>7. MkdirLoop(fr) => fr.op = "mkdirP"
  BY DEF MkdirLoop
<1>8. CatLoop(fr) => fr.op = "catRead"
  BY DEF CatLoop
<1>9. WrtCall(fr) => fr.op = "wrtText"
  BY DEF WrtCall
<1> QED
  BY <1>1, <1>2, <1>3, <1>4, <1>5, <1>6, <1>7, <1>8, <1>9
     DEF FrameOK, RmOps, CpOps, MvOps, SmallOps

LEMMA StackEmpty == Stack(<<>>)
<1> DEFINE T == {}
<1>1. <<>> \in Seq(T) /\ \A fr \in T : FrameOK(fr)
  BY EmptySeq
<1> HIDE DEF T
<1> QED
  BY <1>1 DEF Stack

LEMMA StackParts ==
  ASSUME NEW seq, Stack(seq), seq # <<>>
  PROVE  FrameOK(Head(seq)) /\ Stack(Tail(seq))
<1>1. PICK S : seq \in Seq(S) /\ \A fr \in S : FrameOK(fr)
  BY DEF Stack
<1>2. Head(seq) \in S /\ Tail(seq) \in Seq(S)
  BY <1>1, HeadTailProperties
<1> QED
  BY <1>1, <1>2 DEF Stack

LEMMA StackOne ==
  ASSUME NEW seq, Stack(seq), NEW fr, FrameOK(fr)
  PROVE  Stack(<<fr>> \o seq)
<1>1. PICK S : seq \in Seq(S) /\ \A x \in S : FrameOK(x)
  BY DEF Stack
<1> DEFINE T == S \cup {fr}
<1>2. seq \in Seq(T) /\ <<fr>> \in Seq(T) /\ \A x \in T : FrameOK(x)
  BY <1>1, SeqMonotonic
<1> HIDE DEF T
<1>3. <<fr>> \o seq \in Seq(T)
  BY <1>2, ConcatProperties
<1> QED
  BY <1>2, <1>3 DEF Stack

LEMMA StackTwo ==
  ASSUME NEW seq, Stack(seq), NEW fr, FrameOK(fr), NEW next, FrameOK(next)
  PROVE  Stack(<<fr, next>> \o seq)
<1>1. PICK S : seq \in Seq(S) /\ \A x \in S : FrameOK(x)
  BY DEF Stack
<1> DEFINE T == S \cup {fr, next}
<1>2. seq \in Seq(T) /\ <<fr, next>> \in Seq(T) /\ \A x \in T : FrameOK(x)
  BY <1>1, SeqMonotonic
<1> HIDE DEF T
<1>3. <<fr, next>> \o seq \in Seq(T)
  BY <1>2, ConcatProperties
<1> QED
  BY <1>2, <1>3 DEF Stack

LEMMA StackPair ==
  ASSUME NEW fr, FrameOK(fr), NEW next, FrameOK(next)
  PROVE  Stack(<<fr, next>>)
<1> DEFINE T == {fr, next}
<1>1. <<fr, next>> \in Seq(T) /\ \A x \in T : FrameOK(x)
  OBVIOUS
<1> HIDE DEF T
<1> QED
  BY <1>1 DEF Stack

LEMMA Conclude ==
  ASSUME ToolInv, UNCHANGED <<cmd, fs0>>, FsInv', Stack(todo'),
         cmd.tool \in {"mv", "ln"} => Late'
  PROVE  ToolInv'
<1>1. Started'
  BY Fixed DEF ToolInv
<1>2. PICK S : todo' \in Seq(S) /\ \A fr \in S : FrameOK(fr)
  BY DEF Stack
<1>3. \A fr \in S : FrameOK(fr)'
  BY <1>2, FrameStays
<1>4. Stack(todo)'
  BY <1>2, <1>3 DEF Stack
<1> QED
  BY <1>1, <1>4 DEF ToolInv

LEMMA TopOK ==
  ASSUME ToolInv, Running
  PROVE  FrameOK(Top) /\ Stack(Tail(todo))
BY StackParts DEF ToolInv, Running, Top

-----------------------------------------------------------------------------
(* The stack of mv and ln.                                                 *)

LEMMA ConcatOneOne == ASSUME NEW a, NEW b PROVE <<a>> \o <<b>> = <<a, b>>
<1> DEFINE T == {a, b}
           u == <<a>> \o <<b>>
           v == <<a, b>>
<1>1. u \in Seq(T) /\ v \in Seq(T) /\ Len(u) = 2 /\ Len(v) = 2
  OBVIOUS
<1>2. u[1] = v[1] /\ u[2] = v[2]
  OBVIOUS
<1> HIDE DEF T, u, v
<1>3. \A i \in 1..2 : u[i] = v[i]
  BY <1>2
<1>4. u = v
  BY <1>1, <1>3, SeqEqual
<1> QED
  BY <1>4 DEF u, v

LEMMA ConcatOneTwo == ASSUME NEW a, NEW b, NEW c PROVE <<a>> \o <<b, c>> = <<a, b, c>>
<1> DEFINE T == {a, b, c}
           u == <<a>> \o <<b, c>>
           v == <<a, b, c>>
<1>1. u \in Seq(T) /\ v \in Seq(T) /\ Len(u) = 3 /\ Len(v) = 3
  OBVIOUS
<1>2. u[1] = v[1] /\ u[2] = v[2] /\ u[3] = v[3]
  OBVIOUS
<1> HIDE DEF T, u, v
<1>3. \A i \in 1..3 : u[i] = v[i]
  BY <1>2
<1>4. u = v
  BY <1>1, <1>3, SeqEqual
<1> QED
  BY <1>4 DEF u, v

LEMMA ConcatTwoOne == ASSUME NEW a, NEW b, NEW c PROVE <<a, b>> \o <<c>> = <<a, b, c>>
<1> DEFINE T == {a, b, c}
           u == <<a, b>> \o <<c>>
           v == <<a, b, c>>
<1>1. u \in Seq(T) /\ v \in Seq(T) /\ Len(u) = 3 /\ Len(v) = 3
  OBVIOUS
<1>2. u[1] = v[1] /\ u[2] = v[2] /\ u[3] = v[3]
  OBVIOUS
<1> HIDE DEF T, u, v
<1>3. \A i \in 1..3 : u[i] = v[i]
  BY <1>2
<1>4. u = v
  BY <1>1, <1>3, SeqEqual
<1> QED
  BY <1>4 DEF u, v

LEMMA LineShapes ==
  ASSUME LineUp, Running, Top.op # "main"
  PROVE  \/ \E fr, m : todo = <<fr, m>> /\ Top = fr /\ Tail(todo) = <<m>> /\ LastCall(m)
         \/ \E fr, c, m : /\ todo = <<fr, c, m>> /\ Top = fr /\ Tail(todo) = <<c, m>>
                          /\ fr.op \in {"copy", "copying"} /\ c.op = "mvCopied" /\ LastCall(m)
<1>1. CASE \E m \in {todo[1]} : todo = <<m>> /\ m.op = "main"
  BY <1>1 DEF Top
<1>2. CASE \E fr \in {todo[1]}, m \in {todo[2]} : todo = <<fr, m>> /\ LastCall(m)
  <2>1. PICK fr, m : todo = <<fr, m>> /\ LastCall(m)
    BY <1>2
  <2>2. Head(<<fr, m>>) = fr /\ Tail(<<fr, m>>) = <<m>>
    OBVIOUS
  <2> QED
    BY <2>1, <2>2 DEF Top
<1>3. CASE \E fr \in {todo[1]}, c \in {todo[2]}, m \in {todo[3]} :
             /\ todo = <<fr, c, m>> /\ fr.op \in {"copy", "copying"} /\ c.op = "mvCopied"
             /\ LastCall(m)
  <2>1. PICK fr, c, m : /\ todo = <<fr, c, m>> /\ fr.op \in {"copy", "copying"}
                        /\ c.op = "mvCopied" /\ LastCall(m)
    BY <1>3
  <2>2. Head(<<fr, c, m>>) = fr /\ Tail(<<fr, c, m>>) = <<c, m>>
    OBVIOUS
  <2> QED
    BY <2>1, <2>2 DEF Top
<1> QED
  BY <1>1, <1>2, <1>3 DEF LineUp, Running

LEMMA LineOne ==
  ASSUME NEW m, todo' = <<m>>, m.op = "main"
  PROVE  LineUp' /\ Running' /\ Top' = m
BY DEF LineUp, Running, Top

LEMMA LineTwo ==
  ASSUME NEW fr, NEW m, todo' = <<fr, m>>, LastCall(m)
  PROVE  LineUp' /\ Running' /\ Top' = fr
BY DEF LineUp, Running, Top

LEMMA LineThree ==
  ASSUME NEW fr, NEW c, NEW m, todo' = <<fr, c, m>>, LastCall(m),
         fr.op \in {"copy", "copying"}, c.op = "mvCopied"
  PROVE  LineUp' /\ Running' /\ Top' = fr
BY DEF LineUp, Running, Top

\* the only call of mv or ln returns
LEMMA LateReturns ==
  ASSUME LineUp, Running, Top.op \notin {"main", "copy", "copying"}, todo' = Tail(todo)
  PROVE  Late'
<1>1. PICK fr, m : todo = <<fr, m>> /\ Top = fr /\ Tail(todo) = <<m>> /\ LastCall(m)
  BY LineShapes
<1>2. LineUp' /\ Running' /\ Top' = m
  BY <1>1, LineOne DEF LastCall
<1>3. LastDone' /\ ~At("mvLink")'
  BY <1>1, <1>2 DEF LastDone, LastCall, At
<1> QED
  BY <1>2, <1>3 DEF Late

\* it goes on as another one
LEMMA LateBecomes ==
  ASSUME LineUp, Running, Top.op \notin {"main", "copy", "copying"},
         NEW fr, todo' = <<fr>> \o Tail(todo)
  PROVE  LineUp' /\ Running' /\ Top' = fr
<1>1. PICK fr1, m : todo = <<fr1, m>> /\ Top = fr1 /\ Tail(todo) = <<m>> /\ LastCall(m)
  BY LineShapes
<1>2. todo' = <<fr, m>>
  BY <1>1, ConcatOneOne
<1> QED
  BY <1>1, <1>2, LineTwo

LEMMA LateCalls ==
  ASSUME LineUp, Running, Top.op \notin {"main", "copy", "copying"},
         NEW fr, NEW next, todo' = <<fr, next>> \o Tail(todo),
         fr.op = "copy", next.op = "mvCopied"
  PROVE  LineUp' /\ Running' /\ Top' = fr
<1>1. PICK fr1, m : todo = <<fr1, m>> /\ Top = fr1 /\ Tail(todo) = <<m>> /\ LastCall(m)
  BY LineShapes
<1>2. todo' = <<fr, next, m>>
  BY <1>1, ConcatTwoOne
<1> QED
  BY <1>1, <1>2, LineThree

LEMMA LateCopies ==
  ASSUME LineUp, Running, Top.op \in {"copy", "copying"},
         NEW fr, todo' = <<fr>> \o Tail(todo), fr.op = "copying"
  PROVE  LineUp' /\ Running' /\ Top' = fr
<1>1. CASE \E fr1, m : todo = <<fr1, m>> /\ Top = fr1 /\ Tail(todo) = <<m>> /\ LastCall(m)
  <2>1. PICK m : Tail(todo) = <<m>> /\ LastCall(m)
    BY <1>1
  <2>2. todo' = <<fr, m>>
    BY <2>1, ConcatOneOne
  <2> QED
    BY <2>1, <2>2, LineTwo
<1>2. CASE \E fr1, c, m : /\ todo = <<fr1, c, m>> /\ Top = fr1 /\ Tail(todo) = <<c, m>>
                          /\ fr1.op \in {"copy", "copying"} /\ c.op = "mvCopied" /\ LastCall(m)
  <2>1. PICK c, m : Tail(todo) = <<c, m>> /\ c.op = "mvCopied" /\ LastCall(m)
    BY <1>2
  <2>2. todo' = <<fr, c, m>>
    BY <2>1, ConcatOneTwo
  <2> QED
    BY <2>1, <2>2, LineThree
<1>3. Top.op # "main"
  OBVIOUS
<1> QED
  BY <1>1, <1>2, <1>3, LineShapes

\* a copy returns to mv, or to main
LEMMA LateCopied ==
  ASSUME LineUp, Running, Top.op \in {"copy", "copying"}, todo' = Tail(todo)
  PROVE  LineUp' /\ Running' /\ Top'.op \in {"main", "mvCopied"} /\ (Top'.op = "main" => LastDone')
<1>1. CASE \E fr1, m : todo = <<fr1, m>> /\ Top = fr1 /\ Tail(todo) = <<m>> /\ LastCall(m)
  <2>1. PICK m : Tail(todo) = <<m>> /\ LastCall(m)
    BY <1>1
  <2>2. LineUp' /\ Running' /\ Top' = m
    BY <2>1, LineOne DEF LastCall
  <2> QED
    BY <2>1, <2>2 DEF LastDone, LastCall
<1>2. CASE \E fr1, c, m : /\ todo = <<fr1, c, m>> /\ Top = fr1 /\ Tail(todo) = <<c, m>>
                          /\ fr1.op \in {"copy", "copying"} /\ c.op = "mvCopied" /\ LastCall(m)
  <2>1. PICK c, m : Tail(todo) = <<c, m>> /\ c.op = "mvCopied" /\ LastCall(m)
    BY <1>2
  <2>2. LineUp' /\ Running' /\ Top' = c
    BY <2>1, LineTwo
  <2> QED
    BY <2>1, <2>2
<1>3. Top.op # "main"
  OBVIOUS
<1> QED
  BY <1>1, <1>2, <1>3, LineShapes

\* before the change, what is there was there at the start
LEMMA ShrunkNow ==
  ASSUME ToolInv, Running, Top.op \notin {"main", "mvUnlink"}, cmd.tool # "mkdir"
  PROVE  Shrunk(fs, fs0)
BY DEF ToolInv, FsInv, Late, LastDone, LastCall, Running, At

-----------------------------------------------------------------------------
(* One lemma for each action.                                              *)

LEMMA KeptStep ==
  ASSUME ToolInv, UNCHANGED <<fs, cmd, fs0>>, Stack(todo'),
         cmd.tool \in {"mv", "ln"} => Late'
  PROVE  ToolInv'
BY NothingStays, Conclude DEF ToolInv

LEMMA ReturnOK ==
  ASSUME ToolInv, Running, NEW r, Return(r)
  PROVE  Stack(todo')
BY TopOK DEF Return

LEMMA BecomeOK ==
  ASSUME ToolInv, Running, NEW fr, FrameOK(fr), todo' = <<fr>> \o Tail(todo)
  PROVE  Stack(todo')
BY TopOK, StackOne

LEMMA CallOK ==
  ASSUME ToolInv, Running, NEW fr, FrameOK(fr), NEW next, FrameOK(next),
         todo' = <<fr, next>> \o Tail(todo)
  PROVE  Stack(todo')
BY TopOK, StackTwo

\* the next source of a command that is not over
LEMMA ArgumentOK ==
  ASSUME Started, NEW s \in SrcArgs, NEW into, into = is_dir(fs0, Last(cmd.args)),
         NEW d, d = IF ToDst(cmd) THEN target(Last(cmd.args), into, s) ELSE Last(cmd.args),
         NEW fr, fr = Frame(cmd.tool, s, d)
  PROVE  FrameOK(fr) /\ fr.op = cmd.tool
<1>1. s \in Path /\ Last(cmd.args) \in Path /\ Target(s) \in Path
      /\ cmd.tool \in {"cp", "mv", "rm", "rmdir", "ln", "mkdir", "touch", "cat", "wrt"}
  BY Args
<1>2. fr.op = cmd.tool /\ fr.src = s /\ fr.dst = d /\ fr = [op |-> cmd.tool, src |-> s, dst |-> d]
  BY DEF Frame
<1>3. d \in Path /\ (ToDst(cmd) => d = Target(s))
  BY <1>1 DEF Target
<1>4. CASE cmd.tool \in {"rm", "rmdir"}
  <2>1. Named(fs0, s) \subseteq MayName
    BY <1>4 DEF MayName
  <2>2. Inside(Named(fs0, s))
    BY <2>1, MayNameAllowed DEF Inside
  <2>3. RmCall(fr)
    BY <1>1, <1>2, <1>3, <1>4, <2>2 DEF RmCall, Calls, RmOps
  <2> QED
    BY <1>2, <2>3 DEF FrameOK
<1>5. CASE cmd.tool \in {"cp", "mv"}
  <2>1. d = Target(s)
    BY <1>3, <1>5 DEF ToDst
  <2>2. Reaches(d) \subseteq Led
    BY <2>1, LedIn
  <2>3. cmd.tool = "mv" => Named(fs0, s) \subseteq MayName
    BY DEF MayName
  <2>4. CopyCall(fr)
    BY <1>1, <1>2, <1>3, <1>5, <2>2, <2>3 DEF CopyCall, Calls, CpOps, MvOps
  <2> QED
    BY <1>2, <2>4 DEF FrameOK
<1>6. CASE cmd.tool \in {"ln", "mkdir", "touch", "cat", "wrt"}
  <2>1. d = Last(cmd.args)
    BY <1>6 DEF ToDst
  <2>2. SmallCall(fr)
    BY <1>1, <1>2, <1>3, <1>6, <2>1 DEF SmallCall, Calls, SmallOps
  <2> QED
    BY <1>2, <2>2 DEF FrameOK
<1> QED
  BY <1>1, <1>4, <1>5, <1>6

LEMMA MainLess ==
  ASSUME NEW t, NEW l, NEW i, t = MainFrame(l, i), NEW y
  PROVE  [t EXCEPT !.left = y] = MainFrame(y, i)
<1>1. [[op |-> "main", left |-> l, into |-> i] EXCEPT !.left = y]
        = [op |-> "main", left |-> y, into |-> i]
  OBVIOUS
<1> QED
  BY <1>1 DEF MainFrame

LEMMA NextArgumentOK ==
  ASSUME ToolInv, Confined, NextArgument
  PROVE  ToolInv'
<1>0. Running /\ Top.op = "main" /\ UNCHANGED <<fs, cmd, fs0>> /\ Started
  BY DEF NextArgument, At, ToolInv
<1>1. MainCall(Top)
  BY <1>0, TopOK, FrameKinds
<1>2. CASE Top.left = <<>>
  <2>1. todo' = <<>>
    BY <1>2 DEF NextArgument
  <2>2. Stack(todo')
    BY <2>1, StackEmpty
  <2>3. Late'
    BY <2>1 DEF Late, LineUp, LastDone, At, Running
  <2> QED
    BY <1>0, <2>2, <2>3, KeptStep
<1>3. CASE Top.left # <<>>
  <2> DEFINE s == Head(Top.left)
             d == IF ToDst(cmd) THEN target(Last(cmd.args), Top.into, s) ELSE Last(cmd.args)
             fr == Frame(cmd.tool, s, d)
             m == [Top EXCEPT !.left = Tail(@)]
  <2>1. todo' = <<fr, m>>
    BY <1>3 DEF NextArgument
  <2>2. s \in SrcArgs /\ Tail(Top.left) \in Seq(SrcArgs)
        /\ Len(Tail(Top.left)) = Len(Top.left) - 1 /\ Len(Top.left) \in Nat
    BY <1>1, <1>3, HeadTailProperties, LenProperties DEF MainCall
  <2>3. m = MainFrame(Tail(Top.left), Top.into)
    <3>1. Top = MainFrame(Top.left, Top.into)
      BY <1>1 DEF MainCall
    <3> DEFINE t == Top
               y == Tail(Top.left)
    <3>2. t = MainFrame(Top.left, Top.into) /\ m = [t EXCEPT !.left = y]
      BY <3>1
    <3> HIDE DEF t, y, m
    <3>3. m = MainFrame(y, Top.into)
      BY <3>2, MainLess
    <3> QED
      BY <3>3 DEF y
  <2>4. m.op = "main" /\ m.left = Tail(Top.left) /\ m.into = Top.into
    BY <2>3 DEF MainFrame
  <2>5. FrameOK(m)
    <3>1. Len(Sources(cmd)) \in Nat
      BY <1>0, Args, LenProperties
    <3>2. Len(m.left) <= Len(Sources(cmd))
      BY <1>1, <2>2, <2>4, <3>1 DEF MainCall
    <3> HIDE DEF m
    <3>3. MainCall(m)
      BY <1>1, <2>2, <2>3, <2>4, <3>2 DEF MainCall
    <3> QED
      BY <3>3 DEF FrameOK
  <2>6. Top.into = is_dir(fs0, Last(cmd.args))
    BY <1>1 DEF MainCall
  <2> HIDE DEF s, m
  <2>7. FrameOK(fr) /\ fr.op = cmd.tool
    BY <1>0, <2>2, <2>6, ArgumentOK
  <2> HIDE DEF fr
  <2>8. Stack(todo')
    BY <2>1, <2>5, <2>7, StackPair
  <2>9. ASSUME cmd.tool \in {"mv", "ln"} PROVE Late'
    <3>1. Len(Sources(cmd)) = 1
      BY <1>0, <2>9, Args
    <3>2. Len(Tail(Top.left)) = 0
      <4>1. Len(Tail(Top.left)) \in Nat
        BY <2>2, LenProperties
      <4>2. Len(Top.left) <= 1
        BY <1>1, <3>1 DEF MainCall
      <4> DEFINE j == Len(Top.left)
                 k == Len(Tail(Top.left))
      <4>3. j \in Nat /\ k \in Nat /\ k = j - 1 /\ j <= 1
        BY <2>2, <4>1, <4>2
      <4> HIDE DEF j, k
      <4>4. k = 0
        BY <4>3
      <4> QED
        BY <4>4 DEF k
    <3>3. LastCall(m)
      BY <2>2, <2>4, <3>2, EmptySeq DEF LastCall
    <3>4. LineUp' /\ Running' /\ Top' = fr
      BY <2>1, <3>3, LineTwo
    <3>5. Late
      BY <2>9 DEF ToolInv
    <3>6. Shrunk(fs, fs0)
      BY <1>0, <1>3, <3>5 DEF Late, LastDone, LastCall, Running, At
    <3> QED
      BY <1>0, <2>7, <2>9, <3>4, <3>6 DEF Late, At
  <2> QED
    BY <1>0, <2>8, <2>9, KeptStep
<1> QED
  BY <1>2, <1>3

LEMMA KillOK ==
  ASSUME ToolInv, Kill
  PROVE  ToolInv'
<1>1. todo' = <<>> /\ UNCHANGED <<fs, cmd, fs0>>
  BY DEF Kill
<1>2. Stack(todo')
  BY <1>1, StackEmpty
<1>3. Late'
  BY <1>1 DEF Late, LineUp, LastDone, At, Running
<1> QED
  BY <1>1, <1>2, <1>3, KeptStep

LEMMA MeddleOK ==
  ASSUME ToolInv, Confined, Meddle
  PROVE  ToolInv'
<1>1. /\ Running /\ cmd.tool \in Raced /\ UNCHANGED <<todo, cmd, fs0>> /\ Started /\ FsInv
      /\ Stack(todo)
  BY DEF Meddle, ToolInv
<1>2. cmd.tool \notin {"mv", "mkdir"}
  BY <1>1 DEF Confined
<1>3. PICK p \in Meddled : \/ fs' = Removed(fs, {p})
                           \/ p \notin DOMAIN fs.node /\ fs' = WithFile(fs, p)
  BY DEF Meddle
<1>4. p \in Path /\ Spared(p)
  BY <1>1, FileToolsAssumption DEF Spared
<1>5. FsInv' /\ (Shrunk(fs, fs0) => Shrunk(fs', fs0'))
  BY <1>1, <1>2, <1>3, <1>4, RemovedStays, FileStays
<1>6. ASSUME cmd.tool = "ln" PROVE Late'
  <2>1. Late
    BY <1>6 DEF ToolInv
  <2>2. LineUp' /\ (LastDone' <=> LastDone)
    BY <1>1, <2>1 DEF Late, LineUp, LastDone, Top
  <2>3. ~At("mvUnlink") /\ ~At("mvLink")
    <3>1. FrameOK(Top)
      BY <1>1, TopOK
    <3>2. Top.op \notin MvOps
      BY <1>6, <3>1, FrameKinds DEF CopyCall
    <3> QED
      BY <3>2 DEF At, MvOps
  <2>4. ~At("mvLink")'
    BY <1>1, <2>3 DEF At, Running, Top
  <2> QED
    BY <1>5, <2>1, <2>2, <2>3, <2>4 DEF Late
<1>7. Stack(todo')
  BY <1>1
<1> QED
  BY <1>1, <1>2, <1>5, <1>6, <1>7, Conclude

-----------------------------------------------------------------------------
(* Copying, and mv.                                                        *)

LEMMA CallAs ==
  ASSUME NEW ops, NEW t \in Calls(ops), NEW x, NEW to, x \in to,
         NEW u, u = [t EXCEPT !.op = x]
  PROVE  u \in Calls(to) /\ u.op = x /\ u.src = t.src /\ u.dst = t.dst
BY DEF Calls

\* the call of cp or mv goes on as another
LEMMA CopyAs ==
  ASSUME NEW t, CopyCall(t), NEW x, NEW u, u = [t EXCEPT !.op = x],
         \/ x = "copy"
         \/ cmd.tool = "cp" /\ x \in CpOps
         \/ cmd.tool = "mv" /\ x \in MvOps
  PROVE  FrameOK(u) /\ u.op = x /\ u.src = t.src
<1>1. t \in Calls(CpOps \cup MvOps \cup {"copy"})
  BY DEF CopyCall
<1>2. u \in Calls(CpOps \cup MvOps \cup {"copy"}) /\ u.op = x /\ u.src = t.src /\ u.dst = t.dst
  <2> DEFINE ops == CpOps \cup MvOps \cup {"copy"}
  <2>1. x \in ops /\ t \in Calls(ops)
    BY <1>1
  <2> HIDE DEF ops
  <2>2. u \in Calls(ops) /\ u.op = x /\ u.src = t.src /\ u.dst = t.dst
    BY <2>1, CallAs
  <2> QED
    BY <2>2 DEF ops
<1>3. CopyCall(u)
  BY <1>2 DEF CopyCall, CpOps, MvOps
<1> QED
  BY <1>2, <1>3 DEF FrameOK

\* the copy of an open file goes on
LEMMA CopyingOK ==
  ASSUME NEW i, NEW j, NEW n, cmd.tool \in {"cp", "mv"}, j \notin KeptData,
         NEW fr, fr = [op |-> "copying", in |-> i, to |-> j, at |-> n]
  PROVE  FrameOK(fr) /\ fr.op = "copying"
<1>1. CopyLoop(fr)
  BY DEF CopyLoop
<1> QED
  BY <1>1 DEF FrameOK

LEMMA CopyMore ==
  ASSUME NEW t, CopyLoop(t), NEW n, NEW u, u = [t EXCEPT !.at = n]
  PROVE  FrameOK(u) /\ u.op = "copying"
<1>1. t = [op |-> "copying", in |-> t.in, to |-> t.to, at |-> t.at]
      /\ cmd.tool \in {"cp", "mv"} /\ t.to \notin KeptData
  BY DEF CopyLoop
<1> DEFINE i == t.in
           j == t.to
           m == t.at
<1>2. u = [[op |-> "copying", in |-> i, to |-> j, at |-> m] EXCEPT !.at = n]
  BY <1>1
<1>3. [[op |-> "copying", in |-> i, to |-> j, at |-> m] EXCEPT !.at = n]
        = [op |-> "copying", in |-> i, to |-> j, at |-> n]
  OBVIOUS
<1>4. j \notin KeptData
  BY <1>1
<1> HIDE DEF i, j, m
<1> QED
  BY <1>1, <1>2, <1>3, <1>4, CopyingOK

\* where a copy of cp or mv may write
LEMMA CopyDst ==
  ASSUME Started, NEW t, CopyCall(t)
  PROVE  /\ cmd.tool \in {"cp", "mv"} /\ t.src \in Path /\ t.dst \in Path
         /\ Named(fs0, t.dst) \subseteq MayName /\ Real(fs0, t.dst) \subseteq MayName
         /\ Real(fs0, t.dst) \subseteq Led
         /\ cmd.tool = "mv" => Named(fs0, t.src) \subseteq MayName
<1>1. /\ t.src \in Path /\ t.dst \in Path /\ cmd.tool \in {"cp", "mv"}
      /\ Reaches(t.dst) \subseteq Led /\ (cmd.tool = "mv" => Named(fs0, t.src) \subseteq MayName)
  BY DEF CopyCall, Calls
<1>2. Led \subseteq MayName
  BY <1>1 DEF MayName
<1> QED
  BY <1>1, <1>2 DEF Reaches

LEMMA CopyOpenOK ==
  ASSUME ToolInv, CopyOpen
  PROVE  ToolInv'
<1>1. /\ Running /\ Top.op = "copy" /\ UNCHANGED <<cmd, fs0>> /\ Started /\ FsInv
      /\ FrameOK(Top)
  BY TopOK DEF CopyOpen, At, Others, ToolInv
<1>2. CopyCall(Top)
  BY <1>1, FrameKinds
<1>3. /\ cmd.tool \in {"cp", "mv"} /\ Top.dst \in Path
      /\ Real(fs0, Top.dst) \subseteq MayName /\ Real(fs0, Top.dst) \subseteq Led
  BY <1>1, <1>2, CopyDst
<1>4. Shrunk(fs, fs0)
  BY <1>1, <1>3, ShrunkNow
<1>5. CASE \E x \in CopyFrom(Top.src) \X open_trunc(fs, Top.dst, TRUE) :
             /\ Succeeds({x[2][1]})
             /\ Become([op |-> "copying", in |-> x[1], to |-> x[2][2], at |-> 1])
  <2>1. PICK i \in CopyFrom(Top.src), y \in open_trunc(fs, Top.dst, TRUE) :
          /\ fs' = y[1]
          /\ todo' = <<[op |-> "copying", in |-> i, to |-> y[2], at |-> 1]>> \o Tail(todo)
    BY <1>5 DEF Succeeds, Become
  <2> DEFINE fr == [op |-> "copying", in |-> i, to |-> y[2], at |-> 1]
  <2>2. FsInv' /\ Shrunk(fs', fs0') /\ y[2] \notin KeptData
    BY <1>1, <1>3, <1>4, <2>1, OpenStays
  <2>3. FrameOK(fr) /\ fr.op = "copying"
    BY <1>3, <2>2, CopyingOK
  <2>4. todo' = <<fr>> \o Tail(todo)
    BY <2>1
  <2> HIDE DEF fr
  <2>5. Stack(todo')
    BY <1>1, <2>3, <2>4, BecomeOK
  <2>6. ASSUME cmd.tool \in {"mv", "ln"} PROVE Late'
    <3>1. LineUp
      BY <2>6 DEF ToolInv, Late
    <3>2. LineUp' /\ Running' /\ Top' = fr
      BY <1>1, <2>3, <2>4, <3>1, LateCopies
    <3> QED
      BY <2>2, <2>3, <3>2 DEF Late, At
  <2> QED
    BY <1>1, <2>2, <2>5, <2>6, Conclude
<1>6. CASE Fails(CopyFrom(Top.src) \X open_trunc(fs, Top.dst, TRUE)) /\ Return(-1)
  <2>1. UNCHANGED fs /\ todo' = Tail(todo)
    BY <1>6 DEF Fails, Return
  <2>2. ASSUME cmd.tool \in {"mv", "ln"} PROVE Late'
    <3>1. LineUp
      BY <2>2 DEF ToolInv, Late
    <3>2. LineUp' /\ Running' /\ Top'.op \in {"main", "mvCopied"}
      BY <1>1, <2>1, <3>1, LateCopied
    <3> QED
      BY <1>1, <1>4, <2>1, <3>2 DEF Late, At
  <2> QED
    BY <1>1, <2>1, <2>2, TopOK, KeptStep
<1> QED
  BY <1>5, <1>6 DEF CopyOpen

\* the copy ends, or fails
LEMMA CopyReturns ==
  ASSUME ToolInv, Running, Top.op = "copying", UNCHANGED <<fs, cmd, fs0>>, todo' = Tail(todo)
  PROVE  ToolInv'
<1>1. CopyLoop(Top)
  BY TopOK, FrameKinds
<1>2. Shrunk(fs, fs0)
  BY <1>1, ShrunkNow DEF CopyLoop
<1>3. ASSUME cmd.tool \in {"mv", "ln"} PROVE Late'
  <2>1. LineUp
    BY <1>3 DEF ToolInv, Late
  <2>2. LineUp' /\ Running' /\ Top'.op \in {"main", "mvCopied"}
    BY <2>1, LateCopied
  <2> QED
    BY <1>2, <2>2 DEF Late, At
<1> QED
  BY <1>3, TopOK, KeptStep

LEMMA CopyBlockOK ==
  ASSUME ToolInv, CopyBlock
  PROVE  ToolInv'
<1>1. /\ Running /\ Top.op = "copying" /\ UNCHANGED <<cmd, fs0>> /\ Started /\ FsInv
      /\ FrameOK(Top)
  BY TopOK DEF CopyBlock, At, Others, ToolInv
<1>2. CopyLoop(Top)
  BY <1>1, FrameKinds
<1>3. cmd.tool \in {"cp", "mv"} /\ Top.to \notin KeptData
  BY <1>2 DEF CopyLoop
<1>4. Shrunk(fs, fs0)
  BY <1>1, <1>3, ShrunkNow
<1>5. CASE /\ Succeeds({append(fs, Top.to, fs.data[Top.in][Top.at])})
           /\ Become([Top EXCEPT !.at = @ + 1])
  <2> DEFINE fr == [Top EXCEPT !.at = @ + 1]
  <2>1. fs' = append(fs, Top.to, fs.data[Top.in][Top.at]) /\ todo' = <<fr>> \o Tail(todo)
    BY <1>5 DEF Succeeds, Become
  <2>2. FrameOK(fr) /\ fr.op = "copying"
    BY <1>2, CopyMore
  <2> HIDE DEF fr
  <2>3. FsInv' /\ Shrunk(fs', fs0')
    <3> DEFINE v == Append(fs.data[Top.to], fs.data[Top.in][Top.at])
    <3>1. fs' = Tree(fs.node, [fs.data EXCEPT ![Top.to] = v])
      BY <2>1 DEF append
    <3> HIDE DEF v
    <3>2. cmd.tool # "mkdir"
      BY <1>3
    <3> QED
      BY <1>1, <1>3, <1>4, <3>1, <3>2, WriteStays
  <2>4. Stack(todo')
    BY <1>1, <2>1, <2>2, BecomeOK
  <2>5. ASSUME cmd.tool \in {"mv", "ln"} PROVE Late'
    <3>1. LineUp
      BY <2>5 DEF ToolInv, Late
    <3>2. LineUp' /\ Running' /\ Top' = fr
      BY <1>1, <2>1, <2>2, <3>1, LateCopies
    <3> QED
      BY <2>2, <2>3, <3>2 DEF Late, At
  <2> QED
    BY <1>1, <2>3, <2>4, <2>5, Conclude
<1>6. CASE Fails({fs}) /\ Return(-1)
  BY <1>1, <1>6, CopyReturns DEF Fails, Return
<1> QED
  BY <1>5, <1>6 DEF CopyBlock

LEMMA CopyCloseOK ==
  ASSUME ToolInv, CopyClose
  PROVE  ToolInv'
BY CopyReturns DEF CopyClose, At, Others, Succeeds, Fails, Return

-----------------------------------------------------------------------------

\* what holds where mv is at one of its calls
LEMMA MvAt ==
  ASSUME ToolInv, Running, Top.op \in MvOps
  PROVE  /\ Started /\ FsInv /\ cmd.tool = "mv" /\ CopyCall(Top) /\ Late
         /\ Top.src \in Path /\ Top.dst \in Path
         /\ Named(fs0, Top.src) \subseteq MayName /\ Named(fs0, Top.dst) \subseteq MayName
         /\ Top.op # "mvUnlink" =>
              /\ Shrunk(fs, fs0)
              /\ Named(fs, Top.src) \subseteq MayName /\ Named(fs, Top.dst) \subseteq MayName
<1>1. CopyCall(Top) /\ Started /\ FsInv
  BY TopOK, FrameKinds DEF ToolInv
<1>2. cmd.tool = "mv"
  BY <1>1 DEF CopyCall
<1>3. /\ Top.src \in Path /\ Top.dst \in Path
      /\ Named(fs0, Top.src) \subseteq MayName /\ Named(fs0, Top.dst) \subseteq MayName
  BY <1>1, <1>2, CopyDst
<1>4. ASSUME Top.op # "mvUnlink"
      PROVE  /\ Shrunk(fs, fs0)
             /\ Named(fs, Top.src) \subseteq MayName /\ Named(fs, Top.dst) \subseteq MayName
  <2>1. Shrunk(fs, fs0)
    BY <1>2, <1>4, ShrunkNow DEF MvOps
  <2>2. IsTree(fs0)
    BY <1>1, TreeThere
  <2>3. Named(fs, Top.src) \subseteq Named(fs0, Top.src)
    BY <1>3, <2>1, <2>2, ShrunkNamed
  <2>4. Named(fs, Top.dst) \subseteq Named(fs0, Top.dst)
    BY <1>3, <2>1, <2>2, ShrunkNamed
  <2> QED
    BY <1>3, <2>1, <2>3, <2>4
<1> QED
  BY <1>1, <1>2, <1>3, <1>4 DEF ToolInv

LEMMA MvReturns ==
  ASSUME ToolInv, Running, Top.op \in MvOps, UNCHANGED <<cmd, fs0>>, FsInv', todo' = Tail(todo)
  PROVE  ToolInv'
<1>1. LineUp
  BY MvAt DEF Late
<1>2. Late'
  BY <1>1, LateReturns DEF MvOps
<1> QED
  BY <1>2, TopOK, Conclude

LEMMA MvBecomes ==
  ASSUME ToolInv, Running, Top.op \in MvOps, UNCHANGED <<fs, cmd, fs0>>, Top.op # "mvUnlink",
         NEW x \in MvOps, NEW u, u = [Top EXCEPT !.op = x], todo' = <<u>> \o Tail(todo),
         x = "mvLink" => \A n \in lstat(fs, Top.src) : n.kind = "link"
  PROVE  ToolInv'
<1>1. LineUp /\ Shrunk(fs, fs0) /\ CopyCall(Top) /\ cmd.tool = "mv"
  BY MvAt DEF Late
<1>2. FrameOK(u) /\ u.op = x /\ u.src = Top.src
  BY <1>1, CopyAs
<1>3. LineUp' /\ Running' /\ Top' = u
  BY <1>1, LateBecomes DEF MvOps
<1>4. Late'
  BY <1>1, <1>2, <1>3 DEF Late, At
<1>5. Stack(todo')
  BY <1>2, BecomeOK
<1> QED
  BY <1>4, <1>5, KeptStep

LEMMA MvRenameOK ==
  ASSUME ToolInv, MvRename
  PROVE  ToolInv'
<1>1. /\ Running /\ Top.op = "mv" /\ Top.op \in MvOps /\ UNCHANGED <<cmd, fs0>>
  BY DEF MvRename, At, Others, MvOps
<1>2. CASE Succeeds(rename(fs, Top.src, Top.dst)) /\ Return(0)
  <2>1. fs' \in rename(fs, Top.src, Top.dst) /\ todo' = Tail(todo)
    BY <1>2 DEF Succeeds, Return
  <2>2. PICK r \in Named(fs, Top.src), q \in Named(fs, Top.dst) :
          fs' = fs \/ fs' = Moved(fs, r, q)
    BY <2>1 DEF rename
  <2>3. Started /\ FsInv /\ r \in MayName /\ q \in MayName /\ cmd.tool = "mv" /\ Shrunk(fs, fs0)
    BY <1>1, MvAt
  <2>4. DOMAIN fs.node \subseteq Path
    BY <2>3 DEF Shrunk
  <2>5. FsInv'
    <3>1. CASE fs' = fs
      BY <1>1, <2>3, <3>1, NothingStays
    <3>2. CASE fs' = Moved(fs, r, q)
      BY <1>1, <2>3, <2>4, <3>2, MovedStays
    <3> QED
      BY <2>2, <3>1, <3>2
  <2> QED
    BY <1>1, <2>1, <2>5, MvReturns
<1>3. CASE /\ Fails(rename(fs, Top.src, Top.dst))
           /\ Become([Top EXCEPT !.op = "mvAcross"])
  <2> DEFINE u == [Top EXCEPT !.op = "mvAcross"]
  <2>1. UNCHANGED fs /\ todo' = <<u>> \o Tail(todo) /\ "mvAcross" \in MvOps /\ Top.op # "mvUnlink"
    BY <1>1, <1>3 DEF Fails, Become, MvOps
  <2> HIDE DEF u
  <2>2. u = [Top EXCEPT !.op = "mvAcross"] /\ "mvAcross" # "mvLink"
    BY DEF u
  <2> QED
    BY <1>1, <2>1, <2>2, MvBecomes
<1> QED
  BY <1>2, <1>3 DEF MvRename

LEMMA MvAcrossOK ==
  ASSUME ToolInv, MvAcross
  PROVE  ToolInv'
<1>1. /\ Running /\ Top.op = "mvAcross" /\ Top.op \in MvOps /\ UNCHANGED <<fs, cmd, fs0>>
  BY DEF MvAcross, At, Others, MvOps, Succeeds, Fails
<1>2. Started /\ FsInv /\ CopyCall(Top) /\ cmd.tool = "mv" /\ Shrunk(fs, fs0) /\ LineUp
  BY <1>1, MvAt DEF Late
<1>3. CASE Return(-1)
  BY <1>1, <1>2, <1>3, NothingStays, MvReturns DEF Return
<1>4. CASE /\ {n.kind : n \in lstat(fs, Top.src)} = {"link"}
           /\ Become([Top EXCEPT !.op = "mvLink"])
  <2> DEFINE u == [Top EXCEPT !.op = "mvLink"]
  <2>1. todo' = <<u>> \o Tail(todo) /\ "mvLink" \in MvOps /\ Top.op # "mvUnlink"
    BY <1>1, <1>4 DEF Become, MvOps
  <2>2. \A n \in lstat(fs, Top.src) : n.kind = "link"
    BY <1>4
  <2> HIDE DEF u
  <2>3. u = [Top EXCEPT !.op = "mvLink"]
    BY DEF u
  <2> QED
    BY <1>1, <2>1, <2>2, <2>3, MvBecomes
<1>5. CASE CallThen([Top EXCEPT !.op = "copy"], [Top EXCEPT !.op = "mvCopied"])
  <2> DEFINE u == [Top EXCEPT !.op = "copy"]
             next == [Top EXCEPT !.op = "mvCopied"]
  <2>1. todo' = <<u, next>> \o Tail(todo)
    BY <1>5 DEF CallThen
  <2> HIDE DEF u, next
  <2>2. FrameOK(u) /\ u.op = "copy"
    BY <1>2, CopyAs DEF u
  <2>3. FrameOK(next) /\ next.op = "mvCopied"
    <3>1. "mvCopied" \in MvOps
      BY DEF MvOps
    <3> QED
      BY <1>2, <3>1, CopyAs DEF next
  <2>4. Stack(todo')
    BY <1>1, <2>1, <2>2, <2>3, CallOK
  <2>5. LineUp' /\ Running' /\ Top' = u
    BY <1>1, <1>2, <2>1, <2>2, <2>3, LateCalls
  <2>6. Late'
    BY <1>1, <1>2, <2>2, <2>5 DEF Late, At
  <2> QED
    BY <1>1, <2>4, <2>6, KeptStep
<1> QED
  BY <1>3, <1>4, <1>5 DEF MvAcross

\* with more there, a name stays the name of the same place
LEMMA ExtendedNamed ==
  ASSUME NEW f, NEW f0, LinksOk(f), LinksOk(f0), Extends(f, f0), NEW p \in Path,
         NEW x \in Named(f0, p), NEW y \in Named(f, p)
  PROVE  y = x
<1>1. CASE p = <<>>
  BY <1>1 DEF Named
<1>2. CASE p # <<>>
  <2>1. PICK d0 : Looked(f0, MaxLinks, p, d0, x)
    BY <1>2, NamedBy
  <2>2. PICK d : Looked(f, MaxLinks, p, d, y)
    BY <1>2, NamedBy
  <2>3. Front(p) \in Path
    BY <1>2, FrontIn
  <2>4. d0 \in leads(f0)[MaxLinks][Front(p)] \cap DOMAIN f0.node
    BY <2>1 DEF Looked, KindAt
  <2>5. d0 \in leads(f)[MaxLinks][Front(p)]
    BY <2>3, <2>4, ExtendedLeads, LinksRange
  <2>6. d = d0
    BY <2>2, <2>3, <2>5, LeadsOnce, LinksRange DEF Looked
  <2> QED
    BY <2>1, <2>2, <2>6 DEF Looked
<1> QED
  BY <1>1, <1>2

LEMMA MvLinkOK ==
  ASSUME ToolInv, MvLink
  PROVE  ToolInv'
<1>1. /\ Running /\ Top.op = "mvLink" /\ Top.op \in MvOps /\ UNCHANGED <<cmd, fs0>>
  BY DEF MvLink, At, Others, MvOps
<1>2. /\ Started /\ FsInv /\ CopyCall(Top) /\ cmd.tool = "mv" /\ Shrunk(fs, fs0) /\ Late
      /\ Top.src \in Path /\ Named(fs, Top.src) \subseteq MayName
      /\ Named(fs, Top.dst) \subseteq MayName
  BY <1>1, MvAt
<1> DEFINE made == UNION {symlink(fs, n.to, Top.dst) : n \in lstat(fs, Top.src)}
           u == [Top EXCEPT !.op = "mvUnlink"]
<1>3. CASE Succeeds(made) /\ Become(u)
  <2>1. PICK n \in lstat(fs, Top.src) : fs' \in symlink(fs, n.to, Top.dst)
    BY <1>3 DEF Succeeds
  <2>2. PICK q \in Free(fs, Top.dst) : fs' = Put(fs, q, Link(n.to))
    BY <2>1 DEF symlink
  <2>3. q \in MayName /\ q \notin DOMAIN fs.node
    BY <1>2, <2>2 DEF Free
  <2>4. FsInv'
    <3>1. Spared(q)
      BY <1>2, <2>3, MayNameAllowed
    <3> QED
      BY <1>1, <1>2, <2>2, <3>1, PutStays
  <2>5. PICK x \in Named(fs, Top.src) : x \in DOMAIN fs.node /\ fs.node[x] = n
    BY <2>1 DEF lstat
  <2>6. n.kind = "link"
    BY <1>1, <1>2 DEF Late, At
  <2>7. LinksOk(fs)
    BY <1>2, TreeThere, ShrunkLinks
  <2>8. n.to \in Path
    BY <2>5, <2>6, <2>7 DEF LinksOk, Links
  <2>9. /\ DOMAIN fs'.node = DOMAIN fs.node \cup {q} /\ fs'.node[q] = Link(n.to)
        /\ \A y \in DOMAIN fs.node : fs'.node[y] = fs.node[y]
    BY <2>2, <2>3, TreeFields DEF Put, With
  <2>10. Extends(fs', fs) /\ LinksOk(fs')
    BY <2>7, <2>8, <2>9 DEF Extends, LinksOk, Links, Link
  <2>11. ASSUME NEW y \in Named(fs', Top.src) PROVE Allowed(y)
    <3>1. y = x
      BY <1>2, <2>5, <2>7, <2>10, <2>11, ExtendedNamed
    <3> QED
      BY <1>2, <3>1, MayNameAllowed
  <2>12. Inside(Named(fs', Top.src))
    BY <2>11 DEF Inside
  <2> HIDE DEF u
  <2>13. FrameOK(u) /\ u.op = "mvUnlink" /\ u.src = Top.src
    <3>1. "mvUnlink" \in MvOps
      BY DEF MvOps
    <3> QED
      BY <1>2, <3>1, CopyAs DEF u
  <2>14. todo' = <<u>> \o Tail(todo)
    BY <1>3 DEF Become
  <2>15. LineUp' /\ Running' /\ Top' = u
    BY <1>1, <1>2, <2>14, LateBecomes DEF Late
  <2>16. Late'
    <3>1. Inside(Named(fs', u.src))
      BY <2>12, <2>13
    <3>2. Inside(Named(fs, Top.src))'
      <4>1. \A y : Allowed(y)' <=> Allowed(y)
        BY <1>1, FixedMore
      <4> QED
        BY <2>15, <3>1, <4>1 DEF Inside
    <3> QED
      BY <2>13, <2>15, <3>2 DEF Late, At
  <2>17. Stack(todo')
    BY <1>1, <2>13, <2>14, BecomeOK
  <2> QED
    BY <1>1, <2>4, <2>16, <2>17, Conclude
<1>4. CASE Fails(made) /\ Return(-1)
  <2>1. UNCHANGED fs /\ todo' = Tail(todo)
    BY <1>4 DEF Fails, Return
  <2> QED
    BY <1>1, <1>2, <2>1, NothingStays, MvReturns
<1> QED
  BY <1>3, <1>4 DEF MvLink, Relink

LEMMA MvCopiedOK ==
  ASSUME ToolInv, MvCopied
  PROVE  ToolInv'
<1>1. /\ Running /\ Top.op = "mvCopied" /\ Top.op \in MvOps /\ UNCHANGED <<fs, cmd, fs0>>
  BY DEF MvCopied, At, Quiet, Others, MvOps
<1>2. CASE Become([Top EXCEPT !.op = "mvUnlink"])
  <2> DEFINE u == [Top EXCEPT !.op = "mvUnlink"]
  <2>1. todo' = <<u>> \o Tail(todo) /\ "mvUnlink" \in MvOps /\ Top.op # "mvUnlink"
    BY <1>1, <1>2 DEF Become, MvOps
  <2> HIDE DEF u
  <2>2. u = [Top EXCEPT !.op = "mvUnlink"] /\ "mvUnlink" # "mvLink"
    BY DEF u
  <2> QED
    BY <1>1, <2>1, <2>2, MvBecomes
<1>3. CASE Return(-1)
  <2>1. FsInv'
    BY <1>1, MvAt, NothingStays
  <2> QED
    BY <1>1, <1>3, <2>1, MvReturns DEF Return
<1> QED
  BY <1>2, <1>3 DEF MvCopied

LEMMA MvUnlinkOK ==
  ASSUME ToolInv, MvUnlink
  PROVE  ToolInv'
<1>1. /\ Running /\ Top.op = "mvUnlink" /\ Top.op \in MvOps /\ UNCHANGED <<cmd, fs0>>
      /\ todo' = Tail(todo)
  BY DEF MvUnlink, At, Others, MvOps, Return
<1>2. /\ Started /\ FsInv /\ cmd.tool = "mv" /\ Late /\ Top.src \in Path
      /\ Named(fs0, Top.src) \subseteq MayName
  BY <1>1, MvAt
<1>3. CASE fs' = fs
  BY <1>1, <1>2, <1>3, NothingStays, MvReturns
<1>4. CASE fs' # fs
  <2>1. PICK q \in Named(fs, Top.src) : fs' = Removed(fs, {q})
    BY <1>4 DEF MvUnlink, Succeeds, Fails, unlink
  <2>2. Inside(Named(fs0, Top.src))
    BY <1>2, MayNameAllowed DEF Inside
  <2>3. Shrunk(fs, fs0) \/ Inside(Named(fs, Top.src))
    BY <1>1, <1>2 DEF Late, LastDone, LastCall, Running
  <2>4. Spared(q)
    BY <1>2, <2>2, <2>3, NamedNow DEF Inside, Spared
  <2>5. FsInv'
    BY <1>1, <1>2, <2>1, <2>4, RemovedStays
  <2> QED
    BY <1>1, <2>5, MvReturns
<1> QED
  BY <1>3, <1>4

-----------------------------------------------------------------------------
(* cp and rm.                                                              *)

LEMMA CpAt ==
  ASSUME ToolInv, Running, Top.op \in CpOps
  PROVE  /\ Started /\ FsInv /\ cmd.tool = "cp" /\ CopyCall(Top) /\ Shrunk(fs, fs0)
         /\ Top.src \in Path /\ Top.dst \in Path /\ Named(fs, Top.dst) \subseteq MayName
<1>1. CopyCall(Top) /\ Started /\ FsInv
  BY TopOK, FrameKinds DEF ToolInv
<1>2. cmd.tool = "cp" /\ Shrunk(fs, fs0)
  BY <1>1 DEF CopyCall, FsInv
<1>3. Top.src \in Path /\ Top.dst \in Path /\ Named(fs0, Top.dst) \subseteq MayName
  BY <1>1, CopyDst
<1>4. Named(fs, Top.dst) \subseteq Named(fs0, Top.dst)
  BY <1>1, <1>2, <1>3, TreeThere, ShrunkNamed
<1> QED
  BY <1>1, <1>2, <1>3, <1>4

LEMMA CpBecomes ==
  ASSUME ToolInv, Running, Top.op \in CpOps, NEW x, x \in CpOps \cup {"copy"},
         NEW u, u = [Top EXCEPT !.op = x], todo' = <<u>> \o Tail(todo)
  PROVE  Stack(todo')
<1>1. FrameOK(u)
  BY CpAt, CopyAs
<1> QED
  BY <1>1, BecomeOK

\* a name leads to no link
LEMMA StatKinds ==
  ASSUME Started, Shrunk(fs, fs0), NEW p \in Path, NEW n \in stat(fs, p)
  PROVE  n.kind # "link"
<1>1. PICK q \in Real(fs, p) : q \in DOMAIN fs.node /\ n = fs.node[q]
  BY DEF stat
<1>2. KindAt(fs, q) # "link"
  BY <1>1, TreeThere, ShrunkLinks, RealIn
<1> QED
  BY <1>1, <1>2 DEF KindAt

LEMMA CpTreeOK ==
  ASSUME ToolInv, Confined, CpTree
  PROVE  ToolInv'
<1>1. /\ Running /\ Top.op = "cp" /\ Top.op \in CpOps /\ UNCHANGED <<fs, cmd, fs0>>
  BY DEF CpTree, At, Others, CpOps, Succeeds, Fails
<1>2. Started /\ cmd.tool = "cp" /\ Shrunk(fs, fs0) /\ Top.src \in Path /\ CopyCall(Top)
  BY <1>1, CpAt
<1>3. ~Flag("r")
  BY <1>2 DEF Confined, Flag
<1>4. {n.kind : n \in stat(fs, Top.src)} # {"link"}
  BY <1>2, StatKinds
<1>5. CASE Return(-1)
  BY <1>1, <1>2, <1>5, ReturnOK, KeptStep
<1>6. CASE CallThen([Top EXCEPT !.op = "copy"], [Top EXCEPT !.op = "cpCopied"])
  <2> DEFINE u == [Top EXCEPT !.op = "copy"]
             next == [Top EXCEPT !.op = "cpCopied"]
  <2>1. todo' = <<u, next>> \o Tail(todo)
    BY <1>6 DEF CallThen
  <2> HIDE DEF u, next
  <2>2. FrameOK(u)
    BY <1>2, CopyAs DEF u
  <2>3. FrameOK(next)
    <3>1. "cpCopied" \in CpOps
      BY DEF CpOps
    <3> QED
      BY <1>2, <3>1, CopyAs DEF next
  <2>4. Stack(todo')
    BY <1>1, <2>1, <2>2, <2>3, CallOK
  <2> QED
    BY <1>1, <1>2, <2>4, KeptStep
<1> QED
  BY <1>3, <1>4, <1>5, <1>6 DEF CpTree

LEMMA CpCopiedOK ==
  ASSUME ToolInv, CpCopied
  PROVE  ToolInv'
<1>1. /\ Running /\ Top.op = "cpCopied" /\ Top.op \in CpOps /\ UNCHANGED <<fs, cmd, fs0>>
  BY DEF CpCopied, At, Quiet, Others, CpOps
<1>2. cmd.tool = "cp"
  BY <1>1, CpAt
<1>3. CASE Return(ret)
  BY <1>1, <1>2, <1>3, ReturnOK, KeptStep
<1>4. CASE Become([Top EXCEPT !.op = "cpForce"])
  <2> DEFINE u == [Top EXCEPT !.op = "cpForce"]
  <2>1. todo' = <<u>> \o Tail(todo) /\ "cpForce" \in CpOps \cup {"copy"}
    BY <1>4 DEF Become, CpOps
  <2> HIDE DEF u
  <2>2. Stack(todo')
    BY <1>1, <2>1, CpBecomes DEF u
  <2> QED
    BY <1>1, <1>2, <2>2, KeptStep
<1> QED
  BY <1>3, <1>4 DEF CpCopied

LEMMA CpForceOK ==
  ASSUME ToolInv, CpForce
  PROVE  ToolInv'
<1>1. /\ Running /\ Top.op = "cpForce" /\ Top.op \in CpOps /\ UNCHANGED <<cmd, fs0>>
  BY DEF CpForce, At, Others, CpOps
<1>2. Started /\ FsInv /\ cmd.tool = "cp" /\ Named(fs, Top.dst) \subseteq MayName
  BY <1>1, CpAt
<1> DEFINE u == [Top EXCEPT !.op = "copy"]
<1>3. todo' = <<u>> \o Tail(todo)
  BY DEF CpForce, Become
<1> HIDE DEF u
<1>4. Stack(todo')
  BY <1>1, <1>3, CpBecomes DEF u
<1>5. CASE fs' = fs
  BY <1>1, <1>2, <1>4, <1>5, KeptStep
<1>6. CASE fs' # fs
  <2>1. PICK q \in Named(fs, Top.dst) : fs' = Removed(fs, {q})
    BY <1>6 DEF CpForce, Succeeds, Fails, unlink
  <2>2. Spared(q)
    BY <1>2, MayNameAllowed
  <2>3. FsInv'
    BY <1>1, <1>2, <2>1, <2>2, RemovedStays
  <2> QED
    BY <1>1, <1>2, <1>4, <2>3, Conclude
<1> QED
  BY <1>5, <1>6

-----------------------------------------------------------------------------

LEMMA RmAt ==
  ASSUME ToolInv, Running, Top.op \in RmOps
  PROVE  /\ Started /\ FsInv /\ cmd.tool \in {"rm", "rmdir"} /\ RmCall(Top) /\ Shrunk(fs, fs0)
         /\ Top.src \in Path /\ Inside(Named(fs0, Top.src))
<1>1. RmCall(Top) /\ Started /\ FsInv
  BY TopOK, FrameKinds DEF ToolInv
<1> QED
  BY <1>1 DEF RmCall, FsInv, Calls

LEMMA RmAs ==
  ASSUME NEW t, RmCall(t), cmd.tool = "rm", NEW x \in RmOps, x = "rmList" => Inside(Real(fs0, t.src)),
         NEW u, u = [t EXCEPT !.op = x]
  PROVE  FrameOK(u)
<1>1. u \in Calls(RmOps) /\ u.op = x /\ u.src = t.src
  BY CallAs DEF RmCall
<1>2. RmCall(u)
  BY <1>1 DEF RmCall
<1> QED
  BY <1>2 DEF FrameOK

LEMMA RmBecomes ==
  ASSUME ToolInv, Running, Top.op \in RmOps \ {"rmdir"}, UNCHANGED <<fs, cmd, fs0>>,
         NEW x \in RmOps, x = "rmList" => Inside(Real(fs0, Top.src)),
         NEW u, u = [Top EXCEPT !.op = x], todo' = <<u>> \o Tail(todo)
  PROVE  ToolInv'
<1>1. RmCall(Top) /\ cmd.tool \notin {"mv", "ln"} /\ cmd.tool = "rm"
  BY RmAt DEF RmCall
<1>2. FrameOK(u)
  BY <1>1, RmAs
<1> QED
  BY <1>1, <1>2, BecomeOK, KeptStep

LEMMA RmReturns ==
  ASSUME ToolInv, Running, Top.op \in RmOps, UNCHANGED <<cmd, fs0>>, todo' = Tail(todo),
         \/ fs' = fs
         \/ \E q \in Named(fs, Top.src) : fs' = Removed(fs, {q})
  PROVE  ToolInv'
<1>1. /\ Started /\ FsInv /\ cmd.tool \notin {"mv", "ln", "mkdir"} /\ Shrunk(fs, fs0)
      /\ Top.src \in Path /\ Inside(Named(fs0, Top.src))
  BY RmAt
<1>2. FsInv'
  BY <1>1, NamedNow, NothingStays, RemovedStays
<1> QED
  BY <1>1, <1>2, TopOK, Conclude

LEMMA RmOK ==
  ASSUME ToolInv, Rm
  PROVE  ToolInv'
<1>1. /\ Running /\ Top.op \in RmOps /\ Top.op # "rmdir" /\ UNCHANGED <<fs, cmd, fs0>>
  BY DEF Rm, At, Others, RmOps, Succeeds, Fails
<1>2. CASE Return(-1)
  BY <1>1, <1>2, RmReturns DEF Return
<1>3. CASE Become([Top EXCEPT !.op = "rmTree"])
  <2> DEFINE u == [Top EXCEPT !.op = "rmTree"]
  <2>1. todo' = <<u>> \o Tail(todo) /\ "rmTree" \in RmOps
    BY <1>3 DEF Become, RmOps
  <2> HIDE DEF u
  <2> QED
    BY <1>1, <2>1, RmBecomes DEF u
<1> QED
  BY <1>2, <1>3 DEF Rm

\* rm lists a directory, never what a link leads to
LEMMA RmTreeOK ==
  ASSUME ToolInv, RmTree
  PROVE  ToolInv'
<1>1. /\ Running /\ Top.op \in RmOps /\ Top.op # "rmdir" /\ UNCHANGED <<fs, cmd, fs0>>
  BY DEF RmTree, At, Lasting, RmOps, Succeeds, Fails, Misses
<1>2. CASE \E r : Return(r)
  BY <1>1, <1>2, RmReturns DEF Return
<1>3. CASE Become([Top EXCEPT !.op = "rmUnlink"])
  <2> DEFINE u == [Top EXCEPT !.op = "rmUnlink"]
  <2>1. todo' = <<u>> \o Tail(todo) /\ "rmUnlink" \in RmOps
    BY <1>3 DEF Become, RmOps
  <2> HIDE DEF u
  <2> QED
    BY <1>1, <2>1, RmBecomes DEF u
<1>4. CASE /\ {n.kind : n \in lstat(fs, Top.src)} = {"dir"}
           /\ Become([Top EXCEPT !.op = "rmList"])
  <2> DEFINE u == [Top EXCEPT !.op = "rmList"]
  <2>1. todo' = <<u>> \o Tail(todo) /\ "rmList" \in RmOps
    BY <1>4 DEF Become, RmOps
  <2>2. /\ Started /\ Shrunk(fs, fs0) /\ Top.src \in Path /\ Inside(Named(fs0, Top.src))
        /\ IsTree(fs0) /\ LinksOk(fs0)
    BY <1>1, RmAt, TreeThere
  <2>3. PICK n \in lstat(fs, Top.src) : n.kind = "dir"
    BY <1>4
  <2>4. PICK x \in Named(fs, Top.src) : x \in DOMAIN fs.node /\ fs.node[x] = n
    BY DEF lstat
  <2>5. x \in Named(fs0, Top.src)
    BY <2>2, ShrunkNamed
  <2>6. KindAt(fs0, x) = "dir"
    BY <2>2, <2>3, <2>4, ShrunkKinds DEF KindAt
  <2>7. \A y \in Real(fs0, Top.src) : y = x
    BY <2>2, <2>5, <2>6, RealAsNamed
  <2>8. Inside(Real(fs0, Top.src))
    BY <2>2, <2>5, <2>7 DEF Inside
  <2> HIDE DEF u
  <2> QED
    BY <1>1, <2>1, <2>8, RmBecomes DEF u
<1> QED
  BY <1>2, <1>3, <1>4 DEF RmTree, RmSeen

LEMMA EntryNames ==
  ASSUME Shrunk(fs, fs0), NEW p
  PROVE  Entries(p) \subseteq STRING
BY FrontIn DEF Shrunk, Entries, getdents

LEMMA RmListOK ==
  ASSUME ToolInv, RmList
  PROVE  ToolInv'
<1>1. /\ Running /\ Top.op \in RmOps /\ Top.op = "rmList" /\ UNCHANGED <<cmd, fs0>>
      /\ fs' = fs
  BY DEF RmList, At, Others, RmOps, Succeeds, Fails
<1>2. /\ cmd.tool = "rm" /\ RmCall(Top) /\ Shrunk(fs, fs0)
      /\ Top.src \in Path /\ Inside(Named(fs0, Top.src))
  BY <1>1, RmAt DEF RmCall
<1>3. ASSUME NEW names \in SUBSET Entries(Top.src),
             Become([op |-> "rmEntry", src |-> Top.src, left |-> names])
      PROVE  ToolInv'
  <2> DEFINE u == [op |-> "rmEntry", src |-> Top.src, left |-> names]
  <2>1. todo' = <<u>> \o Tail(todo)
    BY <1>3 DEF Become
  <2>2. RmLoop(u)
    BY <1>1, <1>2, EntryNames DEF RmLoop, RmCall
  <2> HIDE DEF u
  <2>3. Stack(todo')
    BY <1>1, <2>1, <2>2, BecomeOK DEF FrameOK
  <2> QED
    BY <1>1, <1>2, <2>3, KeptStep
<1>4. CASE Become([Top EXCEPT !.op = "rmDir"])
  <2> DEFINE u == [Top EXCEPT !.op = "rmDir"]
  <2>1. todo' = <<u>> \o Tail(todo) /\ "rmDir" \in RmOps
    BY <1>4 DEF Become, RmOps
  <2> HIDE DEF u
  <2> QED
    BY <1>1, <2>1, RmBecomes DEF u
<1> QED
  BY <1>3, <1>4 DEF RmList

LEMMA EntryInside ==
  ASSUME Started, NEW p \in Path, NEW n \in STRING, Inside(Real(fs0, p))
  PROVE  Append(p, n) \in Path /\ Inside(Named(fs0, Append(p, n)))
<1>1. Append(p, n) \in Path /\ Append(p, n) # <<>> /\ Front(Append(p, n)) = p
      /\ Last(Append(p, n)) = n
  BY AppendIn
<1> DEFINE a == Append(p, n)
<1>2. a \in Path /\ a # <<>> /\ Front(a) = p /\ Last(a) = n
  BY <1>1
<1> HIDE DEF a
<1>3. ASSUME NEW q \in Named(fs0, a) PROVE Allowed(q)
  <2>1. q \in Entered(fs0, Real(fs0, p), a)
    BY <1>2 DEF Named, Fitting
  <2>2. PICK d \in Real(fs0, p) : q = Append(d, n)
    BY <1>2, <2>1 DEF Entered
  <2>3. d \in Path
    BY TreeThere, RealIn
  <2>4. PICK r \in MayName : Under(r, d)
    BY DEF Inside, Allowed
  <2>5. r \in Path
    BY MayNameIn
  <2> QED
    BY <2>2, <2>3, <2>4, <2>5, UnderMore DEF Allowed
<1> QED
  BY <1>2, <1>3 DEF Inside, a

LEMMA RmEntryOK ==
  ASSUME ToolInv, RmEntry
  PROVE  ToolInv'
<1>1. /\ Running /\ Top.op = "rmEntry" /\ UNCHANGED <<fs, cmd, fs0>> /\ Started
  BY DEF RmEntry, At, Quiet, Others, ToolInv
<1>2. RmLoop(Top)
  BY <1>1, TopOK, FrameKinds
<1>3. /\ cmd.tool = "rm" /\ Top.src \in Path /\ Top.left \subseteq STRING
      /\ Inside(Named(fs0, Top.src)) /\ Inside(Real(fs0, Top.src))
  BY <1>2 DEF RmLoop
<1>4. CASE Become(Frame("rmDir", Top.src, Top.src))
  <2> DEFINE u == Frame("rmDir", Top.src, Top.src)
  <2>1. todo' = <<u>> \o Tail(todo)
    BY <1>4 DEF Become
  <2>2. RmCall(u)
    BY <1>3 DEF RmCall, Calls, RmOps, Frame
  <2> HIDE DEF u
  <2>3. Stack(todo')
    BY <1>1, <2>1, <2>2, BecomeOK DEF FrameOK
  <2> QED
    BY <1>1, <1>3, <2>3, KeptStep
<1>5. CASE \E n \in Top.left : CallThen(Frame("rmTree", Append(Top.src, n), Top.src),
                                        [Top EXCEPT !.left = @ \ {n}])
  <2>1. PICK n \in Top.left : CallThen(Frame("rmTree", Append(Top.src, n), Top.src),
                                       [Top EXCEPT !.left = @ \ {n}])
    BY <1>5
  <2> DEFINE u == Frame("rmTree", Append(Top.src, n), Top.src)
             next == [Top EXCEPT !.left = @ \ {n}]
  <2>2. todo' = <<u, next>> \o Tail(todo)
    BY <2>1 DEF CallThen
  <2>3. Append(Top.src, n) \in Path /\ Inside(Named(fs0, Append(Top.src, n)))
    BY <1>1, <1>3, EntryInside
  <2>4. RmCall(u)
    BY <1>3, <2>3 DEF RmCall, Calls, RmOps, Frame
  <2>5. RmLoop(next)
    BY <1>2 DEF RmLoop
  <2> HIDE DEF u, next
  <2>6. Stack(todo')
    BY <1>1, <2>2, <2>4, <2>5, CallOK DEF FrameOK
  <2> QED
    BY <1>1, <1>3, <2>6, KeptStep
<1> QED
  BY <1>4, <1>5 DEF RmEntry

LEMMA RmDirOK ==
  ASSUME ToolInv, RmDir
  PROVE  ToolInv'
<1>1. /\ Running /\ Top.op \in RmOps /\ UNCHANGED <<cmd, fs0>> /\ todo' = Tail(todo)
  BY DEF RmDir, At, Others, RmOps, Return
<1>2. fs' = fs \/ fs' \in rmdir(fs, Top.src)
  BY DEF RmDir, Succeeds, Fails
<1>3. fs' = fs \/ \E q \in Named(fs, Top.src) : fs' = Removed(fs, {q})
  BY <1>2 DEF rmdir
<1> QED
  BY <1>1, <1>3, RmReturns

LEMMA RmUnlinkOK ==
  ASSUME ToolInv, RmUnlink
  PROVE  ToolInv'
<1>1. /\ Running /\ Top.op \in RmOps /\ UNCHANGED <<cmd, fs0>> /\ todo' = Tail(todo)
  BY DEF RmUnlink, At, Others, RmOps, Return
<1>2. fs' = fs \/ fs' \in unlink(fs, Top.src)
  BY DEF RmUnlink, Succeeds, Fails
<1>3. fs' = fs \/ \E q \in Named(fs, Top.src) : fs' = Removed(fs, {q})
  BY <1>2 DEF unlink
<1> QED
  BY <1>1, <1>3, RmReturns

-----------------------------------------------------------------------------
(* ln, mkdir, touch, cat and wrt.                                          *)

LEMMA SmallAt ==
  ASSUME ToolInv, Running, Top.op \in SmallOps
  PROVE  /\ Started /\ FsInv /\ SmallCall(Top) /\ Top.src \in SrcArgs
         /\ Top.src \in Path \ {<<>>}
         /\ Top.op = cmd.tool \/ (Top.op = "lnMake" /\ cmd.tool = "ln")
         /\ cmd.tool = "ln" =>
              /\ Top.dst \in Path /\ Named(fs0, Top.dst) \subseteq MayName /\ Late
              /\ Shrunk(fs, fs0) /\ Named(fs, Top.dst) \subseteq MayName
<1>1. SmallCall(Top) /\ Started /\ FsInv
  BY TopOK, FrameKinds DEF ToolInv
<1>2. /\ Top.src \in SrcArgs /\ Top.src \in Path \ {<<>>}
      /\ Top.op = cmd.tool \/ (Top.op = "lnMake" /\ cmd.tool = "ln")
  BY <1>1, Args DEF SmallCall
<1>3. ASSUME cmd.tool = "ln"
      PROVE  /\ Top.dst \in Path /\ Named(fs0, Top.dst) \subseteq MayName /\ Late
             /\ Shrunk(fs, fs0) /\ Named(fs, Top.dst) \subseteq MayName
  <2>1. Top.dst = Last(cmd.args) /\ Top.dst \in Path
    BY <1>1, <1>3, Args DEF SmallCall
  <2>2. Named(fs0, Top.dst) \subseteq MayName
    BY <1>3, <2>1 DEF MayName
  <2>3. Shrunk(fs, fs0)
    BY <1>2, <1>3, ShrunkNow
  <2>4. Named(fs, Top.dst) \subseteq Named(fs0, Top.dst)
    BY <1>1, <2>1, <2>3, TreeThere, ShrunkNamed
  <2> QED
    BY <1>3, <2>1, <2>2, <2>3, <2>4 DEF ToolInv
<1> QED
  BY <1>1, <1>2, <1>3

\* the only call for an argument returns
LEMMA SmallReturns ==
  ASSUME ToolInv, Running, UNCHANGED <<cmd, fs0>>, FsInv', todo' = Tail(todo),
         cmd.tool \notin {"mv", "ln"} \/ Top.op = "lnMake"
  PROVE  ToolInv'
<1>1. ASSUME cmd.tool \in {"mv", "ln"} PROVE Late'
  BY <1>1, LateReturns DEF ToolInv, Late
<1> QED
  BY <1>1, TopOK, Conclude

LEMMA LnForceOK ==
  ASSUME ToolInv, LnForce
  PROVE  ToolInv'
<1>1. /\ Running /\ Top.op = "ln" /\ Top.op \in SmallOps /\ UNCHANGED <<cmd, fs0>>
  BY DEF LnForce, At, Others, SmallOps
<1>2. /\ Started /\ FsInv /\ SmallCall(Top) /\ cmd.tool = "ln" /\ Late /\ Shrunk(fs, fs0)
      /\ Named(fs, Top.dst) \subseteq MayName
  BY <1>1, SmallAt
<1> DEFINE u == [Top EXCEPT !.op = "lnMake"]
<1>3. todo' = <<u>> \o Tail(todo)
  BY DEF LnForce, Become
<1>4. FrameOK(u) /\ u.op = "lnMake"
  <2>1. Top \in Calls(SmallOps) /\ "lnMake" \in SmallOps
    BY <1>2 DEF SmallCall, SmallOps
  <2>2. u \in Calls(SmallOps) /\ u.op = "lnMake" /\ u.src = Top.src /\ u.dst = Top.dst
    BY <2>1, CallAs
  <2> HIDE DEF u
  <2>3. SmallCall(u)
    BY <1>2, <2>2 DEF SmallCall
  <2> QED
    BY <2>2, <2>3 DEF FrameOK
<1> HIDE DEF u
<1>5. Stack(todo')
  BY <1>1, <1>3, <1>4, BecomeOK
<1>6. LineUp' /\ Running' /\ Top' = u
  BY <1>1, <1>2, <1>3, LateBecomes DEF Late
<1>7. FsInv' /\ Shrunk(fs', fs0')
  <2>1. CASE fs' = fs
    BY <1>1, <1>2, <2>1, NothingStays
  <2>2. CASE fs' # fs
    <3>1. PICK q \in Named(fs, Top.dst) : fs' = Removed(fs, {q})
      BY <2>2 DEF LnForce, Succeeds, Fails, unlink
    <3>2. Spared(q)
      BY <1>2, MayNameAllowed
    <3> QED
      BY <1>1, <1>2, <3>1, <3>2, RemovedStays
  <2> QED
    BY <2>1, <2>2
<1>8. Late'
  BY <1>4, <1>6, <1>7 DEF Late, At
<1> QED
  BY <1>1, <1>5, <1>7, <1>8, Conclude

LEMMA LnMakeOK ==
  ASSUME ToolInv, LnMake
  PROVE  ToolInv'
<1>1. /\ Running /\ Top.op = "lnMake" /\ Top.op \in SmallOps /\ UNCHANGED <<cmd, fs0>>
      /\ todo' = Tail(todo)
  BY DEF LnMake, At, Others, SmallOps, Return
<1>2. Started /\ FsInv /\ cmd.tool = "ln" /\ Named(fs, Top.dst) \subseteq MayName
  <2>1. cmd.tool = "ln"
    BY <1>1, SmallAt, Args
  <2> QED
    BY <1>1, <2>1, SmallAt
<1>3. CASE fs' = fs
  BY <1>1, <1>2, <1>3, NothingStays, SmallReturns
<1>4. CASE fs' # fs
  <2>1. fs' \in symlink(fs, Top.src, Top.dst) \cup link(fs, Top.src, Top.dst)
    BY <1>4 DEF LnMake, Succeeds, Fails
  <2>2. PICK q, n : q \in Free(fs, Top.dst) /\ fs' = Put(fs, q, n)
    BY <2>1 DEF symlink, link
  <2>3. Spared(q)
    BY <1>2, <2>2, MayNameAllowed DEF Free
  <2>4. FsInv'
    BY <1>1, <1>2, <2>2, <2>3, PutStays
  <2> QED
    BY <1>1, <2>4, SmallReturns
<1> QED
  BY <1>3, <1>4

\* where mkdir makes a directory
LEMMA MkdirThere ==
  ASSUME Started, Confined, FsInv, cmd.tool = "mkdir", NEW s \in SrcArgs, NEW p \in Prefixes(s), p \in Path,
         NEW q \in Free(fs, p)
  PROVE  Spared(q) /\ q \notin DOMAIN fs.node
<1>1. MoreDirs(fs, fs0) /\ IsTree(fs0) /\ LinksOk(fs0) /\ LinksOk(fs)
  BY TreeThere, MoreDirsLinks DEF FsInv
<1>2. q \in Named(fs, p) /\ q \notin DOMAIN fs.node /\ q \notin DOMAIN fs0.node
  BY <1>1 DEF Free, MoreDirs, Extends
<1>3. KindAt(fs0, <<>>) = "dir" /\ KindAt(fs, <<>>) = "dir" /\ <<>> \in DOMAIN fs.node
  BY <1>1, TreeThere DEF MoreDirs, Extends, KindAt
<1>4. p # <<>>
  BY <1>2, <1>3 DEF Named
<1>5. PICK d : Looked(fs, MaxLinks, p, d, q) /\ Len(q) <= MaxDepth
  BY <1>2, <1>4, NamedBy
<1>6. Front(p) \in Path /\ Last(p) \in STRING
  BY <1>4, FrontIn
<1>7. d \in leads(fs)[MaxLinks][Front(p)] /\ d \in DOMAIN fs.node /\ fs.node[d].kind = "dir"
      /\ q = Append(d, Last(p))
  BY <1>5 DEF Looked, KindAt
<1>8. d \in Path
  BY <1>1, <1>3, <1>6, <1>7, LeadsIn, LinksRange
<1>9. CASE d \in DOMAIN fs0.node
  <2>1. d \in leads(fs0)[MaxLinks][Front(p)]
    BY <1>1, <1>6, <1>7, <1>9, MoreDirsLeads, LinksRange
  <2>2. KindAt(fs0, d) = "dir"
    BY <1>1, <1>7, <1>9 DEF MoreDirs, Extends, KindAt
  <2>3. Looked(fs0, MaxLinks, p, d, q)
    BY <1>7, <2>1, <2>2 DEF Looked
  <2>4. q \in Named(fs0, p)
    BY <1>4, <1>5, <2>3, NamedBy
  <2>5. q \in Free(fs0, p)
    BY <1>2, <2>4 DEF Free
  <2>6. q \in MayName
    BY <2>5 DEF MayName
  <2> QED
    BY <1>2, <2>6, MayNameAllowed
<1>10. CASE d \notin DOMAIN fs0.node
  <2>1. Allowed(d)
    BY <1>7, <1>10 DEF FsInv, PlacesOK, Spared, Confined
  <2>2. PICK r \in MayName : Under(r, d)
    BY <2>1 DEF Allowed
  <2>3. r \in Path
    BY MayNameIn
  <2> QED
    BY <1>2, <1>6, <1>7, <1>8, <2>2, <2>3, UnderMore DEF Spared, Allowed
<1> QED
  BY <1>9, <1>10

\* making the directory p, or not
LEMMA MkdirStays ==
  ASSUME Started, Confined, FsInv, UNCHANGED <<cmd, fs0>>, cmd.tool = "mkdir",
         NEW s \in SrcArgs, NEW p \in Prefixes(s), p \in Path,
         fs' = fs \/ fs' \in mkdir(fs, p)
  PROVE  FsInv'
<1>1. CASE fs' = fs
  BY <1>1, NothingStays
<1>2. CASE fs' \in mkdir(fs, p)
  <2>1. PICK q \in Free(fs, p) : fs' = Put(fs, q, Dir)
    BY <1>2 DEF mkdir
  <2>2. Spared(q) /\ q \notin DOMAIN fs.node
    BY MkdirThere
  <2> QED
    BY <2>1, <2>2, PutStays
<1> QED
  BY <1>1, <1>2

LEMMA PrefixIn ==
  ASSUME NEW s \in Path, NEW n \in 0..Len(s)
  PROVE  /\ SubSeq(s, 1, n) \in Prefixes(s) /\ SubSeq(s, 1, n) \in Path
         /\ SubSeq(s, 1, Len(s)) = s
<1>1. s \in Seq(STRING) /\ Len(s) \in Nat /\ \A i \in 1..Len(s) : s[i] \in STRING
  BY LenProperties, ElementOfSeq DEF Path
<1>2. 1 \in Int /\ n \in Int /\ \A i \in 1..n : s[i] \in STRING
  BY <1>1
<1>3. SubSeq(s, 1, n) \in Path
  BY <1>2, SubSeqProperties DEF Path
<1>4. SubSeq(s, 1, Len(s)) = s
  BY <1>1
<1> QED
  BY <1>3, <1>4 DEF Prefixes

LEMMA MkdirOK ==
  ASSUME ToolInv, Confined, Mkdir
  PROVE  ToolInv'
<1>1. /\ Running /\ Top.op = "mkdir" /\ Top.op \in SmallOps /\ UNCHANGED <<cmd, fs0>>
  BY DEF Mkdir, At, Others, Quiet, SmallOps
<1>2. /\ Started /\ FsInv /\ cmd.tool = "mkdir" /\ Top.src \in SrcArgs
      /\ Top.src \in Path \ {<<>>}
  BY <1>1, SmallAt
<1>3. Len(Top.src) \in Nat \ {0}
  BY <1>2, FrontIn
<1>4. CASE Become([op |-> "mkdirP", src |-> Top.src, upto |-> 1]) /\ Quiet
  <2> DEFINE u == [op |-> "mkdirP", src |-> Top.src, upto |-> 1]
  <2>1. todo' = <<u>> \o Tail(todo) /\ UNCHANGED fs
    BY <1>4 DEF Become, Quiet
  <2>2. MkdirLoop(u)
    BY <1>2, <1>3 DEF MkdirLoop
  <2> HIDE DEF u
  <2>3. Stack(todo')
    BY <1>1, <2>1, <2>2, BecomeOK DEF FrameOK
  <2> QED
    BY <1>1, <1>2, <2>1, <2>3, KeptStep
<1>5. CASE /\ \/ Succeeds(mkdir(fs, Top.src)) /\ Return(0)
              \/ Fails(mkdir(fs, Top.src)) /\ Return(-1)
  <2>1. (fs' = fs \/ fs' \in mkdir(fs, Top.src)) /\ todo' = Tail(todo)
    BY <1>5 DEF Succeeds, Fails, Return
  <2>2. Top.src \in Prefixes(Top.src)
    <3>1. Len(Top.src) \in 0..Len(Top.src)
      BY <1>3
    <3>2. SubSeq(Top.src, 1, Len(Top.src)) = Top.src
          /\ SubSeq(Top.src, 1, Len(Top.src)) \in Prefixes(Top.src)
      BY <1>2, <3>1, PrefixIn
    <3> QED
      BY <3>2
  <2>3. FsInv'
    BY <1>1, <1>2, <2>1, <2>2, MkdirStays
  <2> QED
    BY <1>1, <1>2, <2>1, <2>3, SmallReturns
<1> QED
  BY <1>4, <1>5 DEF Mkdir

LEMMA MkdirPOK ==
  ASSUME ToolInv, Confined, mkdir_p
  PROVE  ToolInv'
<1>1. /\ Running /\ Top.op = "mkdirP" /\ UNCHANGED <<cmd, fs0>> /\ Started /\ FsInv
  BY DEF mkdir_p, At, Others, ToolInv
<1>2. MkdirLoop(Top)
  BY <1>1, TopOK, FrameKinds
<1>3. /\ cmd.tool = "mkdir" /\ Top = [op |-> "mkdirP", src |-> Top.src, upto |-> Top.upto]
      /\ Top.src \in SrcArgs /\ Top.upto \in 1..Len(Top.src) /\ Top.src \in Path
  BY <1>1, <1>2, Args DEF MkdirLoop
<1>4. Len(Top.src) \in Nat
  BY <1>3, LenProperties DEF Path
<1> DEFINE prefix == SubSeq(Top.src, 1, Top.upto)
           made == IF is_dir(fs, prefix) THEN {fs} ELSE mkdir(fs, prefix)
<1>5. prefix \in Prefixes(Top.src) /\ prefix \in Path
  <2>1. Top.upto \in 0..Len(Top.src)
    BY <1>3, <1>4
  <2> QED
    BY <1>3, <2>1, PrefixIn
<1>6. fs' = fs \/ fs' \in mkdir(fs, prefix)
  BY DEF mkdir_p, Succeeds, Fails
<1>7. FsInv'
  <2> HIDE DEF prefix
  <2> QED
    BY <1>1, <1>3, <1>5, <1>6, MkdirStays
<1>8. CASE todo' = Tail(todo)
  BY <1>1, <1>3, <1>7, <1>8, SmallReturns
<1>9. CASE prefix # Top.src /\ Become([Top EXCEPT !.upto = @ + 1])
  <2> DEFINE u == [Top EXCEPT !.upto = @ + 1]
  <2>1. todo' = <<u>> \o Tail(todo)
    BY <1>9 DEF Become
  <2>2. Top.upto # Len(Top.src)
    <3>1. Len(Top.src) \in 0..Len(Top.src)
      BY <1>4
    <3>2. SubSeq(Top.src, 1, Len(Top.src)) = Top.src
      BY <1>3, <3>1, PrefixIn
    <3> QED
      BY <1>9, <3>2
  <2>3. Top.upto + 1 \in 1..Len(Top.src)
    BY <1>3, <1>4, <2>2
  <2>4. u = [op |-> "mkdirP", src |-> Top.src, upto |-> Top.upto + 1]
    <3> DEFINE s == Top.src
               n == Top.upto
               m == Top.upto + 1
    <3>1. u = [[op |-> "mkdirP", src |-> s, upto |-> n] EXCEPT !.upto = m]
      BY <1>3
    <3>2. [[op |-> "mkdirP", src |-> s, upto |-> n] EXCEPT !.upto = m]
            = [op |-> "mkdirP", src |-> s, upto |-> m]
      OBVIOUS
    <3> QED
      BY <3>1, <3>2
  <2> HIDE DEF u
  <2>5. u.src = Top.src /\ u.upto = Top.upto + 1
    BY <2>4
  <2>6. MkdirLoop(u)
    BY <1>3, <2>3, <2>4, <2>5 DEF MkdirLoop
  <2>7. Stack(todo')
    BY <1>1, <2>1, <2>6, BecomeOK DEF FrameOK
  <2> QED
    BY <1>1, <1>3, <1>7, <2>7, Conclude
<1> QED
  BY <1>8, <1>9 DEF mkdir_p, Return

LEMMA TouchOK ==
  ASSUME ToolInv, Touch
  PROVE  ToolInv'
<1>1. /\ Running /\ Top.op = "touch" /\ Top.op \in SmallOps /\ UNCHANGED <<cmd, fs0>>
      /\ todo' = Tail(todo)
  BY DEF Touch, At, Others, Quiet, SmallOps, Return
<1>2. /\ Started /\ FsInv /\ cmd.tool = "touch" /\ Top.src \in SrcArgs
      /\ Top.src \in Path
  BY <1>1, SmallAt
<1>3. CASE fs' = fs
  BY <1>1, <1>2, <1>3, NothingStays, SmallReturns
<1>4. CASE fs' # fs
  <2>1. stat(fs, Top.src) = {}
    BY <1>4 DEF Touch, Quiet
  <2>2. PICK x \in open_trunc(fs, Top.src, TRUE) : fs' = x[1]
    BY <1>4, <2>1 DEF Touch, Quiet, Succeeds, Fails
  <2>3. PICK q \in Real(fs, Top.src) :
           \/ KindAt(fs, q) = "file"
           \/ q \notin DOMAIN fs.node /\ x[1] = WithFile(fs, q)
    <3> DEFINE c == TRUE
    <3>1. x \in open_trunc(fs, Top.src, c)
      OBVIOUS
    <3> HIDE DEF c
    <3>2. PICK q \in Real(fs, Top.src) :
           \/ /\ KindAt(fs, q) = "file" /\ x[2] = fs.node[q].ino
              /\ x[1] = Tree(fs.node, [fs.data EXCEPT ![fs.node[q].ino] = <<>>])
           \/ /\ c /\ q \notin DOMAIN fs.node
              /\ x[1] = WithFile(fs, q) /\ x[2] = NewIno(fs)
      BY <3>1, OpenedBy
    <3> QED
      BY <3>2
  <2>4. q \notin DOMAIN fs.node
    BY <2>1 DEF stat
  <2>5. x[1] = WithFile(fs, q)
    BY <2>3, <2>4 DEF KindAt
  <2>6. Real(fs0, Top.src) \subseteq MayName
    BY <1>2 DEF MayName
  <2>7. Spared(q) /\ q \in Path
    <3>1. Shrunk(fs, fs0)
      BY <1>2 DEF FsInv
    <3> QED
      BY <1>2, <2>4, <2>6, <3>1, MadeThere
  <2>8. FsInv'
    BY <1>1, <1>2, <2>2, <2>4, <2>5, <2>7, FileStays
  <2> QED
    BY <1>1, <1>2, <2>8, SmallReturns
<1> QED
  BY <1>3, <1>4

LEMMA CatFrame ==
  ASSUME cmd.tool = "cat", NEW i, NEW n, NEW u, u = [op |-> "catRead", in |-> i, at |-> n]
  PROVE  FrameOK(u)
<1>1. CatLoop(u)
  BY DEF CatLoop
<1> QED
  BY <1>1 DEF FrameOK

LEMMA CatOpenOK ==
  ASSUME ToolInv, CatOpen
  PROVE  ToolInv'
<1>1. /\ Running /\ Top.op = "cat" /\ Top.op \in SmallOps /\ UNCHANGED <<fs, cmd, fs0>>
  BY DEF CatOpen, At, Others, SmallOps, Succeeds, Fails
<1>2. FsInv /\ Started /\ cmd.tool = "cat"
  BY <1>1, SmallAt
<1>3. CASE \E i : Become([op |-> "catRead", in |-> i, at |-> 1])
  <2>1. PICK i : Become([op |-> "catRead", in |-> i, at |-> 1])
    BY <1>3
  <2> DEFINE u == [op |-> "catRead", in |-> i, at |-> 1]
  <2>2. todo' = <<u>> \o Tail(todo)
    BY <2>1 DEF Become
  <2>3. FrameOK(u)
    BY <1>2, CatFrame
  <2> HIDE DEF u
  <2> QED
    BY <1>1, <1>2, <2>2, <2>3, BecomeOK, KeptStep
<1>4. CASE Return(-1)
  BY <1>1, <1>2, <1>4, ReturnOK, KeptStep
<1> QED
  BY <1>3, <1>4 DEF CatOpen

LEMMA CatReadOK ==
  ASSUME ToolInv, CatRead
  PROVE  ToolInv'
<1>1. /\ Running /\ Top.op = "catRead" /\ UNCHANGED <<fs, cmd, fs0>>
  BY DEF CatRead, At, Succeeds, Fails
<1>2. CatLoop(Top)
  BY <1>1, TopOK, FrameKinds
<1>3. cmd.tool = "cat" /\ Top = [op |-> "catRead", in |-> Top.in, at |-> Top.at]
  BY <1>2 DEF CatLoop
<1>4. CASE \E r : Return(r)
  BY <1>1, <1>3, <1>4, TopOK, KeptStep DEF Return
<1>5. CASE Become([Top EXCEPT !.at = @ + 1])
  <2> DEFINE u == [Top EXCEPT !.at = @ + 1]
             i == Top.in
             n == Top.at
             m == Top.at + 1
  <2>1. todo' = <<u>> \o Tail(todo)
    BY <1>5 DEF Become
  <2>2. u = [[op |-> "catRead", in |-> i, at |-> n] EXCEPT !.at = m]
    BY <1>3
  <2>3. [[op |-> "catRead", in |-> i, at |-> n] EXCEPT !.at = m]
          = [op |-> "catRead", in |-> i, at |-> m]
    OBVIOUS
  <2> HIDE DEF u, i, n, m
  <2>4. FrameOK(u)
    BY <1>3, <2>2, <2>3, CatFrame
  <2> QED
    BY <1>1, <1>3, <2>1, <2>4, BecomeOK, KeptStep
<1> QED
  BY <1>4, <1>5 DEF CatRead

\* wrt opens a file for writing only where DST is one
LEMMA WrtDst ==
  ASSUME Started, cmd.tool = "wrt", NEW s \in SrcArgs, NEW y \in Real(fs0, s),
         KindAt(fs0, y) = "file"
  PROVE  y \in Led
<1>1. cmd.args \in Seq(Path \ {<<>>}) /\ Len(cmd.args) = 1
  BY FileToolsAssumption DEF Started
<1>2. Last(cmd.args) = cmd.args[1]
  BY <1>1 DEF Last
<1>3. Sources(cmd) = <<cmd.args[1]>>
  BY DEF Sources, ToDst
<1>4. s = cmd.args[1]
  BY <1>3 DEF SrcArgs, ToSet
<1>5. s \in Path /\ LinksOk(fs0)
  BY Args, TreeThere
<1>6. ~is_dir(fs0, s)
  <2> SUFFICES ASSUME is_dir(fs0, s) PROVE FALSE
    OBVIOUS
  <2>1. PICK x \in Real(fs0, s) : x \in DOMAIN fs0.node /\ fs0.node[x] = Dir
    BY DEF is_dir, stat
  <2>2. x = y
    BY <1>5, <2>1, LeadsOnce, LinksRange DEF Real
  <2> QED
    BY <2>1, <2>2 DEF KindAt, Dir
<1>7. Target(s) = s
  BY <1>2, <1>4, <1>6 DEF Target, target
<1> QED
  BY <1>7, LedIn DEF Reaches

LEMMA WrtOpenOK ==
  ASSUME ToolInv, WrtOpen
  PROVE  ToolInv'
<1>1. /\ Running /\ Top.op = "wrt" /\ Top.op \in SmallOps /\ UNCHANGED <<cmd, fs0>>
  BY DEF WrtOpen, At, Others, SmallOps
<1>2. /\ Started /\ FsInv /\ cmd.tool = "wrt" /\ Top.src \in SrcArgs
      /\ Top.src \in Path
  BY <1>1, SmallAt
<1>3. CASE \E x \in open_trunc(fs, Top.src, FALSE) :
             Succeeds({x[1]}) /\ Become([op |-> "wrtText", to |-> x[2]])
  <2>1. PICK x \in open_trunc(fs, Top.src, FALSE) :
          fs' = x[1] /\ Become([op |-> "wrtText", to |-> x[2]])
    BY <1>3 DEF Succeeds
  <2> DEFINE u == [op |-> "wrtText", to |-> x[2]]
  <2>2. todo' = <<u>> \o Tail(todo)
    BY <2>1 DEF Become
  <2>3. FsInv' /\ x[2] \notin KeptData
    <3>1. Shrunk(fs, fs0)
      BY <1>2 DEF FsInv
    <3>2. \A y \in Real(fs0, Top.src) : KindAt(fs0, y) = "file" => y \in Led
      BY <1>2, WrtDst
    <3> QED
      BY <1>1, <1>2, <2>1, <3>1, <3>2, OpenStays
  <2>4. WrtCall(u)
    BY <1>2, <2>3 DEF WrtCall
  <2> HIDE DEF u
  <2>5. Stack(todo')
    BY <1>1, <2>2, <2>4, BecomeOK DEF FrameOK
  <2> QED
    BY <1>1, <1>2, <2>3, <2>5, Conclude
<1>4. CASE Fails(open_trunc(fs, Top.src, FALSE)) /\ Return(-1)
  BY <1>1, <1>2, <1>4, TopOK, KeptStep DEF Fails, Return
<1> QED
  BY <1>3, <1>4 DEF WrtOpen

LEMMA WrtTextOK ==
  ASSUME ToolInv, WrtText
  PROVE  ToolInv'
<1>1. /\ Running /\ Top.op = "wrtText" /\ UNCHANGED <<cmd, fs0>> /\ Started /\ FsInv
      /\ todo' = Tail(todo) /\ (fs' = fs \/ fs' = append(fs, Top.to, Text))
  BY DEF WrtText, At, Others, Succeeds, Fails, Return, ToolInv
<1>2. WrtCall(Top)
  BY <1>1, TopOK, FrameKinds
<1>3. cmd.tool = "wrt" /\ Top.to \notin KeptData
  BY <1>2 DEF WrtCall
<1>4. FsInv'
  <2>1. CASE fs' = fs
    BY <1>1, <2>1, NothingStays
  <2>2. CASE fs' = append(fs, Top.to, Text)
    <3> DEFINE v == Append(fs.data[Top.to], Text)
    <3>1. fs' = Tree(fs.node, [fs.data EXCEPT ![Top.to] = v])
      BY <2>2 DEF append
    <3> HIDE DEF v
    <3>2. cmd.tool # "mkdir"
      BY <1>3
    <3> QED
      BY <1>1, <1>3, <3>1, <3>2, WriteStays
  <2> QED
    BY <1>1, <2>1, <2>2
<1> QED
  BY <1>1, <1>3, <1>4, SmallReturns

-----------------------------------------------------------------------------
(* The theorem about what is left alone.                                   *)

LEMMA StackSingle ==
  ASSUME NEW fr, FrameOK(fr)
  PROVE  Stack(<<fr>>)
<1> DEFINE T == {fr}
<1>1. <<fr>> \in Seq(T) /\ \A x \in T : FrameOK(x)
  OBVIOUS
<1> HIDE DEF T
<1> QED
  BY <1>1 DEF Stack

LEMMA InitOK ==
  ASSUME Init, Confined
  PROVE  ToolInv
<1>1. Started /\ fs = fs0 /\ fs \in Trees
  BY DEF Init, Started
<1>2. IsTree(fs) /\ DOMAIN fs.node \subseteq Path
  BY <1>1, TreeThere, TreeParts
<1>3. fs.data \in Seq(Seq(STRING))
  BY <1>2 DEF IsTree
<1>4. FsInv
  <2>1. Data(fs)
    BY <1>3 DEF Data
  <2>2. Len(fs0.data) <= Len(fs.data)
    BY <1>1, <2>1, DataParts
  <2>3. PlacesOK /\ DataOK
    BY <1>1 DEF PlacesOK, DataOK, KeptData
  <2>4. MoreDirs(fs, fs0) /\ Shrunk(fs, fs0)
    BY <1>1, <1>2 DEF MoreDirs, Extends, Shrunk
  <2> QED
    BY <2>1, <2>2, <2>3, <2>4 DEF FsInv
<1>5. CASE todo = <<>>
  <2>1. Late
    BY <1>5 DEF Late, LineUp, LastDone, At, Running
  <2>2. Stack(todo)
    BY <1>5, StackEmpty
  <2> QED
    BY <1>1, <1>4, <2>1, <2>2 DEF ToolInv
<1>6. CASE todo # <<>>
  <2> DEFINE l == Sources(cmd)
             i == is_dir(fs, Last(cmd.args))
             m == MainFrame(l, i)
  <2>1. todo = <<m>>
    BY <1>6 DEF Init
  <2>2. m.op = "main" /\ m.left = l /\ m.into = i
    BY DEF MainFrame
  <2>3. l \in Seq(SrcArgs) /\ Len(l) \in Nat
    BY <1>1, Args, LenProperties
  <2>4. FrameOK(m)
    <3>1. Len(m.left) <= Len(Sources(cmd))
      BY <2>2, <2>3
    <3>2. m = MainFrame(m.left, m.into)
      BY <2>2
    <3>3. i = is_dir(fs0, Last(cmd.args))
      BY <1>1
    <3> HIDE DEF m, i
    <3>4. MainCall(m)
      BY <2>2, <2>3, <3>1, <3>2, <3>3 DEF MainCall
    <3> QED
      BY <3>4 DEF FrameOK
  <2> HIDE DEF m
  <2>5. Stack(todo)
    BY <2>1, <2>4, StackSingle
  <2>6. Top = m /\ LineUp
    BY <2>1, <2>2 DEF Top, LineUp
  <2>7. Late
    BY <1>1, <1>2, <2>2, <2>6 DEF Late, At, Shrunk
  <2> QED
    BY <1>1, <1>4, <2>5, <2>7 DEF ToolInv
<1> QED
  BY <1>5, <1>6

LEMMA StutterOK ==
  ASSUME ToolInv, UNCHANGED toolVars
  PROVE  ToolInv'
<1>1. UNCHANGED <<fs, todo, cmd, fs0>>
  BY DEF toolVars
<1>2. Stack(todo')
  BY <1>1 DEF ToolInv
<1>3. ASSUME cmd.tool \in {"mv", "ln"} PROVE Late'
  <2>1. Late
    BY <1>3 DEF ToolInv
  <2>2. Top' = Top /\ (Running' <=> Running)
    BY <1>1 DEF Top, Running
  <2>3. LineUp' /\ (LastDone' <=> LastDone) /\ \A op : At(op)' <=> At(op)
    BY <1>1, <2>1, <2>2 DEF Late, LineUp, LastDone, At
  <2>4. Inside(Named(fs, Top.src))' <=> Inside(Named(fs, Top.src))
    <3>1. \A y : Allowed(y)' <=> Allowed(y)
      BY <1>1, FixedMore
    <3> QED
      BY <1>1, <2>2, <3>1 DEF Inside
  <2> QED
    BY <1>1, <2>1, <2>2, <2>3, <2>4 DEF Late
<1> QED
  BY <1>1, <1>2, <1>3, KeptStep

LEMMA StepOK ==
  ASSUME ToolInv, Confined, [ToolNext]_toolVars
  PROVE  ToolInv' /\ Confined'
<1>1. CASE UNCHANGED toolVars
  BY <1>1, StutterOK, Fixed DEF toolVars
<1>2. CASE NextArgument
  BY <1>2, NextArgumentOK, Fixed DEF NextArgument
<1>3. CASE copy_file
  BY <1>3, CopyOpenOK, CopyBlockOK, CopyCloseOK, Fixed
     DEF copy_file, CopyOpen, CopyBlock, CopyClose, Others
<1>4. CASE mv_one
  BY <1>4, MvRenameOK, MvAcrossOK, MvLinkOK, MvCopiedOK, MvUnlinkOK, Fixed
     DEF mv_one, MvRename, MvAcross, MvLink, MvCopied, MvUnlink, Quiet, Others
<1>5. CASE cp_tree
  <2>1. ~At("cpLink") /\ ~At("cpDir") /\ ~At("cpList") /\ ~At("cpEntry")
    BY TopOK, FrameKinds DEF At
  <2>2. ~CpLink /\ ~CpDir /\ ~CpList /\ ~CpEntry
    BY <2>1 DEF CpLink, CpDir, CpList, CpEntry
  <2> QED
    BY <1>5, <2>2, CpTreeOK, CpCopiedOK, CpForceOK, Fixed
       DEF cp_tree, CpTree, CpCopied, CpForce, Quiet, Others
<1>6. CASE rm_tree
  BY <1>6, RmOK, RmTreeOK, RmListOK, RmEntryOK, RmDirOK, RmUnlinkOK, Fixed
     DEF rm_tree, Rm, RmTree, RmList, RmEntry, RmDir, RmUnlink, Quiet, Others, Lasting
<1>7. CASE Small
  BY <1>7, LnForceOK, LnMakeOK, MkdirOK, MkdirPOK, TouchOK, CatOpenOK, CatReadOK, WrtOpenOK,
     WrtTextOK, Fixed
     DEF Small, LnForce, LnMake, Mkdir, mkdir_p, Touch, CatOpen, CatRead, WrtOpen, WrtText,
         Quiet, Others
<1>8. CASE Kill
  BY <1>8, KillOK, Fixed DEF Kill
<1>9. CASE Meddle
  BY <1>9, MeddleOK, Fixed DEF Meddle
<1> QED
  BY <1>1, <1>2, <1>3, <1>4, <1>5, <1>6, <1>7, <1>8, <1>9 DEF ToolNext, Tool

LEMMA InvOutside ==
  ASSUME ToolInv
  PROVE  OutsideUntouched
<1>1. PlacesOK /\ DataOK
  BY DEF ToolInv, FsInv
<1> QED
  BY <1>1 DEF OutsideUntouched, PlacesOK, DataOK, Spared, Allowed, KeptData

LEMMA ConfinedStays ==
  ASSUME [ToolNext]_toolVars
  PROVE  Confined' <=> Confined
BY Fixed
   DEF ToolNext, Tool, NextArgument, copy_file, CopyOpen, CopyBlock, CopyClose, mv_one, MvRename,
       MvAcross, MvLink, MvCopied, MvUnlink, cp_tree, CpTree, CpLink, CpDir, CpList, CpEntry,
       CpCopied, CpForce, rm_tree, Rm, RmTree, RmList, RmEntry, RmDir, RmUnlink, Small, LnForce,
       LnMake, Mkdir, mkdir_p, Touch, CatOpen, CatRead, WrtOpen, WrtText, Kill, Meddle,
       Quiet, Others, Lasting, toolVars

(* A command changes nothing but what its arguments name, however its      *)
(* calls fail, wherever it is killed, and whatever files another process   *)
(* makes or removes and whatever links it removes meanwhile: for every     *)
(* file system, every argument, every depth and number of links, of cp     *)
(* without -r (ex_copy.c:41), of mv with one source (ex_files.c:472), and  *)
(* of rm -r, rmdir, ln, mkdir -p, touch, cat and wrt.  mv and mkdir have   *)
(* no other process beside them.  The theorem says nothing of a process    *)
(* that makes a link or a directory or removes a directory: one that puts  *)
(* a link where rm's lstat saw a directory, before rm opens it             *)
(* (ex_files.c:245), sends rm -r out of its tree.                          *)
THEOREM OutsideUntouchedHolds == ToolSpec => [](Confined => OutsideUntouched)
<1>1. Init => (Confined => ToolInv)
  BY InitOK
<1>2. (Confined => ToolInv) /\ [ToolNext]_toolVars => (Confined => ToolInv)'
  BY StepOK, ConfinedStays
<1>3. (Confined => ToolInv) => (Confined => OutsideUntouched)
  BY InvOutside
<1> QED
  BY <1>1, <1>2, <1>3, PTL DEF ToolSpec

-----------------------------------------------------------------------------
(* lstat and stat after names were removed, and after some were made.      *)

LEMMA Gone ==
  ASSUME NEW f, NEW p
  PROVE  lstat(f, p) = {} <=> \A x \in Named(f, p) : x \notin DOMAIN f.node
BY DEF lstat

\* what is gone stays so, unless it is made again where it was
LEMMA StaysGone ==
  ASSUME NEW f, NEW f0, Shrunk(f, f0), LinksOk(f), LinksOk(f0), NEW p \in Path,
         lstat(f0, p) = {},
         \A x \in Named(f0, p) : x \in DOMAIN f.node => x \in DOMAIN f0.node
  PROVE  lstat(f, p) = {}
BY FewerNamed, Gone

LEMMA RemovedParts ==
  ASSUME NEW f, DOMAIN f.node \subseteq Path, LinksOk(f), NEW q
  PROVE  /\ DOMAIN Removed(f, {q}).node = DOMAIN f.node \ {q}
         /\ \A x \in DOMAIN f.node \ {q} : Removed(f, {q}).node[x] = f.node[x]
         /\ Shrunk(Removed(f, {q}), f) /\ LinksOk(Removed(f, {q}))
<1> DEFINE g == Removed(f, {q})
<1>1. g.node = [x \in (DOMAIN f.node) \cap (DOMAIN f.node \ {q}) |-> f.node[x]]
  BY DEF Removed, Tree, Restrict
<1> HIDE DEF g
<1>2. /\ DOMAIN g.node = DOMAIN f.node \ {q}
      /\ \A x \in DOMAIN f.node \ {q} : g.node[x] = f.node[x]
  BY <1>1
<1>3. Shrunk(g, f) /\ LinksOk(g)
  BY <1>2 DEF Shrunk, LinksOk, Links
<1> QED
  BY <1>2, <1>3 DEF g

LEMMA RemovedGone ==
  ASSUME NEW f, DOMAIN f.node \subseteq Path, LinksOk(f), NEW p \in Path, NEW q \in Named(f, p)
  PROVE  lstat(Removed(f, {q}), p) = {}
<1> DEFINE g == Removed(f, {q})
<1>1. DOMAIN g.node = DOMAIN f.node \ {q} /\ Shrunk(g, f) /\ LinksOk(g)
  BY RemovedParts
<1> HIDE DEF g
<1>2. ASSUME NEW x \in Named(g, p) PROVE x \notin DOMAIN g.node
  <2>1. x \in Named(f, p)
    BY <1>1, FewerNamed
  <2>2. x = q
    BY <2>1, NamedOnce
  <2> QED
    BY <1>1, <2>2
<1>3. lstat(g, p) = {}
  BY <1>2, Gone
<1> QED
  BY <1>3 DEF g

\* what was there is found as before when names are made
LEMMA StaysThere ==
  ASSUME NEW f, NEW f0, LinksOk(f), LinksOk(f0), Extends(f, f0), NEW p \in Path
  PROVE  stat(f0, p) \subseteq stat(f, p)
<1> SUFFICES ASSUME NEW x \in Real(f0, p), x \in DOMAIN f0.node
    PROVE  f0.node[x] \in stat(f, p)
  BY DEF stat
<1>1. x \in Real(f, p)
  BY ExtendedLeads, LinksRange DEF Real
<1> QED
  BY <1>1 DEF stat, Extends

\* a name made is named as before
LEMMA MadeNamed ==
  ASSUME NEW f, NEW f0, LinksOk(f), LinksOk(f0), Extends(f, f0), NEW p \in Path
  PROVE  Named(f0, p) \subseteq Named(f, p)
<1>1. CASE p = <<>>
  BY <1>1 DEF Named
<1>2. CASE p # <<>>
  <2> SUFFICES ASSUME NEW q \in Named(f0, p) PROVE q \in Named(f, p)
    OBVIOUS
  <2>1. PICK d : Looked(f0, MaxLinks, p, d, q) /\ Len(q) <= MaxDepth
    BY <1>2, NamedBy
  <2>2. Front(p) \in Path
    BY <1>2, FrontIn
  <2>3. d \in DOMAIN f0.node /\ KindAt(f, d) = "dir"
    BY <2>1 DEF Looked, KindAt, Extends
  <2>4. Looked(f, MaxLinks, p, d, q)
    BY <2>1, <2>2, <2>3, ExtendedLeads, LinksRange DEF Looked
  <2> QED
    BY <1>2, <2>1, <2>4, NamedBy
<1> QED
  BY <1>1, <1>2

LEMMA PutParts ==
  ASSUME NEW f, NEW q, q \notin DOMAIN f.node, NEW n, LinksOk(f), n.kind = "link" => n.to \in Path
  PROVE  /\ Extends(Put(f, q, n), f) /\ LinksOk(Put(f, q, n))
         /\ q \in DOMAIN Put(f, q, n).node /\ Put(f, q, n).node[q] = n
         /\ DOMAIN Put(f, q, n).node = DOMAIN f.node \cup {q}
<1> DEFINE g == Put(f, q, n)
<1>1. g.node = [y \in DOMAIN f.node \cup {q} |-> IF y = q THEN n ELSE f.node[y]]
  BY DEF Put, Tree, With
<1> HIDE DEF g
<1>2. /\ DOMAIN g.node = DOMAIN f.node \cup {q} /\ g.node[q] = n
      /\ \A y \in DOMAIN f.node : g.node[y] = f.node[y]
  BY <1>1
<1>3. Extends(g, f)
  BY <1>2 DEF Extends
<1>4. LinksOk(g)
  BY <1>2 DEF LinksOk, Links
<1> QED
  BY <1>2, <1>3, <1>4 DEF g

\* lstat after a name was made
LEMMA PutNamed ==
  ASSUME NEW f, NEW p \in Path, NEW q \in Free(f, p), NEW n, LinksOk(f),
         n.kind = "link" => n.to \in Path
  PROVE  lstat(Put(f, q, n), p) = {n} /\ (n.kind # "link" => n \in stat(Put(f, q, n), p))
<1> DEFINE g == Put(f, q, n)
<1>0. q \in Named(f, p) /\ q \notin DOMAIN f.node
  BY DEF Free
<1>1. Extends(g, f) /\ LinksOk(g) /\ q \in DOMAIN g.node /\ g.node[q] = n
  BY <1>0, PutParts
<1> HIDE DEF g
<1>2. q \in Named(g, p)
  BY <1>0, <1>1, MadeNamed
<1>3. \A x \in Named(g, p) : x = q
  BY <1>1, <1>2, NamedOnce
<1>4. lstat(g, p) = {n}
  BY <1>1, <1>2, <1>3 DEF lstat
<1>5. ASSUME n.kind # "link" PROVE n \in stat(g, p)
  <2>1. KindAt(g, q) # "link"
    BY <1>1, <1>5 DEF KindAt
  <2>2. q \in Real(g, p)
    BY <1>1, <1>2, <2>1, NamedIsReal
  <2> QED
    BY <1>1, <2>2 DEF stat
<1> QED
  BY <1>4, <1>5 DEF g

LEMMA WithFileParts ==
  ASSUME NEW f, NEW q, q \notin DOMAIN f.node, LinksOk(f)
  PROVE  /\ Extends(WithFile(f, q), f) /\ LinksOk(WithFile(f, q))
         /\ q \in DOMAIN WithFile(f, q).node /\ KindAt(WithFile(f, q), q) = "file"
         /\ DOMAIN WithFile(f, q).node = DOMAIN f.node \cup {q}
<1> DEFINE n == File(NewIno(f))
           g == WithFile(f, q)
<1>1. n.kind = "file"
  BY DEF File
<1> HIDE DEF n
<1>2. g.node = [y \in DOMAIN f.node \cup {q} |-> IF y = q THEN n ELSE f.node[y]]
  BY DEF WithFile, Tree, With, n
<1> HIDE DEF g
<1>3. /\ DOMAIN g.node = DOMAIN f.node \cup {q} /\ g.node[q] = n
      /\ \A y \in DOMAIN f.node : g.node[y] = f.node[y]
  BY <1>2
<1>4. Extends(g, f)
  BY <1>3 DEF Extends
<1>5. LinksOk(g)
  BY <1>1, <1>3 DEF LinksOk, Links
<1>6. KindAt(g, q) = "file"
  BY <1>1, <1>3 DEF KindAt
<1> QED
  BY <1>3, <1>4, <1>5, <1>6 DEF g

\* a file made where a name leads is found by that name
LEMMA WithFileFound ==
  ASSUME NEW f, NEW p \in Path, NEW q \in Real(f, p), q \notin DOMAIN f.node, LinksOk(f)
  PROVE  stat(WithFile(f, q), p) # {}
<1> DEFINE g == WithFile(f, q)
<1>1. Extends(g, f) /\ LinksOk(g) /\ q \in DOMAIN g.node /\ KindAt(g, q) = "file"
  BY WithFileParts
<1> HIDE DEF g
<1>2. q \in Real(g, p)
  BY <1>1, GrownLeads, LinksRange DEF Real
<1>3. stat(g, p) # {}
  BY <1>1, <1>2 DEF stat
<1> QED
  BY <1>3 DEF g

-----------------------------------------------------------------------------
(* How far a command is: the arguments it has passed are done.             *)

\* The commands whose success is proved; none of the names rm is given is one
\* the other process makes.
Sure == /\ cmd.tool \in {"rm", "rmdir", "mkdir", "touch", "ln", "wrt"}
        /\ cmd.tool = "rm" => \A s \in SrcArgs : Named(fs0, s) \cap Meddled = {}

\* the part of SuccessMeansDone for these commands
Done(s) ==
  CASE cmd.tool = "rm" -> lstat(fs, s) = {}
    [] cmd.tool = "rmdir" -> lstat(fs, s) = {} /\ lstat(fs0, s) = {Dir}
    [] cmd.tool = "mkdir" -> is_dir(fs, s)
    [] cmd.tool = "touch" -> stat(fs, s) # {} \/ Flag("c")
    [] cmd.tool = "ln" -> IF Flag("s") THEN lstat(fs, Last(cmd.args)) = {Link(s)}
                          ELSE lstat(fs, Last(cmd.args)) = lstat(fs0, s)
    [] cmd.tool = "wrt" -> faults = 0 =>
         {Found(fs, n) : n \in stat(fs, s)} = {<<"file", <<Text>>>>}
    [] OTHER -> TRUE

Count == Len(Sources(cmd))
Nth(i) == Sources(cmd)[i]

\* main has called, or called and got the result of, the first k arguments
Passed(m, k) ==
  /\ m.op = "main" /\ k \in 0..Count
  /\ \E S : m.left \in Seq(S)
  /\ Len(m.left) = Count - k /\ \A i \in 1..(Count - k) : m.left[i] = Nth(k + i)
Working(k) ==
  /\ \A i \in 1..(Len(todo) - 1) : todo[i].op # "main"
  /\ Len(todo) > 1 => k > 0 /\ (cmd.tool # "wrt" => todo[Len(todo) - 1].src = Nth(k))
Told(k) ==
  rc = 0 => \A i \in 1..Count :
              i < k \/ (i = k /\ Len(todo) = 1 /\ ret = 0) => Done(Nth(i))
Progress ==
  IF todo = <<>> THEN rc = 0 => \A s \in SrcArgs : Done(s)
  ELSE \E k \in 0..Count : Passed(todo[Len(todo)], k) /\ Working(k) /\ Told(k)

LEMMA Counted ==
  ASSUME Started
  PROVE  /\ Count \in Nat /\ \A i \in 1..Count : Nth(i) \in SrcArgs
         /\ \A s \in SrcArgs : \E i \in 1..Count : s = Nth(i)
<1>1. Sources(cmd) \in Seq(SrcArgs)
  BY Args
<1>2. Count \in Nat /\ DOMAIN Sources(cmd) = 1..Count /\ \A i \in 1..Count : Nth(i) \in SrcArgs
  BY <1>1, LenProperties, ElementOfSeq DEF Count, Nth
<1>3. \A s \in SrcArgs : \E i \in 1..Count : s = Nth(i)
  BY <1>2 DEF SrcArgs, ToSet, Nth
<1> QED
  BY <1>2, <1>3

\* what the moves of the stack leave of it
LEMMA PopParts ==
  ASSUME NEW S, NEW s \in Seq(S), s # <<>>
  PROVE  /\ Len(s) \in Nat \ {0} /\ Len(Tail(s)) = Len(s) - 1 /\ Head(s) = s[1]
         /\ \A i \in 1..(Len(s) - 1) : Tail(s)[i] = s[i + 1]
         /\ Tail(s) \in Seq(S)
<1>1. Len(s) \in Nat /\ Len(s) # 0
  BY LenProperties, EmptySeq
<1>2. Tail(s) \in Seq(S) /\ Len(Tail(s)) = Len(s) - 1
      /\ \A i \in 1..Len(Tail(s)) : Tail(s)[i] = s[i + 1]
  BY HeadTailProperties
<1>3. Head(s) = s[1]
  OBVIOUS
<1> QED
  BY <1>1, <1>2, <1>3

LEMMA OnTopParts ==
  ASSUME NEW S, NEW s \in Seq(S), s # <<>>, NEW fr, NEW t, t = <<fr>> \o Tail(s)
  PROVE  Len(t) = Len(s) /\ t[1] = fr /\ \A i \in 2..Len(s) : t[i] = s[i]
<1> DEFINE T == S \cup {fr}
<1>1. s \in Seq(T) /\ <<fr>> \in Seq(T) /\ Len(<<fr>>) = 1 /\ <<fr>>[1] = fr
  BY SeqMonotonic
<1> HIDE DEF T
<1>2. /\ Len(s) \in Nat \ {0} /\ Len(Tail(s)) = Len(s) - 1 /\ Tail(s) \in Seq(T)
      /\ \A i \in 1..(Len(s) - 1) : Tail(s)[i] = s[i + 1]
  BY <1>1, PopParts
<1>3. /\ Len(t) = Len(<<fr>>) + Len(Tail(s))
      /\ \A i \in 1..Len(<<fr>>) + Len(Tail(s)) :
           t[i] = IF i <= Len(<<fr>>) THEN <<fr>>[i] ELSE Tail(s)[i - Len(<<fr>>)]
  BY <1>1, <1>2, ConcatProperties
<1>4. Len(t) = Len(s) /\ \A i \in 1..Len(s) : t[i] = IF i <= 1 THEN <<fr>>[i] ELSE Tail(s)[i - 1]
  BY <1>1, <1>2, <1>3
<1>5. t[1] = fr
  BY <1>1, <1>2, <1>4
<1>6. ASSUME NEW i \in 2..Len(s) PROVE t[i] = s[i]
  <2>1. t[i] = Tail(s)[i - 1] /\ i - 1 \in 1..(Len(s) - 1)
    BY <1>2, <1>4
  <2> QED
    BY <1>2, <2>1
<1> QED
  BY <1>4, <1>5, <1>6

LEMMA TwoOnTopParts ==
  ASSUME NEW S, NEW s \in Seq(S), s # <<>>, NEW a, NEW b, NEW t, t = <<a, b>> \o Tail(s)
  PROVE  Len(t) = Len(s) + 1 /\ t[1] = a /\ t[2] = b /\ \A i \in 3..(Len(s) + 1) : t[i] = s[i - 1]
<1> DEFINE T == S \cup {a, b}
<1>1. s \in Seq(T) /\ <<a, b>> \in Seq(T) /\ Len(<<a, b>>) = 2 /\ <<a, b>>[1] = a /\ <<a, b>>[2] = b
  BY SeqMonotonic
<1> HIDE DEF T
<1>2. /\ Len(s) \in Nat \ {0} /\ Len(Tail(s)) = Len(s) - 1 /\ Tail(s) \in Seq(T)
      /\ \A i \in 1..(Len(s) - 1) : Tail(s)[i] = s[i + 1]
  BY <1>1, PopParts
<1>3. /\ Len(t) = Len(<<a, b>>) + Len(Tail(s))
      /\ \A i \in 1..Len(<<a, b>>) + Len(Tail(s)) :
           t[i] = IF i <= Len(<<a, b>>) THEN <<a, b>>[i] ELSE Tail(s)[i - Len(<<a, b>>)]
  BY <1>1, <1>2, ConcatProperties
<1>4. /\ Len(t) = Len(s) + 1
      /\ \A i \in 1..(Len(s) + 1) : t[i] = IF i <= 2 THEN <<a, b>>[i] ELSE Tail(s)[i - 2]
  BY <1>1, <1>2, <1>3
<1>5. t[1] = a /\ t[2] = b
  BY <1>1, <1>2, <1>4
<1>6. ASSUME NEW i \in 3..(Len(s) + 1) PROVE t[i] = s[i - 1]
  <2>1. t[i] = Tail(s)[i - 2] /\ i - 2 \in 1..(Len(s) - 1) /\ (i - 2) + 1 = i - 1
    BY <1>2, <1>4
  <2> QED
    BY <1>2, <2>1
<1> QED
  BY <1>4, <1>5, <1>6

\* what is done stays done, but for a command of one argument, which is over then
Kept == Count = 1 \/ \A i \in 1..Count : Done(Nth(i)) => Done(Nth(i))'

LEMMA SameArguments ==
  ASSUME UNCHANGED cmd
  PROVE  Count' = Count /\ (\A i : Nth(i)' = Nth(i)) /\ SrcArgs' = SrcArgs
<1>1. Sources(cmd)' = Sources(cmd)
  BY DEF Sources, ToDst
<1> QED
  BY <1>1 DEF Count, Nth, SrcArgs

\* a frame of the command's own is on top: what is below it
LEMMA Within ==
  ASSUME Progress, Stack(todo), Running, Top.op # "main"
  PROVE  /\ Len(todo) \in Nat /\ Len(todo) > 1 /\ todo # <<>>
         /\ \E S : todo \in Seq(S)
         /\ \E k \in 1..Count : Passed(todo[Len(todo)], k) /\ Working(k) /\ Told(k)
<1>1. todo # <<>>
  BY DEF Running
<1>2. PICK S : todo \in Seq(S)
  BY DEF Stack
<1>3. PICK k \in 0..Count : Passed(todo[Len(todo)], k) /\ Working(k) /\ Told(k)
  BY <1>1 DEF Progress
<1>4. Len(todo) \in Nat \ {0} /\ Head(todo) = todo[1]
  BY <1>1, <1>2, PopParts
<1>5. Len(todo) # 1
  BY <1>3, <1>4 DEF Passed, Top
<1>6. Len(todo) > 1
  <2> DEFINE n == Len(todo)
  <2>1. n \in Nat \ {0} /\ n # 1
    BY <1>4, <1>5
  <2> HIDE DEF n
  <2>2. n > 1
    BY <2>1
  <2> QED
    BY <2>2 DEF n
<1>7. k > 0
  BY <1>3, <1>6, Zenon DEF Working
<1> QED
  BY <1>1, <1>2, <1>3, <1>4, <1>5, <1>6, <1>7

\* the arguments before the one worked on stay done
LEMMA StillTold ==
  ASSUME Started, UNCHANGED <<cmd, rc>>, NEW k \in 1..Count, Told(k), Kept
  PROVE  rc' = 0 => \A i \in 1..Count : i < k => Done(Nth(i))'
<1>1. Count \in Nat
  BY Counted
<1> SUFFICES ASSUME rc' = 0, NEW i \in 1..Count, i < k PROVE Done(Nth(i))'
  OBVIOUS
<1>2. Done(Nth(i))
  BY DEF Told
<1>3. Count # 1
  BY <1>1
<1> QED
  BY <1>2, <1>3 DEF Kept

LEMMA PassedStays ==
  ASSUME UNCHANGED cmd, NEW k, NEW j, NEW n, todo'[n] = todo[j], Passed(todo[j], k)
  PROVE  Passed(todo[n], k)'
BY SameArguments DEF Passed

LEMMA ReturnProgress ==
  ASSUME Started, Progress, Stack(todo), Running, Top.op # "main", UNCHANGED <<cmd, rc>>,
         NEW r, Return(r), Kept,
         r = 0 => \A s \in SrcArgs : (cmd.tool = "wrt" \/ s = Top.src) => Done(s)'
  PROVE  Progress'
<1>1. PICK S : todo \in Seq(S)
  BY Within
<1>2. PICK k \in 1..Count : Passed(todo[Len(todo)], k) /\ Working(k) /\ Told(k)
  BY Within
<1> DEFINE n == Len(todo)
<1>3. n \in Nat /\ n > 1 /\ todo # <<>>
  BY Within
<1>4. todo' = Tail(todo) /\ ret' = r
  BY DEF Return
<1>5. Len(todo') = n - 1 /\ (\A i \in 1..(n - 1) : todo'[i] = todo[i + 1]) /\ Top = todo[1]
  BY <1>1, <1>3, <1>4, PopParts DEF Top
<1>6. todo' # <<>>
  BY <1>3, <1>5
<1>7. Passed(todo[Len(todo)], k)'
  <2>1. todo'[n - 1] = todo[n] /\ Len(todo') = n - 1
    BY <1>3, <1>5
  <2> QED
    BY <1>2, <2>1, PassedStays
<1>8. Working(k)'
  <2>1. ASSUME NEW i \in 1..(n - 2) PROVE todo'[i].op # "main"
    <3>1. todo'[i] = todo[i + 1] /\ i + 1 \in 1..(n - 1)
      BY <1>3, <1>5
    <3> QED
      BY <1>2, <3>1 DEF Working
  <2>2. ASSUME n - 1 > 1, cmd.tool # "wrt" PROVE todo'[n - 2].src = Nth(k)'
    <3>1. todo'[n - 2] = todo[n - 1]
      BY <1>3, <1>5, <2>2
    <3> QED
      BY <1>2, <1>3, <2>2, <3>1, SameArguments DEF Working
  <2>3. k > 0 /\ Len(todo') - 1 = n - 2
    BY <1>3, <1>5
  <2> QED
    BY <1>5, <2>1, <2>2, <2>3 DEF Working
<1>9. Told(k)'
  <2> SUFFICES ASSUME rc' = 0, NEW i \in 1..Count, i < k \/ (i = k /\ n - 1 = 1 /\ r = 0)
      PROVE  Done(Nth(i))'
    BY <1>4, <1>5, SameArguments DEF Told
  <2>1. CASE i < k
    BY <1>2, <2>1, StillTold
  <2>2. CASE i = k /\ n - 1 = 1 /\ r = 0
    <3>0. cmd.tool # "wrt" => todo[n - 1].src = Nth(k)
      BY <1>2, <1>3, Zenon DEF Working
    <3>1. cmd.tool # "wrt" => todo[1].src = Nth(k)
      BY <2>2, <3>0
    <3>2. Nth(k) \in SrcArgs
      BY Counted
    <3>3. \A s \in SrcArgs : s = Nth(k) => Done(s)'
      BY <1>5, <2>2, <3>1
    <3>4. Nth(i)' = Nth(k)
      BY <2>2, SameArguments
    <3> QED
      BY <3>2, <3>3, <3>4 DEF Done
  <2> QED
    BY <2>1, <2>2
<1>10. k \in 0..Count'
  BY SameArguments
<1> QED
  BY <1>6, <1>7, <1>8, <1>9, <1>10 DEF Progress

LEMMA BecomeProgress ==
  ASSUME Started, Progress, Stack(todo), Running, Top.op # "main", UNCHANGED <<cmd, rc>>,
         NEW fr, Become(fr), Kept, fr.op # "main", cmd.tool # "wrt" => fr.src = Top.src
  PROVE  Progress'
<1>1. PICK S : todo \in Seq(S)
  BY Within
<1>2. PICK k \in 1..Count : Passed(todo[Len(todo)], k) /\ Working(k) /\ Told(k)
  BY Within
<1> DEFINE n == Len(todo)
<1>3. n \in Nat /\ n > 1 /\ todo # <<>>
  BY Within
<1>4. todo' = <<fr>> \o Tail(todo)
  BY DEF Become
<1>5. Len(todo') = n /\ todo'[1] = fr /\ \A i \in 2..n : todo'[i] = todo[i]
  BY <1>1, <1>3, <1>4, OnTopParts
<1>6. Top = todo[1] /\ todo' # <<>>
  BY <1>1, <1>3, <1>5, PopParts DEF Top
<1>7. Passed(todo[Len(todo)], k)'
  <2>1. todo'[n] = todo[n]
    BY <1>3, <1>5
  <2> QED
    BY <1>2, <1>5, <2>1, PassedStays
<1>8. Working(k)'
  <2>1. ASSUME NEW i \in 1..(n - 1) PROVE todo'[i].op # "main"
    BY <1>2, <1>3, <1>5 DEF Working
  <2>2. ASSUME cmd.tool # "wrt" PROVE todo'[n - 1].src = Nth(k)'
    <3>1. todo[n - 1].src = Nth(k)
      BY <1>2, <1>3, <2>2 DEF Working
    <3>2. CASE n = 2
      BY <1>5, <1>6, <2>2, <3>1, <3>2, SameArguments
    <3>3. CASE n # 2
      BY <1>3, <1>5, <3>1, <3>3, SameArguments
    <3> QED
      BY <3>2, <3>3
  <2> QED
    BY <1>5, <2>1, <2>2 DEF Working
<1>9. Told(k)'
  <2>1. Len(todo') # 1
    BY <1>3, <1>5
  <2> QED
    BY <1>2, <2>1, StillTold, SameArguments DEF Told
<1>10. k \in 0..Count'
  BY SameArguments
<1> QED
  BY <1>6, <1>7, <1>8, <1>9, <1>10 DEF Progress

LEMMA CallProgress ==
  ASSUME Started, Progress, Stack(todo), Running, Top.op # "main", UNCHANGED <<cmd, rc>>,
         NEW fr, NEW next, CallThen(fr, next), Kept, fr.op # "main", next.op # "main",
         cmd.tool # "wrt", next.src = Top.src
  PROVE  Progress'
<1>1. PICK S : todo \in Seq(S)
  BY Within
<1>2. PICK k \in 1..Count : Passed(todo[Len(todo)], k) /\ Working(k) /\ Told(k)
  BY Within
<1> DEFINE n == Len(todo)
<1>3. n \in Nat /\ n > 1 /\ todo # <<>>
  BY Within
<1>4. todo' = <<fr, next>> \o Tail(todo)
  BY DEF CallThen
<1>5. /\ Len(todo') = n + 1 /\ todo'[1] = fr /\ todo'[2] = next
      /\ \A i \in 3..(n + 1) : todo'[i] = todo[i - 1]
  BY <1>1, <1>3, <1>4, TwoOnTopParts
<1>6. Top = todo[1] /\ todo' # <<>>
  BY <1>1, <1>3, <1>5, PopParts DEF Top
<1>7. Passed(todo[Len(todo)], k)'
  <2>1. todo'[n + 1] = todo[n]
    BY <1>3, <1>5
  <2> QED
    BY <1>2, <1>5, <2>1, PassedStays
<1>8. Working(k)'
  <2>1. ASSUME NEW i \in 1..n PROVE todo'[i].op # "main"
    <3>1. CASE i \in {1, 2}
      BY <1>5, <3>1
    <3>2. CASE i \notin {1, 2}
      <4>1. todo'[i] = todo[i - 1] /\ i - 1 \in 1..(n - 1)
        BY <1>3, <1>5, <3>2
      <4> QED
        BY <1>2, <4>1 DEF Working
    <3> QED
      BY <3>1, <3>2
  <2>2. todo'[n].src = Nth(k)'
    <3>1. todo[n - 1].src = Nth(k)
      BY <1>2, <1>3 DEF Working
    <3>2. CASE n = 2
      BY <1>5, <1>6, <3>1, <3>2, SameArguments
    <3>3. CASE n # 2
      <4>1. n \in 3..(n + 1)
        <5> HIDE DEF n
        <5> QED
          BY <1>3, <3>3
      <4>2. todo'[n] = todo[n - 1]
        BY <1>5, <4>1
      <4> QED
        BY <3>1, <4>2, SameArguments
    <3> QED
      BY <3>2, <3>3
  <2>3. (n + 1) - 1 = n /\ n + 1 > 1 /\ k > 0
    BY <1>3
  <2> QED
    BY <1>5, <2>1, <2>2, <2>3 DEF Working
<1>9. Told(k)'
  <2>1. Len(todo') # 1
    BY <1>3, <1>5
  <2> QED
    BY <1>2, <2>1, StillTold, SameArguments DEF Told
<1>10. k \in 0..Count'
  BY SameArguments
<1> QED
  BY <1>6, <1>7, <1>8, <1>9, <1>10 DEF Progress

LEMMA KeptBy ==
  ASSUME Started, UNCHANGED cmd, \A s \in SrcArgs : Done(s) => Done(s)'
  PROVE  Kept
<1> SUFFICES ASSUME NEW i \in 1..Count, Done(Nth(i)) PROVE Done(Nth(i))'
  BY DEF Kept
<1>1. PICK s \in SrcArgs : s = Nth(i)
  BY Counted
<1>2. Done(s)
  BY <1>1 DEF Done
<1>3. Done(s)'
  BY <1>2
<1>4. Nth(i)' = s
  BY <1>1, SameArguments
<1> QED
  BY <1>3, <1>4 DEF Done

LEMMA DoneSame ==
  ASSUME UNCHANGED <<fs, fs0, cmd, faults>>, NEW s
  PROVE  Done(s)' <=> Done(s)
BY DEF Done, Flag, lstat, stat, is_dir

LEMMA KeptSame ==
  ASSUME Started, UNCHANGED <<fs, fs0, cmd, faults>>
  PROVE  Kept
BY KeptBy, DoneSame

LEMMA StayProgress ==
  ASSUME Started, Progress, UNCHANGED <<todo, ret, rc, cmd>>, \A s \in SrcArgs : Done(s) => Done(s)'
  PROVE  Progress'
<1>1. CASE todo = <<>>
  BY <1>1, SameArguments DEF Progress
<1>2. CASE todo # <<>>
  <2>1. PICK k \in 0..Count : Passed(todo[Len(todo)], k) /\ Working(k) /\ Told(k)
    BY <1>2 DEF Progress
  <2>2. Passed(todo[Len(todo)], k)' /\ Working(k)'
    BY <2>1, SameArguments DEF Passed, Working
  <2>3. \A i \in 1..Count : Done(Nth(i)) => Done(Nth(i))'
    <3> SUFFICES ASSUME NEW i \in 1..Count, Done(Nth(i)) PROVE Done(Nth(i))'
      OBVIOUS
    <3>1. PICK s \in SrcArgs : s = Nth(i)
      BY Counted
    <3>2. Done(s)
      BY <3>1 DEF Done
    <3>3. Done(s)'
      BY <3>2
    <3>4. Nth(i)' = s
      BY <3>1, SameArguments
    <3> QED
      BY <3>3, <3>4 DEF Done
  <2>4. Told(k)'
    BY <2>1, <2>3, SameArguments DEF Told
  <2>5. k \in 0..Count' /\ todo' # <<>>
    BY <1>2, SameArguments
  <2> QED
    BY <2>2, <2>4, <2>5 DEF Progress
<1> QED
  BY <1>1, <1>2

LEMMA KillProgress == ASSUME Kill PROVE Progress'
<1>1. todo' = <<>> /\ rc' # 0
  BY DEF Kill
<1> QED
  BY <1>1 DEF Progress

LEMMA InitProgress ==
  ASSUME Init, Sure, Started
  PROVE  Progress
<1> DEFINE m == MainFrame(Sources(cmd), is_dir(fs, Last(cmd.args)))
<1>1. ~Refused(cmd, fs)
  BY DEF Sure, Refused, ToDst
<1>2. todo = <<m>> /\ m.op = "main" /\ m.left = Sources(cmd)
  BY <1>1 DEF Init, MainFrame
<1> HIDE DEF m
<1>3. Count \in Nat /\ Sources(cmd) \in Seq(SrcArgs)
  BY Counted, Args
<1>4. todo # <<>> /\ Len(todo) = 1 /\ todo[Len(todo)] = m
  BY <1>2
<1>5. Passed(m, 0)
  <2>1. \A i \in 1..(Count - 0) : m.left[i] = Nth(0 + i)
    BY <1>2, <1>3 DEF Nth
  <2>2. Len(m.left) = Count - 0 /\ 0 \in 0..Count
    BY <1>2, <1>3 DEF Count
  <2> QED
    BY <1>2, <1>3, <2>1, <2>2 DEF Passed
<1>6. Working(0)
  BY <1>4 DEF Working
<1>7. Told(0)
  BY <1>3 DEF Told
<1> QED
  BY <1>3, <1>4, <1>5, <1>6, <1>7 DEF Progress

\* main's frame is on top, and alone
LEMMA Alone ==
  ASSUME Progress, Stack(todo), At("main")
  PROVE  /\ Len(todo) = 1 /\ todo # <<>> /\ MainCall(Top) /\ Top = todo[1]
         /\ \E k \in 0..Count : Passed(Top, k) /\ Told(k)
<1>1. todo # <<>> /\ Top.op = "main"
  BY DEF At, Running
<1>2. PICK S : todo \in Seq(S)
  BY DEF Stack
<1>3. PICK k \in 0..Count : Passed(todo[Len(todo)], k) /\ Working(k) /\ Told(k)
  BY <1>1 DEF Progress
<1>4. Len(todo) \in Nat \ {0} /\ Top = todo[1]
  BY <1>1, <1>2, PopParts DEF Top
<1>5. Len(todo) = 1
  <2> SUFFICES ASSUME Len(todo) # 1 PROVE FALSE
    OBVIOUS
  <2> DEFINE n == Len(todo)
  <2>1. n \in Nat \ {0} /\ n # 1
    BY <1>4
  <2> HIDE DEF n
  <2>2. 1 \in 1..(n - 1)
    BY <2>1
  <2>3. todo[1].op # "main"
    BY <1>3, <2>2 DEF Working, n
  <2> QED
    BY <1>1, <1>4, <2>3
<1>6. FrameOK(Top)
  BY <1>1, StackParts DEF Top
<1>7. MainCall(Top)
  BY <1>1, <1>6, FrameKinds
<1> QED
  BY <1>1, <1>3, <1>4, <1>5, <1>7

LEMMA ArgumentProgress ==
  ASSUME Started, Progress, Stack(todo), NextArgument
  PROVE  Progress'
<1>1. At("main") /\ UNCHANGED <<fs, cmd, fs0, faults>>
  BY DEF NextArgument
<1>2. Len(todo) = 1 /\ todo # <<>> /\ MainCall(Top)
  BY <1>1, Alone
<1>3. PICK k \in 0..Count : Passed(Top, k) /\ Told(k)
  BY <1>1, Alone
<1>4. Count \in Nat
  BY Counted
<1>5. rc' = 0 => \A i \in 1..Count : i <= k => Done(Nth(i))
  <2> SUFFICES ASSUME rc' = 0, NEW i \in 1..Count, i <= k PROVE Done(Nth(i))
    OBVIOUS
  <2>1. rc = 0 /\ ret = 0
    BY DEF NextArgument
  <2>2. i < k \/ i = k
    BY <1>3, <1>4
  <2> QED
    BY <1>2, <1>3, <2>1, <2>2 DEF Told
<1>6. ret' = 0
  BY DEF NextArgument
<1>7. CASE Top.left = <<>>
  <2>1. todo' = <<>>
    BY <1>7 DEF NextArgument
  <2>2. Count = k
    <3>1. Len(Top.left) = Count - k /\ Len(Top.left) = 0
      BY <1>3, <1>7 DEF Passed
    <3> HIDE DEF Count
    <3> QED
      BY <1>3, <1>4, <3>1
  <2>3. ASSUME rc' = 0, NEW s \in SrcArgs PROVE Done(s)'
    <3>1. PICK i \in 1..Count : s = Nth(i)
      BY Counted
    <3>2. i <= k
      BY <1>4, <2>2
    <3>3. Done(Nth(i))
      BY <1>5, <2>3, <3>2
    <3>4. Done(s)
      BY <3>1, <3>3 DEF Done
    <3> QED
      BY <1>1, <3>4, DoneSame
  <2> QED
    BY <1>1, <2>1, <2>3, SameArguments DEF Progress
<1>8. CASE Top.left # <<>>
  <2> DEFINE s == Head(Top.left)
             fr == Frame(cmd.tool, s, IF ToDst(cmd) THEN target(Last(cmd.args), Top.into, s)
                                      ELSE Last(cmd.args))
             m == [Top EXCEPT !.left = Tail(@)]
  <2>1. todo' = <<fr, m>>
    BY <1>8 DEF NextArgument
  <2>2. PICK S : Top.left \in Seq(S)
    BY <1>3 DEF Passed
  <2>3. /\ Len(Top.left) \in Nat \ {0} /\ Len(Tail(Top.left)) = Len(Top.left) - 1
        /\ s = Top.left[1] /\ Tail(Top.left) \in Seq(S)
        /\ \A i \in 1..(Len(Top.left) - 1) : Tail(Top.left)[i] = Top.left[i + 1]
    BY <1>8, <2>2, PopParts
  <2>4. /\ k + 1 \in 1..Count /\ Len(Tail(Top.left)) = Count - (k + 1)
        /\ Len(Top.left) = Count - k
    <3> DEFINE n == Len(Top.left)
               c == Count
               t == Len(Tail(Top.left))
    <3>1. n \in Nat \ {0} /\ n = c - k /\ k \in 0..c /\ c \in Nat /\ t = n - 1
      BY <1>3, <1>4, <2>3 DEF Passed
    <3> HIDE DEF n, c, t
    <3>2. k + 1 \in 1..c /\ t = c - (k + 1)
      BY <3>1
    <3> QED
      BY <3>1, <3>2 DEF n, c, t
  <2>5. m.op = "main" /\ m.left = Tail(Top.left)
    <3>1. Top = MainFrame(Top.left, Top.into)
      BY <1>2 DEF MainCall
    <3> QED
      BY <3>1 DEF MainFrame
  <2>6. fr.op = cmd.tool /\ fr.src = s /\ cmd.tool # "main"
    BY Args DEF Frame
  <2> HIDE DEF fr, m
  <2>7. s = Nth(k + 1)
    <3>1. 1 \in 1..(Count - k)
      BY <1>4, <2>4
    <3> QED
      BY <1>3, <2>3, <3>1 DEF Passed
  <2>8. \A i \in 1..(Count - (k + 1)) : Tail(Top.left)[i] = Nth((k + 1) + i)
    <3> SUFFICES ASSUME NEW i \in 1..(Count - (k + 1))
        PROVE  Tail(Top.left)[i] = Nth((k + 1) + i)
      OBVIOUS
    <3>1. /\ i + 1 \in 1..(Count - k) /\ k + (i + 1) = (k + 1) + i
          /\ i \in 1..(Len(Top.left) - 1)
      BY <1>4, <2>4
    <3>2. Tail(Top.left)[i] = Top.left[i + 1] /\ Top.left[i + 1] = Nth(k + (i + 1))
      BY <1>3, <2>3, <3>1 DEF Passed
    <3> QED
      BY <3>1, <3>2
  <2>9. /\ todo' # <<>> /\ Len(todo') = 2 /\ todo'[1] = fr /\ todo'[2] = m
        /\ todo'[Len(todo')] = m /\ todo'[Len(todo') - 1] = fr
    BY <2>1
  <2>10. Passed(todo[Len(todo)], k + 1)'
    <3> DEFINE w == todo'[Len(todo')]
               c == Count
    <3>1. w = m /\ Count' = c /\ \A i : Nth(i)' = Nth(i)
      BY <1>1, <2>9, SameArguments
    <3>2. w.op = "main" /\ w.left = Tail(Top.left)
      BY <2>5, <3>1
    <3>3. /\ \E T : w.left \in Seq(T)
          /\ Len(w.left) = c - (k + 1) /\ k + 1 \in 0..c
          /\ \A i \in 1..(c - (k + 1)) : w.left[i] = Nth((k + 1) + i)
      BY <1>4, <2>3, <2>4, <2>8, <3>2
    <3> HIDE DEF w, c
    <3>4. /\ w.op = "main" /\ k + 1 \in 0..Count' /\ \E T : w.left \in Seq(T)
          /\ Len(w.left) = Count' - (k + 1)
          /\ \A i \in 1..(Count' - (k + 1)) : w.left[i] = Nth((k + 1) + i)'
      BY <3>1, <3>2, <3>3
    <3> QED
      BY <3>4 DEF Passed, w
  <2>11. Working(k + 1)'
    <3>1. \A i \in 1..(Len(todo') - 1) : todo'[i].op # "main"
      BY <2>6, <2>9
    <3> QED
      BY <1>1, <1>3, <1>4, <2>6, <2>7, <2>9, <3>1, SameArguments DEF Working
  <2>12. Told(k + 1)'
    <3> SUFFICES ASSUME rc' = 0, NEW i \in 1..Count, i < k + 1 PROVE Done(Nth(i))'
      BY <1>1, <2>9, SameArguments DEF Told
    <3>1. i <= k
      BY <1>3, <1>4
    <3>2. Done(Nth(i))
      BY <1>5, <3>1
    <3>3. PICK x \in SrcArgs : x = Nth(i)
      BY Counted
    <3>4. Done(x)
      BY <3>2, <3>3 DEF Done
    <3>5. Done(x)'
      BY <1>1, <3>4, DoneSame
    <3>6. Nth(i)' = x
      BY <1>1, <3>3, SameArguments
    <3> QED
      BY <3>5, <3>6 DEF Done
  <2>13. k + 1 \in 0..Count'
    BY <1>1, <1>4, <2>4, SameArguments
  <2> QED
    BY <2>9, <2>10, <2>11, <2>12, <2>13 DEF Progress
<1> QED
  BY <1>7, <1>8

-----------------------------------------------------------------------------
(* Removing, and making directories and files.                             *)

LEMMA LinksNow ==
  ASSUME Started, FsInv, cmd.tool \notin {"mv", "ln"}
  PROVE  /\ LinksOk(fs)
         /\ cmd.tool # "mkdir" => Shrunk(fs, fs0) /\ DOMAIN fs.node \subseteq Path
<1>1. IsTree(fs0)
  BY TreeThere
<1>2. CASE cmd.tool = "mkdir"
  BY <1>1, <1>2, MoreDirsLinks DEF FsInv
<1>3. CASE cmd.tool # "mkdir"
  <2>1. Shrunk(fs, fs0)
    BY <1>3 DEF FsInv
  <2> QED
    BY <1>1, <1>3, <2>1, ShrunkLinks DEF Shrunk
<1> QED
  BY <1>2, <1>3

\* what rm and rmdir have removed stays away
LEMMA KeptGone ==
  ASSUME Started, FsInv, Sure, cmd.tool \in {"rm", "rmdir"}, UNCHANGED <<cmd, fs0>>,
         Shrunk(fs', fs), LinksOk(fs'),
         \A x \in DOMAIN fs'.node : x \in DOMAIN fs.node \/ (cmd.tool = "rm" /\ x \in Meddled)
  PROVE  \A s \in SrcArgs : Done(s) => Done(s)'
<1> SUFFICES ASSUME NEW s \in SrcArgs, Done(s) PROVE Done(s)'
  OBVIOUS
<1>1. lstat(fs, s) = {} /\ (cmd.tool = "rmdir" => lstat(fs0, s) = {Dir})
  BY DEF Done
<1>2. LinksOk(fs) /\ Shrunk(fs, fs0) /\ s \in Path
  BY LinksNow, Args
<1>3. ASSUME NEW x \in Named(fs, s), x \in DOMAIN fs'.node PROVE x \in DOMAIN fs.node
  <2>1. x \in Named(fs0, s)
    BY <1>2, TreeThere, ShrunkNamed
  <2> QED
    BY <1>3, <2>1 DEF Sure
<1> DEFINE g == fs'
<1>4. lstat(g, s) = {}
  <2>1. Shrunk(g, fs) /\ LinksOk(g) /\ \A x \in Named(fs, s) : x \in DOMAIN g.node => x \in DOMAIN fs.node
    BY <1>3
  <2> HIDE DEF g
  <2> QED
    BY <1>1, <1>2, <2>1, StaysGone
<1> QED
  BY <1>1, <1>4 DEF Done

LEMMA RemovedNow ==
  ASSUME Started, FsInv, Sure, cmd.tool \in {"rm", "rmdir"}, UNCHANGED <<cmd, fs0>>,
         NEW q, fs' = Removed(fs, {q})
  PROVE  \A s \in SrcArgs : Done(s) => Done(s)'
<1>1. LinksOk(fs) /\ DOMAIN fs.node \subseteq Path
  BY LinksNow
<1>2. Shrunk(fs', fs) /\ LinksOk(fs') /\ DOMAIN fs'.node = DOMAIN fs.node \ {q}
  BY <1>1, RemovedParts
<1> QED
  BY <1>2, KeptGone

LEMMA RemovedDone ==
  ASSUME Started, FsInv, cmd.tool \in {"rm", "rmdir"}, UNCHANGED <<cmd, fs0>>,
         NEW s \in SrcArgs, NEW q \in Named(fs, s), fs' = Removed(fs, {q}),
         cmd.tool = "rmdir" => KindAt(fs, q) = "dir"
  PROVE  Done(s)'
<1>1. LinksOk(fs) /\ DOMAIN fs.node \subseteq Path /\ s \in Path /\ Shrunk(fs, fs0)
  BY LinksNow, Args
<1>2. lstat(fs', s) = {}
  BY <1>1, RemovedGone
<1>3. ASSUME cmd.tool = "rmdir" PROVE lstat(fs0, s) = {Dir}
  <2>1. KindAt(fs0, q) = "dir"
    BY <1>1, <1>3, ShrunkKinds
  <2>2. q \in DOMAIN fs0.node /\ fs0.node[q] = Dir
    BY <2>1, TreeThere, TreeParts DEF KindAt
  <2>3. q \in Named(fs0, s)
    BY <1>1, TreeThere, ShrunkNamed
  <2>4. \A x \in Named(fs0, s) : x = q
    BY <1>1, <2>3, TreeThere, NamedOnce
  <2> QED
    BY <2>2, <2>3, <2>4 DEF lstat
<1> QED
  BY <1>2, <1>3 DEF Done

\* a call of rm or rmdir at its own frame
LEMMA RmCallAt ==
  ASSUME ToolInv, Sure, Running, Top.op \in RmOps \cup {"rmEntry"}
  PROVE  /\ Started /\ FsInv /\ cmd.tool \in {"rm", "rmdir"} /\ Stack(todo)
         /\ Top.op # "main" /\ Top.src \in Path
         /\ Top.op \in RmOps => RmCall(Top)
         /\ Top.op = "rmEntry" => RmLoop(Top)
<1>1. Top.op \in RmOps => RmCall(Top)
  BY TopOK, FrameKinds
<1>2. Top.op = "rmEntry" => RmLoop(Top)
  BY TopOK, FrameKinds
<1> QED
  BY <1>1, <1>2 DEF ToolInv, RmCall, RmLoop, Calls, RmOps

\* what rm has removed stays removed while no call changes the file system
LEMMA RmKept ==
  ASSUME Started, cmd.tool \in {"rm", "rmdir"}, UNCHANGED <<fs, fs0, cmd, rc>>
  PROVE  Kept
<1>1. \A s \in SrcArgs : Done(s) => Done(s)'
  BY DEF Done, lstat
<1> QED
  BY <1>1, KeptBy

LEMMA RmProgress ==
  ASSUME ToolInv, Sure, Progress, Rm
  PROVE  Progress'
<1>1. /\ Running /\ Top.op = "rm" /\ Top.op \in RmOps /\ UNCHANGED <<fs, fs0, cmd, rc>>
  BY DEF Rm, At, Others, RmOps, Succeeds, Fails
<1>2. Started /\ Stack(todo) /\ cmd.tool \in {"rm", "rmdir"} /\ RmCall(Top) /\ Kept
  BY <1>1, RmCallAt, RmKept
<1>3. CASE Return(-1)
  BY <1>1, <1>2, <1>3, ReturnProgress
<1>4. CASE Become([Top EXCEPT !.op = "rmTree"])
  <2> DEFINE u == [Top EXCEPT !.op = "rmTree"]
  <2>1. u.op # "main" /\ u.src = Top.src
    BY <1>2 DEF RmCall, Calls
  <2> HIDE DEF u
  <2>2. Become(u)
    BY <1>4 DEF u
  <2> QED
    BY <1>1, <1>2, <2>1, <2>2, BecomeProgress
<1> QED
  BY <1>3, <1>4 DEF Rm

LEMMA RmTreeProgress ==
  ASSUME ToolInv, Sure, Progress, RmTree, missed \in Nat, missed' = 0
  PROVE  Progress'
<1>1. /\ Running /\ Top.op = "rmTree" /\ Top.op \in RmOps /\ UNCHANGED <<fs, fs0, cmd, rc>>
      /\ RmSeen({n.kind : n \in lstat(fs, Top.src)})
  BY DEF RmTree, At, Lasting, RmOps, Succeeds, Fails, Misses
<1>2. Started /\ Stack(todo) /\ cmd.tool \in {"rm", "rmdir"} /\ RmCall(Top) /\ Kept
  BY <1>1, RmCallAt, RmKept
<1>3. cmd.tool = "rm"
  BY <1>1, <1>2 DEF RmCall, Calls
<1>4. CASE lstat(fs, Top.src) = {} /\ \E r : Return(r)
  <2>1. PICK r : Return(r)
    BY <1>4
  <2>2. \A s \in SrcArgs : s = Top.src => Done(s)
    BY <1>3, <1>4 DEF Done
  <2>3. \A s \in SrcArgs : s = Top.src => Done(s)'
    BY <1>1, <1>3, <2>2 DEF Done, lstat
  <2> QED
    BY <1>1, <1>2, <1>3, <2>1, <2>3, ReturnProgress
<1>5. ASSUME NEW op \in {"rmList", "rmUnlink"}, Become([Top EXCEPT !.op = op])
      PROVE  Progress'
  <2> DEFINE u == [Top EXCEPT !.op = op]
  <2>1. u.op # "main" /\ u.src = Top.src
    BY <1>2 DEF RmCall, Calls
  <2> HIDE DEF u
  <2>2. Become(u)
    BY <1>5 DEF u
  <2> QED
    BY <1>1, <1>2, <2>1, <2>2, BecomeProgress
<1> QED
  BY <1>1, <1>4, <1>5 DEF RmSeen

LEMMA RmListProgress ==
  ASSUME ToolInv, Sure, Progress, RmList
  PROVE  Progress'
<1>1. /\ Running /\ Top.op = "rmList" /\ Top.op \in RmOps /\ UNCHANGED <<fs, fs0, cmd, rc>>
  BY DEF RmList, At, Others, RmOps, Succeeds, Fails
<1>2. Started /\ Stack(todo) /\ cmd.tool \in {"rm", "rmdir"} /\ RmCall(Top)
  BY <1>1, RmCallAt
<1>3. Kept
  BY <1>1, <1>2, RmKept
<1>4. ASSUME NEW names, Become([op |-> "rmEntry", src |-> Top.src, left |-> names])
      PROVE  Progress'
  <2> DEFINE u == [op |-> "rmEntry", src |-> Top.src, left |-> names]
  <2>1. u.op # "main" /\ u.src = Top.src
    OBVIOUS
  <2> HIDE DEF u
  <2>2. Become(u)
    BY <1>4 DEF u
  <2> QED
    BY <1>1, <1>2, <1>3, <2>1, <2>2, BecomeProgress
<1>5. CASE Become([Top EXCEPT !.op = "rmDir"])
  <2> DEFINE u == [Top EXCEPT !.op = "rmDir"]
  <2>1. u.op # "main" /\ u.src = Top.src
    BY <1>2 DEF RmCall, Calls
  <2> HIDE DEF u
  <2>2. Become(u)
    BY <1>5 DEF u
  <2> QED
    BY <1>1, <1>2, <1>3, <2>1, <2>2, BecomeProgress
<1> QED
  BY <1>4, <1>5 DEF RmList

LEMMA RmEntryProgress ==
  ASSUME ToolInv, Sure, Progress, RmEntry
  PROVE  Progress'
<1>1. /\ Running /\ Top.op = "rmEntry" /\ UNCHANGED <<fs, fs0, cmd, rc, faults>>
  BY DEF RmEntry, At, Quiet, Others
<1>2. Started /\ Stack(todo) /\ cmd.tool \in {"rm", "rmdir"} /\ RmLoop(Top) /\ Kept
  BY <1>1, RmCallAt, KeptSame
<1>3. CASE Become(Frame("rmDir", Top.src, Top.src))
  <2> DEFINE u == Frame("rmDir", Top.src, Top.src)
  <2>1. u.op # "main" /\ u.src = Top.src
    BY DEF Frame
  <2> HIDE DEF u
  <2>2. Become(u)
    BY <1>3 DEF u
  <2> QED
    BY <1>1, <1>2, <2>1, <2>2, BecomeProgress
<1>4. ASSUME NEW n \in Top.left,
             CallThen(Frame("rmTree", Append(Top.src, n), Top.src), [Top EXCEPT !.left = @ \ {n}])
      PROVE  Progress'
  <2> DEFINE u == Frame("rmTree", Append(Top.src, n), Top.src)
             v == [Top EXCEPT !.left = @ \ {n}]
  <2>1. u.op # "main" /\ v.op # "main" /\ v.src = Top.src
    BY <1>2 DEF Frame, RmLoop
  <2> HIDE DEF u, v
  <2>2. CallThen(u, v)
    BY <1>4 DEF u, v
  <2> QED
    BY <1>1, <1>2, <2>1, <2>2, CallProgress
<1> QED
  BY <1>3, <1>4 DEF RmEntry

LEMMA RmDirProgress ==
  ASSUME ToolInv, Sure, Progress, RmDir
  PROVE  Progress'
<1>1. /\ Running /\ Top.op \in RmOps /\ UNCHANGED <<fs0, cmd, rc>>
  BY DEF RmDir, At, Others, RmOps
<1>2. /\ Started /\ FsInv /\ Stack(todo) /\ cmd.tool \in {"rm", "rmdir"} /\ Top.op # "main"
  BY <1>1, RmCallAt
<1>3. CASE Succeeds(rmdir(fs, Top.src)) /\ Return(0)
  <2>1. PICK q \in Named(fs, Top.src) : KindAt(fs, q) = "dir" /\ fs' = Removed(fs, {q})
    BY <1>3 DEF Succeeds, rmdir
  <2>2. Kept
    BY <1>1, <1>2, <2>1, RemovedNow, KeptBy
  <2>3. \A s \in SrcArgs : s = Top.src => Done(s)'
    BY <1>1, <1>2, <2>1, RemovedDone
  <2> QED
    BY <1>1, <1>2, <1>3, <2>2, <2>3, ReturnProgress
<1>4. CASE Fails(rmdir(fs, Top.src)) /\ Return(-1)
  <2>1. \A s \in SrcArgs : Done(s) => Done(s)'
    BY <1>1, <1>2, <1>4 DEF Done, lstat, Fails
  <2> QED
    BY <1>1, <1>2, <1>4, <2>1, KeptBy, ReturnProgress
<1> QED
  BY <1>3, <1>4 DEF RmDir

LEMMA RmUnlinkProgress ==
  ASSUME ToolInv, Sure, Progress, RmUnlink
  PROVE  Progress'
<1>1. /\ Running /\ Top.op \in RmOps /\ Top.op = "rmUnlink" /\ UNCHANGED <<fs0, cmd, rc>>
  BY DEF RmUnlink, At, Others, RmOps
<1>2. /\ Started /\ FsInv /\ Stack(todo) /\ cmd.tool \in {"rm", "rmdir"} /\ Top.op # "main"
      /\ RmCall(Top)
  BY <1>1, RmCallAt
<1>3. cmd.tool = "rm"
  BY <1>1, <1>2 DEF RmCall, Calls
<1>4. CASE Succeeds(unlink(fs, Top.src)) /\ Return(0)
  <2>1. PICK q \in Named(fs, Top.src) : fs' = Removed(fs, {q})
    BY <1>4 DEF Succeeds, unlink
  <2>2. Kept
    BY <1>1, <1>2, <2>1, RemovedNow, KeptBy
  <2>3. \A s \in SrcArgs : s = Top.src => Done(s)'
    BY <1>1, <1>2, <1>3, <2>1, RemovedDone
  <2> QED
    BY <1>1, <1>2, <1>3, <1>4, <2>2, <2>3, ReturnProgress
<1>5. CASE Fails(unlink(fs, Top.src)) /\ Return(-1)
  <2>1. \A s \in SrcArgs : Done(s) => Done(s)'
    BY <1>1, <1>2, <1>5 DEF Done, lstat, Fails
  <2> QED
    BY <1>1, <1>2, <1>5, <2>1, KeptBy, ReturnProgress
<1> QED
  BY <1>4, <1>5 DEF RmUnlink

\* what mkdir and touch have made stays there
LEMMA KeptGrown ==
  ASSUME Started, cmd.tool \in {"mkdir", "touch"}, UNCHANGED <<cmd, fs0>>,
         LinksOk(fs), LinksOk(fs'), Extends(fs', fs)
  PROVE  \A s \in SrcArgs : Done(s) => Done(s)'
<1> SUFFICES ASSUME NEW s \in SrcArgs, Done(s) PROVE Done(s)'
  OBVIOUS
<1>1. s \in Path
  BY Args
<1>2. stat(fs, s) \subseteq stat(fs', s)
  BY <1>1, StaysThere
<1> QED
  BY <1>2 DEF Done, is_dir, Flag

LEMMA SmallFrame ==
  ASSUME ToolInv, Sure, Running, Top.op \in SmallOps
  PROVE  /\ Started /\ FsInv /\ Stack(todo) /\ Top.op # "main" /\ Top.src \in SrcArgs
         /\ Top.src \in Path /\ SmallCall(Top)
         /\ Top.op = cmd.tool \/ (Top.op = "lnMake" /\ cmd.tool = "ln")
BY SmallAt DEF ToolInv, SmallOps

LEMMA MadeDone ==
  ASSUME Started, LinksOk(fs), NEW p \in Path, fs' \in mkdir(fs, p)
  PROVE  /\ Extends(fs', fs) /\ LinksOk(fs') /\ is_dir(fs', p)
<1>1. PICK q \in Free(fs, p) : fs' = Put(fs, q, Dir)
  BY DEF mkdir
<1> DEFINE d == Dir
<1>2. d.kind # "link"
  BY DEF Dir
<1> HIDE DEF d
<1>3. q \notin DOMAIN fs.node /\ fs' = Put(fs, q, d)
  BY <1>1 DEF Free, d
<1>4. Extends(fs', fs) /\ LinksOk(fs')
  BY <1>2, <1>3, PutParts
<1>5. d \in stat(fs', p)
  BY <1>2, <1>3, PutNamed
<1> QED
  BY <1>4, <1>5 DEF is_dir, d

LEMMA MkdirProgress ==
  ASSUME ToolInv, Sure, Progress, Mkdir
  PROVE  Progress'
<1>1. /\ Running /\ Top.op = "mkdir" /\ Top.op \in SmallOps /\ UNCHANGED <<fs0, cmd, rc>>
  BY DEF Mkdir, At, Quiet, Others, SmallOps
<1>2. /\ Started /\ FsInv /\ Stack(todo) /\ Top.op # "main" /\ Top.src \in Path
      /\ cmd.tool = "mkdir" /\ LinksOk(fs)
  BY <1>1, SmallFrame, LinksNow
<1>3. CASE Become([op |-> "mkdirP", src |-> Top.src, upto |-> 1]) /\ Quiet
  <2> DEFINE u == [op |-> "mkdirP", src |-> Top.src, upto |-> 1]
  <2>1. u.op # "main" /\ u.src = Top.src
    OBVIOUS
  <2> HIDE DEF u
  <2>2. Become(u)
    BY <1>3 DEF u
  <2>3. Kept
    BY <1>1, <1>2, <1>3, KeptSame DEF Quiet
  <2> QED
    BY <1>1, <1>2, <2>1, <2>2, <2>3, BecomeProgress
<1>4. CASE Succeeds(mkdir(fs, Top.src)) /\ Return(0)
  <2>1. Extends(fs', fs) /\ LinksOk(fs') /\ is_dir(fs', Top.src)
    BY <1>2, <1>4, MadeDone DEF Succeeds
  <2>2. Kept
    BY <1>1, <1>2, <2>1, KeptGrown, KeptBy
  <2>3. \A s \in SrcArgs : s = Top.src => Done(s)'
    BY <1>1, <1>2, <2>1 DEF Done
  <2> QED
    BY <1>1, <1>2, <1>4, <2>2, <2>3, ReturnProgress
<1>5. CASE Fails(mkdir(fs, Top.src)) /\ Return(-1)
  <2>1. \A s \in SrcArgs : Done(s) => Done(s)'
    BY <1>1, <1>2, <1>5 DEF Done, Fails
  <2> QED
    BY <1>1, <1>2, <1>5, <2>1, KeptBy, ReturnProgress
<1> QED
  BY <1>3, <1>4, <1>5 DEF Mkdir

LEMMA MkdirPProgress ==
  ASSUME ToolInv, Sure, Progress, mkdir_p
  PROVE  Progress'
<1>1. Running /\ Top.op = "mkdirP" /\ UNCHANGED <<cmd, fs0, rc>> /\ Started /\ FsInv /\ Stack(todo)
  BY DEF mkdir_p, At, Others, ToolInv
<1>2. MkdirLoop(Top)
  BY <1>1, TopOK, FrameKinds
<1>3. /\ cmd.tool = "mkdir" /\ Top = [op |-> "mkdirP", src |-> Top.src, upto |-> Top.upto]
      /\ Top.src \in SrcArgs /\ Top.upto \in 1..Len(Top.src) /\ Top.src \in Path
      /\ Top.op # "main" /\ LinksOk(fs)
  BY <1>1, <1>2, Args, LinksNow DEF MkdirLoop
<1> DEFINE prefix == SubSeq(Top.src, 1, Top.upto)
           made == IF is_dir(fs, prefix) THEN {fs} ELSE mkdir(fs, prefix)
<1>4. prefix \in Path
  <2>1. Len(Top.src) \in Nat
    BY <1>3, LenProperties DEF Path
  <2>2. Top.upto \in 0..Len(Top.src)
    BY <1>3, <2>1
  <2> QED
    BY <1>3, <2>2, PrefixIn
<1>5. CASE Succeeds(made)
  <2>1. Extends(fs', fs) /\ LinksOk(fs') /\ is_dir(fs', prefix)
    <3> HIDE DEF prefix
    <3>1. CASE is_dir(fs, prefix)
      BY <1>3, <1>5, <3>1 DEF Succeeds, Extends
    <3>2. CASE ~is_dir(fs, prefix)
      BY <1>1, <1>3, <1>4, <1>5, <3>2, MadeDone DEF Succeeds
    <3> QED
      BY <3>1, <3>2
  <2>2. Kept
    BY <1>1, <1>3, <2>1, KeptGrown, KeptBy
  <2>3. CASE prefix = Top.src /\ Return(0)
    <3>1. \A s \in SrcArgs : s = Top.src => Done(s)'
      BY <1>1, <1>3, <2>1, <2>3 DEF Done
    <3> QED
      BY <1>1, <1>3, <2>2, <2>3, <3>1, ReturnProgress
  <2>4. CASE Become([Top EXCEPT !.upto = @ + 1])
    <3> DEFINE u == [Top EXCEPT !.upto = @ + 1]
    <3>1. u.op # "main" /\ u.src = Top.src
      BY <1>3
    <3> HIDE DEF u
    <3>2. Become(u)
      BY <2>4 DEF u
    <3> QED
      BY <1>1, <1>3, <2>2, <3>1, <3>2, BecomeProgress
  <2>5. (prefix = Top.src /\ Return(0)) \/ Become([Top EXCEPT !.upto = @ + 1]) \/ (Fails(made) /\ Return(-1))
    BY DEF mkdir_p
  <2>6. CASE Return(-1)
    BY <1>1, <1>3, <2>2, <2>6, ReturnProgress
  <2> QED
    BY <2>3, <2>4, <2>5, <2>6
<1>6. CASE Fails(made) /\ Return(-1)
  <2>1. \A s \in SrcArgs : Done(s) => Done(s)'
    BY <1>1, <1>3, <1>6 DEF Done, Fails
  <2> QED
    BY <1>1, <1>3, <1>6, <2>1, KeptBy, ReturnProgress
<1> QED
  BY <1>5, <1>6 DEF mkdir_p

LEMMA TouchProgress ==
  ASSUME ToolInv, Sure, Progress, Touch
  PROVE  Progress'
<1>1. /\ Running /\ Top.op = "touch" /\ Top.op \in SmallOps /\ UNCHANGED <<fs0, cmd, rc>>
  BY DEF Touch, At, Quiet, Others, SmallOps
<1>2. /\ Started /\ FsInv /\ Stack(todo) /\ Top.op # "main" /\ Top.src \in Path
      /\ cmd.tool = "touch" /\ LinksOk(fs)
  BY <1>1, SmallFrame, LinksNow
<1>3. CASE (stat(fs, Top.src) # {} \/ Flag("c")) /\ Return(0) /\ Quiet
  <2>1. \A s \in SrcArgs : s = Top.src => Done(s)
    BY <1>2, <1>3 DEF Done
  <2>2. UNCHANGED <<fs, fs0, cmd, faults>>
    BY <1>1, <1>3 DEF Quiet
  <2>3. Kept /\ \A s \in SrcArgs : s = Top.src => Done(s)'
    BY <1>2, <2>1, <2>2, KeptSame, DoneSame
  <2> QED
    BY <1>1, <1>2, <1>3, <2>3, ReturnProgress
<1> DEFINE made == {x[1] : x \in open_trunc(fs, Top.src, TRUE)}
<1>4. CASE stat(fs, Top.src) = {} /\ Succeeds(made) /\ Return(0)
  <2>1. PICK x \in open_trunc(fs, Top.src, TRUE) : fs' = x[1]
    BY <1>4 DEF Succeeds
  <2>2. PICK q \in Real(fs, Top.src) :
           \/ KindAt(fs, q) = "file"
           \/ q \notin DOMAIN fs.node /\ x[1] = WithFile(fs, q)
    <3> DEFINE c == TRUE
    <3>1. x \in open_trunc(fs, Top.src, c)
      OBVIOUS
    <3> HIDE DEF c
    <3>2. PICK q \in Real(fs, Top.src) :
           \/ /\ KindAt(fs, q) = "file" /\ x[2] = fs.node[q].ino
              /\ x[1] = Tree(fs.node, [fs.data EXCEPT ![fs.node[q].ino] = <<>>])
           \/ /\ c /\ q \notin DOMAIN fs.node
              /\ x[1] = WithFile(fs, q) /\ x[2] = NewIno(fs)
      BY <3>1, OpenedBy
    <3> QED
      BY <3>2
  <2>3. q \notin DOMAIN fs.node
    BY <1>4 DEF stat
  <2>4. fs' = WithFile(fs, q)
    BY <2>1, <2>2, <2>3 DEF KindAt
  <2>5. Extends(fs', fs) /\ LinksOk(fs') /\ stat(fs', Top.src) # {}
    BY <1>2, <2>3, <2>4, WithFileParts, WithFileFound
  <2>6. Kept
    BY <1>1, <1>2, <2>5, KeptGrown, KeptBy
  <2>7. \A s \in SrcArgs : s = Top.src => Done(s)'
    BY <1>1, <1>2, <2>5 DEF Done
  <2> QED
    BY <1>1, <1>2, <1>4, <2>6, <2>7, ReturnProgress
<1>5. CASE Fails(made) /\ Return(-1)
  <2>1. \A s \in SrcArgs : Done(s) => Done(s)'
    BY <1>1, <1>2, <1>5 DEF Done, Fails, Flag
  <2> QED
    BY <1>1, <1>2, <1>5, <2>1, KeptBy, ReturnProgress
<1> QED
  BY <1>3, <1>4, <1>5 DEF Touch

-----------------------------------------------------------------------------
(* ln and wrt.                                                             *)

LEMMA OneSource ==
  ASSUME Started, cmd.tool \in {"ln", "wrt"}
  PROVE  Count = 1 /\ Len(Sources(cmd)) = 1 /\ \A s, t \in SrcArgs : s = t
<1>1. Len(Sources(cmd)) = 1
  <2>1. CASE cmd.tool = "ln"
    BY <2>1, Args DEF Confined
  <2>2. CASE cmd.tool = "wrt"
    BY <2>2 DEF Sources, ToDst
  <2> QED
    BY <2>1, <2>2
<1>2. Count = 1
  BY <1>1 DEF Count
<1>3. \A s, t \in SrcArgs : s = t
  <2> SUFFICES ASSUME NEW s \in SrcArgs, NEW t \in SrcArgs PROVE s = t
    OBVIOUS
  <2>1. PICK i \in 1..1 : s = Nth(i)
    BY <1>2, Counted
  <2>2. PICK j \in 1..1 : t = Nth(j)
    BY <1>2, Counted
  <2> QED
    BY <2>1, <2>2
<1> QED
  BY <1>1, <1>2, <1>3

\* f has no name f0 has not
Less(f, f0) ==
  DOMAIN f.node \subseteq DOMAIN f0.node /\ \A q \in DOMAIN f.node : f.node[q] = f0.node[q]

\* the file t that wrt opened is empty
Emptied(t) ==
  \E s \in SrcArgs : \E q \in Real(fs0, s) \cap DOMAIN fs0.node :
    /\ KindAt(fs0, q) = "file" /\ fs0.node[q].ino = t
    /\ t \in DOMAIN fs.data /\ fs.data[t] = <<>>

\* before the change a file system is as it was, but for what ln -f removed
Before ==
  /\ cmd.tool = "ln" => Less(fs, fs0)
  /\ cmd.tool = "wrt" => fs.node = fs0.node /\ (At("wrtText") => Emptied(Top.to))
Apt == cmd.tool \in {"ln", "wrt"} => Len(todo) <= 2 /\ (LastDone \/ Before)

\* ln and wrt are over when their call returns
LEMMA Finishes ==
  ASSUME Started, Progress, Apt, Stack(todo), Running, Top.op # "main", UNCHANGED cmd,
         cmd.tool \in {"ln", "wrt"}, todo' = Tail(todo)
  PROVE  Apt'
<1>1. PICK S : todo \in Seq(S)
  BY Within
<1>2. PICK k \in 1..Count : Passed(todo[Len(todo)], k) /\ Working(k) /\ Told(k)
  BY Within
<1>3. Len(todo) = 2 /\ todo # <<>>
  <2> DEFINE n == Len(todo)
  <2>1. n \in Nat /\ n > 1 /\ n <= 2 /\ todo # <<>>
    BY Within DEF Apt
  <2> HIDE DEF n
  <2>2. n = 2
    BY <2>1
  <2> QED
    BY <2>1, <2>2 DEF n
<1>4. Len(todo') = 1 /\ todo'[1] = todo[2]
  <2> DEFINE s == todo
             t == Tail(todo)
  <2>1. Len(s) = 2 /\ Len(t) = Len(s) - 1 /\ \A i \in 1..(Len(s) - 1) : t[i] = s[i + 1]
    BY <1>1, <1>3, PopParts
  <2> HIDE DEF s, t
  <2>2. Len(t) = 1 /\ t[1] = s[2]
    BY <2>1
  <2> QED
    BY <2>2 DEF s, t
<1>5. LastCall(todo[2])
  <2> DEFINE m == todo[2]
  <2>1. Count = 1 /\ k = 1
    BY <1>2, OneSource
  <2>2. m.op = "main" /\ Len(m.left) = 0 /\ \E T : m.left \in Seq(T)
    BY <1>2, <1>3, <2>1 DEF Passed
  <2> HIDE DEF m
  <2>3. m.left = <<>>
    BY <2>2, EmptySeq
  <2> QED
    BY <2>2, <2>3 DEF LastCall, m
<1>6. Top' = todo[2]
  <2>1. todo' \in Seq(S) /\ todo' # <<>>
    BY <1>1, <1>3, <1>4, PopParts
  <2>2. Head(todo') = todo'[1]
    BY <2>1, PopParts
  <2> QED
    BY <1>4, <2>2 DEF Top
<1>7. LastDone'
  BY <1>5, <1>6 DEF LastDone, LastCall
<1> QED
  BY <1>4, <1>7 DEF Apt

\* the call goes on, and what was still is
LEMMA GoesOn ==
  ASSUME Stack(todo), Apt, Running, NEW fr, todo' = <<fr>> \o Tail(todo), UNCHANGED cmd, Before'
  PROVE  Apt'
<1>1. PICK S : todo \in Seq(S)
  BY DEF Stack
<1>2. Len(todo') = Len(todo)
  BY <1>1, OnTopParts DEF Running
<1> QED
  BY <1>2 DEF Apt

LEMMA NotLast ==
  ASSUME Running, Top.op # "main", Apt, cmd.tool \in {"ln", "wrt"}
  PROVE  Before
BY DEF Apt, LastDone, LastCall, Running

LEMMA OtherApt == ASSUME UNCHANGED cmd, cmd.tool \notin {"ln", "wrt"} PROVE Apt'
BY DEF Apt

LEMMA KillApt == ASSUME Kill PROVE Apt'
<1>1. todo' = <<>> /\ Len(<<>>) = 0
  BY DEF Kill
<1>2. Len(todo') <= 2
  BY <1>1
<1> QED
  BY <1>1, <1>2 DEF Apt, LastDone

LEMMA ArgumentApt ==
  ASSUME Started, Progress, Stack(todo), NextArgument, Apt
  PROVE  Apt'
<1>1. At("main") /\ UNCHANGED <<fs, cmd, fs0>>
  BY DEF NextArgument
<1>2. CASE Top.left = <<>>
  <2>1. todo' = <<>> /\ Len(<<>>) = 0
    BY <1>2 DEF NextArgument
  <2>2. Len(todo') <= 2
    BY <2>1
  <2> QED
    BY <2>1, <2>2 DEF Apt, LastDone
<1>3. CASE Top.left # <<>> /\ cmd.tool \in {"ln", "wrt"}
  <2>1. Before
    BY <1>1, <1>3 DEF Apt, LastDone, LastCall, At, Running
  <2> DEFINE fr == Frame(cmd.tool, Head(Top.left),
                         IF ToDst(cmd) THEN target(Last(cmd.args), Top.into, Head(Top.left))
                         ELSE Last(cmd.args))
             m == [Top EXCEPT !.left = Tail(@)]
  <2>2. todo' = <<fr, m>>
    BY <1>3 DEF NextArgument
  <2>3. fr.op = cmd.tool
    BY DEF Frame
  <2> HIDE DEF fr, m
  <2>4. Len(todo') = 2 /\ Top' = fr
    BY <2>2 DEF Top
  <2>5. Before'
    BY <1>1, <1>3, <2>1, <2>3, <2>4 DEF Before, Less, At
  <2> QED
    BY <2>4, <2>5 DEF Apt
<1> QED
  BY <1>1, <1>2, <1>3, OtherApt

LEMMA LessParts ==
  ASSUME Started, Less(fs, fs0)
  PROVE  Shrunk(fs, fs0) /\ LinksOk(fs) /\ DOMAIN fs.node \subseteq Path
<1>1. IsTree(fs0) /\ DOMAIN fs0.node \subseteq Path
  BY TreeThere, TreeParts
<1>2. Shrunk(fs, fs0)
  BY <1>1 DEF Less, Shrunk
<1> QED
  BY <1>1, <1>2, ShrunkLinks DEF Less

LEMMA LnForceProgress ==
  ASSUME ToolInv, Sure, Progress, Apt, LnForce
  PROVE  Progress' /\ Apt'
<1>1. /\ Running /\ Top.op = "ln" /\ Top.op \in SmallOps /\ UNCHANGED <<fs0, cmd, rc>>
  BY DEF LnForce, At, Others, SmallOps
<1>2. /\ Started /\ Stack(todo) /\ cmd.tool = "ln" /\ Top.op # "main" /\ SmallCall(Top)
  BY <1>1, SmallFrame
<1>3. Less(fs, fs0) /\ Count = 1
  BY <1>1, <1>2, NotLast, OneSource DEF Before
<1> DEFINE u == [Top EXCEPT !.op = "lnMake"]
<1>4. Become(u) /\ todo' = <<u>> \o Tail(todo)
  BY DEF LnForce, Become
<1>5. u.op # "main" /\ u.src = Top.src
  <2>1. Top \in Calls(SmallOps) /\ "lnMake" \in SmallOps
    BY <1>2 DEF SmallCall, SmallOps
  <2> QED
    BY <2>1, CallAs
<1> HIDE DEF u
<1>6. Less(fs', fs0')
  <2>1. CASE fs' = fs
    BY <1>1, <1>3, <2>1
  <2>2. CASE fs' # fs
    <3>1. PICK q : fs' = Removed(fs, {q})
      BY <2>2 DEF LnForce, Succeeds, Fails, unlink
    <3>2. /\ DOMAIN Removed(fs, {q}).node = DOMAIN fs.node \ {q}
          /\ \A x \in DOMAIN fs.node \ {q} : Removed(fs, {q}).node[x] = fs.node[x]
      BY <1>2, <1>3, LessParts, RemovedParts
    <3> QED
      BY <1>1, <1>3, <3>1, <3>2 DEF Less
  <2> QED
    BY <2>1, <2>2
<1>7. Before'
  BY <1>1, <1>2, <1>6 DEF Before
<1>8. Kept
  BY <1>3 DEF Kept
<1> QED
  BY <1>1, <1>2, <1>4, <1>5, <1>7, <1>8, BecomeProgress, GoesOn

\* the name ln makes is the one of the file as it was
LEMMA LinkDone ==
  ASSUME Started, cmd.tool = "ln", UNCHANGED <<cmd, fs0>>, Less(fs, fs0), NEW s \in SrcArgs,
         fs' \in IF Flag("s") THEN symlink(fs, s, Last(cmd.args)) ELSE link(fs, s, Last(cmd.args))
  PROVE  Done(s)'
<1> DEFINE d == Last(cmd.args)
<1>1. s \in Path /\ d \in Path /\ Shrunk(fs, fs0) /\ LinksOk(fs) /\ IsTree(fs0) /\ LinksOk(fs0)
  BY Args, LessParts, TreeThere, TreeParts
<1> HIDE DEF d
<1>2. CASE Flag("s")
  <2> DEFINE n == Link(s)
  <2>1. PICK q \in Free(fs, d) : fs' = Put(fs, q, n)
    BY <1>2 DEF symlink, d
  <2>2. n.kind = "link" => n.to \in Path
    BY <1>1 DEF Link
  <2> HIDE DEF n
  <2>3. lstat(fs', d) = {n}
    BY <1>1, <2>1, <2>2, PutNamed
  <2> QED
    BY <1>2, <2>3 DEF Done, Flag, d, n
<1>3. CASE ~Flag("s")
  <2>1. PICK x \in Named(fs, s) \X Free(fs, d) :
           KindAt(fs, x[1]) \in {"file", "link"} /\ fs' = Put(fs, x[2], fs.node[x[1]])
    BY <1>3 DEF link, d
  <2> DEFINE y == x[1]
             q == x[2]
             n == fs.node[y]
  <2>2. y \in Named(fs, s) /\ q \in Free(fs, d) /\ y \in DOMAIN fs.node /\ fs' = Put(fs, q, n)
    BY <2>1 DEF KindAt
  <2> HIDE DEF y, q
  <2>3. n.kind = "link" => n.to \in Path
    BY <1>1, <2>2 DEF LinksOk, Links
  <2>4. lstat(fs', d) = {n}
    <3> HIDE DEF n
    <3> QED
      BY <1>1, <2>2, <2>3, PutNamed
  <2>5. y \in Named(fs0, s) /\ y \in DOMAIN fs0.node /\ fs0.node[y] = n
    BY <1>1, <2>2, ShrunkNamed DEF Less
  <2>6. \A z \in Named(fs0, s) : z = y
    BY <1>1, <2>5, NamedOnce
  <2>7. lstat(fs0, s) = {n}
    BY <2>5, <2>6 DEF lstat
  <2> QED
    BY <1>3, <2>4, <2>7 DEF Done, Flag, d
<1> QED
  BY <1>2, <1>3

LEMMA LnMakeProgress ==
  ASSUME ToolInv, Sure, Progress, Apt, LnMake
  PROVE  Progress' /\ Apt'
<1>1. /\ Running /\ Top.op = "lnMake" /\ Top.op \in SmallOps /\ UNCHANGED <<fs0, cmd, rc>>
      /\ todo' = Tail(todo)
  BY DEF LnMake, At, Others, SmallOps, Return
<1>2. /\ Started /\ Stack(todo) /\ Top.op # "main" /\ SmallCall(Top) /\ Top.src \in SrcArgs
      /\ cmd.tool = "ln"
  BY <1>1, SmallFrame, Args
<1>3. Less(fs, fs0) /\ Count = 1 /\ Top.dst = Last(cmd.args)
  BY <1>1, <1>2, NotLast, OneSource DEF Before, SmallCall
<1>4. Kept
  BY <1>3 DEF Kept
<1>5. Apt'
  BY <1>1, <1>2, Finishes
<1> DEFINE made == IF Flag("s") THEN symlink(fs, Top.src, Top.dst) ELSE link(fs, Top.src, Top.dst)
<1>6. CASE Succeeds(made) /\ Return(0)
  <2>1. fs' \in made
    BY <1>6 DEF Succeeds
  <2>2. \A z \in SrcArgs : z = Top.src => Done(z)'
    <3> DEFINE s == Top.src
    <3>1. s \in SrcArgs /\ fs' \in IF Flag("s") THEN symlink(fs, s, Last(cmd.args))
                                                ELSE link(fs, s, Last(cmd.args))
      BY <1>2, <1>3, <2>1
    <3> HIDE DEF s
    <3>2. \A z \in SrcArgs : z = s => Done(z)'
      BY <1>1, <1>2, <1>3, <3>1, LinkDone
    <3> QED
      BY <1>2, <3>2 DEF s
  <2> QED
    BY <1>1, <1>2, <1>4, <1>5, <1>6, <2>2, ReturnProgress
<1>7. CASE Fails(made) /\ Return(-1)
  BY <1>1, <1>2, <1>4, <1>5, <1>7, ReturnProgress
<1> QED
  BY <1>6, <1>7 DEF LnMake

LEMMA WrtFrame ==
  ASSUME ToolInv, Apt, Running, Top.op \in {"wrt", "wrtText"}
  PROVE  /\ Started /\ Stack(todo) /\ cmd.tool = "wrt" /\ Top.op # "main"
         /\ Data(fs) /\ Len(fs0.data) <= Len(fs.data) /\ fs.node = fs0.node
         /\ Count = 1 /\ Kept
         /\ Top.op = "wrt" => Top.src \in SrcArgs
         /\ Top.op = "wrtText" => Emptied(Top.to)
<1>1. Started /\ Stack(todo) /\ FsInv
  BY DEF ToolInv
<1>2. cmd.tool = "wrt" /\ (Top.op = "wrt" => Top.src \in SrcArgs)
  BY TopOK, FrameKinds DEF SmallOps, SmallCall, WrtCall
<1>3. Count = 1
  BY <1>1, <1>2, OneSource
<1> QED
  BY <1>1, <1>2, <1>3, NotLast DEF FsInv, Before, At, Kept

LEMMA SamePlaces ==
  ASSUME Started, NEW f, f.node = fs0.node, NEW s \in SrcArgs
  PROVE  Real(f, s) \cap DOMAIN f.node = Real(fs0, s) \cap DOMAIN fs0.node
<1>1. LinksOk(fs0) /\ LinksOk(f) /\ Extends(f, fs0) /\ Extends(fs0, f) /\ s \in Path
  BY TreeThere, TreeParts, Args DEF LinksOk, Links, Extends
<1>2. \A x \in Real(fs0, s) \cap DOMAIN fs0.node : x \in Real(f, s)
  BY <1>1, ExtendedLeads, LinksRange DEF Real
<1>3. \A x \in Real(f, s) \cap DOMAIN f.node : x \in Real(fs0, s)
  BY <1>1, ExtendedLeads, LinksRange DEF Real
<1> QED
  BY <1>2, <1>3

LEMMA WrtOpenProgress ==
  ASSUME ToolInv, Sure, Progress, Apt, WrtOpen
  PROVE  Progress' /\ Apt'
<1>1. Running /\ Top.op = "wrt" /\ UNCHANGED <<fs0, cmd, rc>>
  BY DEF WrtOpen, At, Others
<1>2. /\ Started /\ Stack(todo) /\ cmd.tool = "wrt" /\ Top.op # "main" /\ fs.node = fs0.node
      /\ Data(fs) /\ Len(fs0.data) <= Len(fs.data) /\ Kept /\ Top.src \in SrcArgs
  BY <1>1, WrtFrame
<1>3. CASE \E x \in open_trunc(fs, Top.src, FALSE) :
             Succeeds({x[1]}) /\ Become([op |-> "wrtText", to |-> x[2]])
  <2>1. PICK x \in open_trunc(fs, Top.src, FALSE) :
          fs' = x[1] /\ Become([op |-> "wrtText", to |-> x[2]])
    BY <1>3 DEF Succeeds
  <2>2. PICK q \in Real(fs, Top.src) :
          /\ KindAt(fs, q) = "file" /\ x[2] = fs.node[q].ino
          /\ x[1] = Tree(fs.node, [fs.data EXCEPT ![fs.node[q].ino] = <<>>])
    <3> DEFINE c == FALSE
    <3>1. x \in open_trunc(fs, Top.src, c)
      OBVIOUS
    <3> HIDE DEF c
    <3>2. PICK q \in Real(fs, Top.src) :
           \/ /\ KindAt(fs, q) = "file" /\ x[2] = fs.node[q].ino
              /\ x[1] = Tree(fs.node, [fs.data EXCEPT ![fs.node[q].ino] = <<>>])
           \/ /\ c /\ q \notin DOMAIN fs.node
              /\ x[1] = WithFile(fs, q) /\ x[2] = NewIno(fs)
      BY <3>1, OpenedBy
    <3> QED
      BY <3>2 DEF c
  <2> DEFINE t == x[2]
             u == [op |-> "wrtText", to |-> t]
             s == Top.src
  <2>3. u.op = "wrtText" /\ u.to = t /\ Become(u) /\ todo' = <<u>> \o Tail(todo)
    BY <2>1 DEF Become
  <2>4. q \in Real(fs0, s) \cap DOMAIN fs0.node /\ KindAt(fs0, q) = "file" /\ fs0.node[q].ino = t
    BY <1>2, <2>2, SamePlaces DEF KindAt
  <2>5. t \in DOMAIN fs.data
    <3>1. PICK i \in DOMAIN fs0.data : fs0.node[q] = File(i)
      BY <1>2, <2>4, TreeThere DEF IsTree, KindAt, Dir
    <3>2. t = i
      BY <2>4, <3>1 DEF File
    <3>3. Data(fs0)
      BY <1>2, TreeThere DEF IsTree, Data
    <3> QED
      BY <1>2, <3>1, <3>2, <3>3, DataParts
  <2>6. fs'.node = fs0.node /\ t \in DOMAIN fs'.data /\ fs'.data[t] = <<>>
    <3> DEFINE d == [fs.data EXCEPT ![t] = <<>>]
    <3>1. t \in DOMAIN d /\ d[t] = <<>>
      BY <2>5
    <3>2. fs' = Tree(fs.node, d)
      BY <2>1, <2>2
    <3> HIDE DEF d
    <3> QED
      BY <1>2, <3>1, <3>2, TreeFields
  <2>7. s \in SrcArgs
    BY <1>2
  <2> HIDE DEF t, u, s
  <2>8. Top' = u
    <3>1. PICK S : todo \in Seq(S)
      BY <1>2 DEF Stack
    <3>2. todo # <<>> /\ Len(todo') = Len(todo) /\ todo'[1] = u
      BY <1>1, <2>3, <3>1, OnTopParts DEF Running
    <3>3. Top' = todo'[1]
      BY DEF Top
    <3> QED
      BY <3>2, <3>3
  <2>9. Emptied(t)'
    <3>1. SrcArgs' = SrcArgs
      BY <1>1, Fixed
    <3> QED
      BY <1>1, <2>4, <2>6, <2>7, <3>1 DEF Emptied
  <2>10. Emptied(Top.to)'
    BY <2>3, <2>8, <2>9
  <2>11. Before'
    BY <1>1, <1>2, <2>6, <2>10 DEF Before
  <2>12. Apt'
    BY <1>1, <1>2, <2>3, <2>11, GoesOn
  <2> QED
    BY <1>1, <1>2, <2>3, <2>12, BecomeProgress
<1>4. CASE Fails(open_trunc(fs, Top.src, FALSE)) /\ Return(-1)
  <2>1. todo' = Tail(todo)
    BY <1>4 DEF Return
  <2>2. Apt'
    BY <1>1, <1>2, <2>1, Finishes
  <2> QED
    BY <1>1, <1>2, <1>4, <2>2, ReturnProgress
<1> QED
  BY <1>3, <1>4 DEF WrtOpen

LEMMA WrtTextProgress ==
  ASSUME ToolInv, Sure, Progress, Apt, faults \in Nat, WrtText
  PROVE  Progress' /\ Apt'
<1>1. Running /\ Top.op = "wrtText" /\ UNCHANGED <<fs0, cmd, rc>> /\ Return(0) /\ todo' = Tail(todo)
  BY DEF WrtText, At, Others, Return
<1>2. /\ Started /\ Stack(todo) /\ cmd.tool = "wrt" /\ Top.op # "main" /\ fs.node = fs0.node
      /\ Emptied(Top.to) /\ Kept
  BY <1>1, WrtFrame
<1>3. Apt'
  BY <1>1, <1>2, Finishes
<1>4. CASE Succeeds({append(fs, Top.to, Text)})
  <2> SUFFICES ASSUME NEW s \in SrcArgs PROVE Done(s)'
    BY <1>1, <1>2, <1>3, ReturnProgress
  <2> DEFINE t == Top.to
  <2>1. PICK z \in SrcArgs : \E q \in Real(fs0, z) \cap DOMAIN fs0.node :
          /\ KindAt(fs0, q) = "file" /\ fs0.node[q].ino = t
          /\ t \in DOMAIN fs.data /\ fs.data[t] = <<>>
    BY <1>2 DEF Emptied
  <2>2. z = s
    BY <1>2, OneSource
  <2>3. PICK q \in Real(fs0, s) \cap DOMAIN fs0.node :
          /\ KindAt(fs0, q) = "file" /\ fs0.node[q].ino = t
          /\ t \in DOMAIN fs.data /\ fs.data[t] = <<>>
    BY <2>1, <2>2
  <2>4. fs'.node = fs0.node /\ fs'.data[t] = <<Text>>
    <3> DEFINE d == [fs.data EXCEPT ![t] = Append(@, Text)]
    <3>1. d[t] = <<Text>>
      BY <2>3
    <3>2. fs' = Tree(fs.node, d)
      BY <1>4 DEF Succeeds, append
    <3> HIDE DEF d
    <3> QED
      BY <1>2, <3>1, <3>2, TreeFields
  <2>5. LinksOk(fs0) /\ s \in Path
    BY <1>2, TreeThere, TreeParts, Args
  <2>6. \A x \in Real(fs0, s) : x = q
    BY <2>3, <2>5, LeadsOnce, LinksRange DEF Real
  <2>7. Real(fs', s) \cap DOMAIN fs'.node = Real(fs0, s) \cap DOMAIN fs0.node
    BY <1>1, <1>2, <2>4, SamePlaces
  <2>8. stat(fs', s) = {fs0.node[q]}
    BY <2>3, <2>4, <2>6, <2>7 DEF stat
  <2>9. Found(fs', fs0.node[q]) = <<"file", <<Text>>>>
    <3>1. fs0.node[q].kind = "file" /\ fs0.node[q].ino = t
      BY <2>3 DEF KindAt
    <3> QED
      BY <2>4, <3>1 DEF Found
  <2> QED
    BY <1>1, <1>2, <2>8, <2>9 DEF Done
<1>5. CASE Fails({fs})
  <2>1. faults' # 0
    <3>1. faults' = faults + 1
      BY <1>5 DEF Fails
    <3> QED
      BY <3>1
  <2>2. \A s \in SrcArgs : Done(s)'
    BY <1>1, <1>2, <2>1 DEF Done
  <2> QED
    BY <1>1, <1>2, <1>3, <2>2, ReturnProgress
<1> QED
  BY <1>4, <1>5 DEF WrtText

-----------------------------------------------------------------------------
(* The theorem about success.                                              *)

LEMMA MeddleProgress ==
  ASSUME ToolInv, Sure, Progress, Meddle, cmd.tool = "rm"
  PROVE  Progress'
<1>1. Started /\ FsInv /\ UNCHANGED <<todo, ret, rc, cmd, fs0>>
  BY DEF ToolInv, Meddle
<1>2. LinksOk(fs) /\ DOMAIN fs.node \subseteq Path
  BY <1>1, LinksNow
<1>3. PICK p \in Meddled :
        \/ fs' = Removed(fs, {p})
        \/ p \notin DOMAIN fs.node /\ fs' = WithFile(fs, p)
  BY DEF Meddle
<1>4. CASE fs' = Removed(fs, {p})
  BY <1>1, <1>4, RemovedNow, StayProgress
<1>5. CASE p \notin DOMAIN fs.node /\ fs' = WithFile(fs, p)
  <2> DEFINE n == File(NewIno(fs))
             d == Append(fs.data, <<>>)
  <2>1. fs'.node = [y \in DOMAIN fs.node \cup {p} |-> IF y = p THEN n ELSE fs.node[y]]
    <3>1. fs' = Tree(With(fs.node, p, n), d)
      BY <1>5 DEF WithFile
    <3> HIDE DEF n, d
    <3>2. fs'.node = With(fs.node, p, n)
      BY <3>1, TreeFields
    <3> QED
      BY <3>2 DEF With
  <2>2. n.kind = "file" /\ n.ino \notin DOMAIN fs.data
    <3>1. NewIno(fs) \notin DOMAIN fs.data
      <4>1. PICK S : fs.data \in Seq(S)
        BY <1>1 DEF FsInv, Data
      <4>2. Len(fs.data) \in Nat /\ DOMAIN fs.data = 1..Len(fs.data)
        BY <4>1, LenProperties
      <4> QED
        BY <4>2 DEF NewIno
    <3> QED
      BY <3>1 DEF File
  <2> HIDE DEF n
  <2>3. DOMAIN fs'.node = DOMAIN fs.node \cup {p} /\ fs'.node[p] = n
        /\ \A y \in DOMAIN fs.node : fs'.node[y] = fs.node[y]
    BY <1>5, <2>1
  <2>4. Shrunk(fs', fs)
    <3>1. p \in Path
      BY FileToolsAssumption
    <3> QED
      BY <1>2, <2>2, <2>3, <3>1 DEF Shrunk
  <2>5. LinksOk(fs')
    BY <1>2, <1>5, WithFileParts
  <2>6. \A x \in DOMAIN fs'.node : x \in DOMAIN fs.node \/ (cmd.tool = "rm" /\ x \in Meddled)
    BY <2>3
  <2> QED
    BY <1>1, <2>4, <2>5, <2>6, KeptGone, StayProgress
<1> QED
  BY <1>3, <1>4, <1>5

Counts == faults \in Nat /\ meddles \in Nat /\ missed \in Nat

\* every step but another process's leaves meddles alone; one call fails at most
LEMMA ToolCounts ==
  ASSUME Tool
  PROVE  /\ faults' = faults \/ faults' = faults + 1
         /\ missed' = missed \/ missed' = missed + 1
         /\ meddles' = meddles
<1>1. CASE copy_file
  BY <1>1 DEF copy_file, CopyOpen, CopyBlock, CopyClose, Succeeds, Fails, Others
<1>2. CASE mv_one
  BY <1>2 DEF mv_one, MvRename, MvAcross, MvLink, MvCopied, MvUnlink, Relink, Succeeds, Fails,
     Quiet, Others
<1>3. CASE cp_tree
  BY <1>3 DEF cp_tree, CpTree, CpLink, CpDir, CpList, CpEntry, CpCopied, CpForce, Relink,
     Succeeds, Fails, Misses, Quiet, Others, Lasting
<1>4. CASE rm_tree
  BY <1>4 DEF rm_tree, Rm, RmTree, RmList, RmEntry, RmDir, RmUnlink, Succeeds, Fails, Misses,
     Quiet, Others, Lasting
<1>5. CASE LnForce \/ LnMake \/ Mkdir \/ mkdir_p
  BY <1>5 DEF LnForce, LnMake, Mkdir, mkdir_p, Succeeds, Fails, Quiet, Others
<1>6. CASE Touch \/ CatOpen \/ CatRead \/ WrtOpen \/ WrtText
  BY <1>6 DEF Touch, CatOpen, CatRead, WrtOpen, WrtText, Succeeds, Fails, Quiet, Others
<1>7. CASE NextArgument
  BY <1>7 DEF NextArgument
<1> QED
  BY <1>1, <1>2, <1>3, <1>4, <1>5, <1>6, <1>7 DEF Tool, Small

LEMMA CountsStay ==
  ASSUME Counts, [ToolNext]_toolVars
  PROVE  /\ Counts' /\ (Meddle \/ meddles' = meddles) /\ (Meddle => meddles' # 0)
         /\ missed' = 0 => missed = 0
<1>1. CASE Tool \/ Kill \/ UNCHANGED toolVars
  <2>1. /\ faults' = faults \/ faults' = faults + 1
        /\ missed' = missed \/ missed' = missed + 1
        /\ meddles' = meddles
    BY <1>1, ToolCounts DEF Kill, toolVars
  <2>2. Counts' /\ meddles' = meddles /\ (missed' = 0 => missed = 0)
    BY <2>1 DEF Counts
  <2>3. ASSUME Meddle PROVE FALSE
    <3>1. meddles' = meddles + 1
      BY <2>3 DEF Meddle
    <3> QED
      BY <2>1, <3>1 DEF Counts
  <2> QED
    BY <2>2, <2>3
<1>2. CASE Meddle
  <2>1. meddles' = meddles + 1 /\ faults' = faults /\ missed' = missed
    BY <1>2 DEF Meddle
  <2>2. Counts' /\ meddles' # 0
    BY <2>1 DEF Counts
  <2> QED
    BY <1>2, <2>1, <2>2
<1> QED
  BY <1>1, <1>2 DEF ToolNext

\* the frames of the other commands are not on the stack
LEMMA SureTop ==
  ASSUME ToolInv, Sure, Running
  PROVE  Top.op \notin CpOps \cup MvOps \cup {"copy", "copying", "cpLink", "cpDir", "cpList",
                                              "cpEntry", "cat", "catRead"}
<1>1. cmd.tool \notin {"cp", "mv", "cat"} /\ FrameOK(Top)
  BY TopOK DEF Sure
<1>2. Top.op \notin CpOps \cup MvOps \cup {"copy"}
  BY <1>1, FrameKinds DEF CopyCall
<1>3. Top.op # "copying"
  BY <1>1, FrameKinds DEF CopyLoop
<1>4. Top.op # "cat"
  BY <1>1, FrameKinds DEF SmallOps, SmallCall
<1>5. Top.op # "catRead"
  BY <1>1, FrameKinds DEF CatLoop
<1> QED
  BY <1>1, <1>2, <1>3, <1>4, <1>5, FrameKinds

SureInv == Counts /\ (missed = 0 /\ (cmd.tool = "rm" \/ meddles = 0) => Progress /\ Apt)

LEMMA SureStarts ==
  ASSUME Init, Sure, Started
  PROVE  SureInv
<1>1. Progress
  BY InitProgress
<1>2. Apt
  <2> DEFINE m == MainFrame(Sources(cmd), is_dir(fs, Last(cmd.args)))
  <2>1. todo = <<>> \/ todo = <<m>>
    BY DEF Init
  <2>2. m.op = "main"
    BY DEF MainFrame
  <2> HIDE DEF m
  <2>3. Len(todo) <= 2 /\ ~At("wrtText")
    <3>1. CASE todo = <<>>
      <4>1. Len(todo) = 0
        BY <3>1
      <4> QED
        BY <3>1, <4>1 DEF At, Running
    <3>2. CASE todo = <<m>>
      <4>1. Len(todo) = 1 /\ Top = m
        BY <3>2 DEF Top
      <4> QED
        BY <2>2, <4>1 DEF At
    <3> QED
      BY <2>1, <3>1, <3>2
  <2>4. Before
    BY <2>3 DEF Before, Less, Init
  <2> QED
    BY <2>3, <2>4 DEF Apt
<1>3. Counts
  BY DEF Init, Counts
<1> QED
  BY <1>1, <1>2, <1>3 DEF SureInv

LEMMA ToolProgress ==
  ASSUME ToolInv, Sure, Counts, Progress, Apt, Tool, missed' = 0
  PROVE  Progress' /\ Apt'
<1>1. CASE NextArgument
  BY <1>1, ArgumentProgress, ArgumentApt DEF ToolInv
<1>2. CASE copy_file \/ mv_one \/ cp_tree \/ CatOpen \/ CatRead
  BY <1>2, SureTop DEF copy_file, CopyOpen, CopyBlock, CopyClose, mv_one, MvRename, MvAcross, MvLink,
     MvCopied, MvUnlink, cp_tree, CpTree, CpLink, CpDir, CpList, CpEntry, CpCopied, CpForce,
     CatOpen, CatRead, At, CpOps, MvOps
<1>3. CASE rm_tree
  <2>1. /\ Running /\ Top.op \in RmOps \cup {"rmEntry"} /\ UNCHANGED cmd
    BY <1>3 DEF rm_tree, Rm, RmTree, RmList, RmEntry, RmDir, RmUnlink, At, RmOps, Quiet, Others,
       Lasting
  <2>2. Apt'
    BY <2>1, RmCallAt, OtherApt
  <2> QED
    BY <1>3, <2>2, RmProgress, RmTreeProgress, RmListProgress, RmEntryProgress, RmDirProgress,
       RmUnlinkProgress DEF rm_tree, Counts
<1>4. CASE Mkdir \/ Touch
  <2>1. Running /\ Top.op \in SmallOps \cap {"mkdir", "touch"} /\ UNCHANGED cmd
    BY <1>4 DEF Mkdir, Touch, At, SmallOps, Quiet, Others
  <2>2. Apt'
    BY <2>1, SmallFrame, OtherApt
  <2> QED
    BY <1>4, <2>2, MkdirProgress, TouchProgress
<1>5. CASE mkdir_p
  <2>1. Running /\ Top.op = "mkdirP" /\ UNCHANGED cmd
    BY <1>5 DEF mkdir_p, At, Others
  <2>2. cmd.tool = "mkdir"
    BY <2>1, TopOK, FrameKinds DEF MkdirLoop
  <2> QED
    BY <1>5, <2>1, <2>2, OtherApt, MkdirPProgress
<1>6. CASE LnForce \/ LnMake \/ WrtOpen \/ WrtText
  BY <1>6, LnForceProgress, LnMakeProgress, WrtOpenProgress, WrtTextProgress DEF Counts
<1> QED
  BY <1>1, <1>2, <1>3, <1>4, <1>5, <1>6 DEF Tool, Small

LEMMA StutterProgress ==
  ASSUME UNCHANGED toolVars
  PROVE  (Progress' <=> Progress) /\ (Apt' <=> Apt)
<1>1. UNCHANGED <<fs, todo, ret, rc, cmd, fs0, faults>>
  BY DEF toolVars
<1>2. Count' = Count /\ (\A i : Nth(i)' = Nth(i)) /\ SrcArgs' = SrcArgs
  BY <1>1, SameArguments
<1>3. \A s : Done(s)' <=> Done(s)
  BY <1>1, DoneSame
<1>4. Progress' <=> Progress
  BY <1>1, <1>2, <1>3 DEF Progress, Passed, Working, Told
<1>5. Apt' <=> Apt
  BY <1>1, <1>2 DEF Apt, LastDone, LastCall, Top, Before, Less, At, Running, Emptied
<1> QED
  BY <1>4, <1>5

LEMMA Unmoved ==
  ASSUME [ToolNext]_toolVars
  PROVE  UNCHANGED <<cmd, fs0>>
BY DEF ToolNext, Tool, NextArgument, copy_file, CopyOpen, CopyBlock, CopyClose, mv_one, MvRename,
       MvAcross, MvLink, MvCopied, MvUnlink, cp_tree, CpTree, CpLink, CpDir, CpList, CpEntry,
       CpCopied, CpForce, rm_tree, Rm, RmTree, RmList, RmEntry, RmDir, RmUnlink, Small, LnForce,
       LnMake, Mkdir, mkdir_p, Touch, CatOpen, CatRead, WrtOpen, WrtText, Kill, Meddle,
       Quiet, Others, Lasting, toolVars

LEMMA SureStays ==
  ASSUME UNCHANGED <<cmd, fs0>>
  PROVE  Sure' <=> Sure
<1>1. SrcArgs' = SrcArgs
  BY Fixed
<1> QED
  BY <1>1 DEF Sure

LEMMA SureGoesOn ==
  ASSUME ToolInv, Sure, SureInv, [ToolNext]_toolVars
  PROVE  SureInv'
<1>1. /\ Counts' /\ (Meddle \/ meddles' = meddles) /\ (Meddle => meddles' # 0)
      /\ missed' = 0 => missed = 0
  BY CountsStay DEF SureInv
<1> SUFFICES ASSUME missed' = 0, cmd'.tool = "rm" \/ meddles' = 0 PROVE Progress' /\ Apt'
  BY <1>1 DEF SureInv
<1>2. UNCHANGED cmd
  BY Unmoved
<1>3. Progress /\ Apt
  BY <1>1, <1>2 DEF SureInv
<1>4. CASE Tool
  BY <1>3, <1>4, ToolProgress DEF SureInv
<1>5. CASE Kill
  BY <1>5, KillProgress, KillApt
<1>6. CASE Meddle
  BY <1>1, <1>2, <1>3, <1>6, MeddleProgress, OtherApt
<1>7. CASE UNCHANGED toolVars
  BY <1>3, <1>7, StutterProgress
<1> QED
  BY <1>4, <1>5, <1>6, <1>7 DEF ToolNext

LEMMA SureSays ==
  ASSUME Sure, SureInv
  PROVE  SuccessMeansDone
<1> SUFFICES ASSUME Ended, NEW s \in SrcArgs PROVE Done(s)
  BY DEF SuccessMeansDone, Done, Sure
<1> QED
  BY DEF SureInv, Ended, Progress, Running

-----------------------------------------------------------------------------
(* mv: what is found at a place.                                           *)

LEMMA WholeSub == ASSUME NEW p \in Path PROVE SubSeq(p, 1, Len(p)) = p
<1> DEFINE u == SubSeq(p, 1, Len(p))
<1>1. p \in Seq(STRING) /\ Len(p) \in Nat /\ \A i \in 1..Len(p) : p[i] \in STRING
  BY LenProperties, ElementOfSeq DEF Path
<1>2. /\ u \in Seq(STRING) /\ Len(u) = IF 1 <= Len(p) THEN Len(p) - 1 + 1 ELSE 0
      /\ \A i \in 1..(Len(p) - 1 + 1) : u[i] = p[1 + i - 1]
  <2>1. 1 \in Int /\ Len(p) \in Int /\ \A i \in 1..Len(p) : p[i] \in STRING
    BY <1>1
  <2> QED
    BY <2>1, SubSeqProperties
<1> HIDE DEF u
<1>3. Len(u) = Len(p) /\ \A i \in 1..Len(p) : u[i] = p[i]
  BY <1>1, <1>2
<1>4. u = p
  BY <1>1, <1>2, <1>3, SeqEqual
<1> QED
  BY <1>4 DEF u

\* a path under r is r with more at its end
LEMMA SuffixParts ==
  ASSUME NEW r \in Path, NEW x \in Path, Under(r, x)
  PROVE  /\ SubSeq(x, Len(r) + 1, Len(x)) \in Path
         /\ r \o SubSeq(x, Len(r) + 1, Len(x)) = x
<1> DEFINE t == SubSeq(x, Len(r) + 1, Len(x))
           n == Len(r)
           m == Len(x)
           z == r \o t
<1>1. /\ r \in Seq(STRING) /\ x \in Seq(STRING) /\ n \in Nat /\ m \in Nat
      /\ \A i \in 1..m : x[i] \in STRING
  BY LenProperties, ElementOfSeq DEF Path
<1>2. n <= m /\ SubSeq(r, 1, n) = SubSeq(x, 1, n)
  BY DEF Under, IsPrefix
<1>3. /\ t \in Seq(STRING) /\ Len(t) = IF n + 1 <= m THEN m - (n + 1) + 1 ELSE 0
      /\ \A i \in 1..(m - (n + 1) + 1) : t[i] = x[(n + 1) + i - 1]
  <2>1. n + 1 \in Int /\ m \in Int /\ \A i \in (n + 1)..m : x[i] \in STRING
    BY <1>1
  <2> HIDE DEF n, m
  <2> QED
    BY <2>1, SubSeqProperties DEF n, m
<1>4. \A i \in 1..n : r[i] = x[i]
  <2>1. \A i \in 1..n : SubSeq(x, 1, n)[i] = x[i]
    <3>1. 1 \in Int /\ n \in Int /\ \A i \in 1..n : x[i] \in STRING
      BY <1>1, <1>2
    <3>2. \A i \in 1..(n - 1 + 1) : SubSeq(x, 1, n)[i] = x[1 + i - 1]
      BY <3>1, SubSeqProperties
    <3> HIDE DEF n
    <3> QED
      BY <1>1, <3>2
  <2>2. SubSeq(r, 1, n) = r
    BY WholeSub
  <2> QED
    BY <1>2, <2>1, <2>2
<1> HIDE DEF n, m
<1>5. Len(t) = m - n /\ \A i \in 1..(m - n) : t[i] = x[n + i]
  <2>1. Len(t) = m - n
    BY <1>1, <1>2, <1>3
  <2>2. \A i \in 1..(m - n) : i \in 1..(m - (n + 1) + 1) /\ (n + 1) + i - 1 = n + i
    BY <1>1, <1>2
  <2> QED
    BY <1>3, <2>1, <2>2
<1> HIDE DEF t
<1>6. /\ z \in Seq(STRING) /\ Len(z) = n + Len(t)
      /\ \A i \in 1..(n + Len(t)) : z[i] = IF i <= n THEN r[i] ELSE t[i - n]
  BY <1>1, <1>3, ConcatProperties DEF n
<1> HIDE DEF z
<1>7. Len(z) = m
  BY <1>1, <1>2, <1>5, <1>6
<1>8. ASSUME NEW i \in 1..m PROVE z[i] = x[i]
  <2>0. z[i] = IF i <= n THEN r[i] ELSE t[i - n]
    BY <1>1, <1>2, <1>5, <1>6
  <2>1. CASE i <= n
    BY <1>1, <1>4, <2>0, <2>1
  <2>2. CASE ~(i <= n)
    <3>1. i - n \in 1..(m - n) /\ n + (i - n) = i
      BY <1>1, <2>2
    <3>2. t[i - n] = x[n + (i - n)]
      BY <1>5, <3>1
    <3> QED
      BY <2>0, <2>2, <3>1, <3>2
  <2> QED
    BY <2>1, <2>2
<1>9. z = x
  BY <1>1, <1>6, <1>7, <1>8, SeqEqual DEF m
<1> QED
  BY <1>3, <1>9 DEF t, z, n, m, Path

LEMMA AheadParts ==
  ASSUME NEW q \in Path, NEW t \in Path
  PROVE  SubSeq(q \o t, Len(q) + 1, Len(q \o t)) = t
<1> DEFINE z == q \o t
           n == Len(q)
           m == Len(t)
           u == SubSeq(z, n + 1, Len(z))
<1>1. q \in Seq(STRING) /\ t \in Seq(STRING) /\ n \in Nat /\ m \in Nat
  BY LenProperties DEF Path
<1>2. /\ z \in Seq(STRING) /\ Len(z) = n + m
      /\ \A i \in 1..(n + m) : z[i] = IF i <= n THEN q[i] ELSE t[i - n]
  BY <1>1, ConcatProperties
<1> HIDE DEF z
<1>3. \A i \in 1..Len(z) : z[i] \in STRING
  BY <1>2, LenProperties, ElementOfSeq
<1> HIDE DEF n, m
<1>4. /\ u \in Seq(STRING) /\ Len(u) = IF n + 1 <= Len(z) THEN Len(z) - (n + 1) + 1 ELSE 0
      /\ \A i \in 1..(Len(z) - (n + 1) + 1) : u[i] = z[(n + 1) + i - 1]
  <2>1. n + 1 \in Int /\ Len(z) \in Int /\ \A i \in (n + 1)..Len(z) : z[i] \in STRING
    BY <1>1, <1>2, <1>3
  <2> QED
    BY <2>1, SubSeqProperties
<1> HIDE DEF u
<1>5. Len(u) = m
  BY <1>1, <1>2, <1>4
<1>6. ASSUME NEW i \in 1..m PROVE u[i] = t[i]
  <2>1. /\ i \in 1..(Len(z) - (n + 1) + 1) /\ (n + 1) + i - 1 = n + i
        /\ n + i \in 1..(n + m) /\ ~(n + i <= n) /\ (n + i) - n = i
    BY <1>1, <1>2
  <2> QED
    BY <1>2, <1>4, <2>1
<1>7. u = t
  BY <1>1, <1>4, <1>5, <1>6, SeqEqual DEF m
<1> QED
  BY <1>7 DEF u, z, n

\* only a directory has something below it
LEMMA LeafBelow ==
  ASSUME NEW f, IsTree(f), NEW q \in Path, KindAt(f, q) # "dir"
  PROVE  Below(f, q) \subseteq {q}
<1> SUFFICES ASSUME NEW x \in Below(f, q) PROVE x = q
  OBVIOUS
<1>1. x \in DOMAIN f.node /\ x \in Path /\ Under(q, x)
  BY DEF Below, IsTree
<1>2. Len(q) \in Nat /\ Len(x) \in Nat /\ Len(q) <= Len(x)
      /\ SubSeq(q, 1, Len(q)) = SubSeq(x, 1, Len(q))
  BY <1>1, LenProperties DEF Under, IsPrefix, Path
<1>3. SubSeq(q, 1, Len(q)) = q /\ SubSeq(x, 1, Len(x)) = x
  BY <1>1, WholeSub
<1>4. CASE Len(q) = Len(x)
  BY <1>2, <1>3, <1>4
<1>5. CASE Len(q) # Len(x)
  <2>1. Len(q) \in 0..(Len(x) - 1)
    BY <1>2, <1>5
  <2>2. SubSeq(x, 1, Len(q)) \in DOMAIN f.node /\ f.node[SubSeq(x, 1, Len(q))] = Dir
    BY <1>1, <2>1 DEF IsTree
  <2>3. q \in DOMAIN f.node /\ f.node[q] = Dir
    BY <1>2, <1>3, <2>2
  <2>4. KindAt(f, q) = "dir"
    BY <2>3 DEF KindAt, Dir
  <2> QED
    BY <2>4
<1> QED
  BY <1>4, <1>5

LEMMA OneView ==
  ASSUME NEW f, LinksOk(f), NEW p \in Path, NEW r \in Named(f, p)
  PROVE  View(f, p) = ViewAt(f, r)
<1>1. Named(f, p) = {r}
  BY NamedOnce
<1> QED
  BY <1>1 DEF View

\* the same is found below q after the move as below r before it
LEMMA MovedView ==
  ASSUME NEW f, IsTree(f), NEW r \in DOMAIN f.node, NEW q \in Path, ~Under(r, q),
         Replaceable(f, r, q)
  PROVE  ViewAt(Moved(f, r, q), q) = ViewAt(f, r)
<1> DEFINE g == Moved(f, r, q)
           kept == DOMAIN f.node \ (Below(f, r) \cup {q})
           rest(x) == SubSeq(x, Len(r) + 1, Len(x))
           new == {q \o SubSeq(x, Len(r) + 1, Len(x)) : x \in Below(f, r)}
           node == [x \in kept \cup new |->
                     IF x \in kept THEN f.node[x]
                     ELSE f.node[r \o SubSeq(x, Len(q) + 1, Len(x))]]
<1>1. g.data = f.data /\ g.node = node
  <2>1. g = Tree(node, f.data)
    BY DEF Moved
  <2> HIDE DEF g, node
  <2> QED
    BY <2>1, TreeFields
<1>2. DOMAIN f.node \subseteq Path /\ r \in Path
  BY DEF IsTree
<1>3. \A x \in kept : ~Under(q, x)
  <2>1. Below(f, q) \subseteq {q}
    BY LeafBelow DEF Replaceable, KindAt
  <2> QED
    BY <2>1 DEF Below
<1>4. \A x \in Below(f, r) : /\ x \in Path /\ x \in DOMAIN f.node /\ Under(r, x)
                             /\ rest(x) \in Path /\ r \o rest(x) = x
                             /\ Under(q, q \o rest(x))
                             /\ SubSeq(q \o rest(x), Len(q) + 1, Len(q \o rest(x))) = rest(x)
  <2> SUFFICES ASSUME NEW x \in Below(f, r)
      PROVE  /\ x \in Path /\ x \in DOMAIN f.node /\ Under(r, x)
             /\ rest(x) \in Path /\ r \o rest(x) = x
             /\ Under(q, q \o rest(x))
             /\ SubSeq(q \o rest(x), Len(q) + 1, Len(q \o rest(x))) = rest(x)
    OBVIOUS
  <2>1. x \in Path /\ x \in DOMAIN f.node /\ Under(r, x)
    BY <1>2 DEF Below
  <2>2. rest(x) \in Path /\ r \o rest(x) = x
    BY <1>2, <2>1, SuffixParts
  <2> DEFINE t == rest(x)
  <2>3. t \in Path
    BY <2>2
  <2> HIDE DEF t
  <2>4. Under(q, q \o t) /\ SubSeq(q \o t, Len(q) + 1, Len(q \o t)) = t
    BY <2>3, UnderAhead, AheadParts
  <2> QED
    BY <2>1, <2>2, <2>4 DEF t
<1>5. Below(g, q) = new
  <2> HIDE DEF node
  <2>1. DOMAIN g.node = kept \cup new
    <3> HIDE DEF kept, new
    <3> QED
      BY <1>1 DEF node
  <2> HIDE DEF g
  <2>2. ASSUME NEW y \in Below(g, q) PROVE y \in new
    <3>1. y \in kept \cup new /\ Under(q, y)
      BY <2>1 DEF Below
    <3> HIDE DEF new, kept
    <3> QED
      BY <1>3, <3>1
  <2>3. ASSUME NEW y \in new PROVE y \in Below(g, q)
    <3>1. PICK x \in Below(f, r) : y = q \o rest(x)
      OBVIOUS
    <3>2. Under(q, y)
      BY <1>4, <3>1
    <3> HIDE DEF new, kept
    <3> QED
      BY <2>1, <3>2 DEF Below
  <2> HIDE DEF new
  <2> QED
    BY <2>2, <2>3
<1>6. \A x \in Below(f, r) : g.node[q \o rest(x)] = f.node[x]
  <2> SUFFICES ASSUME NEW x \in Below(f, r) PROVE g.node[q \o rest(x)] = f.node[x]
    OBVIOUS
  <2> DEFINE y == q \o rest(x)
  <2>1. y \in new /\ y \notin kept
    BY <1>3, <1>4
  <2>2. SubSeq(y, Len(q) + 1, Len(y)) = rest(x) /\ r \o rest(x) = x
    BY <1>4
  <2>3. g.node[y] = f.node[r \o SubSeq(y, Len(q) + 1, Len(y))]
    <3> HIDE DEF y, new, kept
    <3> QED
      BY <1>1, <2>1
  <2> QED
    BY <2>2, <2>3
<1>7. \A n : Found(g, n) = Found(f, n)
  BY <1>1 DEF Found
<1> HIDE DEF g, node, kept
<1>8. \A x \in Below(f, r) :
         /\ q \o rest(x) \in Below(g, q)
         /\ SubSeq(q \o rest(x), Len(q) + 1, Len(q \o rest(x))) = rest(x)
         /\ Found(g, g.node[q \o rest(x)]) = Found(f, f.node[x])
  BY <1>4, <1>5, <1>6, <1>7
<1>9. \A y \in Below(g, q) : \E x \in Below(f, r) : y = q \o rest(x)
  BY <1>5
<1> HIDE DEF new
<1>10. ASSUME NEW v \in ViewAt(g, q) PROVE v \in ViewAt(f, r)
  <2>1. PICK y \in Below(g, q) : v = <<SubSeq(y, Len(q) + 1, Len(y)), Found(g, g.node[y])>>
    BY DEF ViewAt
  <2>2. PICK x \in Below(f, r) : y = q \o rest(x)
    BY <1>9
  <2> DEFINE t == rest(x)
             s == SubSeq(y, Len(q) + 1, Len(y))
  <2>3. s = t /\ Found(g, g.node[y]) = Found(f, f.node[x])
    BY <1>8, <2>2
  <2>4. v = <<t, Found(f, f.node[x])>>
    <3> HIDE DEF s, t
    <3> QED
      BY <2>1, <2>3 DEF s
  <2> QED
    BY <2>4 DEF ViewAt
<1>11. ASSUME NEW v \in ViewAt(f, r) PROVE v \in ViewAt(g, q)
  <2>1. PICK x \in Below(f, r) : v = <<rest(x), Found(f, f.node[x])>>
    BY DEF ViewAt
  <2> DEFINE t == rest(x)
             y == q \o t
             s == SubSeq(y, Len(q) + 1, Len(y))
  <2>3. y \in Below(g, q) /\ s = t /\ Found(g, g.node[y]) = Found(f, f.node[x])
    BY <1>8
  <2>4. v = <<s, Found(g, g.node[y])>>
    <3>1. v = <<t, Found(f, f.node[x])>>
      BY <2>1
    <3> HIDE DEF s, t
    <3> QED
      BY <2>3, <3>1
  <2> HIDE DEF y
  <2> QED
    BY <2>3, <2>4 DEF ViewAt
<1>12. ViewAt(g, q) = ViewAt(f, r)
  BY <1>10, <1>11
<1> QED
  BY <1>12 DEF g

\* with more there, what a name named it still names
LEMMA ExtendedNames ==
  ASSUME NEW f, NEW f0, LinksOk(f), LinksOk(f0), Extends(f, f0), NEW p \in Path
  PROVE  Named(f0, p) \subseteq Named(f, p)
<1>1. CASE p = <<>>
  BY <1>1 DEF Named
<1>2. CASE p # <<>>
  <2> SUFFICES ASSUME NEW x \in Named(f0, p) PROVE x \in Named(f, p)
    OBVIOUS
  <2>1. PICK d \in Real(f0, Front(p)) :
          KindAt(f0, d) = "dir" /\ x = Append(d, Last(p)) /\ x \in Fitting({x})
    BY <1>2 DEF Named, Fitting, Entered
  <2>2. d \in DOMAIN f0.node
    BY <2>1 DEF KindAt
  <2>3. d \in Real(f, Front(p)) /\ KindAt(f, d) = "dir"
    <3>1. Front(p) \in Path
      BY <1>2, FrontIn
    <3>2. d \in leads(f0)[MaxLinks][Front(p)]
      BY <2>1 DEF Real
    <3>3. d \in leads(f)[MaxLinks][Front(p)]
      BY <2>2, <3>1, <3>2, ExtendedLeads, LinksRange
    <3>4. KindAt(f, d) = KindAt(f0, d)
      BY <2>2 DEF KindAt, Extends
    <3> QED
      BY <2>1, <3>3, <3>4 DEF Real
  <2> QED
    BY <1>2, <2>1, <2>3 DEF Named, Fitting, Entered
<1> QED
  BY <1>1, <1>2

\* g is f with q beside r, a file or a link that is as it was
Beside(g, f, r, q) ==
  /\ r \in DOMAIN f.node /\ KindAt(f, r) \in {"file", "link"}
  /\ q \in Path /\ ~Under(r, q) /\ ~Under(q, r) /\ KindAt(f, q) # "dir"
  /\ Extends(g, f) /\ DOMAIN g.node = DOMAIN f.node \cup {q} /\ LinksOk(g)
  /\ Found(g, f.node[r]) = Found(f, f.node[r])
SameThere(g, f, r, q) == Beside(g, f, r, q) /\ Found(g, g.node[q]) = Found(f, f.node[r])

LEMMA LeafView ==
  ASSUME NEW f, NEW q \in Path, Below(f, q) = {q}
  PROVE  ViewAt(f, q) = {<< <<>>, Found(f, f.node[q])>>}
<1> DEFINE s == SubSeq(q, Len(q) + 1, Len(q))
<1>1. s = <<>>
  <2>1. Len(q) \in Nat /\ \A i \in 1..Len(q) : q[i] \in STRING
    BY LenProperties, ElementOfSeq DEF Path
  <2>2. Len(q) + 1 \in Int /\ Len(q) \in Int /\ (\A i \in (Len(q) + 1)..Len(q) : q[i] \in STRING)
        /\ ~(Len(q) + 1 <= Len(q))
    BY <2>1
  <2>3. s \in Seq(STRING) /\ Len(s) = 0
    BY <2>2, SubSeqProperties
  <2> HIDE DEF s
  <2> QED
    BY <2>3, EmptySeq
<1>2. ViewAt(f, q) = {<<s, Found(f, f.node[q])>>}
  BY DEF ViewAt
<1> HIDE DEF s
<1> QED
  BY <1>1, <1>2

LEMMA BesideParts ==
  ASSUME NEW f, IsTree(f), NEW g, NEW r, NEW q, Beside(g, f, r, q)
  PROVE  /\ r \in Path /\ q \in Path /\ r # q
         /\ Below(f, r) = {r} /\ Below(g, r) = {r} /\ Below(g, q) = {q}
         /\ g.node[r] = f.node[r]
<1>1. DOMAIN f.node \subseteq Path
  BY TreeParts
<1>2. r \in Path /\ q \in Path /\ Under(r, r) /\ Under(q, q)
  BY <1>1, UnderSelf DEF Beside
<1>3. Below(f, r) \subseteq {r} /\ Below(f, q) \subseteq {q}
  BY <1>2, LeafBelow DEF Beside
<1>4. Below(g, r) = {r} /\ Below(g, q) = {q} /\ Below(f, r) = {r}
  BY <1>2, <1>3 DEF Beside, Below
<1> QED
  BY <1>2, <1>4 DEF Beside, Extends

\* the source is whole beside the copy
LEMMA BesideView ==
  ASSUME NEW f, IsTree(f), NEW g, NEW r, NEW q, Beside(g, f, r, q), NEW p \in Path, r \in Named(f, p)
  PROVE  (\A x \in Named(f, p) : ViewAt(g, x) = ViewAt(f, x)) /\ Named(g, p) = {r}
<1>1. LinksOk(f) /\ LinksOk(g) /\ Extends(g, f)
  BY TreeParts DEF Beside
<1>2. r \in Named(g, p)
  BY <1>1, ExtendedNames
<1>3. /\ r \in Path /\ Below(f, r) = {r} /\ Below(g, r) = {r} /\ g.node[r] = f.node[r]
  BY BesideParts
<1>4. Found(g, g.node[r]) = Found(f, f.node[r])
  BY <1>3 DEF Beside
<1>5. ViewAt(g, r) = {<< <<>>, Found(g, g.node[r])>>} /\ ViewAt(f, r) = {<< <<>>, Found(f, f.node[r])>>}
  BY <1>3, LeafView
<1>6. ViewAt(g, r) = ViewAt(f, r)
  BY <1>4, <1>5
<1>7. Named(g, p) = {r} /\ Named(f, p) = {r}
  BY <1>1, <1>2, NamedOnce
<1> QED
  BY <1>6, <1>7

\* the copy is the source, and stays when the source goes
LEMMA SameView ==
  ASSUME NEW f, IsTree(f), NEW g, NEW r, NEW q, SameThere(g, f, r, q)
  PROVE  ViewAt(g, q) = ViewAt(f, r) /\ ViewAt(Removed(g, {r}), q) = ViewAt(f, r) /\ ViewAt(f, r) # {}
<1> DEFINE h == Removed(g, {r})
<1>1. Beside(g, f, r, q) /\ Found(g, g.node[q]) = Found(f, f.node[r])
  BY DEF SameThere
<1>2. /\ r \in Path /\ q \in Path /\ r # q
      /\ Below(f, r) = {r} /\ Below(g, q) = {q}
  BY <1>1, BesideParts
<1>3. q \in DOMAIN g.node /\ DOMAIN g.node \subseteq Path /\ LinksOk(g)
  BY <1>1, TreeParts DEF Beside
<1>4. DOMAIN h.node = DOMAIN g.node \ {r} /\ \A x \in DOMAIN g.node \ {r} : h.node[x] = g.node[x]
  BY <1>3, RemovedParts
<1>5. h.data = g.data
  BY TreeFields DEF Removed
<1> HIDE DEF h
<1>6. Below(h, q) = {q} /\ h.node[q] = g.node[q]
  BY <1>2, <1>3, <1>4 DEF Below
<1>7. Found(h, h.node[q]) = Found(g, g.node[q])
  BY <1>5, <1>6 DEF Found
<1>8. /\ ViewAt(f, r) = {<< <<>>, Found(f, f.node[r])>>}
      /\ ViewAt(g, q) = {<< <<>>, Found(g, g.node[q])>>}
      /\ ViewAt(h, q) = {<< <<>>, Found(h, h.node[q])>>}
  BY <1>2, <1>6, LeafView
<1> QED
  BY <1>1, <1>7, <1>8 DEF h

\* one block more
LEMMA OneMoreBlock ==
  ASSUME NEW p \in Path, NEW n \in 1..Len(p)
  PROVE  Append(SubSeq(p, 1, n - 1), p[n]) = SubSeq(p, 1, n)
<1> DEFINE u == SubSeq(p, 1, n - 1)
           v == SubSeq(p, 1, n)
           w == Append(u, p[n])
<1>1. p \in Seq(STRING) /\ Len(p) \in Nat /\ \A i \in 1..Len(p) : p[i] \in STRING
  BY LenProperties, ElementOfSeq DEF Path
<1>2. 1 \in Int /\ n \in Int /\ n - 1 \in Int /\ n >= 1 /\ n <= Len(p)
  BY <1>1
<1>3. /\ u \in Seq(STRING) /\ Len(u) = (IF 1 <= n - 1 THEN n - 1 - 1 + 1 ELSE 0)
      /\ \A i \in 1..(n - 1 - 1 + 1) : u[i] = p[1 + i - 1]
  <2>1. \A i \in 1..(n - 1) : p[i] \in STRING
    BY <1>1, <1>2
  <2> HIDE DEF u
  <2>2. n - 1 \in Int
    BY <1>2
  <2> QED
    BY <1>2, <2>1, <2>2, SubSeqProperties DEF u
<1>4. /\ v \in Seq(STRING) /\ Len(v) = (IF 1 <= n THEN n - 1 + 1 ELSE 0)
      /\ \A i \in 1..(n - 1 + 1) : v[i] = p[1 + i - 1]
  <2>1. \A i \in 1..n : p[i] \in STRING
    BY <1>1, <1>2
  <2> QED
    BY <1>2, <2>1, SubSeqProperties
<1> HIDE DEF u, v
<1>5. Len(u) = n - 1 /\ Len(v) = n /\ (\A i \in 1..(n - 1) : u[i] = p[i]) /\ (\A i \in 1..n : v[i] = p[i])
  BY <1>2, <1>3, <1>4
<1>6. p[n] \in STRING
  BY <1>1
<1>7. /\ w \in Seq(STRING) /\ Len(w) = Len(u) + 1
      /\ \A i \in 1..Len(u) : w[i] = u[i]
      /\ w[Len(u) + 1] = p[n]
  BY <1>3, <1>6, AppendProperties
<1> HIDE DEF w
<1>8. Len(w) = n /\ \A i \in 1..n : w[i] = v[i]
  <2>1. ASSUME NEW i \in 1..n PROVE w[i] = v[i]
    <3>1. CASE i = n
      <4>1. w[n] = p[n] /\ v[n] = p[n]
        BY <1>2, <1>5, <1>7
      <4> QED
        BY <3>1, <4>1
    <3>2. CASE i # n
      <4>1. i \in 1..(n - 1)
        BY <1>2, <3>2
      <4> QED
        BY <1>5, <1>7, <4>1
    <3> QED
      BY <3>1, <3>2
  <2> QED
    BY <1>2, <1>5, <1>7, <2>1
<1>9. w = v
  BY <1>4, <1>5, <1>7, <1>8, SeqEqual
<1> QED
  BY <1>9 DEF w, u, v

-----------------------------------------------------------------------------
(* mv of one source: what has become of it, call by call.                  *)

Carries(fr, s) == fr.src = s /\ fr.dst = Target(s)
Copied(s) ==
  \E r \in Named(fs0, s), q \in Reaches(Target(s)) : SameThere(fs, fs0, r, q)

\* the file opened for the copy holds the blocks copied so far
Copying(fr, s) ==
  \E r \in Named(fs0, s), q \in Reaches(Target(s)) :
    /\ Beside(fs, fs0, r, q)
    /\ fs0.node[r] = File(fr.in) /\ fs.node[q] = File(fr.to)
    /\ fr.in \in DOMAIN fs0.data /\ fr.to \in DOMAIN fs.data /\ fr.in # fr.to
    /\ fr.at \in 1..(Len(fs0.data[fr.in]) + 1)
    /\ fs.data[fr.to] = SubSeq(fs0.data[fr.in], 1, fr.at - 1)

MvMain(m, s) ==
  /\ m.op = "main"
  /\ \/ m.left = <<s>> /\ fs = fs0
     \/ /\ m.left = <<>> /\ (Whole(s) \/ HasMoved(s))
        /\ ret = 0 /\ rc = 0 => HasMoved(s)
MvFrame(fr, s) ==
  /\ Carries(fr, s)
  /\ \/ fr.op \in {"mv", "mvAcross", "mvLink"} /\ fs = fs0
     \/ fr.op = "mvCopied" /\ Whole(s) /\ (ret = 0 => Copied(s))
     \/ fr.op = "mvUnlink" /\ Copied(s)
MvCopy(fr, s) ==
  \/ /\ fr.op = "copy" /\ Carries(fr, s) /\ fs = fs0
     /\ \E r \in Named(fs0, s) : KindAt(fs0, r) = "file"
  \/ fr.op = "copying" /\ Copying(fr, s)
Mv(s) ==
  \/ todo = <<>> /\ (Whole(s) \/ HasMoved(s)) /\ (rc = 0 => HasMoved(s))
  \/ \E m \in {todo[1]} : todo = <<m>> /\ MvMain(m, s)
  \/ \E fr \in {todo[1]}, m \in {todo[2]} : todo = <<fr, m>> /\ LastCall(m) /\ MvFrame(fr, s)
  \/ \E fr \in {todo[1]}, c \in {todo[2]}, m \in {todo[3]} :
       /\ todo = <<fr, c, m>> /\ LastCall(m)
       /\ c.op = "mvCopied" /\ Carries(c, s) /\ MvCopy(fr, s)
Moves(s) == Confined /\ cmd.tool = "mv" /\ Apart /\ s \in SrcArgs

LEMMA MvShape ==
  ASSUME NEW s, Mv(s), Running
  PROVE  \/ \E m : todo = <<m>> /\ Top = m /\ Tail(todo) = <<>> /\ m.op = "main" /\ MvMain(m, s)
         \/ \E fr, m : /\ todo = <<fr, m>> /\ Top = fr /\ Tail(todo) = <<m>> /\ LastCall(m)
                       /\ fr.op \in MvOps /\ MvFrame(fr, s)
         \/ \E fr, c, m : /\ todo = <<fr, c, m>> /\ Top = fr /\ Tail(todo) = <<c, m>>
                          /\ LastCall(m) /\ c.op = "mvCopied" /\ Carries(c, s)
                          /\ fr.op \in {"copy", "copying"} /\ MvCopy(fr, s)
<1>1. CASE \E m \in {todo[1]} : todo = <<m>> /\ MvMain(m, s)
  <2>1. PICK m : todo = <<m>> /\ MvMain(m, s)
    BY <1>1
  <2>2. Head(<<m>>) = m /\ Tail(<<m>>) = <<>>
    OBVIOUS
  <2> QED
    BY <2>1, <2>2 DEF Top, MvMain
<1>2. CASE \E fr \in {todo[1]}, m \in {todo[2]} : todo = <<fr, m>> /\ LastCall(m) /\ MvFrame(fr, s)
  <2>1. PICK fr, m : todo = <<fr, m>> /\ LastCall(m) /\ MvFrame(fr, s)
    BY <1>2
  <2>2. Head(<<fr, m>>) = fr /\ Tail(<<fr, m>>) = <<m>>
    OBVIOUS
  <2>3. fr.op \in MvOps
    BY <2>1 DEF MvFrame, MvOps
  <2> QED
    BY <2>1, <2>2, <2>3 DEF Top
<1>3. CASE \E fr \in {todo[1]}, c \in {todo[2]}, m \in {todo[3]} :
             /\ todo = <<fr, c, m>> /\ LastCall(m)
             /\ c.op = "mvCopied" /\ Carries(c, s) /\ MvCopy(fr, s)
  <2>1. PICK fr, c, m : /\ todo = <<fr, c, m>> /\ LastCall(m)
                        /\ c.op = "mvCopied" /\ Carries(c, s) /\ MvCopy(fr, s)
    BY <1>3
  <2>2. Head(<<fr, c, m>>) = fr /\ Tail(<<fr, c, m>>) = <<c, m>>
    OBVIOUS
  <2>3. fr.op \in {"copy", "copying"}
    BY <2>1 DEF MvCopy
  <2> QED
    BY <2>1, <2>2, <2>3 DEF Top
<1> QED
  BY <1>1, <1>2, <1>3 DEF Mv, Running

\* the call that runs, and what is below it
LEMMA MvCallAt ==
  ASSUME NEW s, Mv(s), Running, Top.op \in MvOps
  PROVE  \E m : Tail(todo) = <<m>> /\ LastCall(m) /\ MvFrame(Top, s)
<1>1. Top.op # "main" /\ Top.op \notin {"copy", "copying"}
  BY DEF MvOps
<1> QED
  BY <1>1, MvShape

LEMMA MvCopyAt ==
  ASSUME NEW s, Mv(s), Running, Top.op \in {"copy", "copying"}
  PROVE  \E c, m : /\ Tail(todo) = <<c, m>> /\ LastCall(m) /\ c.op = "mvCopied"
                   /\ Carries(c, s) /\ MvCopy(Top, s)
<1>1. Top.op # "main" /\ Top.op \notin MvOps
  BY DEF MvOps
<1> QED
  BY <1>1, MvShape

LEMMA MvReturned ==
  ASSUME NEW s, NEW m, todo' = <<m>>, LastCall(m), (Whole(s) \/ HasMoved(s))',
         ret' = 0 => HasMoved(s)'
  PROVE  Mv(s)'
<1>1. MvMain(m, s)'
  BY DEF MvMain, LastCall
<1> QED
  BY <1>1 DEF Mv

LEMMA MvGoesOn ==
  ASSUME NEW s, NEW fr, NEW m, todo' = <<fr, m>>, LastCall(m), MvFrame(fr, s)'
  PROVE  Mv(s)'
BY DEF Mv

LEMMA MvCopies ==
  ASSUME NEW s, NEW fr, NEW c, NEW m, todo' = <<fr, c, m>>, LastCall(m),
         c.op = "mvCopied", Carries(c, s)', MvCopy(fr, s)'
  PROVE  Mv(s)'
BY DEF Mv

\* what a step does not change
LEMMA MvFixed ==
  ASSUME UNCHANGED <<cmd, fs0>>
  PROVE  /\ \A s : Target(s)' = Target(s) /\ Reaches(Target(s))' = Reaches(Target(s))
         /\ \A fr, s : Carries(fr, s)' <=> Carries(fr, s)
         /\ \A s : Moves(s)' <=> Moves(s)
<1>1. \A s : Target(s)' = Target(s)
  BY DEF Target
<1>2. \A s : Reaches(Target(s))' = Reaches(Target(s))
  BY <1>1 DEF Reaches
<1>3. SrcArgs' = SrcArgs /\ Led' = Led /\ MayWrite' = MayWrite /\ (Confined' <=> Confined)
  BY Fixed
<1>4. \A s : Reaches(s)' = Reaches(s)
  BY DEF Reaches
<1>5. Sources(cmd)' = Sources(cmd) /\ {Target(s) : s \in SrcArgs}' = {Target(s) : s \in SrcArgs}
  BY <1>1, <1>3
<1>6. NoClash' <=> NoClash
  BY <1>5 DEF NoClash
<1>7. \A x : Named(fs0, x)' = Named(fs0, x) /\ LedBy(x)' = LedBy(x)
              /\ FilesBelow(x)' = FilesBelow(x)
  BY <1>2 DEF LedBy, Linked, FilesBelow
<1>8. Apart' <=> Apart
  BY <1>3, <1>4, <1>6, <1>7 DEF Apart
<1> QED
  BY <1>1, <1>2, <1>3, <1>8 DEF Carries, Moves

LEMMA MovedNow ==
  ASSUME UNCHANGED <<cmd, fs0>>, NEW s, NEW q \in Reaches(Target(s)),
         ViewAt(fs', q) = View(fs0, s), View(fs0, s) # {}
  PROVE  HasMoved(s)'
<1>1. Reaches(Target(s))' = Reaches(Target(s))
  BY MvFixed
<1>2. \E x \in Reaches(Target(s))' : ViewAt(fs', x) = View(fs0', s)
  BY <1>1
<1> QED
  BY <1>2 DEF HasMoved

\* what Apart says of the one source and its target
LEMMA ApartParts ==
  ASSUME Started, Apart, NEW s \in SrcArgs, NEW r \in Named(fs0, s), NEW q \in Reaches(Target(s)),
         cmd.tool = "mv"
  PROVE  /\ s \in Path /\ r \in Path /\ q \in Path /\ ~Under(r, q) /\ ~Under(q, r) /\ r # q
         /\ KindAt(fs0, r) = "file" /\ KindAt(fs0, q) = "file" =>
              fs0.node[r].ino # fs0.node[q].ino
<1>1. s \in Path /\ Target(s) \in Path
  BY Args
<1>2. IsTree(fs0) /\ LinksOk(fs0) /\ KindAt(fs0, <<>>) # "link"
  BY TreeThere
<1>3. r \in Path /\ q \in Led /\ q \in Path
  <2>1. q \in Led /\ q \in Path
    BY LedIn
  <2> QED
    BY <1>1, <1>2, <2>1, NamedIn
<1>4. r \in UNION {Reaches(x) : x \in SrcArgs}
  BY DEF Reaches
<1>5. ~Under(r, q) /\ ~Under(q, r)
  BY <1>3, <1>4 DEF Apart
<1>6. Under(r, r) /\ Under(q, q)
  BY <1>3, UnderSelf
<1>7. ASSUME KindAt(fs0, r) = "file", KindAt(fs0, q) = "file"
      PROVE  fs0.node[r].ino # fs0.node[q].ino
  <2>1. r \in Below(fs0, r) /\ q \in Below(fs0, q)
    BY <1>6, <1>7 DEF Below, KindAt
  <2>2. fs0.node[r].ino \notin MayWrite
    BY <1>4, <1>7, <2>1 DEF Apart
  <2>3. fs0.node[q].ino \in MayWrite
    BY <1>3, <1>7, <2>1 DEF MayWrite, FilesBelow
  <2> QED
    BY <2>2, <2>3
<1> QED
  BY <1>1, <1>3, <1>5, <1>6, <1>7

\* what holds where mv is at one of its calls
LEMMA MvHere ==
  ASSUME ToolInv, NEW s, Moves(s), Mv(s), Running, Top.op \in MvOps
  PROVE  /\ Started /\ Apart /\ s \in SrcArgs /\ s \in Path /\ cmd.tool = "mv"
         /\ IsTree(fs0) /\ LinksOk(fs0)
         /\ Top.src = s /\ Top.dst = Target(s) /\ CopyCall(Top)
         /\ Top.op \in {"mv", "mvAcross", "mvLink"} => fs = fs0
         /\ Top.op = "mvCopied" => Whole(s) /\ (ret = 0 => Copied(s))
         /\ Top.op = "mvUnlink" => Copied(s)
<1>1. Started /\ CopyCall(Top)
  BY MvAt
<1>2. MvFrame(Top, s)
  BY MvCallAt
<1> QED
  BY <1>1, <1>2, TreeThere, Args DEF Moves, MvFrame, Carries

\* it returns, with what it has done
LEMMA MvGivesUp ==
  ASSUME NEW s, Mv(s), Running, Top.op \in MvOps, UNCHANGED <<fs, cmd, fs0>>, Return(-1), Whole(s)
  PROVE  Mv(s)'
<1>1. PICK m : Tail(todo) = <<m>> /\ LastCall(m)
  BY MvCallAt
<1>2. todo' = <<m>> /\ ret' = -1
  BY <1>1 DEF Return
<1>3. Whole(s)' /\ ret' # 0
  BY <1>2 DEF Whole
<1> QED
  BY <1>1, <1>2, <1>3, MvReturned

\* or goes on as another one
LEMMA MvTurns ==
  ASSUME ToolInv, NEW s, Moves(s), Mv(s), Running, Top.op \in MvOps, UNCHANGED <<cmd, fs0>>,
         NEW x \in MvOps, Become([Top EXCEPT !.op = x]),
         \/ x \in {"mv", "mvAcross", "mvLink"} /\ fs' = fs0
         \/ x = "mvUnlink" /\ Copied(s)'
  PROVE  Mv(s)'
<1>0. PICK u : u = [Top EXCEPT !.op = x] /\ todo' = <<u>> \o Tail(todo)
  BY DEF Become
<1>1. PICK m : Tail(todo) = <<m>> /\ LastCall(m)
  BY MvCallAt
<1>2. Top.src = s /\ Top.dst = Target(s) /\ CopyCall(Top)
  BY MvHere
<1>3. u.op = x /\ u.src = Top.src /\ u.dst = Top.dst
  <2> DEFINE ops == CpOps \cup MvOps \cup {"copy"}
  <2>1. Top \in Calls(ops) /\ x \in ops
    BY <1>2 DEF CopyCall
  <2> HIDE DEF ops
  <2> QED
    BY <1>0, <2>1, CallAs
<1>5. todo' = <<u, m>>
  BY <1>0, <1>1, ConcatOneOne
<1>6. Carries(u, s)'
  BY <1>2, <1>3, MvFixed DEF Carries
<1>7. MvFrame(u, s)'
  BY <1>3, <1>6 DEF MvFrame
<1> QED
  BY <1>1, <1>5, <1>7, MvGoesOn

LEMMA MvRenameMoves ==
  ASSUME ToolInv, NEW s, Moves(s), Mv(s), MvRename
  PROVE  Mv(s)'
<1>1. Running /\ Top.op = "mv" /\ Top.op \in MvOps /\ UNCHANGED <<cmd, fs0>>
  BY DEF MvRename, At, Others, MvOps
<1>2. /\ Started /\ Apart /\ s \in SrcArgs /\ s \in Path /\ cmd.tool = "mv"
      /\ IsTree(fs0) /\ LinksOk(fs0)
      /\ Top.src = s /\ Top.dst = Target(s) /\ fs = fs0
  BY <1>1, MvHere
<1>3. CASE Succeeds(rename(fs, Top.src, Top.dst)) /\ Return(0)
  <2>1. fs' \in rename(fs0, s, Target(s)) /\ todo' = Tail(todo)
    BY <1>2, <1>3 DEF Succeeds, Return
  <2>2. PICK r \in Named(fs0, s) \cap DOMAIN fs0.node, q \in Named(fs0, Target(s)) :
          /\ fs' = IF SameFile(fs0, r, q) THEN fs0 ELSE Moved(fs0, r, q)
          /\ SameFile(fs0, r, q) \/ (~Under(r, q) /\ Replaceable(fs0, r, q))
    BY <2>1 DEF rename
  <2>3. q \in Reaches(Target(s))
    BY <2>2 DEF Reaches
  <2>4. /\ r \in Path /\ q \in Path /\ r # q
        /\ KindAt(fs0, r) = "file" /\ KindAt(fs0, q) = "file" =>
             fs0.node[r].ino # fs0.node[q].ino
    BY <1>2, <2>2, <2>3, ApartParts
  <2>5. ~SameFile(fs0, r, q)
    BY <2>4 DEF SameFile
  <2>6. ViewAt(fs', q) = ViewAt(fs0, r)
    BY <1>2, <2>2, <2>4, <2>5, MovedView
  <2>7. View(fs0, s) = ViewAt(fs0, r)
    BY <1>2, <2>2, OneView
  <2>8. ViewAt(fs0, r) # {}
    <3>1. r \in Below(fs0, r)
      BY <2>2, <2>4, UnderSelf DEF Below
    <3> QED
      BY <3>1 DEF ViewAt
  <2>9. HasMoved(s)'
    BY <1>1, <2>3, <2>6, <2>7, <2>8, MovedNow
  <2>10. PICK m : Tail(todo) = <<m>> /\ LastCall(m)
    BY <1>1, MvCallAt
  <2> QED
    BY <2>1, <2>9, <2>10, MvReturned
<1>4. CASE Fails(rename(fs, Top.src, Top.dst)) /\ Become([Top EXCEPT !.op = "mvAcross"])
  <2> DEFINE x == "mvAcross"
  <2>1. x \in MvOps /\ x \in {"mv", "mvAcross", "mvLink"} /\ fs' = fs0
    BY <1>2, <1>4 DEF Fails, MvOps
  <2>2. Become([Top EXCEPT !.op = x])
    BY <1>4
  <2> HIDE DEF x
  <2> QED
    BY <1>1, <2>1, <2>2, MvTurns
<1> QED
  BY <1>3, <1>4 DEF MvRename

LEMMA MvAcrossMoves ==
  ASSUME ToolInv, NEW s, Moves(s), Mv(s), MvAcross
  PROVE  Mv(s)'
<1>1. /\ Running /\ Top.op = "mvAcross" /\ Top.op \in MvOps /\ UNCHANGED <<fs, cmd, fs0>>
  BY DEF MvAcross, At, Others, MvOps, Succeeds, Fails
<1>2. /\ Started /\ s \in Path /\ cmd.tool = "mv"
      /\ Top.src = s /\ Top.dst = Target(s) /\ CopyCall(Top) /\ fs = fs0
  BY <1>1, MvHere
<1>3. CASE Return(-1)
  BY <1>1, <1>2, <1>3, MvGivesUp DEF Whole
<1>4. CASE Become([Top EXCEPT !.op = "mvLink"])
  <2> DEFINE x == "mvLink"
  <2>1. x \in MvOps /\ x \in {"mv", "mvAcross", "mvLink"} /\ fs' = fs0
    BY <1>1, <1>2 DEF MvOps
  <2>2. Become([Top EXCEPT !.op = x])
    BY <1>4
  <2> HIDE DEF x
  <2> QED
    BY <1>1, <2>1, <2>2, MvTurns
<1>5. CASE /\ {n.kind : n \in lstat(fs, Top.src)} = {"file"}
           /\ CallThen([Top EXCEPT !.op = "copy"], [Top EXCEPT !.op = "mvCopied"])
  <2> DEFINE ops == CpOps \cup MvOps \cup {"copy"}
  <2>1. PICK u, next : /\ u = [Top EXCEPT !.op = "copy"] /\ next = [Top EXCEPT !.op = "mvCopied"]
                       /\ todo' = <<u, next>> \o Tail(todo)
    BY <1>5 DEF CallThen
  <2>2. Top \in Calls(ops) /\ "copy" \in ops /\ "mvCopied" \in ops
    BY <1>2 DEF CopyCall, MvOps
  <2> HIDE DEF ops
  <2>3. u.op = "copy" /\ u.src = s /\ u.dst = Target(s)
    BY <1>2, <2>1, <2>2, CallAs
  <2>4. next.op = "mvCopied" /\ next.src = s /\ next.dst = Target(s)
    BY <1>2, <2>1, <2>2, CallAs
  <2>5. PICK m : Tail(todo) = <<m>> /\ LastCall(m)
    BY <1>1, MvCallAt
  <2>6. todo' = <<u, next, m>>
    BY <2>1, <2>5, ConcatTwoOne
  <2>7. Carries(u, s)' /\ Carries(next, s)'
    BY <1>1, <2>3, <2>4, MvFixed DEF Carries
  <2>8. \E r \in Named(fs0, s) : KindAt(fs0, r) = "file"
    <3>1. PICK n \in lstat(fs0, s) : n.kind = "file"
      BY <1>2, <1>5
    <3> QED
      BY <3>1 DEF lstat, KindAt
  <2>9. MvCopy(u, s)'
    BY <1>1, <1>2, <2>3, <2>7, <2>8 DEF MvCopy
  <2> QED
    BY <2>4, <2>5, <2>6, <2>7, <2>9, MvCopies
<1> QED
  BY <1>3, <1>4, <1>5 DEF MvAcross

LEMMA MvLinkMoves ==
  ASSUME ToolInv, NEW s, Moves(s), Mv(s), MvLink
  PROVE  Mv(s)'
<1>1. Running /\ Top.op = "mvLink" /\ Top.op \in MvOps /\ UNCHANGED <<cmd, fs0>>
  BY DEF MvLink, At, Others, MvOps
<1>2. /\ Started /\ Apart /\ s \in SrcArgs /\ s \in Path /\ cmd.tool = "mv"
      /\ IsTree(fs0) /\ LinksOk(fs0)
      /\ Top.src = s /\ Top.dst = Target(s) /\ fs = fs0
  BY <1>1, MvHere
<1>3. \A n \in lstat(fs0, s) : n.kind = "link"
  BY <1>1, <1>2, MvAt DEF Late, At
<1> DEFINE made == UNION {symlink(fs, n.to, Top.dst) : n \in lstat(fs, Top.src)}
<1>4. CASE Succeeds(made) /\ Become([Top EXCEPT !.op = "mvUnlink"])
  <2>1. PICK n \in lstat(fs0, s) : fs' \in symlink(fs0, n.to, Target(s))
    BY <1>2, <1>4 DEF Succeeds
  <2>2. PICK q \in Free(fs0, Target(s)) : fs' = Put(fs0, q, Link(n.to))
    BY <2>1 DEF symlink
  <2>3. PICK r \in Named(fs0, s) : r \in DOMAIN fs0.node /\ fs0.node[r] = n
    BY <2>1 DEF lstat
  <2>4. q \in Reaches(Target(s)) /\ q \notin DOMAIN fs0.node
    BY <2>2 DEF Reaches, Free
  <2>5. q \in Path /\ ~Under(r, q) /\ ~Under(q, r)
    BY <1>2, <2>3, <2>4, ApartParts
  <2>6. n.kind = "link" /\ n.to \in Path /\ Link(n.to) = n
    <3>1. n.kind = "link"
      BY <1>3, <2>1
    <3>2. n = Dir \/ (\E i \in DOMAIN fs0.data : n = File(i)) \/ (n.to \in Path /\ n = Link(n.to))
      BY <1>2, <2>3 DEF IsTree
    <3> QED
      BY <3>1, <3>2 DEF Dir, File
  <2>7. /\ Extends(fs', fs0) /\ LinksOk(fs') /\ fs'.node[q] = n
        /\ DOMAIN fs'.node = DOMAIN fs0.node \cup {q} /\ fs'.data = fs0.data
    <3>1. fs'.data = fs0.data
      BY <2>2, TreeFields DEF Put
    <3> QED
      BY <1>2, <2>2, <2>4, <2>6, <3>1, PutParts
  <2>8. Found(fs', n) = Found(fs0, n)
    BY <2>7 DEF Found
  <2>9. KindAt(fs0, r) = "link" /\ KindAt(fs0, q) # "dir"
    BY <2>3, <2>4, <2>6 DEF KindAt
  <2>10. SameThere(fs', fs0, r, q)
    BY <2>3, <2>5, <2>7, <2>8, <2>9 DEF SameThere, Beside
  <2>11. Copied(s)'
    BY <1>1, <2>3, <2>4, <2>10, MvFixed DEF Copied
  <2> DEFINE x == "mvUnlink"
  <2>12. x \in MvOps /\ x = "mvUnlink" /\ Become([Top EXCEPT !.op = x])
    BY <1>4 DEF MvOps
  <2> HIDE DEF x
  <2> QED
    BY <1>1, <2>11, <2>12, MvTurns
<1>5. CASE Fails(made) /\ Return(-1)
  BY <1>1, <1>2, <1>5, MvGivesUp DEF Fails, Whole
<1> QED
  BY <1>4, <1>5 DEF MvLink, Relink

LEMMA MvCopiedMoves ==
  ASSUME ToolInv, NEW s, Moves(s), Mv(s), MvCopied
  PROVE  Mv(s)'
<1>1. /\ Running /\ Top.op = "mvCopied" /\ Top.op \in MvOps /\ UNCHANGED <<fs, cmd, fs0>>
  BY DEF MvCopied, At, Quiet, Others, MvOps
<1>2. Whole(s) /\ (ret = 0 => Copied(s))
  BY <1>1, MvHere
<1>3. CASE ret = 0 /\ Become([Top EXCEPT !.op = "mvUnlink"])
  <2>1. Copied(s)'
    BY <1>1, <1>2, <1>3, MvFixed DEF Copied
  <2> DEFINE x == "mvUnlink"
  <2>2. x \in MvOps /\ x = "mvUnlink" /\ Become([Top EXCEPT !.op = x])
    BY <1>3 DEF MvOps
  <2> HIDE DEF x
  <2> QED
    BY <1>1, <2>1, <2>2, MvTurns
<1>4. CASE Return(-1)
  BY <1>1, <1>2, <1>4, MvGivesUp
<1> QED
  BY <1>3, <1>4 DEF MvCopied

LEMMA MvUnlinkMoves ==
  ASSUME ToolInv, NEW s, Moves(s), Mv(s), MvUnlink
  PROVE  Mv(s)'
<1>1. /\ Running /\ Top.op = "mvUnlink" /\ Top.op \in MvOps /\ UNCHANGED <<cmd, fs0>>
      /\ todo' = Tail(todo)
  BY DEF MvUnlink, At, Others, MvOps, Return
<1>2. s \in Path /\ IsTree(fs0) /\ LinksOk(fs0) /\ Top.src = s /\ Copied(s)
  BY <1>1, MvHere
<1>3. PICK r \in Named(fs0, s), q \in Reaches(Target(s)) : SameThere(fs, fs0, r, q)
  BY <1>2 DEF Copied
<1>4. Named(fs, s) = {r}
  BY <1>2, <1>3, BesideView DEF SameThere
<1>5. View(fs0, s) = ViewAt(fs0, r)
  BY <1>2, OneView
<1>6. fs' = fs \/ fs' = Removed(fs, {r})
  BY <1>2, <1>4 DEF MvUnlink, Succeeds, Fails, unlink
<1>7. ViewAt(fs', q) = View(fs0, s) /\ View(fs0, s) # {}
  <2>1. /\ ViewAt(fs, q) = ViewAt(fs0, r) /\ ViewAt(Removed(fs, {r}), q) = ViewAt(fs0, r)
        /\ ViewAt(fs0, r) # {}
    BY <1>2, <1>3, SameView
  <2> QED
    BY <1>5, <1>6, <2>1
<1>8. HasMoved(s)'
  BY <1>1, <1>7, MovedNow
<1>9. PICK m : Tail(todo) = <<m>> /\ LastCall(m)
  BY <1>1, MvCallAt
<1> QED
  BY <1>1, <1>8, <1>9, MvReturned

LEMMA NoneSub == ASSUME NEW p \in Path PROVE SubSeq(p, 1, 0) = <<>>
<1> DEFINE u == SubSeq(p, 1, 0)
<1>1. 1 \in Int /\ 0 \in Int /\ (\A i \in 1..0 : p[i] \in STRING) /\ ~(1 <= 0)
  OBVIOUS
<1>2. u \in Seq(STRING) /\ Len(u) = 0
  BY <1>1, SubSeqProperties
<1> HIDE DEF u
<1>3. u = <<>>
  BY <1>2, EmptySeq
<1> QED
  BY <1>3 DEF u

LEMMA FileNode ==
  ASSUME NEW f, IsTree(f), NEW q \in DOMAIN f.node, f.node[q].kind = "file"
  PROVE  \E j \in DOMAIN f.data : f.node[q] = File(j)
<1> DEFINE n == f.node[q]
<1>1. n = Dir \/ (\E j \in DOMAIN f.data : n = File(j)) \/ n.kind = "link"
  BY DEF IsTree
<1>2. n.kind = "file"
  OBVIOUS
<1> HIDE DEF n
<1>3. \E j \in DOMAIN f.data : n = File(j)
  BY <1>1, <1>2 DEF Dir
<1> QED
  BY <1>3 DEF n

\* the copy returns to mv
LEMMA MvGetsBack ==
  ASSUME NEW s, Mv(s), Running, Top.op \in {"copy", "copying"}, UNCHANGED <<fs, cmd, fs0>>,
         todo' = Tail(todo), Whole(s), ret' = 0 => Copied(s)
  PROVE  Mv(s)'
<1>1. PICK c, m : Tail(todo) = <<c, m>> /\ LastCall(m) /\ c.op = "mvCopied" /\ Carries(c, s)
  BY MvCopyAt
<1>2. Carries(c, s)' /\ Whole(s)' /\ (ret' = 0 => Copied(s)')
  BY <1>1, MvFixed DEF Whole, Copied
<1>3. MvFrame(c, s)'
  BY <1>1, <1>2 DEF MvFrame
<1> QED
  BY <1>1, <1>3, MvGoesOn

\* or goes on
LEMMA MvCopiesOn ==
  ASSUME NEW s, Mv(s), Running, Top.op \in {"copy", "copying"}, UNCHANGED <<cmd, fs0>>,
         NEW u, todo' = <<u>> \o Tail(todo), u.op = "copying", Copying(u, s)'
  PROVE  Mv(s)'
<1>1. PICK c, m : Tail(todo) = <<c, m>> /\ LastCall(m) /\ c.op = "mvCopied" /\ Carries(c, s)
  BY MvCopyAt
<1>2. Carries(c, s)'
  BY <1>1, MvFixed
<1>3. MvCopy(u, s)'
  BY DEF MvCopy
<1>4. todo' = <<u, c, m>>
  BY <1>1, ConcatOneTwo
<1> QED
  BY <1>1, <1>2, <1>3, <1>4, MvCopies

LEMMA MvOpens ==
  ASSUME ToolInv, NEW s, Moves(s), Mv(s), CopyOpen
  PROVE  Mv(s)'
<1>1. Running /\ Top.op = "copy" /\ UNCHANGED <<cmd, fs0>>
  BY DEF CopyOpen, At, Others
<1>2. /\ Started /\ Apart /\ s \in SrcArgs /\ s \in Path /\ cmd.tool = "mv" /\ IsTree(fs0)
      /\ LinksOk(fs0) /\ Data(fs0)
  <2>1. Started
    BY DEF ToolInv
  <2> QED
    BY <2>1, TreeThere, Args DEF Moves, IsTree, Data
<1>3. Top.src = s /\ Top.dst = Target(s) /\ fs = fs0
  BY <1>1, MvCopyAt DEF MvCopy, Carries
<1>4. PICK r \in Named(fs0, s) : KindAt(fs0, r) = "file"
  BY <1>1, MvCopyAt DEF MvCopy
<1>5. CASE \E x \in CopyFrom(Top.src) \X open_trunc(fs, Top.dst, TRUE) :
             /\ Succeeds({x[2][1]})
             /\ Become([op |-> "copying", in |-> x[1], to |-> x[2][2], at |-> 1])
  <2>1. PICK i \in CopyFrom(s), y \in open_trunc(fs0, Target(s), TRUE) :
          /\ fs' = y[1]
          /\ todo' = <<[op |-> "copying", in |-> i, to |-> y[2], at |-> 1]>> \o Tail(todo)
    BY <1>3, <1>5 DEF Succeeds, Become
  <2>2. r \in DOMAIN fs0.node /\ i \in DOMAIN fs0.data /\ fs0.node[r] = File(i)
    <3>1. PICK z \in Real(fs0, s) \cap DOMAIN fs0.node :
            fs0.node[z].kind = "file" /\ fs0.node[z].ino = i
      BY <1>3, <2>1 DEF CopyFrom, stat
    <3>2. z = r
      BY <1>2, <1>4, <3>1, RealAsNamed
    <3>3. PICK j \in DOMAIN fs0.data : fs0.node[r] = File(j)
      BY <1>2, <3>1, <3>2, FileNode
    <3>4. j = i
      BY <3>1, <3>2, <3>3 DEF File
    <3> QED
      BY <3>1, <3>2, <3>3, <3>4
  <2>3. PICK q \in Real(fs0, Target(s)) :
          \/ /\ KindAt(fs0, q) = "file" /\ y[2] = fs0.node[q].ino
             /\ y[1] = Tree(fs0.node, [fs0.data EXCEPT ![fs0.node[q].ino] = <<>>])
          \/ /\ q \notin DOMAIN fs0.node
             /\ y[1] = WithFile(fs0, q) /\ y[2] = NewIno(fs0)
    <3> DEFINE c == TRUE
    <3>1. y \in open_trunc(fs0, Target(s), c)
      OBVIOUS
    <3> HIDE DEF c
    <3> QED
      BY <3>1, OpenedBy
  <2>4. q \in Reaches(Target(s))
    BY DEF Reaches
  <2>5. /\ q \in Path /\ ~Under(r, q) /\ ~Under(q, r)
        /\ KindAt(fs0, q) = "file" => fs0.node[r].ino # fs0.node[q].ino
    BY <1>2, <1>4, <2>4, ApartParts
  <2>6. fs0.data[i] \in Path /\ Len(fs0.data[i]) \in Nat /\ SubSeq(fs0.data[i], 1, 0) = <<>>
    <3>1. fs0.data[i] \in Path
      BY <1>2, <2>2, ElementOfSeq DEF IsTree, Path
    <3> QED
      BY <3>1, NoneSub, LenProperties DEF Path
  <2>7. PICK t : t = y[2]
    OBVIOUS
  <2>8. /\ Extends(fs', fs0) /\ LinksOk(fs') /\ DOMAIN fs'.node = DOMAIN fs0.node \cup {q}
        /\ fs'.node[q] = File(t) /\ KindAt(fs0, q) # "dir"
        /\ t \in DOMAIN fs'.data /\ fs'.data[t] = <<>> /\ t # i /\ fs'.data[i] = fs0.data[i]
    <3>1. CASE /\ KindAt(fs0, q) = "file" /\ y[2] = fs0.node[q].ino
               /\ y[1] = Tree(fs0.node, [fs0.data EXCEPT ![fs0.node[q].ino] = <<>>])
      <4>1. q \in DOMAIN fs0.node /\ fs0.node[q].kind = "file"
        BY <3>1 DEF KindAt
      <4>2. PICK j \in DOMAIN fs0.data : fs0.node[q] = File(j)
        BY <1>2, <4>1, FileNode
      <4>3. j = t /\ t # i
        BY <2>2, <2>5, <2>7, <3>1, <4>2 DEF File
      <4>4. fs'.node = fs0.node /\ fs'.data = [fs0.data EXCEPT ![t] = <<>>]
        BY <2>1, <2>7, <3>1, TreeFields
      <4>5. t \in DOMAIN fs'.data /\ fs'.data[t] = <<>> /\ fs'.data[i] = fs0.data[i]
        BY <2>2, <4>2, <4>3, <4>4
      <4>6. Extends(fs', fs0) /\ LinksOk(fs')
        BY <1>2, <4>4 DEF Extends, LinksOk, Links
      <4> QED
        BY <3>1, <4>1, <4>2, <4>3, <4>4, <4>5, <4>6
    <3>2. CASE /\ q \notin DOMAIN fs0.node
               /\ y[1] = WithFile(fs0, q) /\ y[2] = NewIno(fs0)
      <4>1. /\ Extends(fs', fs0) /\ LinksOk(fs') /\ DOMAIN fs'.node = DOMAIN fs0.node \cup {q}
        BY <1>2, <2>1, <3>2, WithFileParts
      <4>2. fs'.node[q] = File(t) /\ fs'.data = Append(fs0.data, <<>>)
        <5> DEFINE w == With(fs0.node, q, File(NewIno(fs0)))
                   d == Append(fs0.data, <<>>)
        <5>1. w[q] = File(t)
          BY <2>7, <3>2 DEF With
        <5>2. fs' = Tree(w, d)
          BY <2>1, <3>2 DEF WithFile
        <5> HIDE DEF w, d
        <5>3. fs'.node = w /\ fs'.data = d
          BY <5>2, TreeFields
        <5> QED
          BY <5>1, <5>3 DEF d
      <4>3. KindAt(fs0, q) # "dir"
        BY <3>2 DEF KindAt
      <4>4. t \in DOMAIN fs'.data /\ fs'.data[t] = <<>> /\ t # i /\ fs'.data[i] = fs0.data[i]
        <5>1. PICK S : fs0.data \in Seq(S)
          BY <1>2 DEF Data
        <5> DEFINE T == S \cup {<<>>}
        <5>2. fs0.data \in Seq(T) /\ <<>> \in T
          BY <5>1, SeqMonotonic
        <5> HIDE DEF T
        <5>3. /\ fs'.data \in Seq(T) /\ Len(fs'.data) = Len(fs0.data) + 1
              /\ \A k \in 1..Len(fs0.data) : fs'.data[k] = fs0.data[k]
              /\ fs'.data[Len(fs0.data) + 1] = <<>>
          BY <4>2, <5>2, AppendProperties
        <5>4. Len(fs0.data) \in Nat /\ DOMAIN fs0.data = 1..Len(fs0.data)
              /\ DOMAIN fs'.data = 1..Len(fs'.data)
          BY <5>2, <5>3, LenProperties
        <5>5. t = Len(fs0.data) + 1
          BY <2>7, <3>2, <5>4 DEF NewIno
        <5> QED
          BY <2>2, <5>3, <5>4, <5>5
      <4> QED
        BY <4>1, <4>2, <4>3, <4>4
    <3> QED
      BY <2>3, <3>1, <3>2
  <2>9. Found(fs', fs0.node[r]) = Found(fs0, fs0.node[r])
    BY <2>2, <2>8 DEF Found, File
  <2>10. Beside(fs', fs0, r, q)
    BY <1>4, <2>2, <2>5, <2>8, <2>9 DEF Beside
  <2>11. PICK u : u = [op |-> "copying", in |-> i, to |-> t, at |-> 1]
    OBVIOUS
  <2>12. u.op = "copying" /\ u.in = i /\ u.to = t /\ u.at = 1 /\ todo' = <<u>> \o Tail(todo)
    BY <2>1, <2>7, <2>11
  <2>13. 1 \in 1..(Len(fs0.data[i]) + 1) /\ 1 - 1 = 0
    BY <2>6
  <2>14. fs'.data[t] = SubSeq(fs0.data[i], 1, 1 - 1)
    BY <2>6, <2>8, <2>13
  <2>15. Copying(u, s)'
    <3>1. /\ Beside(fs', fs0', r, q)
          /\ fs0'.node[r] = File(u.in) /\ fs'.node[q] = File(u.to)
          /\ u.in \in DOMAIN fs0'.data /\ u.to \in DOMAIN fs'.data /\ u.in # u.to
          /\ u.at \in 1..(Len(fs0'.data[u.in]) + 1)
          /\ fs'.data[u.to] = SubSeq(fs0'.data[u.in], 1, u.at - 1)
      BY <1>1, <2>2, <2>8, <2>10, <2>12, <2>13, <2>14
    <3>2. r \in Named(fs0', s) /\ q \in Reaches(Target(s))'
      BY <1>1, <2>4, MvFixed
    <3> QED
      BY <3>1, <3>2 DEF Copying
  <2> QED
    BY <1>1, <2>12, <2>15, MvCopiesOn
<1>6. CASE Fails(CopyFrom(Top.src) \X open_trunc(fs, Top.dst, TRUE)) /\ Return(-1)
  <2>1. UNCHANGED fs /\ todo' = Tail(todo) /\ ret' # 0
    BY <1>6 DEF Fails, Return
  <2> QED
    BY <1>1, <1>3, <2>1, MvGetsBack DEF Whole
<1> QED
  BY <1>5, <1>6 DEF CopyOpen

LEMMA FoundFile ==
  ASSUME NEW f, NEW g, NEW i, Found(f, File(i)) = Found(g, File(i))
  PROVE  f.data[i] = g.data[i]
<1> DEFINE n == File(i)
<1>1. n.kind = "file" /\ n.ino = i
  BY DEF File
<1> HIDE DEF n
<1>2. Found(f, n) = <<"file", f.data[i]>> /\ Found(g, n) = <<"file", g.data[i]>>
  BY <1>1 DEF Found
<1>3. <<"file", f.data[i]>> = <<"file", g.data[i]>>
  BY <1>2 DEF n
<1> QED
  BY <1>3

\* what holds while the copy is made
LEMMA CopyingParts ==
  ASSUME ToolInv, NEW s, Moves(s), Mv(s), Running, Top.op = "copying"
  PROVE  /\ s \in Path /\ IsTree(fs0) /\ LinksOk(fs0)
         /\ Top = [op |-> "copying", in |-> Top.in, to |-> Top.to, at |-> Top.at]
         /\ Copying(Top, s) /\ fs0.data[Top.in] \in Path /\ Len(fs0.data[Top.in]) \in Nat
         /\ Whole(s)
<1>1. Started /\ s \in SrcArgs
  BY DEF ToolInv, Moves
<1>2. s \in Path /\ IsTree(fs0) /\ LinksOk(fs0)
  BY <1>1, TreeThere, Args
<1>3. CopyLoop(Top)
  BY TopOK, FrameKinds
<1>4. Copying(Top, s)
  BY MvCopyAt DEF MvCopy
<1>5. PICK r \in Named(fs0, s), q \in Reaches(Target(s)) :
        Beside(fs, fs0, r, q) /\ Top.in \in DOMAIN fs0.data
  BY <1>4 DEF Copying
<1>6. fs0.data[Top.in] \in Path
  BY <1>2, <1>5, ElementOfSeq DEF IsTree, Path
<1>7. Len(fs0.data[Top.in]) \in Nat
  BY <1>6, LenProperties DEF Path
<1>8. Whole(s)
  BY <1>2, <1>5, BesideView DEF Whole
<1> QED
  BY <1>2, <1>3, <1>4, <1>6, <1>7, <1>8 DEF CopyLoop

LEMMA MvWrites ==
  ASSUME ToolInv, NEW s, Moves(s), Mv(s), CopyBlock
  PROVE  Mv(s)'
<1>1. Running /\ Top.op = "copying" /\ UNCHANGED <<cmd, fs0>> /\ ~CopyEnds
  BY DEF CopyBlock, At, Others
<1>2. PICK i, t, n : /\ i = Top.in /\ t = Top.to /\ n = Top.at
                     /\ Top = [op |-> "copying", in |-> i, to |-> t, at |-> n]
  BY <1>1, CopyingParts
<1>3. PICK d : d = fs0.data[i]
  OBVIOUS
<1>4. d \in Path /\ Len(d) \in Nat /\ Whole(s) /\ Copying(Top, s)
  BY <1>1, <1>2, <1>3, CopyingParts
<1>5. PICK r \in Named(fs0, s), q \in Reaches(Target(s)) :
        /\ Beside(fs, fs0, r, q)
        /\ fs0.node[r] = File(i) /\ fs.node[q] = File(t)
        /\ i \in DOMAIN fs0.data /\ t \in DOMAIN fs.data /\ i # t
        /\ n \in 1..(Len(d) + 1)
        /\ fs.data[t] = SubSeq(d, 1, n - 1)
  BY <1>2, <1>3, <1>4 DEF Copying
<1>6. fs.data[i] = d
  BY <1>3, <1>5, FoundFile DEF Beside
<1>7. n \in 1..Len(d) /\ n + 1 \in 1..(Len(d) + 1) /\ (n + 1) - 1 = n
  BY <1>1, <1>2, <1>4, <1>5, <1>6 DEF CopyEnds
<1>8. CASE /\ Succeeds({append(fs, Top.to, fs.data[Top.in][Top.at])})
           /\ Become([Top EXCEPT !.at = @ + 1])
  <2>1. fs' = append(fs, t, d[n]) /\ todo' = <<[Top EXCEPT !.at = @ + 1]>> \o Tail(todo)
    BY <1>2, <1>6, <1>8 DEF Succeeds, Become
  <2>2. PICK u : u = [Top EXCEPT !.at = @ + 1]
    OBVIOUS
  <2>3. u.op = "copying" /\ u.in = i /\ u.to = t /\ u.at = n + 1 /\ todo' = <<u>> \o Tail(todo)
    BY <1>2, <2>1, <2>2
  <2>4. /\ fs'.node = fs.node /\ fs'.data = [fs.data EXCEPT ![t] = Append(@, d[n])]
    BY <2>1, TreeFields DEF append
  <2>5. /\ t \in DOMAIN fs'.data /\ fs'.data[t] = Append(SubSeq(d, 1, n - 1), d[n])
        /\ fs'.data[i] = d
    BY <1>5, <1>6, <2>4
  <2>6. fs'.data[t] = SubSeq(d, 1, (n + 1) - 1)
    BY <1>4, <1>7, <2>5, OneMoreBlock
  <2>7. Beside(fs', fs0, r, q)
    <3>1. Found(fs', fs0.node[r]) = Found(fs0, fs0.node[r])
      BY <1>3, <1>5, <2>5 DEF Found, File
    <3>2. Extends(fs', fs0) /\ LinksOk(fs')
      BY <1>5, <2>4 DEF Beside, Extends, LinksOk, Links
    <3> QED
      BY <1>5, <2>4, <3>1, <3>2 DEF Beside
  <2>8. Copying(u, s)'
    <3>1. /\ Beside(fs', fs0', r, q)
          /\ fs0'.node[r] = File(u.in) /\ fs'.node[q] = File(u.to)
          /\ u.in \in DOMAIN fs0'.data /\ u.to \in DOMAIN fs'.data /\ u.in # u.to
          /\ u.at \in 1..(Len(fs0'.data[u.in]) + 1)
          /\ fs'.data[u.to] = SubSeq(fs0'.data[u.in], 1, u.at - 1)
      BY <1>1, <1>3, <1>5, <1>7, <2>3, <2>4, <2>5, <2>6, <2>7
    <3>2. r \in Named(fs0', s) /\ q \in Reaches(Target(s))'
      BY <1>1, MvFixed
    <3> QED
      BY <3>1, <3>2 DEF Copying
  <2> QED
    BY <1>1, <2>3, <2>8, MvCopiesOn
<1>9. CASE Fails({fs}) /\ Return(-1)
  <2>1. UNCHANGED fs /\ todo' = Tail(todo) /\ ret' # 0
    BY <1>9 DEF Fails, Return
  <2> QED
    BY <1>1, <1>4, <2>1, MvGetsBack
<1> QED
  BY <1>8, <1>9 DEF CopyBlock

LEMMA MvCloses ==
  ASSUME ToolInv, NEW s, Moves(s), Mv(s), CopyClose
  PROVE  Mv(s)'
<1>1. /\ Running /\ Top.op = "copying" /\ UNCHANGED <<fs, cmd, fs0>> /\ CopyEnds
      /\ todo' = Tail(todo)
  BY DEF CopyClose, At, Others, Succeeds, Fails, Return
<1>2. PICK i, t, n, d : i = Top.in /\ t = Top.to /\ n = Top.at /\ d = fs0.data[i]
  OBVIOUS
<1>3. d \in Path /\ Len(d) \in Nat /\ Whole(s) /\ Copying(Top, s)
  BY <1>1, <1>2, CopyingParts
<1>4. PICK r \in Named(fs0, s), q \in Reaches(Target(s)) :
        /\ Beside(fs, fs0, r, q)
        /\ fs0.node[r] = File(i) /\ fs.node[q] = File(t)
        /\ n \in 1..(Len(d) + 1)
        /\ fs.data[t] = SubSeq(d, 1, n - 1)
  BY <1>2, <1>3 DEF Copying
<1>5. fs.data[i] = d
  BY <1>2, <1>4, FoundFile DEF Beside
<1>6. n - 1 = Len(d)
  BY <1>1, <1>2, <1>3, <1>4, <1>5 DEF CopyEnds
<1>7. fs.data[t] = d
  BY <1>3, <1>4, <1>6, WholeSub
<1>8. Found(fs, fs.node[q]) = Found(fs0, fs0.node[r])
  BY <1>2, <1>4, <1>7 DEF Found, File
<1>9. Copied(s)
  BY <1>4, <1>8 DEF Copied, SameThere
<1> QED
  BY <1>1, <1>3, <1>9, MvGetsBack

\* at every moment, what was moved is whole
LEMMA MvSafe ==
  ASSUME ToolInv, NEW s, Moves(s), Mv(s)
  PROVE  Whole(s) \/ HasMoved(s)
<1>1. CASE todo = <<>>
  BY <1>1 DEF Mv
<1>2. CASE Running /\ Top.op = "main"
  <2>1. Top.op \notin MvOps /\ Top.op \notin {"copy", "copying"}
    BY <1>2 DEF MvOps
  <2>2. PICK m : MvMain(m, s)
    BY <1>2, <2>1, MvShape
  <2> QED
    BY <2>2 DEF MvMain, Whole
<1>3. CASE Running /\ Top.op \in MvOps
  <2>1. MvFrame(Top, s)
    BY <1>3, MvCallAt
  <2>2. CASE Copied(s)
    <3>1. PICK r \in Named(fs0, s), q \in Reaches(Target(s)) : Beside(fs, fs0, r, q)
      BY <2>2 DEF Copied, SameThere
    <3>2. s \in Path /\ IsTree(fs0)
      BY <1>3, MvHere
    <3> QED
      BY <3>1, <3>2, BesideView DEF Whole
  <2> QED
    BY <2>1, <2>2 DEF MvFrame, Whole
<1>4. CASE Running /\ Top.op \in {"copy", "copying"}
  <2>1. MvCopy(Top, s)
    BY <1>4, MvCopyAt
  <2>2. CASE Top.op = "copying"
    BY <1>4, <2>2, CopyingParts
  <2> QED
    BY <1>4, <2>1, <2>2 DEF MvCopy, Whole
<1>5. Running => Top.op = "main" \/ Top.op \in MvOps \/ Top.op \in {"copy", "copying"}
  BY MvShape
<1> QED
  BY <1>1, <1>2, <1>3, <1>4, <1>5 DEF Running

LEMMA MvArgument ==
  ASSUME ToolInv, NEW s, Moves(s), Mv(s), NextArgument
  PROVE  Mv(s)'
<1>1. Running /\ Top.op = "main" /\ UNCHANGED <<fs, cmd, fs0>>
  BY DEF NextArgument, At
<1>2. Top.op \notin MvOps /\ Top.op \notin {"copy", "copying"}
  BY <1>1 DEF MvOps
<1>3. MvMain(Top, s) /\ Tail(todo) = <<>>
  BY <1>1, <1>2, MvShape
<1>4. CASE Top.left = <<s>> /\ fs = fs0
  <2>1. Top = MainFrame(Top.left, Top.into) /\ Top.into = is_dir(fs0, Last(cmd.args))
    <3>1. MainCall(Top)
      BY <1>1, TopOK, FrameKinds
    <3> QED
      BY <3>1 DEF MainCall
  <2>2. Top.left # <<>> /\ Head(Top.left) = s /\ Tail(Top.left) = <<>>
    BY <1>4
  <2>3. PICK fr, m : /\ fr = Frame("mv", s, Target(s)) /\ m = [Top EXCEPT !.left = Tail(@)]
                     /\ todo' = <<fr, m>>
    <3>1. cmd.tool = "mv" /\ ToDst(cmd)
      BY DEF Moves, ToDst
    <3> QED
      BY <2>1, <2>2, <3>1 DEF NextArgument, Target
  <2>4. fr.op = "mv" /\ fr.src = s /\ fr.dst = Target(s)
    BY <2>3 DEF Frame
  <2>5. LastCall(m)
    BY <2>1, <2>2, <2>3 DEF LastCall, MainFrame
  <2>6. Carries(fr, s)'
    BY <1>1, <2>4, MvFixed DEF Carries
  <2>7. MvFrame(fr, s)'
    BY <1>1, <1>4, <2>4, <2>6 DEF MvFrame
  <2> QED
    BY <2>3, <2>5, <2>7, MvGoesOn
<1>5. CASE Top.left = <<>> /\ (Whole(s) \/ HasMoved(s)) /\ (ret = 0 /\ rc = 0 => HasMoved(s))
  <2>1. todo' = <<>> /\ (rc' = 0 => ret = 0 /\ rc = 0)
    BY <1>5 DEF NextArgument
  <2>2. (Whole(s)' <=> Whole(s)) /\ (HasMoved(s)' <=> HasMoved(s))
    BY <1>1, MvFixed DEF Whole, HasMoved
  <2> QED
    BY <1>5, <2>1, <2>2 DEF Mv
<1> QED
  BY <1>3, <1>4, <1>5 DEF MvMain

LEMMA MvKilled ==
  ASSUME ToolInv, NEW s, Moves(s), Mv(s), Kill
  PROVE  Mv(s)'
<1>1. UNCHANGED <<fs, cmd, fs0>> /\ todo' = <<>> /\ rc' # 0
  BY DEF Kill
<1>2. Whole(s) \/ HasMoved(s)
  BY MvSafe
<1>3. (Whole(s)' <=> Whole(s)) /\ (HasMoved(s)' <=> HasMoved(s))
  BY <1>1, MvFixed DEF Whole, HasMoved
<1> QED
  BY <1>1, <1>2, <1>3 DEF Mv

LEMMA MvStarts ==
  ASSUME Init, Started, NEW s, Moves(s)
  PROVE  Mv(s)
<1>1. cmd.tool = "mv" /\ Len(cmd.args) = 2 /\ s \in SrcArgs /\ Len(Sources(cmd)) = 1
      /\ Sources(cmd) \in Seq(SrcArgs)
  BY Args DEF Moves, Confined
<1>2. ~Refused(cmd, fs)
  <2>1. ~(2 > 2)
    OBVIOUS
  <2> QED
    BY <1>1, <2>1 DEF Refused
<1>3. Sources(cmd) = <<s>>
  <2> DEFINE z == Sources(cmd)
  <2>1. PICK i \in DOMAIN z : s = z[i]
    BY <1>1 DEF SrcArgs, ToSet
  <2>2. z \in Seq(SrcArgs) /\ Len(z) = 1 /\ DOMAIN z = 1..1
    BY <1>1, LenProperties
  <2> HIDE DEF z
  <2>3. i = 1 /\ <<s>> \in Seq(SrcArgs) /\ Len(<<s>>) = 1 /\ <<s>>[1] = s
    BY <1>1, <2>1, <2>2
  <2>4. \A k \in 1..Len(z) : z[k] = <<s>>[k]
    BY <2>1, <2>2, <2>3
  <2>5. z = <<s>>
    BY <2>2, <2>3, <2>4, SeqEqual
  <2> QED
    BY <2>5 DEF z
<1>4. PICK m : todo = <<m>> /\ m = MainFrame(<<s>>, is_dir(fs, Last(cmd.args))) /\ fs = fs0
  BY <1>2, <1>3 DEF Init
<1>5. MvMain(m, s)
  BY <1>4 DEF MvMain, MainFrame
<1> QED
  BY <1>4, <1>5 DEF Mv

LEMMA MvStutters ==
  ASSUME UNCHANGED toolVars, NEW s
  PROVE  Mv(s)' <=> Mv(s)
<1>1. UNCHANGED <<fs, todo, ret, rc, cmd, fs0>>
  BY DEF toolVars
<1>2. (Whole(s)' <=> Whole(s)) /\ (HasMoved(s)' <=> HasMoved(s)) /\ (Copied(s)' <=> Copied(s))
  BY <1>1, MvFixed DEF Whole, HasMoved, Copied
<1>3. \A fr : (Carries(fr, s)' <=> Carries(fr, s)) /\ (Copying(fr, s)' <=> Copying(fr, s))
  BY <1>1, MvFixed DEF Copying
<1>4. \A fr : (MvMain(fr, s)' <=> MvMain(fr, s)) /\ (MvFrame(fr, s)' <=> MvFrame(fr, s))
              /\ (MvCopy(fr, s)' <=> MvCopy(fr, s))
  BY <1>1, <1>2, <1>3 DEF MvMain, MvFrame, MvCopy
<1> QED
  BY <1>1, <1>2, <1>3, <1>4 DEF Mv

LEMMA MvGoes ==
  ASSUME ToolInv, NEW s, Moves(s), Mv(s), [ToolNext]_toolVars
  PROVE  Mv(s)'
<1>1. cmd.tool = "mv" /\ cmd.tool \notin Raced
  BY DEF Moves, Confined
<1>2. Running => Top.op \in {"main", "copy", "copying"} \cup MvOps
  BY MvShape
<1>3. CASE NextArgument
  BY <1>3, MvArgument
<1>4. CASE copy_file
  BY <1>4, MvOpens, MvWrites, MvCloses DEF copy_file
<1>5. CASE mv_one
  BY <1>5, MvRenameMoves, MvAcrossMoves, MvLinkMoves, MvCopiedMoves, MvUnlinkMoves DEF mv_one
<1>6. CASE cp_tree \/ rm_tree \/ Small
  BY <1>2, <1>6 DEF MvOps, At, cp_tree, CpTree, CpLink, CpDir, CpList, CpEntry, CpCopied, CpForce,
                    rm_tree, Rm, RmTree, RmList, RmEntry, RmDir, RmUnlink, Small, LnForce, LnMake,
                    Mkdir, mkdir_p, Touch, CatOpen, CatRead, WrtOpen, WrtText
<1>7. CASE Kill
  BY <1>7, MvKilled
<1>8. CASE Meddle
  BY <1>1, <1>8 DEF Meddle
<1>9. CASE UNCHANGED toolVars
  BY <1>9, MvStutters
<1> QED
  BY <1>3, <1>4, <1>5, <1>6, <1>7, <1>8, <1>9 DEF ToolNext, Tool

MvInv == \A s \in SrcArgs : Moves(s) => Mv(s)

LEMMA MvInvStarts ==
  ASSUME Init, Started
  PROVE  MvInv
BY MvStarts DEF MvInv

LEMMA MvInvGoes ==
  ASSUME ToolInv, MvInv, [ToolNext]_toolVars
  PROVE  MvInv'
<1>1. UNCHANGED <<cmd, fs0>>
  BY Unmoved
<1>2. SrcArgs' = SrcArgs /\ \A s : Moves(s)' <=> Moves(s)
  BY <1>1, Fixed, MvFixed
<1>3. ASSUME NEW s \in SrcArgs, Moves(s) PROVE Mv(s)'
  BY <1>3, MvGoes DEF MvInv
<1> QED
  BY <1>2, <1>3 DEF MvInv

LEMMA MvInvSays ==
  ASSUME ToolInv, Confined, MvInv
  PROVE  MoveKeepsData /\ (cmd.tool = "mv" => SuccessMeansDone)
<1>1. ASSUME cmd.tool = "mv", Apart, NEW s \in SrcArgs
      PROVE  Mv(s) /\ (Whole(s) \/ HasMoved(s))
  <2>1. Moves(s) /\ Mv(s)
    BY <1>1 DEF Moves, MvInv
  <2> QED
    BY <2>1, MvSafe
<1>2. MoveKeepsData
  BY <1>1 DEF MoveKeepsData, Whole
<1>3. ASSUME cmd.tool = "mv", Ended, NEW s \in SrcArgs, Apart PROVE HasMoved(s)
  BY <1>1, <1>3 DEF Mv, Ended, Running
<1> QED
  BY <1>2, <1>3 DEF SuccessMeansDone

(* mv of one source (ex_files.c:472, ex_util.c:351): at every moment,       *)
(* whichever call failed and wherever mv was killed, what was moved is     *)
(* whole where it was, or where DST led.  It is so for a rename and for    *)
(* the copy across devices, block by block, for every file system, every   *)
(* two names, every number and depth of links, and every number of failing *)
(* calls.                                                                  *)
THEOREM MoveKeepsDataHolds == ToolSpec => [](Confined => MoveKeepsData)
<1> DEFINE I == Confined => ToolInv /\ MvInv
<1>1. Init => I
  BY InitOK, MvInvStarts DEF ToolInv
<1>2. I /\ [ToolNext]_toolVars => I'
  BY StepOK, ConfinedStays, MvInvGoes
<1>3. I => (Confined => MoveKeepsData)
  BY MvInvSays
<1> QED
  BY <1>1, <1>2, <1>3, PTL DEF ToolSpec

(* rm, rmdir, mkdir -p, touch, ln, wrt and mv of one source have done what *)
(* they are for when they end with status 0 (ex_files.c): no failing call  *)
(* on the way, of any argument or of any entry below one, is lost, for     *)
(* every file system, every argument and every number of failing calls.    *)
(* Excepted, as in SuccessMeansDone: rm -f where an lstat failed, and wrt  *)
(* where a write did.                                                      *)
(* What rm removes it has removed whatever another process makes or        *)
(* removes meanwhile, other than the names it was given.                   *)
THEOREM SuccessMeansDoneHolds ==
  ToolSpec => [](Confined /\ (Sure \/ cmd.tool = "mv") => SuccessMeansDone)
<1> DEFINE I == Confined => ToolInv /\ MvInv /\ (Sure => SureInv)
<1>1. Init => I
  BY InitOK, SureStarts, MvInvStarts DEF ToolInv
<1>2. I /\ [ToolNext]_toolVars => I'
  BY StepOK, ConfinedStays, Unmoved, SureStays, SureGoesOn, MvInvGoes
<1>3. I => (Confined /\ (Sure \/ cmd.tool = "mv") => SuccessMeansDone)
  BY SureSays, MvInvSays
<1> QED
  BY <1>1, <1>2, <1>3, PTL DEF ToolSpec

-----------------------------------------------------------------------------
(* tail -f.                                                                *)

FollowType ==
  /\ log \in Seq(Nat) /\ shown \in Seq(Nat)
  /\ pos \in Nat /\ want \in Nat /\ base \in Nat /\ grown \in Nat /\ truncs \in Nat
  /\ followAt \in {"print", "stat", "poll", "read"}

\* The file holds the last characters added.
Numbered == /\ Len(log) <= grown /\ \A k \in 1..Len(log) : log[k] = grown - Len(log) + k
            /\ truncs = 0 => Len(log) = grown

\* What is shown is in order, and came before what can still be read.
Mark == IF followAt \in {"print", "stat"} THEN Len(log) ELSE IF pos <= Len(log) THEN pos ELSE 0
Behind ==
  /\ \A k \in 1..Len(shown) : shown[k] <= grown - Len(log) + Mark
  /\ \A k, m \in 1..Len(shown) : k < m => shown[k] < shown[m]

\* Of a file that was not cut, all from the first look on is shown.
Complete ==
  truncs = 0 /\ followAt \in {"poll", "read"} =>
    /\ base <= pos /\ pos <= Len(log) /\ pos - base <= Len(shown)
    /\ \A k \in 1..(pos - base) : shown[Len(shown) - (pos - base) + k] = base + k

FollowInv == FollowType /\ Numbered /\ Behind /\ Complete

\* What a read returns is no more than each of its three bounds.
LEMMA LeastOfThree ==
  ASSUME NEW x \in Int, NEW y \in Int, NEW z \in Int
  PROVE  /\ Min({x, y, z}) \in Int
         /\ Min({x, y, z}) <= x /\ Min({x, y, z}) <= y /\ Min({x, y, z}) <= z
<1>1. \E m \in {x, y, z} : \A k \in {x, y, z} : m <= k
  <2>1. CASE x <= y /\ x <= z  BY <2>1
  <2>2. CASE y <= x /\ y <= z  BY <2>2
  <2>3. CASE z <= y /\ z <= x  BY <2>3
  <2> QED BY <2>1, <2>2, <2>3
<1> QED
  BY <1>1 DEF Min

\* The CHOOSE of Max, for two.
LEMMA GreatestOfTwo ==
  ASSUME NEW x \in Int, NEW y \in Int
  PROVE  Max({x, y}) = IF x <= y THEN y ELSE x
<1>1. \E m \in {x, y} : \A k \in {x, y} : m >= k
  BY x <= y \/ y <= x
<1> QED
  BY <1>1 DEF Max

\* The start satisfies the invariant.
LEMMA FollowStarts == FollowInit => FollowInv
<1> SUFFICES ASSUME FollowInit PROVE FollowInv
  OBVIOUS
<1>1. /\ log \in Seq(Nat) /\ Len(log) \in Nat /\ \A k \in 1..Len(log) : log[k] = k
      /\ grown = Len(log)
  <2>1. PICK n \in 0..MaxGrown : log = [k \in 1..n |-> k] /\ grown = n
    BY DEF FollowInit
  <2>2. n \in Nat
    BY <2>1, FiltersAssumption
  <2> QED BY <2>1, <2>2
<1>2. pos = 0 /\ want = 0 /\ base = 0 /\ truncs = 0 /\ followAt = "print" /\ shown = <<>>
  BY DEF FollowInit
<1>3. FollowType /\ Numbered
  BY <1>1, <1>2 DEF FollowType, Numbered
<1> QED
  BY <1>2, <1>3 DEF FollowInv, Behind, Complete

\* More of the file behind what was shown.
LEMMA Piece ==
  ASSUME FollowType, Numbered, NEW n \in Nat, n <= Len(log) - pos
  PROVE  LET piece == SubSeq(log, pos + 1, pos + n)
         IN  /\ shown \o piece \in Seq(Nat) /\ Len(shown \o piece) = Len(shown) + n
             /\ \A k \in 1..Len(shown) : (shown \o piece)[k] = shown[k]
             /\ \A k \in 1..n : (shown \o piece)[Len(shown) + k] = grown - Len(log) + pos + k
<1> DEFINE piece == SubSeq(log, pos + 1, pos + n)
<1>1. piece \in Seq(Nat) /\ Len(piece) = n /\ \A k \in 1..n : piece[k] = log[pos + k]
  BY DEF FollowType
<1>2. \A k \in 1..n : piece[k] = grown - Len(log) + pos + k
  <2> TAKE k \in 1..n
  <2>1. pos + k \in 1..Len(log)
    BY DEF FollowType
  <2> QED BY <2>1, <1>1 DEF Numbered, FollowType
<1>3. shown \in Seq(Nat)
  BY DEF FollowType
<1> HIDE DEF piece
<1>4. /\ shown \o piece \in Seq(Nat) /\ Len(shown \o piece) = Len(shown) + n
      /\ \A k \in 1..Len(shown) : (shown \o piece)[k] = shown[k]
      /\ \A k \in 1..n : (shown \o piece)[Len(shown) + k] = piece[k]
  <2>1. /\ shown \o piece \in Seq(Nat) /\ Len(shown \o piece) = Len(shown) + Len(piece)
        /\ \A i \in 1..(Len(shown) + Len(piece)) :
             (shown \o piece)[i] = IF i <= Len(shown) THEN shown[i] ELSE piece[i - Len(shown)]
    BY <1>1, <1>3, ConcatProperties
  <2>2. Len(shown) \in Nat /\ Len(piece) = n
    BY <1>1, <1>3
  <2>3. \A k \in 1..n : Len(shown) + k \in 1..(Len(shown) + Len(piece)) /\ ~(Len(shown) + k <= Len(shown))
                        /\ Len(shown) + k - Len(shown) = k
    BY <2>2
  <2> QED BY <2>1, <2>2, <2>3
<1> QED
  BY <1>4, <1>2 DEF piece

\* Every step of tail and of those who write the file keeps it.
LEMMA FollowGoesOn == FollowInv /\ [FollowNext]_followVars => FollowInv'
<1> SUFFICES ASSUME FollowInv, [FollowNext]_followVars PROVE FollowInv'
  OBVIOUS
<1>0. FollowType /\ Numbered /\ Behind /\ Complete
  BY DEF FollowInv
<1>l. Len(log) \in Nat /\ Len(shown) \in Nat
  BY <1>0 DEF FollowType
<1>1. CASE FollowPrint
  <2>1. /\ followAt = "print" /\ followAt' = "stat" /\ shown' = log
        /\ UNCHANGED <<log, pos, want, base, grown, truncs>>
    BY <1>1 DEF FollowPrint
  <2>2. FollowType' /\ Numbered' /\ Complete'
    BY <2>1, <1>0 DEF FollowType, Numbered, Complete
  <2>3. Behind'
    BY <2>1, <1>0, <1>l DEF FollowType, Numbered, Behind, Mark
  <2> QED BY <2>2, <2>3 DEF FollowInv
<1>2. CASE FollowStat
  <2>1. /\ followAt = "stat" /\ followAt' = "poll" /\ pos' = Len(log) /\ base' = Len(log)
        /\ UNCHANGED <<log, shown, want, grown, truncs>>
    BY <1>2 DEF FollowStat
  <2>2. FollowType' /\ Numbered' /\ Complete'
    BY <2>1, <1>0, <1>l DEF FollowType, Numbered, Complete
  <2>3. Behind'
    BY <2>1, <1>0, <1>l DEF FollowType, Behind, Mark
  <2> QED BY <2>2, <2>3 DEF FollowInv
<1>3. CASE FollowPoll
  <2> DEFINE from == IF Len(log) < pos THEN 0 ELSE pos
  <2>1. /\ followAt = "poll" /\ followAt' \in {"poll", "read"}
        /\ pos' = from /\ want' = Len(log) - from
        /\ UNCHANGED <<log, shown, base, grown, truncs>>
    BY <1>3 DEF FollowPoll
  <2>2. FollowType' /\ Numbered'
    BY <2>1, <1>0, <1>l DEF FollowType, Numbered
  <2>3. Behind'
    BY <2>1, <1>0, <1>l DEF FollowType, Behind, Mark
  <2>4. CASE truncs # 0
    BY <2>1, <2>2, <2>3, <2>4 DEF FollowInv, Complete
  <2>5. CASE truncs = 0
    <3>1. pos <= Len(log) /\ pos \in Nat
      BY <2>1, <2>5, <1>0 DEF Complete, FollowType
    <3>2. pos' = pos
      BY <3>1, <2>1, <1>l
    <3> QED BY <3>2, <2>1, <2>2, <2>3, <1>0 DEF FollowInv, Complete
  <2> QED BY <2>4, <2>5
<1>4. CASE FollowRead
  <2> DEFINE n == Min({want, FollowBuf, Len(log) - pos})
  <2>1. n \in Int /\ n <= want /\ n <= FollowBuf /\ n <= Len(log) - pos
    <3>1. want \in Int /\ FollowBuf \in Int /\ Len(log) - pos \in Int
      BY <1>0, <1>l, FiltersAssumption DEF FollowType
    <3> QED BY ONLY <3>1, LeastOfThree
  <2>2. CASE want = 0 \/ n <= 0
    <3>1. /\ followAt = "read" /\ followAt' = "poll"
          /\ UNCHANGED <<log, shown, pos, want, base, grown, truncs>>
      BY <1>4, <2>2 DEF FollowRead
    <3> QED BY <3>1, <1>0 DEF FollowInv, FollowType, Numbered, Behind, Mark, Complete
  <2>3. CASE ~(want = 0 \/ n <= 0)
    <3>1. /\ shown' = shown \o SubSeq(log, pos + 1, pos + n) /\ pos' = pos + n /\ want' = want - n
          /\ UNCHANGED <<log, base, grown, truncs, followAt>> /\ followAt = "read"
      BY <1>4, <2>3 DEF FollowRead
    <3> HIDE DEF n
    <3>2. n \in Nat
      BY <2>1, <2>3
    <3>3. /\ shown' \in Seq(Nat) /\ Len(shown') = Len(shown) + n
          /\ \A k \in 1..Len(shown) : shown'[k] = shown[k]
          /\ \A k \in 1..n : shown'[Len(shown) + k] = grown - Len(log) + pos + k
      BY ONLY <3>1, <3>2, <2>1, <1>0, Piece
    <3>4. FollowType' /\ Numbered'
      BY <3>1, <3>2, <3>3, <2>1, <1>0 DEF FollowType, Numbered
    <3>5. \A k \in 1..Len(shown') :
            \/ k \in 1..Len(shown) /\ shown'[k] = shown[k]
            \/ k - Len(shown) \in 1..n /\ shown'[k] = grown - Len(log) + pos + (k - Len(shown))
      <4> TAKE k \in 1..Len(shown')
      <4>1. CASE k <= Len(shown)
        BY <4>1, <3>3, <3>2, <1>l
      <4>2. CASE k > Len(shown)
        <5>1. k - Len(shown) \in 1..n /\ k = Len(shown) + (k - Len(shown))
          BY <4>2, <3>3, <3>2, <1>l
        <5> QED BY <5>1, <3>3
      <4> QED BY <4>1, <4>2, <1>l
    <3>6. Behind'
      <4>1. pos + n <= Len(log) /\ pos <= Len(log) /\ Mark = pos /\ Mark' = pos + n
        BY <3>1, <3>2, <2>1, <1>0, <1>l DEF Mark, FollowType
      <4>2. pos \in Nat /\ grown \in Nat /\ shown \in Seq(Nat)
        BY <1>0 DEF FollowType
      <4>3. ASSUME NEW k \in 1..Len(shown') PROVE shown'[k] <= grown - Len(log) + pos + n
        <5>1. CASE k \in 1..Len(shown) /\ shown'[k] = shown[k]
          <6>1. shown[k] <= grown - Len(log) + pos /\ shown[k] \in Nat
            BY <5>1, <4>1, <4>2, <1>0 DEF Behind
          <6> QED BY <6>1, <5>1, <4>2, <3>2, <1>l
        <5>2. CASE /\ k - Len(shown) \in 1..n
                   /\ shown'[k] = grown - Len(log) + pos + (k - Len(shown))
          <6>1. k - Len(shown) <= n /\ k - Len(shown) \in Int
            BY <5>2
          <6> QED BY <6>1, <5>2, <4>2, <3>2, <1>l
        <5> QED BY <5>1, <5>2, <3>5
      <4>4. ASSUME NEW k \in 1..Len(shown'), NEW m \in 1..Len(shown'), k < m
            PROVE  shown'[k] < shown'[m]
        <5>1. CASE k \in 1..Len(shown) /\ m \in 1..Len(shown)
          BY <5>1, <4>4, <3>3, <1>0 DEF Behind
        <5>2. CASE k \in 1..Len(shown) /\ m \notin 1..Len(shown)
          <6>1. shown[k] <= grown - Len(log) + pos /\ shown[k] \in Nat /\ shown'[k] = shown[k]
            BY <5>2, <1>0, <4>1, <4>2, <3>3 DEF Behind
          <6>2. m - Len(shown) \in 1..n /\ shown'[m] = grown - Len(log) + pos + (m - Len(shown))
            BY <5>2, <3>5
          <6> QED BY <6>1, <6>2, <4>2, <1>l, <3>2
        <5>3. CASE k \notin 1..Len(shown)
          <6>1. k - Len(shown) \in 1..n /\ shown'[k] = grown - Len(log) + pos + (k - Len(shown))
            BY <5>3, <3>5
          <6>2. m - Len(shown) \in 1..n /\ shown'[m] = grown - Len(log) + pos + (m - Len(shown))
            BY <5>3, <4>4, <3>5, <3>3, <3>2, <1>l
          <6> QED BY <6>1, <6>2, <4>4, <4>2, <1>l, <3>2, <3>3
        <5> QED BY <5>1, <5>2, <5>3
      <4>5. grown' - Len(log') + Mark' = grown - Len(log) + pos + n
        BY <4>1, <4>2, <3>1, <3>2, <1>l
      <4> QED BY <4>5, <4>3, <4>4 DEF Behind
    <3>7. Complete'
      <4> SUFFICES ASSUME truncs = 0 PROVE Complete'
        BY <3>1 DEF Complete
      <4>1. /\ base <= pos /\ pos <= Len(log) /\ pos - base <= Len(shown)
            /\ \A k \in 1..(pos - base) : shown[Len(shown) - (pos - base) + k] = base + k
        BY <1>0, <3>1 DEF Complete
      <4>2. pos \in Nat /\ grown \in Nat /\ shown \in Seq(Nat) /\ base \in Nat /\ grown = Len(log)
        BY <1>0 DEF FollowType, Numbered
      <4>3. ASSUME NEW k \in 1..(pos + n - base)
            PROVE  shown'[Len(shown') - (pos + n - base) + k] = base + k
        <5> DEFINE j == Len(shown) - (pos - base) + k
        <5>1. Len(shown') - (pos + n - base) + k = j /\ j \in 1..Len(shown')
          BY <3>3, <4>1, <4>2, <1>l, <3>2
        <5>2. CASE k \in 1..(pos - base)
          <6>1. j \in 1..Len(shown) /\ shown[j] = base + k
            <7>1. j = Len(shown) - (pos - base) + k /\ j \in 1..Len(shown)
              BY <5>2, <4>1, <4>2, <1>l
            <7> QED BY <7>1, <5>2, <4>1
          <6> QED BY <6>1, <5>1, <3>3
        <5>3. CASE k \notin 1..(pos - base)
          <6>1. j - Len(shown) \in 1..n /\ j - Len(shown) = k - (pos - base)
            BY <5>3, <4>1, <4>2, <1>l, <3>2
          <6>2. j \notin 1..Len(shown)
            BY <6>1, <1>l, <3>2
          <6>3. shown'[j] = grown - Len(log) + pos + (j - Len(shown))
            BY <6>2, <5>1, <3>5
          <6>4. shown'[j] = base + k
            BY <6>3, <6>1, <4>1, <4>2, <1>l
          <6> QED BY <6>4, <5>1
        <5> QED BY <5>2, <5>3
      <4>4. base <= pos + n /\ pos + n <= Len(log) /\ pos + n - base <= Len(shown')
        BY <4>1, <4>2, <3>2, <3>3, <2>1, <1>l
      <4>5. truncs' = truncs /\ base' = base /\ pos' = pos + n /\ log' = log
        BY <3>1
      <4>6. pos' - base' = pos + n - base
        BY <4>5, <4>2, <3>2
      <4> QED BY <4>3, <4>4, <4>5, <4>6 DEF Complete
    <3> QED BY <3>4, <3>6, <3>7 DEF FollowInv
  <2> QED BY <2>2, <2>3
<1>5. CASE Grow
  <2>1. /\ grown' = grown + 1 /\ log' = Append(log, grown + 1)
        /\ UNCHANGED <<shown, pos, want, base, followAt, truncs>>
    BY <1>5 DEF Grow
  <2>2. /\ log' \in Seq(Nat) /\ Len(log') = Len(log) + 1 /\ log'[Len(log) + 1] = grown + 1
        /\ \A k \in 1..Len(log) : log'[k] = log[k]
    BY <2>1, <1>0 DEF FollowType
  <2>3. FollowType' /\ Complete'
    BY <2>1, <2>2, <1>0, <1>l DEF FollowType, Complete
  <2>4. Numbered'
    <3>1. grown \in Nat /\ grown' - Len(log') = grown - Len(log) /\ grown' \in Nat
      BY <2>1, <2>2, <1>0, <1>l DEF FollowType
    <3>2. ASSUME NEW k \in 1..Len(log') PROVE log'[k] = grown - Len(log) + k
      <4>1. CASE k \in 1..Len(log)
        BY <4>1, <2>2, <1>0 DEF Numbered
      <4>2. CASE k = Len(log) + 1
        BY <4>2, <2>2, <3>1, <1>l
      <4> QED BY <4>1, <4>2, <2>2, <1>l
    <3> QED BY <3>1, <3>2, <2>1, <2>2, <1>0, <1>l DEF Numbered
  <2>5. grown' - Len(log') + Mark' \in Int /\ grown - Len(log) + Mark <= grown' - Len(log') + Mark'
        /\ grown - Len(log) + Mark \in Int
    <3>1. pos \in Nat /\ pos' = pos /\ followAt' = followAt /\ grown \in Nat
      BY <2>1, <1>0 DEF FollowType
    <3>2. Mark \in Nat /\ Mark' \in Nat /\ Mark <= Mark' + 1 /\ (Mark' = Mark + 1 \/ Mark' >= Mark)
      BY <3>1, <2>2, <1>l DEF Mark
    <3> HIDE DEF Mark
    <3> QED BY <3>1, <3>2, <2>1, <2>2, <1>l
  <2>6. Behind'
    <3>1. \A k \in 1..Len(shown) : shown[k] \in Int
      BY <1>0 DEF FollowType
    <3> HIDE DEF Mark
    <3> QED BY <3>1, <2>1, <2>5, <1>0 DEF Behind
  <2> QED BY <2>3, <2>4, <2>6 DEF FollowInv
<1>6. CASE Truncate
  <2>1. /\ truncs' = truncs + 1 /\ log' = <<>> /\ Len(log') = 0
        /\ UNCHANGED <<shown, pos, want, base, followAt, grown>>
    BY <1>6 DEF Truncate
  <2>2. truncs \in Nat /\ truncs' # 0 /\ grown \in Nat
    BY <2>1, <1>0 DEF FollowType
  <2>3. FollowType' /\ Complete' /\ Numbered'
    BY <2>1, <2>2, <1>0 DEF FollowType, Complete, Numbered
  <2>4. Mark' = 0
    BY <2>1, <1>0 DEF Mark, FollowType
  <2>5. \A k \in 1..Len(shown) : shown[k] <= grown
    BY <1>0, <1>l DEF Behind, Mark, FollowType
  <2> QED BY <2>1, <2>2, <2>3, <2>4, <2>5, <1>0 DEF FollowInv, Behind
<1>7. CASE UNCHANGED followVars
  BY <1>7, <1>0 DEF followVars, FollowInv, FollowType, Numbered, Behind, Mark, Complete
<1> QED
  BY <1>1, <1>2, <1>3, <1>4, <1>5, <1>6, <1>7 DEF FollowNext, tail_follow

\* It says what tail -f promises.
LEMMA FollowInvSays == FollowInv => FollowShows
<1> SUFFICES ASSUME FollowInv PROVE FollowShows
  OBVIOUS
<1>0. /\ log \in Seq(Nat) /\ shown \in Seq(Nat) /\ Len(log) \in Nat /\ Len(shown) \in Nat
      /\ pos \in Nat /\ base \in Nat /\ Behind
  BY DEF FollowInv, FollowType
<1>1. \A k \in 2..Len(shown) : shown[k - 1] < shown[k]
  BY <1>0 DEF Behind
<1>2. ASSUME truncs = 0, followAt \in {"poll", "read"}
      PROVE  Drop(SubSeq(log, 1, pos), base) = LastOf(shown, pos - base)
  <2> DEFINE d == pos - base
             front == SubSeq(log, 1, pos)
  <2>0. /\ d \in Nat /\ pos <= Len(log) /\ d <= Len(shown) /\ base <= pos
        /\ \A k \in 1..d : shown[Len(shown) - d + k] = base + k
        /\ \A k \in 1..Len(log) : log[k] = k
    BY <1>0, <1>2 DEF FollowInv, Complete, Numbered, FollowType
  <2>1. front \in Seq(Nat) /\ Len(front) = pos /\ \A k \in 1..pos : front[k] = k
    BY <1>0, <2>0
  <2> HIDE DEF front
  <2>2. Drop(front, base) = [k \in 1..d |-> base + k]
    BY <1>0, <2>0, <2>1 DEF Drop
  <2>3. LastOf(shown, d) = [k \in 1..d |-> base + k]
    <3>1. CASE d = 0
      BY <3>1 DEF LastOf
    <3>2. CASE d # 0
      <4>0. Len(shown) - d \in Int /\ 0 <= Len(shown) - d
        BY <2>0, <1>0
      <4>1. Max({0, Len(shown) - d}) = Len(shown) - d
        BY ONLY <4>0, GreatestOfTwo
      <4>2. ~(d <= 0)
        BY <3>2, <2>0
      <4>3. LastOf(shown, d) = SubSeq(shown, Len(shown) - d + 1, Len(shown))
        BY <4>1, <4>2 DEF LastOf, Drop
      <4> DEFINE last == SubSeq(shown, Len(shown) - d + 1, Len(shown))
      <4>4. last \in Seq(Nat) /\ Len(last) = d /\ \A k \in 1..d : last[k] = shown[Len(shown) - d + k]
        <5> HIDE DEF d
        <5> QED BY <2>0, <1>0
      <4>5. last = [k \in 1..d |-> base + k]
        <5> HIDE DEF d, last
        <5> QED BY <4>4, <2>0
      <4> QED BY <4>3, <4>5
    <3> QED BY <3>1, <3>2
  <2> QED BY <2>2, <2>3 DEF front
<1> QED
  BY <1>1, <1>2 DEF FollowShows

(* tail -f (ex_text.c:220) shows no character twice or out of order, and   *)
(* of a file that is only added to everything from its first look on.      *)
THEOREM FollowShowsHolds == FollowSpec => []FollowShows
BY FollowStarts, FollowGoesOn, FollowInvSays, PTL DEF FollowSpec
=============================================================================
