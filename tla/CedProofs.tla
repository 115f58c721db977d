----------------------------- MODULE CedProofs ------------------------------
(***************************************************************************)
(* Proofs about Ced for texts of every size, every stack of snapshots and  *)
(* every session.                                                          *)
(***************************************************************************)
EXTENDS CedHistory, SequenceTheorems, WellFoundedInduction, TLAPS

\* A buffer with its cursor in the text.
Sound(b) == b \in Buffer /\ Inside(b)

-----------------------------------------------------------------------------
(* Least and greatest elements                                             *)

\* A set of naturals that is not empty has a least element: First is defined.
LEMMA FirstIsLeast ==
    ASSUME NEW S \in SUBSET Nat, S # {}
    PROVE  First(S) \in S /\ \A y \in S : First(S) <= y
<1>1. PICK x \in S : \A y \in S : ~ (<<y, x>> \in OpToRel(<, Nat))
    BY NatLessThanWellFounded, WFMin
<1>2. \A y \in S : ~ (y < x)
    BY <1>1 DEF OpToRel
<1>3. \A y \in S : x <= y
    BY <1>2
<1> QED
    BY <1>3 DEF First

-----------------------------------------------------------------------------
(* Cutting and joining sequences                                           *)

LEMMA Piece ==
    ASSUME NEW S, NEW s \in Seq(S), NEW m \in Int, NEW n \in Int,
           1 <= m, n <= Len(s)
    PROVE  /\ SubSeq(s, m, n) \in Seq(S)
           /\ Len(SubSeq(s, m, n)) = IF m <= n THEN n - m + 1 ELSE 0
           /\ \A i \in 1 .. n - m + 1 : SubSeq(s, m, n)[i] = s[m + i - 1]
<1>1. \A i \in m .. n : s[i] \in S
    BY ElementOfSeq, LenProperties
<1> QED
    BY <1>1, SubSeqProperties

LEMMA Single == ASSUME NEW S, NEW e \in S
                PROVE  <<e>> \in Seq(S) /\ Len(<<e>>) = 1 /\ <<e>>[1] = e
    OBVIOUS

\* m is s followed by t, and s followed by t followed by u.
Row2(S, m, s, t) ==
    /\ m \in Seq(S)
    /\ Len(m) = Len(s) + Len(t)
    /\ \A i \in 1 .. Len(s) : m[i] = s[i]
    /\ \A i \in 1 .. Len(t) : m[Len(s) + i] = t[i]

Row3(S, m, s, t, u) ==
    /\ m \in Seq(S)
    /\ Len(m) = Len(s) + Len(t) + Len(u)
    /\ \A i \in 1 .. Len(s) : m[i] = s[i]
    /\ \A i \in 1 .. Len(t) : m[Len(s) + i] = t[i]
    /\ \A i \in 1 .. Len(u) : m[Len(s) + Len(t) + i] = u[i]

LEMMA TwoInARow ==
    ASSUME NEW S, NEW s \in Seq(S), NEW t \in Seq(S)
    PROVE  Row2(S, s \o t, s, t)
<1>1. Len(s) \in Nat /\ Len(t) \in Nat
    BY LenProperties
<1>2. /\ s \o t \in Seq(S) /\ Len(s \o t) = Len(s) + Len(t)
      /\ \A i \in 1 .. Len(s) + Len(t) :
            (s \o t)[i] = IF i <= Len(s) THEN s[i] ELSE t[i - Len(s)]
    BY ConcatProperties
<1>3. ASSUME NEW i \in 1 .. Len(s) PROVE (s \o t)[i] = s[i]
    <2>1. i \in 1 .. Len(s) + Len(t) /\ i <= Len(s)
        BY <1>1
    <2> QED
        BY <1>2, <2>1
<1>4. ASSUME NEW i \in 1 .. Len(t) PROVE (s \o t)[Len(s) + i] = t[i]
    <2>1. Len(s) + i \in 1 .. Len(s) + Len(t) /\ ~ (Len(s) + i <= Len(s))
          /\ (Len(s) + i) - Len(s) = i
        BY <1>1
    <2> QED
        BY <1>2, <2>1
<1> QED
    BY <1>2, <1>3, <1>4 DEF Row2

LEMMA ThreeInARow ==
    ASSUME NEW S, NEW s \in Seq(S), NEW t \in Seq(S), NEW u \in Seq(S)
    PROVE  Row3(S, s \o t \o u, s, t, u)
<1> DEFINE p == s \o t
           m == p \o u
<1>1. Len(s) \in Nat /\ Len(t) \in Nat
    BY LenProperties
<1>2. Row2(S, p, s, t)
    BY TwoInARow
<1> HIDE DEF p
<1>3. Row2(S, m, p, u)
    <2>1. p \in Seq(S)
        BY <1>2 DEF Row2
    <2> QED
        BY <2>1, TwoInARow
<1> HIDE DEF m
<1>4. Len(p) = Len(s) + Len(t)
    BY <1>2 DEF Row2
<1>5. /\ m \in Seq(S) /\ Len(m) = Len(s) + Len(t) + Len(u)
      /\ \A i \in 1 .. Len(u) : m[Len(s) + Len(t) + i] = u[i]
    BY <1>3, <1>4, Zenon DEF Row2
<1>6. ASSUME NEW i \in 1 .. Len(s) PROVE m[i] = s[i]
    <2>1. i \in 1 .. Len(p)
        BY <1>1, <1>4
    <2> QED
        BY <1>2, <1>3, <2>1 DEF Row2
<1>7. ASSUME NEW i \in 1 .. Len(t) PROVE m[Len(s) + i] = t[i]
    <2>1. Len(s) + i \in 1 .. Len(p)
        BY <1>1, <1>4
    <2> QED
        BY <1>2, <1>3, <2>1 DEF Row2
<1> QED
    BY <1>5, <1>6, <1>7 DEF Row3, m, p

LEMMA BufferFields ==
    ASSUME NEW b \in Buffer
    PROVE  b.L \in Seq(Line) /\ b.cy \in Nat /\ b.cx \in Nat /\ b.want \in Nat
    BY DEF Buffer

\* The pieces of a sound buffer that the keys work with.
LEMMA Pieces ==
    ASSUME NEW b, Sound(b)
    PROVE  /\ b.L \in Seq(Line) /\ Len(b.L) \in Nat
           /\ b.cy \in 1 .. Len(b.L) /\ b.cx \in Nat /\ b.cx <= Len(Here(b))
           /\ Here(b) \in Line /\ Len(Here(b)) \in Nat
           /\ Left(b) \in Line /\ Len(Left(b)) = b.cx
           /\ Right(b) \in Line /\ Len(Right(b)) = Len(Here(b)) - b.cx
           /\ Above(b) \in Seq(Line) /\ Len(Above(b)) = b.cy - 1
           /\ Below(b) \in Seq(Line) /\ Len(Below(b)) = Len(b.L) - b.cy
           /\ \A y \in 1 .. Len(b.L) : b.L[y] \in Line /\ Len(b.L[y]) \in Nat
<1>1. /\ b.L \in Seq(Line) /\ Len(b.L) \in Nat
      /\ b.cy \in 1 .. Len(b.L) /\ b.cx \in Nat /\ b.cx <= Len(Here(b))
    BY BufferFields, LenProperties DEF Sound, Inside, Here
<1>2. \A y \in 1 .. Len(b.L) : b.L[y] \in Line /\ Len(b.L[y]) \in Nat
    BY <1>1, ElementOfSeq, LenProperties DEF Line
<1>3. Here(b) \in Line /\ Len(Here(b)) \in Nat
    BY <1>1, <1>2 DEF Here
<1>4. Left(b) \in Line /\ Len(Left(b)) = b.cx
    BY <1>1, <1>3, Piece DEF Left, Line
<1>5. Right(b) \in Line /\ Len(Right(b)) = Len(Here(b)) - b.cx
    <2>1. Here(b) \in Seq(Char) /\ b.cx + 1 \in Int /\ 1 <= b.cx + 1
        BY <1>1, <1>3 DEF Line
    <2> QED
        BY <1>1, <1>3, <2>1, Piece DEF Right, Line
<1>6. Above(b) \in Seq(Line) /\ Len(Above(b)) = b.cy - 1
    BY <1>1, Piece DEF Above
<1>7. Below(b) \in Seq(Line) /\ Len(Below(b)) = Len(b.L) - b.cy
    BY <1>1, Piece DEF Below
<1> QED
    BY <1>1, <1>2, <1>3, <1>4, <1>5, <1>6, <1>7

LEMMA AtSound ==
    ASSUME NEW b \in Buffer, NEW cy \in 1 .. Len(b.L), NEW cx \in Nat,
           cx <= Len(b.L[cy])
    PROVE  Sound(At(b, cy, cx))
<1>1. cy \in Nat
    BY BufferFields, LenProperties
<1> QED
    BY <1>1 DEF Sound, Inside, At, Buffer

\* New lines with the cursor in them.
LEMMA NewLines ==
    ASSUME NEW b \in Buffer, NEW L \in Seq(Line), NEW cy \in 1 .. Len(L),
           NEW cx \in Nat, cx <= Len(L[cy])
    PROVE  Sound(At([b EXCEPT !.L = L], cy, cx))
<1>1. [b EXCEPT !.L = L] \in Buffer /\ [b EXCEPT !.L = L].L = L
    BY DEF Buffer
<1> QED
    BY <1>1, AtSound

-----------------------------------------------------------------------------
(* Moves                                                                   *)

\* The least of a wanted place and the last one there is.
LEMMA LeastBound == ASSUME NEW m \in Int, NEW n \in Int
                    PROVE  /\ Least(m, n) <= n /\ Least(m, n) <= m
                           /\ Least(m, n) \in {m, n}
    BY DEF Least

\* The clamp at the end of the loop finds nothing to do.
LEMMA ClampSound == ASSUME NEW b, Sound(b) PROVE clamp_cursor(b) = b
<1>1. b.cy \in 1 .. Len(b.L) /\ Len(b.L) \in Nat /\ b.cx \in Nat
      /\ b.cx <= Len(b.L[b.cy]) /\ Len(b.L[b.cy]) \in Nat
    BY Pieces DEF Here
<1>2. (IF b.cy < 1 THEN 1 ELSE Least(b.cy, Len(b.L))) = b.cy
    BY <1>1 DEF Least
<1>3. (IF b.cx < 0 THEN 0 ELSE Least(b.cx, Len(b.L[b.cy]))) = b.cx
    BY <1>1 DEF Least
<1>4. clamp_cursor(b) = [b EXCEPT !.cy = b.cy, !.cx = b.cx]
    BY <1>2, <1>3 DEF clamp_cursor
<1> QED
    BY <1>4 DEF Sound, Buffer

LEMMA MoveVertSound ==
    ASSUME NEW b, Sound(b), NEW dy \in Int PROVE Sound(move_vert(b, dy))
<1> DEFINE y == IF b.cy + dy < 1 THEN 1 ELSE Least(b.cy + dy, Len(b.L))
           x == Least(b.want, Len(b.L[y]))
<1>1. y \in 1 .. Len(b.L)
    BY Pieces DEF Least
<1>2. Len(b.L[y]) \in Nat /\ b.want \in Nat
    BY <1>1, Pieces, BufferFields DEF Sound
<1>3. x \in Nat /\ x <= Len(b.L[y])
    BY <1>2 DEF Least
<1>4. move_vert(b, dy) = [b EXCEPT !.cy = y, !.cx = x]
    BY DEF move_vert
<1>5. y \in Nat
    BY <1>1, Pieces
<1> HIDE DEF y, x
<1>6. LET c == [b EXCEPT !.cy = y, !.cx = x]
      IN  c \in Buffer /\ c.L = b.L /\ c.cy = y /\ c.cx = x
    BY <1>3, <1>5 DEF Sound, Buffer
<1> QED
    BY <1>1, <1>3, <1>4, <1>6 DEF Sound, Inside

LEMMA MoveLeftSound == ASSUME NEW b, Sound(b) PROVE Sound(move_left(b))
<1>1. /\ b \in Buffer /\ Len(b.L) \in Nat /\ b.cy \in 1 .. Len(b.L)
      /\ b.cx \in Nat /\ b.cx <= Len(b.L[b.cy])
      /\ \A y \in 1 .. Len(b.L) : Len(b.L[y]) \in Nat
    BY Pieces DEF Sound, Here
<1>2. CASE b.cx > 0
    <2>1. b.cx - 1 \in Nat /\ b.cx - 1 <= Len(b.L[b.cy])
        BY <1>1, <1>2
    <2> QED
        BY <1>1, <1>2, <2>1, AtSound DEF move_left
<1>3. CASE ~ (b.cx > 0) /\ b.cy > 1
    <2>1. b.cy - 1 \in 1 .. Len(b.L)
        BY <1>1, <1>3
    <2>2. Len(b.L[b.cy - 1]) \in Nat /\ Len(b.L[b.cy - 1]) <= Len(b.L[b.cy - 1])
        BY <1>1, <2>1
    <2> QED
        BY <1>1, <1>3, <2>1, <2>2, AtSound DEF move_left
<1>4. CASE ~ (b.cx > 0) /\ ~ (b.cy > 1)
    <2>1. 0 <= Len(b.L[b.cy])
        BY <1>1
    <2> QED
        BY <1>1, <1>4, <2>1, AtSound DEF move_left
<1> QED
    BY <1>2, <1>3, <1>4

LEMMA MoveRightSound == ASSUME NEW b, Sound(b) PROVE Sound(move_right(b))
<1>1. /\ b \in Buffer /\ Len(b.L) \in Nat /\ b.cy \in 1 .. Len(b.L)
      /\ b.cx \in Nat /\ b.cx <= Len(b.L[b.cy])
      /\ \A y \in 1 .. Len(b.L) : Len(b.L[y]) \in Nat
    BY Pieces DEF Sound, Here
<1>2. CASE b.cx < Len(Here(b))
    <2>1. b.cx + 1 \in Nat /\ b.cx + 1 <= Len(b.L[b.cy])
        BY <1>1, <1>2 DEF Here
    <2> QED
        BY <1>1, <1>2, <2>1, AtSound DEF move_right
<1>3. CASE ~ (b.cx < Len(Here(b))) /\ b.cy < Len(b.L)
    <2>1. b.cy + 1 \in 1 .. Len(b.L)
        BY <1>1, <1>3
    <2>2. 0 <= Len(b.L[b.cy + 1])
        BY <1>1, <2>1
    <2> QED
        BY <1>1, <1>3, <2>1, <2>2, AtSound DEF move_right
<1>4. CASE ~ (b.cx < Len(Here(b))) /\ ~ (b.cy < Len(b.L))
    BY <1>1, <1>4, AtSound DEF move_right
<1> QED
    BY <1>2, <1>3, <1>4

LEMMA HomeEndSound ==
    ASSUME NEW b, Sound(b) PROVE Sound(Home(b)) /\ Sound(End(b))
<1>1. /\ b \in Buffer /\ b.cy \in 1 .. Len(b.L) /\ Len(b.L[b.cy]) \in Nat
      /\ 0 <= Len(b.L[b.cy]) /\ Len(b.L[b.cy]) <= Len(b.L[b.cy])
    BY Pieces DEF Sound
<1> QED
    BY <1>1, AtSound DEF Home, End, Here

LEMMA GotoSound ==
    ASSUME NEW b, Sound(b), NEW v \in Nat PROVE Sound(goto_line(b, v))
<1> DEFINE y == IF v < 1 THEN 1 ELSE Least(v, Len(b.L))
<1>1. y \in 1 .. Len(b.L) /\ b \in Buffer
    BY Pieces DEF Least, Sound
<1>2. 0 <= Len(b.L[y])
    BY <1>1, Pieces
<1>3. goto_line(b, v) = At(b, y, 0)
    BY DEF goto_line
<1> HIDE DEF y
<1> QED
    BY <1>1, <1>2, <1>3, AtSound

\* A hit, and so the first of several, is a place in its line.
LEMMA FirstHit ==
    ASSUME NEW b, Sound(b), NEW needle \in Line, NEW y \in 1 .. Len(b.L),
           NEW from \in Nat, Hits(b, y, needle, from) # {}
    PROVE  /\ First(Hits(b, y, needle, from)) \in Nat
           /\ First(Hits(b, y, needle, from)) <= Len(b.L[y])
<1> DEFINE H == Hits(b, y, needle, from)
<1>1. Len(b.L[y]) \in Nat /\ Len(needle) \in Nat
    BY Pieces, LenProperties DEF Line
<1>2. H \in SUBSET Nat /\ \A x \in H : x <= Len(b.L[y])
    BY <1>1 DEF Hits
<1> HIDE DEF H
<1>3. H # {}
    BY DEF H
<1> QED
    BY <1>2, <1>3, FirstIsLeast DEF H

LEMMA SearchSound ==
    ASSUME NEW b, Sound(b), NEW needle \in Line PROVE Sound(search(b, needle))
<1> DEFINE From(z) == IF z = b.cy THEN b.cx + 1 ELSE 0
           After == {z \in b.cy .. Len(b.L) : Hits(b, z, needle, From(z)) # {}}
           Early == {z \in 1 .. b.cy : Hits(b, z, needle, 0) # {}}
<1>1. b \in Buffer /\ Len(b.L) \in Nat /\ b.cy \in 1 .. Len(b.L) /\ b.cx \in Nat
    BY Pieces DEF Sound
<1>2. After \in SUBSET Nat /\ Early \in SUBSET Nat
    BY <1>1
<1>3. search(b, needle) =
        IF After # {}
        THEN At(b, First(After), First(Hits(b, First(After), needle, From(First(After)))))
        ELSE IF Early # {}
        THEN At(b, First(Early), First(Hits(b, First(Early), needle, 0)))
        ELSE b
    BY DEF search
<1>4. CASE After # {}
    <2> DEFINE y == First(After)
    <2>1. y \in After
        BY <1>2, <1>4, FirstIsLeast
    <2> HIDE DEF y
    <2>2. y \in 1 .. Len(b.L) /\ Hits(b, y, needle, From(y)) # {} /\ From(y) \in Nat
        BY <1>1, <2>1
    <2> HIDE DEF From
    <2>3. Sound(At(b, y, First(Hits(b, y, needle, From(y)))))
        BY <1>1, <2>2, FirstHit, AtSound
    <2> QED
        BY <1>3, <1>4, <2>3 DEF y
<1>5. CASE After = {} /\ Early # {}
    <2> DEFINE y == First(Early)
    <2>1. y \in Early
        BY <1>2, <1>5, FirstIsLeast
    <2> HIDE DEF y
    <2>2. y \in 1 .. Len(b.L) /\ Hits(b, y, needle, 0) # {}
        BY <1>1, <2>1
    <2>3. Sound(At(b, y, First(Hits(b, y, needle, 0))))
        BY <1>1, <2>2, FirstHit, AtSound
    <2> QED
        BY <1>3, <1>5, <2>3 DEF y
<1>6. CASE After = {} /\ Early = {}
    BY <1>3, <1>6
<1> QED
    BY <1>4, <1>5, <1>6

-----------------------------------------------------------------------------
(* Edits                                                                   *)

\* The current line rewritten, the cursor in it.
LEMMA LineRewritten ==
    ASSUME NEW b, Sound(b), NEW l \in Line, NEW cx \in Nat, cx <= Len(l)
    PROVE  Sound(At([b EXCEPT !.L[b.cy] = l], b.cy, cx))
<1> DEFINE M == [b.L EXCEPT ![b.cy] = l]
<1>1. b \in Buffer /\ b.L \in Seq(Line) /\ b.cy \in 1 .. Len(b.L)
    BY Pieces DEF Sound
<1>2. M \in Seq(Line) /\ Len(M) = Len(b.L) /\ M[b.cy] = l
    BY <1>1, ExceptSeq
<1>3. [b EXCEPT !.L[b.cy] = l] = [b EXCEPT !.L = M]
    BY <1>1 DEF Buffer
<1> HIDE DEF M
<1>4. b.cy \in 1 .. Len(M) /\ cx <= Len(M[b.cy])
    BY <1>1, <1>2
<1> QED
    BY <1>1, <1>2, <1>3, <1>4, NewLines

\* Several lines in place of the current one.
LEMMA LinesSpliced ==
    ASSUME NEW b, Sound(b), NEW mid \in Seq(Line), NEW M,
           M = Above(b) \o mid \o Below(b)
    PROVE  /\ M \in Seq(Line)
           /\ Len(M) = b.cy - 1 + Len(mid) + (Len(b.L) - b.cy)
           /\ \A i \in 1 .. Len(mid) : M[b.cy - 1 + i] = mid[i]
<1> DEFINE A == Above(b)
           C == Below(b)
<1>1. /\ A \in Seq(Line) /\ Len(A) = b.cy - 1
      /\ C \in Seq(Line) /\ Len(C) = Len(b.L) - b.cy
      /\ M = A \o mid \o C
    BY Pieces
<1> HIDE DEF A, C
<1>2. Row3(Line, M, A, mid, C)
    BY <1>1, ThreeInARow
<1> QED
    BY <1>1, <1>2, Zenon DEF Row3

LEMMA TypeCharSound ==
    ASSUME NEW b, Sound(b), NEW c \in Char, NEW o \in BOOLEAN
    PROVE  Sound(type_char(b, c, o))
<1> DEFINE rest == IF o /\ b.cx < Len(Here(b)) THEN Tail(Right(b)) ELSE Right(b)
           l == Left(b) \o <<c>> \o rest
<1>1. /\ Left(b) \in Seq(Char) /\ Len(Left(b)) = b.cx /\ b.cx \in Nat
      /\ Right(b) \in Seq(Char) /\ Len(Right(b)) = Len(Here(b)) - b.cx
      /\ Len(Here(b)) \in Nat
    BY Pieces DEF Line
<1>2. rest \in Seq(Char)
    <2>1. ASSUME b.cx < Len(Here(b)) PROVE Tail(Right(b)) \in Seq(Char)
        BY <1>1, <2>1, EmptySeq, HeadTailProperties
    <2> QED
        BY <1>1, <2>1
<1> HIDE DEF rest
<1>3. Left(b) \o <<c>> \in Seq(Char) /\ Len(Left(b) \o <<c>>) = b.cx + 1
    BY <1>1, Single, ConcatProperties
<1>4. l \in Seq(Char) /\ Len(l) = b.cx + 1 + Len(rest) /\ Len(rest) \in Nat
    <2>1. /\ l \in Seq(Char) /\ Len(rest) \in Nat
          /\ Len(l) = Len(Left(b) \o <<c>>) + Len(rest)
        BY <1>2, <1>3, TwoInARow, LenProperties DEF Row2
    <2> QED
        BY <1>3, <2>1, Zenon
<1>5. type_char(b, c, o) = At([b EXCEPT !.L[b.cy] = l], b.cy, b.cx + 1)
    BY DEF type_char, rest
<1> HIDE DEF l
<1>6. b.cx + 1 \in Nat /\ b.cx + 1 <= Len(l)
    BY <1>1, <1>4
<1> QED
    BY <1>4, <1>5, <1>6, LineRewritten DEF Line

LEMMA EnterSound == ASSUME NEW b, Sound(b) PROVE Sound(do_enter(b))
<1> DEFINE mid == <<Left(b), Right(b)>>
           M == Above(b) \o mid \o Below(b)
<1>1. /\ b \in Buffer /\ Left(b) \in Line /\ Right(b) \in Line
      /\ Len(b.L) \in Nat /\ b.cy \in 1 .. Len(b.L) /\ 0 <= Len(Right(b))
    BY Pieces, LenProperties DEF Sound, Line
<1>2. mid \in Seq(Line) /\ Len(mid) = 2 /\ mid[2] = Right(b)
    BY <1>1
<1> HIDE DEF mid
<1>3. /\ M \in Seq(Line) /\ Len(M) = b.cy - 1 + Len(mid) + (Len(b.L) - b.cy)
      /\ \A i \in 1 .. Len(mid) : M[b.cy - 1 + i] = mid[i]
    BY <1>2, LinesSpliced
<1>4. do_enter(b) = At([b EXCEPT !.L = M], b.cy + 1, 0)
    BY DEF do_enter, mid
<1> HIDE DEF M
<1>5. b.cy + 1 \in 1 .. Len(M) /\ M[b.cy - 1 + 2] = Right(b) /\ b.cy - 1 + 2 = b.cy + 1
    BY <1>1, <1>2, <1>3
<1>6. 0 <= Len(M[b.cy + 1])
    BY <1>1, <1>5
<1> QED
    BY <1>1, <1>3, <1>4, <1>5, <1>6, NewLines

LEMMA Longer ==
    ASSUME NEW k \in Nat, NEW m \in Nat, NEW n \in Nat
    PROVE  /\ m <= m + n
           /\ k <= m => k <= m + n
    OBVIOUS

LEMMA LeastBelow ==
    ASSUME NEW n \in Nat, n # 1, NEW m \in 1 .. n
    PROVE  Least(m, n - 1) \in 1 .. n - 1
    BY DEF Least

LEMMA Joined ==
    ASSUME NEW L \in Seq(Line), NEW y \in 1 .. Len(L) - 1
    PROVE  /\ join_lines(L, y) \in Seq(Line)
           /\ Len(join_lines(L, y)) = Len(L) - 1
           /\ join_lines(L, y)[y] = L[y] \o L[y + 1]
           /\ Len(L[y] \o L[y + 1]) = Len(L[y]) + Len(L[y + 1])
           /\ Len(L[y]) \in Nat /\ Len(L[y + 1]) \in Nat
<1> DEFINE l == L[y] \o L[y + 1]
           A == SubSeq(L, 1, y - 1)
           C == SubSeq(L, y + 2, Len(L))
           mid == <<l>>
           M == A \o mid \o C
<1>1. Len(L) \in Nat /\ y \in 1 .. Len(L) /\ y + 1 \in 1 .. Len(L)
    BY LenProperties
<1>2. /\ L[y] \in Seq(Char) /\ L[y + 1] \in Seq(Char)
      /\ Len(L[y]) \in Nat /\ Len(L[y + 1]) \in Nat
    BY <1>1, ElementOfSeq, LenProperties DEF Line
<1>3. l \in Line /\ Len(l) = Len(L[y]) + Len(L[y + 1])
    BY <1>2, TwoInARow DEF Row2, Line
<1>4. A \in Seq(Line) /\ Len(A) = y - 1
    BY <1>1, Piece
<1>5. C \in Seq(Line) /\ Len(C) = Len(L) - 1 - y
    BY <1>1, Piece
<1>6. join_lines(L, y) = M
    BY DEF join_lines
<1> HIDE DEF l, A, C
<1>7. mid \in Seq(Line) /\ Len(mid) = 1 /\ mid[1] = l
    BY <1>3, Single
<1> HIDE DEF mid
<1>8. Row3(Line, M, A, mid, C)
    BY <1>4, <1>5, <1>7, ThreeInARow
<1> HIDE DEF M
<1>9. M \in Seq(Line) /\ Len(M) = (y - 1) + 1 + (Len(L) - 1 - y)
      /\ \A i \in 1 .. Len(mid) : M[(y - 1) + i] = mid[i]
    BY <1>4, <1>5, <1>7, <1>8, Zenon DEF Row3
<1>10. Len(M) = Len(L) - 1
    BY <1>1, <1>9
<1>11. M[y] = l
    <2>1. M[(y - 1) + 1] = mid[1] /\ (y - 1) + 1 = y
        BY <1>1, <1>7, <1>9
    <2> QED
        BY <1>7, <2>1
<1> QED
    BY <1>2, <1>3, <1>6, <1>9, <1>10, <1>11 DEF l

LEMMA BackspaceSound ==
    ASSUME NEW b, Sound(b), CanBackspace(b) PROVE Sound(do_backspace(b))
<1>1. /\ b \in Buffer /\ b.L \in Seq(Line) /\ Len(b.L) \in Nat /\ b.cy \in 1 .. Len(b.L)
      /\ b.cx \in Nat /\ b.cx <= Len(Here(b)) /\ Here(b) \in Seq(Char)
      /\ Right(b) \in Seq(Char) /\ Len(Right(b)) \in Nat /\ Len(Here(b)) \in Nat
    BY Pieces, LenProperties DEF Sound, Line
<1>2. CASE b.cx > 0
    <2> DEFINE l == SubSeq(Here(b), 1, b.cx - 1) \o Right(b)
    <2>1. /\ SubSeq(Here(b), 1, b.cx - 1) \in Seq(Char)
          /\ Len(SubSeq(Here(b), 1, b.cx - 1)) = b.cx - 1
        BY <1>1, <1>2, Piece
    <2>2. Row2(Char, l, SubSeq(Here(b), 1, b.cx - 1), Right(b))
        BY <1>1, <2>1, TwoInARow
    <2>3. do_backspace(b) = At([b EXCEPT !.L[b.cy] = l], b.cy, b.cx - 1)
        BY <1>2 DEF do_backspace, Here
    <2> HIDE DEF l
    <2>4. l \in Line /\ Len(l) = (b.cx - 1) + Len(Right(b))
        BY <2>1, <2>2, Zenon DEF Row2, Line
    <2>5. b.cx - 1 \in Nat /\ b.cx - 1 <= Len(l)
        BY <1>1, <1>2, <2>4
    <2> QED
        BY <2>3, <2>4, <2>5, LineRewritten
<1>3. CASE ~ (b.cx > 0)
    <2> DEFINE M == join_lines(b.L, b.cy - 1)
    <2>1. b.cy - 1 \in 1 .. Len(b.L) - 1 /\ (b.cy - 1) + 1 = b.cy
        BY <1>1, <1>3 DEF CanBackspace
    <2>2. /\ M \in Seq(Line) /\ Len(M) = Len(b.L) - 1
          /\ Len(M[b.cy - 1]) = Len(b.L[b.cy - 1]) + Len(b.L[b.cy])
          /\ Len(b.L[b.cy - 1]) \in Nat /\ Len(b.L[b.cy]) \in Nat
        BY <1>1, <2>1, Joined
    <2>3. do_backspace(b) =
              At([b EXCEPT !.L = M], b.cy - 1, Len(b.L[b.cy - 1]))
        BY <1>3 DEF do_backspace
    <2> HIDE DEF M
    <2>4. b.cy - 1 \in 1 .. Len(M) /\ Len(b.L[b.cy - 1]) <= Len(M[b.cy - 1])
        <3>1. b.cy - 1 \in 1 .. Len(M)
            BY <2>1, <2>2, Zenon
        <3>2. Len(b.L[b.cy - 1]) <= Len(b.L[b.cy - 1]) + Len(b.L[b.cy])
            BY <2>2, Longer, Zenon
        <3> QED
            BY <2>2, <3>1, <3>2, Zenon
    <2> QED
        BY <1>1, <2>2, <2>3, <2>4, NewLines
<1> QED
    BY <1>2, <1>3

LEMMA DeleteSound ==
    ASSUME NEW b, Sound(b), CanDelete(b) PROVE Sound(do_delete(b))
<1>1. /\ b \in Buffer /\ b.L \in Seq(Line) /\ Len(b.L) \in Nat /\ b.cy \in 1 .. Len(b.L)
      /\ b.cx \in Nat /\ b.cx <= Len(b.L[b.cy]) /\ Here(b) = b.L[b.cy]
      /\ Left(b) \in Seq(Char) /\ Len(Left(b)) = b.cx
      /\ Right(b) \in Seq(Char) /\ Len(Right(b)) = Len(Here(b)) - b.cx
      /\ Len(Here(b)) \in Nat
    BY Pieces DEF Sound, Line, Here
<1>2. ASSUME NEW M \in Seq(Line), b.cy \in 1 .. Len(M), b.cx <= Len(M[b.cy])
      PROVE  Sound([b EXCEPT !.L = M])
    BY <1>1, <1>2 DEF Sound, Buffer, Inside
<1>3. CASE b.cx < Len(Here(b))
    <2> DEFINE l == Left(b) \o Tail(Right(b))
               M == [b.L EXCEPT ![b.cy] = l]
    <2>1. Right(b) # <<>>
        BY <1>1, <1>3, EmptySeq
    <2>2. Tail(Right(b)) \in Seq(Char) /\ Len(Tail(Right(b))) \in Nat
        BY <1>1, <2>1, HeadTailProperties, LenProperties
    <2>3. Row2(Char, l, Left(b), Tail(Right(b)))
        BY <1>1, <2>2, TwoInARow
    <2>4. do_delete(b) = [b EXCEPT !.L = M]
        BY <1>1, <1>3 DEF do_delete, Buffer
    <2> HIDE DEF l
    <2>5. l \in Line /\ Len(l) = Len(Left(b)) + Len(Tail(Right(b)))
        BY <2>3, Zenon DEF Row2, Line
    <2>6. M \in Seq(Line) /\ Len(M) = Len(b.L) /\ M[b.cy] = l
        <3>1. l \in Line
            BY <2>5
        <3> QED
            BY <1>1, <3>1, ExceptSeq
    <2> HIDE DEF M
    <2>7. b.cy \in 1 .. Len(M) /\ b.cx <= Len(M[b.cy])
        BY <1>1, <2>2, <2>5, <2>6
    <2> QED
        BY <1>2, <2>4, <2>6, <2>7
<1>4. CASE ~ (b.cx < Len(Here(b)))
    <2> DEFINE M == join_lines(b.L, b.cy)
    <2>1. b.cy \in 1 .. Len(b.L) - 1
        BY <1>1, <1>4 DEF CanDelete
    <2>2. /\ M \in Seq(Line) /\ Len(M) = Len(b.L) - 1
          /\ Len(M[b.cy]) = Len(b.L[b.cy]) + Len(b.L[b.cy + 1])
          /\ Len(b.L[b.cy]) \in Nat /\ Len(b.L[b.cy + 1]) \in Nat
        BY <1>1, <2>1, Joined
    <2>3. do_delete(b) = [b EXCEPT !.L = M]
        BY <1>4 DEF do_delete
    <2> HIDE DEF M
    <2>4. b.cy \in 1 .. Len(M) /\ b.cx <= Len(M[b.cy])
        <3>1. b.cy \in 1 .. Len(M)
            BY <2>1, <2>2, Zenon
        <3>2. b.cx <= Len(b.L[b.cy]) + Len(b.L[b.cy + 1])
            BY <1>1, <2>2, Longer, Zenon
        <3> QED
            BY <2>2, <3>1, <3>2, Zenon
    <2> QED
        BY <1>2, <2>2, <2>3, <2>4
<1> QED
    BY <1>3, <1>4

LEMMA CutSound == ASSUME NEW b, Sound(b) PROVE Sound(cut_line(b))
<1>1. /\ b \in Buffer /\ Len(b.L) \in Nat /\ b.cy \in 1 .. Len(b.L)
      /\ Above(b) \in Seq(Line) /\ Len(Above(b)) = b.cy - 1
      /\ Below(b) \in Seq(Line) /\ Len(Below(b)) = Len(b.L) - b.cy
    BY Pieces DEF Sound
<1>2. CASE Len(b.L) = 1
    <2> DEFINE M == <<<<>>>>
    <2>1. M \in Seq(Line) /\ Len(M) = 1 /\ M[1] = <<>> /\ Len(<<>>) = 0
        BY EmptySeq, Single DEF Line
    <2>2. cut_line(b) = At([b EXCEPT !.L = M], 1, 0)
        BY <1>2 DEF cut_line
    <2> HIDE DEF M
    <2>3. 1 \in 1 .. Len(M) /\ 0 <= Len(M[1])
        BY <2>1
    <2> QED
        BY <1>1, <2>1, <2>2, <2>3, NewLines
<1>3. CASE Len(b.L) # 1
    <2> DEFINE M == Above(b) \o Below(b)
               y == Least(b.cy, Len(b.L) - 1)
    <2>1. Row2(Line, M, Above(b), Below(b))
        BY <1>1, TwoInARow
    <2>2. cut_line(b) = At([b EXCEPT !.L = M], y, 0)
        BY <1>3 DEF cut_line
    <2> HIDE DEF M
    <2>3. M \in Seq(Line) /\ Len(M) = (b.cy - 1) + (Len(b.L) - b.cy)
        BY <1>1, <2>1, Zenon DEF Row2
    <2>4. y \in 1 .. Len(M)
        <3>1. Len(M) = Len(b.L) - 1
            BY <1>1, <2>3
        <3>2. y \in 1 .. Len(b.L) - 1
            BY <1>1, <1>3, LeastBelow, Zenon
        <3> QED
            BY <3>1, <3>2, Zenon
    <2> HIDE DEF y
    <2>5. 0 <= Len(M[y])
        BY <2>3, <2>4, ElementOfSeq, LenProperties DEF Line
    <2> QED
        BY <1>1, <2>2, <2>3, <2>4, <2>5, NewLines
<1> QED
    BY <1>2, <1>3

\* A text typed at the cursor leaves the cursor at its end.
LEMMA InsertSound ==
    ASSUME NEW b, Sound(b), NEW t \in Seq(Line), t # <<>>
    PROVE  Sound(insert_text(b, t))
<1> DEFINE n == Len(t)
<1>1. /\ b \in Buffer /\ Len(b.L) \in Nat /\ b.cy \in 1 .. Len(b.L) /\ b.cx \in Nat
      /\ Left(b) \in Seq(Char) /\ Len(Left(b)) = b.cx
      /\ Right(b) \in Seq(Char) /\ Len(Right(b)) \in Nat
    BY Pieces, LenProperties DEF Sound, Line
<1>2. n \in Nat \ {0}
    BY EmptySeq
<1>3. /\ t[1] \in Seq(Char) /\ Len(t[1]) \in Nat
      /\ t[n] \in Seq(Char) /\ Len(t[n]) \in Nat
    BY <1>2, ElementOfSeq, LenProperties DEF Line
<1> HIDE DEF n
<1>4. CASE n = 1
    <2> DEFINE l == Left(b) \o t[1] \o Right(b)
               one == <<l>>
               M == Above(b) \o one \o Below(b)
    <2>1. Row3(Char, l, Left(b), t[1], Right(b))
        BY <1>1, <1>3, ThreeInARow
    <2>2. insert_text(b, t) = At([b EXCEPT !.L = M], b.cy, b.cx + Len(t[1]))
        BY <1>4 DEF insert_text, n
    <2> HIDE DEF l
    <2>3. l \in Line /\ Len(l) = b.cx + Len(t[1]) + Len(Right(b))
        BY <1>1, <2>1, Zenon DEF Row3, Line
    <2>4. one \in Seq(Line) /\ Len(one) = 1 /\ one[1] = l
        BY <2>3, Single
    <2> HIDE DEF one
    <2>5. /\ M \in Seq(Line) /\ Len(M) = b.cy - 1 + Len(one) + (Len(b.L) - b.cy)
          /\ \A i \in 1 .. Len(one) : M[b.cy - 1 + i] = one[i]
        BY <2>4, LinesSpliced
    <2> HIDE DEF M
    <2>6. M[b.cy] = l /\ b.cy \in 1 .. Len(M)
        <3>1. M[b.cy - 1 + 1] = one[1] /\ b.cy - 1 + 1 = b.cy
            BY <1>1, <2>4, <2>5
        <3> QED
            BY <1>1, <2>4, <2>5, <3>1
    <2>7. b.cx + Len(t[1]) \in Nat /\ b.cx + Len(t[1]) <= Len(M[b.cy])
        BY <1>1, <1>3, <2>3, <2>6
    <2> QED
        BY <1>1, <2>2, <2>5, <2>6, <2>7, NewLines
<1>5. CASE n # 1
    <2> DEFINE first == Left(b) \o t[1]
               last == t[n] \o Right(b)
               between == SubSeq(t, 2, n - 1)
               f == <<first>>
               l == <<last>>
               many == f \o between \o l
               M == Above(b) \o many \o Below(b)
    <2>1. first \in Line
        BY <1>1, <1>3, TwoInARow DEF Row2, Line
    <2>2. last \in Line /\ Len(last) = Len(t[n]) + Len(Right(b))
        BY <1>1, <1>3, TwoInARow DEF Row2, Line
    <2>3. between \in Seq(Line) /\ Len(between) = n - 2
        <3>1. n - 1 \in Int /\ n - 1 <= Len(t) /\ 2 \in Int /\ 1 <= 2
            BY <1>2 DEF n
        <3>2. between \in Seq(Line)
              /\ Len(between) = IF 2 <= n - 1 THEN n - 1 - 2 + 1 ELSE 0
            BY <3>1, Piece
        <3> QED
            BY <1>2, <1>5, <3>2
    <2>4. insert_text(b, t) = At([b EXCEPT !.L = M], b.cy + n - 1, Len(t[n]))
        BY <1>5 DEF insert_text, n
    <2> HIDE DEF first, last, between
    <2>5. /\ f \in Seq(Line) /\ Len(f) = 1
          /\ l \in Seq(Line) /\ Len(l) = 1 /\ l[1] = last
        BY <2>1, <2>2, Single
    <2> HIDE DEF f, l
    <2>6. Row3(Line, many, f, between, l)
        BY <2>3, <2>5, ThreeInARow
    <2> HIDE DEF many
    <2>7. many \in Seq(Line) /\ Len(many) = 1 + (n - 2) + 1
          /\ \A i \in 1 .. 1 : many[1 + (n - 2) + i] = l[i]
        BY <2>3, <2>5, <2>6, Zenon DEF Row3
    <2>8. Len(many) = n /\ many[n] = last
        <3>1. many[1 + (n - 2) + 1] = last /\ 1 + (n - 2) + 1 = n
            BY <1>2, <2>5, <2>7
        <3> QED
            BY <2>7, <3>1
    <2>9. /\ M \in Seq(Line) /\ Len(M) = b.cy - 1 + Len(many) + (Len(b.L) - b.cy)
          /\ \A i \in 1 .. Len(many) : M[b.cy - 1 + i] = many[i]
        BY <2>7, LinesSpliced
    <2> HIDE DEF M
    <2>10. b.cy + n - 1 \in 1 .. Len(M) /\ M[b.cy + n - 1] = last
        <3>1. M[b.cy - 1 + n] = many[n] /\ b.cy - 1 + n = b.cy + n - 1
            BY <1>1, <1>2, <2>8, <2>9
        <3> QED
            BY <1>1, <1>2, <2>8, <2>9, <3>1
    <2>11. Len(t[n]) <= Len(M[b.cy + n - 1])
        BY <1>1, <1>3, <2>2, <2>10
    <2> QED
        BY <1>1, <1>3, <2>4, <2>9, <2>10, <2>11, NewLines
<1> QED
    BY <1>4, <1>5

-----------------------------------------------------------------------------
(* The undo stack                                                          *)

Snapshots == [buf : Buffer, dirty : BOOLEAN]
SoundSnapshots == {s \in Snapshots : Inside(s.buf)}
StackSound(st) == st \in Seq(SoundSnapshots)

\* The empty stack is a suffix that has room for anything, so there is a longest
\* suffix with room.
LEMMA TrimmedFits ==
    ASSUME NEW S, NEW st \in Seq(S), NEW s
    PROVE  \E n \in 0 .. Len(st) :
              Trimmed(st, s) = Suffix(st, n) /\ Fits(Suffix(st, n), s)
<1> DEFINE Room == {k \in 0 .. Len(st) : Fits(Suffix(st, Len(st) - k), s)}
<1>1. Len(st) \in Nat
    BY LenProperties
<1>2. Suffix(st, 0) = <<>>
    BY <1>1, SubSeqEmpty DEF Suffix
<1>3. Len(st) \in Room
    <2>1. Len(st) - Len(st) = 0 /\ Len(st) \in 0 .. Len(st)
        BY <1>1
    <2> QED
        BY <1>2, <2>1 DEF Fits
<1>4. PICK k \in Room : \A y \in Room : k <= y
    <2>1. Room \in SUBSET Nat
        BY <1>1
    <2> QED
        BY <1>3, <2>1, FirstIsLeast
<1> DEFINE n == Len(st) - k
           P(m) == /\ Fits(Suffix(st, m), s)
                   /\ \A j \in m + 1 .. Len(st) : ~ Fits(Suffix(st, j), s)
<1>5. n \in 0 .. Len(st)
    BY <1>1, <1>4
<1>6. P(n)
    <2>1. ASSUME NEW j \in n + 1 .. Len(st), Fits(Suffix(st, j), s) PROVE FALSE
        <3>1. Len(st) - j \in 0 .. Len(st) /\ Len(st) - (Len(st) - j) = j /\ Len(st) - j < k
            BY <1>1, <1>4, <1>5
        <3>2. Len(st) - j \in Room
            BY <2>1, <3>1
        <3> QED
            BY <1>1, <1>4, <3>1, <3>2
    <2> QED
        BY <1>4, <2>1
<1> HIDE DEF n
<1>7. P(CHOOSE m \in 0 .. Len(st) : P(m))
      /\ (CHOOSE m \in 0 .. Len(st) : P(m)) \in 0 .. Len(st)
    BY <1>5, <1>6, Zenon
<1> QED
    BY <1>7 DEF Trimmed

LEMMA SuffixIn ==
    ASSUME NEW S, NEW st \in Seq(S), NEW n \in 0 .. Len(st)
    PROVE  /\ Suffix(st, n) \in Seq(S)
           /\ Len(Suffix(st, n)) = n
           /\ n = Len(st) => Suffix(st, n) = st
<1> DEFINE m == Len(st) - n + 1
<1>1. Len(st) \in Nat /\ m \in Int /\ 1 <= m /\ m - 1 + n = Len(st)
    BY LenProperties
<1>2. /\ Suffix(st, n) \in Seq(S)
      /\ Len(Suffix(st, n)) = IF m <= Len(st) THEN Len(st) - m + 1 ELSE 0
    BY <1>1, Piece DEF Suffix
<1>3. n = Len(st) => m = 1
    BY <1>1
<1>4. n = Len(st) => Suffix(st, n) = st
    BY <1>3, SubSeqFull DEF Suffix
<1>5. Len(Suffix(st, n)) = n
    BY <1>1, <1>2
<1> QED
    BY <1>2, <1>4, <1>5

LEMMA TrimmedIn ==
    ASSUME NEW S, NEW st \in Seq(S), NEW s
    PROVE  /\ Trimmed(st, s) \in Seq(S)
           /\ Len(Trimmed(st, s)) \in 0 .. Len(st)
           /\ Len(Trimmed(st, s)) = Len(st) => Trimmed(st, s) = st
    BY TrimmedFits, SuffixIn

LEMMA PoppedIn ==
    ASSUME NEW S, NEW st \in Seq(S), st # <<>>
    PROVE  /\ SubSeq(st, 1, Len(st) - 1) \in Seq(S)
           /\ Len(SubSeq(st, 1, Len(st) - 1)) = Len(st) - 1
           /\ \A i \in 1 .. Len(st) - 1 : SubSeq(st, 1, Len(st) - 1)[i] = st[i]
           /\ Len(st) \in Nat \ {0}
           /\ st[Len(st)] \in S
<1> DEFINE n == Len(st) - 1
<1>1. Len(st) \in Nat \ {0} /\ n \in Nat /\ n <= Len(st) /\ Len(st) \in 1 .. Len(st)
    BY EmptySeq
<1> HIDE DEF n
<1>2. /\ SubSeq(st, 1, n) \in Seq(S)
      /\ Len(SubSeq(st, 1, n)) = IF 1 <= n THEN n - 1 + 1 ELSE 0
      /\ \A i \in 1 .. n - 1 + 1 : SubSeq(st, 1, n)[i] = st[1 + i - 1]
    BY <1>1, Piece
<1>3. Len(SubSeq(st, 1, n)) = n
    BY <1>1, <1>2
<1>4. ASSUME NEW i \in 1 .. n PROVE SubSeq(st, 1, n)[i] = st[i]
    <2>1. i \in 1 .. n - 1 + 1 /\ 1 + i - 1 = i
        BY <1>1
    <2> QED
        BY <1>2, <2>1
<1>5. st[Len(st)] \in S
    BY <1>1, ElementOfSeq
<1> QED
    BY <1>1, <1>2, <1>3, <1>4, <1>5, Zenon DEF n

-----------------------------------------------------------------------------
(* Every step keeps the types and the cursor                               *)

Saver ==
    /\ pc \in {"off", "edit", "exit", "name", "backup", "copy", "trunc", "write"}
    /\ named \in BOOLEAN
    /\ ret \in {"edit", "exit"}
    /\ backed \in BOOLEAN
    /\ {file, backup} \subseteq [exists : BOOLEAN, lines : Seq(Line)]
    /\ eof \in BOOLEAN
    /\ faults \in Nat

Text ==
    /\ Sound(buf)
    /\ dirty \in BOOLEAN
    /\ overwrite \in BOOLEAN
    /\ StackSound(ustack)
    /\ u_kind \in Kinds \cup {"none"}
    /\ u_line \in Nat
    /\ cbuf \in Seq(Line)

Core == Saver /\ Text

LEMMA FreshSound ==
    ASSUME NEW lines \in Seq(Line) PROVE Sound(Fresh(lines))
<1>1. load(lines) \in Seq(Line) /\ Len(load(lines)) \in Nat \ {0}
    BY EmptySeq, Single, LenProperties DEF load, Line
<1> DEFINE M == load(lines)
<1>2. M[1] \in Seq(Char) /\ 0 <= Len(M[1])
    BY <1>1, ElementOfSeq, LenProperties DEF Line
<1>3. Fresh(lines) = [L |-> M, cy |-> 1, cx |-> 0, want |-> 0]
    BY DEF Fresh
<1> HIDE DEF M
<1>4. M \in Seq(Line) /\ 1 \in 1 .. Len(M)
    BY <1>1 DEF M
<1> QED
    BY <1>2, <1>3, <1>4 DEF Sound, Inside, Buffer

LEMMA EmptyStack == StackSound(<<>>)
    BY EmptySeq DEF StackSound

LEMMA GoneText == Gone => Text'
<1> SUFFICES ASSUME Gone PROVE Text'
    OBVIOUS
<1>1. Sound(Fresh(<<>>)) /\ <<>> \in Seq(Line)
    BY FreshSound, EmptySeq
<1> QED
    BY <1>1, EmptyStack DEF Gone, Text

LEMMA PushText ==
    ASSUME Text, NEW kind \in Kinds, NEW run, push_undo(kind, run), run \in Kinds \cup {"none"}
    PROVE  StackSound(ustack') /\ u_kind' \in Kinds \cup {"none"} /\ u_line' \in Nat
<1>1. /\ Snapshot \in SoundSnapshots
      /\ StackSound(ustack) /\ buf.cy \in Nat /\ u_line \in Nat
    BY BufferFields DEF Text, Snapshot, Snapshots, SoundSnapshots, Sound
<1>2. StackSound(Trimmed(ustack, Snapshot))
    BY <1>1, TrimmedIn DEF StackSound
<1>3. StackSound(Append(Trimmed(ustack, Snapshot), Snapshot))
    BY <1>1, <1>2, AppendProperties DEF StackSound
<1> QED
    BY <1>1, <1>2, <1>3 DEF push_undo

\* An edit that makes a sound buffer keeps everything in order.
LEMMA EditCore ==
    ASSUME Core, NEW b, Sound(b), NEW kind \in Kinds, NEW run, run \in Kinds \cup {"none"},
           EditTo(kind, run, b), cbuf' \in Seq(Line)
    PROVE  Core'
<1>1. StackSound(ustack') /\ u_kind' \in Kinds \cup {"none"} /\ u_line' \in Nat
    BY PushText DEF Core, EditTo
<1>2. buf' = b
    BY ClampSound DEF EditTo, Becomes
<1>3. Saver'
    BY DEF Core, Saver, EditTo, disk
<1>4. dirty' \in BOOLEAN /\ overwrite' \in BOOLEAN
    BY DEF EditTo, Core, Text
<1> QED
    BY <1>1, <1>2, <1>3, <1>4 DEF Core, Text

LEMMA TypeCharCore == Core /\ TypeChar => Core'
<1> SUFFICES ASSUME Core, TypeChar PROVE Core'
    OBVIOUS
<1>1. PICK c \in Char : EditTo("type", u_kind, type_char(buf, c, overwrite)) /\ cbuf' = cbuf
    BY DEF TypeChar
<1>2. Sound(type_char(buf, c, overwrite))
    BY TypeCharSound DEF Core, Text
<1>3. u_kind \in Kinds \cup {"none"} /\ "type" \in Kinds /\ cbuf' \in Seq(Line)
    BY <1>1 DEF Core, Text, Kinds
<1> QED
    BY <1>1, <1>2, <1>3, EditCore

LEMMA EnterCore == Core /\ Enter => Core'
<1> SUFFICES ASSUME Core, Enter PROVE Core'
    OBVIOUS
<1>1. EditTo("enter", u_kind, do_enter(buf)) /\ cbuf' = cbuf
    BY DEF Enter
<1>2. Sound(do_enter(buf))
    BY EnterSound DEF Core, Text
<1>3. u_kind \in Kinds \cup {"none"} /\ "enter" \in Kinds /\ cbuf' \in Seq(Line)
    BY <1>1 DEF Core, Text, Kinds
<1> QED
    BY <1>1, <1>2, <1>3, EditCore

LEMMA BackspaceCore == Core /\ Backspace => Core'
<1> SUFFICES ASSUME Core, Backspace PROVE Core'
    OBVIOUS
<1>1. EditTo("backspace", u_kind, do_backspace(buf)) /\ cbuf' = cbuf
    BY DEF Backspace
<1>2. Sound(do_backspace(buf))
    BY BackspaceSound DEF Core, Text, Backspace
<1>3. u_kind \in Kinds \cup {"none"} /\ "backspace" \in Kinds /\ cbuf' \in Seq(Line)
    BY <1>1 DEF Core, Text, Kinds
<1> QED
    BY <1>1, <1>2, <1>3, EditCore

LEMMA DeleteCore == Core /\ Delete => Core'
<1> SUFFICES ASSUME Core, Delete PROVE Core'
    OBVIOUS
<1>1. EditTo("delete", u_kind, do_delete(buf)) /\ cbuf' = cbuf
    BY DEF Delete
<1>2. Sound(do_delete(buf))
    BY DeleteSound DEF Core, Text, Delete
<1>3. u_kind \in Kinds \cup {"none"} /\ "delete" \in Kinds /\ cbuf' \in Seq(Line)
    BY <1>1 DEF Core, Text, Kinds
<1> QED
    BY <1>1, <1>2, <1>3, EditCore

LEMMA CutCore == Core /\ Cut => Core'
<1> SUFFICES ASSUME Core, Cut PROVE Core'
    OBVIOUS
<1>1. EditTo("cut", "none", cut_line(buf)) /\ cbuf' = CutText(buf)
    BY DEF Cut
<1>2. Sound(cut_line(buf)) /\ Here(buf) \in Line
    BY CutSound, Pieces DEF Core, Text
<1>3. CutText(buf) \in Seq(Line)
    BY <1>2, EmptySeq DEF CutText, Line
<1>4. "cut" \in Kinds
    BY DEF Kinds
<1> QED
    BY <1>1, <1>2, <1>3, <1>4, EditCore

LEMMA PasteCore == Core /\ Paste => Core'
<1> SUFFICES ASSUME Core, Paste PROVE Core'
    OBVIOUS
<1>1. EditTo("paste", "none", insert_text(buf, cbuf)) /\ cbuf' = cbuf /\ cbuf # <<>>
    BY DEF Paste
<1>2. Sound(insert_text(buf, cbuf)) /\ cbuf' \in Seq(Line)
    BY <1>1, InsertSound DEF Core, Text
<1>3. "paste" \in Kinds
    BY DEF Kinds
<1> QED
    BY <1>1, <1>2, <1>3, EditCore

LEMMA InsertFileCore == Core /\ InsertFile => Core'
<1> SUFFICES ASSUME Core, InsertFile PROVE Core'
    OBVIOUS
<1>1. PICK t \in InsertTexts : EditTo("read", "none", insert_text(buf, t)) /\ cbuf' = cbuf
    BY DEF InsertFile
<1>2. t \in Seq(Line) /\ t # <<>>
    BY CedAssumption
<1>3. Sound(insert_text(buf, t)) /\ cbuf' \in Seq(Line)
    BY <1>1, <1>2, InsertSound DEF Core, Text
<1>4. "read" \in Kinds
    BY DEF Kinds
<1> QED
    BY <1>1, <1>3, <1>4, EditCore

LEMMA UndoCore == Core /\ undo => Core'
<1> SUFFICES ASSUME Core, undo PROVE Core'
    OBVIOUS
<1> DEFINE s == ustack[Len(ustack)]
<1>1. /\ ustack # <<>> /\ buf' = clamp_cursor(s.buf) /\ dirty' = s.dirty
      /\ ustack' = SubSeq(ustack, 1, Len(ustack) - 1)
      /\ u_kind' = "none" /\ u_line' = 0
      /\ UNCHANGED <<overwrite, cbuf>>
    BY DEF undo
<1>2. s \in Snapshots /\ Sound(s.buf) /\ StackSound(ustack')
    <2>1. s \in SoundSnapshots /\ StackSound(ustack')
        BY <1>1, PoppedIn DEF Core, Text, StackSound
    <2> QED
        BY <2>1 DEF SoundSnapshots, Snapshots, Sound
<1> HIDE DEF s
<1>3. buf' = s.buf /\ dirty' \in BOOLEAN
    BY <1>1, <1>2, ClampSound DEF Snapshots
<1>4. Text'
    BY <1>1, <1>2, <1>3 DEF Core, Text
<1>5. Saver'
    BY DEF Core, Saver, undo, disk
<1> QED
    BY <1>4, <1>5 DEF Core

\* A place every search, jump and move of the cursor leads to.
LEMMA MovesSound ==
    ASSUME Sound(buf) PROVE \A b \in Moves \cup Jumps : Sound(b)
<1>1. PageSize \in Int /\ -PageSize \in Int /\ MaxLines \in Nat
    BY CedAssumption
<1>2. \A dy \in {-1, 1, PageSize, -PageSize} : Sound(move_vert(buf, dy))
    BY <1>1, MoveVertSound
<1>3. Sound(move_left(buf)) /\ Sound(move_right(buf)) /\ Sound(Home(buf)) /\ Sound(End(buf))
    BY MoveLeftSound, MoveRightSound, HomeEndSound
<1>4. \A n \in Needles : Sound(search(buf, n))
    BY CedAssumption, SearchSound
<1>5. \A v \in {0, 1, MaxLines} : Sound(goto_line(buf, v))
    BY <1>1, GotoSound
<1> QED
    BY <1>2, <1>3, <1>4, <1>5 DEF Moves, Jumps

LEMMA MoveCore == Core /\ (Move \/ Jump) => Core'
<1> SUFFICES ASSUME Core, Move \/ Jump PROVE Core'
    OBVIOUS
<1>1. PICK b \in Moves \cup Jumps : MoveTo(b)
    BY DEF Move, Jump
<1>2. Sound(b)
    BY MovesSound DEF Core, Text
<1>3. buf' = b
    BY <1>1, <1>2, ClampSound DEF MoveTo, Becomes
<1>4. Text'
    BY <1>1, <1>2, <1>3 DEF Core, Text, MoveTo
<1>5. Saver'
    BY <1>1 DEF Core, Saver, MoveTo, disk
<1> QED
    BY <1>4, <1>5 DEF Core

LEMMA InsertCore == Core /\ Insert => Core'
<1> SUFFICES ASSUME Core, Insert PROVE Core'
    OBVIOUS
<1>1. Text'
    BY DEF Core, Text, Insert
<1>2. Saver'
    BY DEF Core, Saver, Insert, disk
<1> QED
    BY <1>1, <1>2 DEF Core

\* Questions and prompts leave the text alone, or end the session.
LEMMA AskingCore ==
    Core /\ (Save \/ Exit \/ AnswerYes \/ AnswerNo \/ AskAgain \/ Cancel
                \/ NameGiven \/ NameRefused) => Core'
<1>1. Core /\ (Save \/ AnswerYes) => Core'
    BY DEF Core, Text, Saver, Save, AnswerYes, BeginSave, disk
<1>2. Core /\ Exit => Core'
    <2> SUFFICES ASSUME Core, Exit PROVE Core'
        OBVIOUS
    <2>1. Saver'
        BY DEF Core, Saver, Exit, Gone, disk
    <2>2. CASE Gone
        BY <2>1, <2>2, GoneText DEF Core
    <2>3. CASE ~ Gone
        BY <2>1, <2>3 DEF Core, Text, Exit
    <2> QED
        BY <2>2, <2>3
<1>3. Core /\ AnswerNo => Core'
    BY GoneText DEF Core, Saver, AnswerNo, Gone, disk
<1>4. Core /\ (Cancel \/ NameGiven \/ NameRefused) => Core'
    BY DEF Core, Text, Saver, Cancel, NameGiven, NameRefused, disk, text
<1>5. Core /\ AskAgain => Core'
    BY DEF Core, Text, Saver, AskAgain, vars
<1> QED
    BY <1>1, <1>2, <1>3, <1>4, <1>5

LEMMA PrefixLines ==
    ASSUME NEW L \in Seq(Line), NEW n \in Int, n <= Len(L)
    PROVE  File(SubSeq(L, 1, n)) \in [exists : BOOLEAN, lines : Seq(Line)]
    BY Piece DEF File

LEMMA NoLines == File(<<>>) \in [exists : BOOLEAN, lines : Seq(Line)]
    BY EmptySeq DEF File

LEMMA SaveStepCore == Core /\ SaveStep => Core'
<1> SUFFICES ASSUME Core, SaveStep PROVE Core'
    OBVIOUS
<1>1. CASE BackupSkipped \/ BackupFails \/ OpenFails \/ WriteFails
    <2>1. Text'
        BY <1>1 DEF Core, Text, BackupSkipped, BackupFails, OpenFails, WriteFails,
                    saving, text
    <2>2. /\ pc' \in {"trunc", ret} /\ backed' \in BOOLEAN
          /\ faults' \in {faults, faults + 1}
          /\ UNCHANGED <<named, ret, eof, file, backup>>
        BY <1>1 DEF Core, Saver, BackupSkipped, BackupFails, OpenFails, WriteFails,
                    saving, disk
    <2>3. Saver'
        BY <2>2 DEF Core, Saver
    <2> QED
        BY <2>1, <2>3 DEF Core
<1>2. CASE BackupOpen \/ Truncate
    <2>1. Text'
        BY <1>2 DEF Core, Text, BackupOpen, Truncate, saving, text
    <2>2. Saver'
        BY <1>2, NoLines DEF Core, Saver, BackupOpen, Truncate, saving
    <2> QED
        BY <2>1, <2>2 DEF Core
<1>3. CASE BackupWrite
    <2>1. PICK n \in Len(backup.lines) + 1 .. Len(file.lines) :
              /\ backup' = File(SubSeq(file.lines, 1, n))
              /\ pc' \in {"trunc", "copy"}
              /\ backed' \in BOOLEAN
        BY <1>3 DEF BackupWrite
    <2>2. file.lines \in Seq(Line) /\ backup.lines \in Seq(Line)
        BY DEF Core, Saver
    <2>3. n \in Int /\ n <= Len(file.lines)
        BY <2>2, LenProperties
    <2>4. backup' \in [exists : BOOLEAN, lines : Seq(Line)]
        BY <2>1, <2>2, <2>3, PrefixLines
    <2>5. Text'
        BY <1>3 DEF Core, Text, BackupWrite, saving, text
    <2>6. Saver'
        BY <1>3, <2>1, <2>4 DEF Core, Saver, BackupWrite, saving
    <2> QED
        BY <2>5, <2>6 DEF Core
<1>4. CASE WriteLines
    <2>1. PICK n \in Len(file.lines) + 1 .. Len(buf.L) : file' = File(SubSeq(buf.L, 1, n))
        BY <1>4 DEF WriteLines
    <2>2. file.lines \in Seq(Line) /\ buf.L \in Seq(Line)
        BY Pieces DEF Core, Saver, Text
    <2>3. n \in Int /\ n <= Len(buf.L)
        BY <2>2, LenProperties
    <2>4. file' \in [exists : BOOLEAN, lines : Seq(Line)]
        BY <2>1, <2>2, <2>3, PrefixLines
    <2>5. Text'
        BY <1>4 DEF Core, Text, WriteLines, saving, text
    <2>6. Saver'
        BY <1>4, <2>4 DEF Core, Saver, WriteLines, saving
    <2> QED
        BY <2>5, <2>6 DEF Core
<1>5. CASE SaveDone
    <2>1. CASE Gone
        BY <1>5, <2>1, GoneText DEF Core, Saver, SaveDone, Gone, disk
    <2>2. CASE ~ Gone
        <3>1. Text'
            BY <1>5, <2>2 DEF Core, Text, SaveDone
        <3>2. Saver'
            BY <1>5, <2>2 DEF Core, Saver, SaveDone, disk
        <3> QED
            BY <3>1, <3>2 DEF Core
    <2> QED
        BY <2>1, <2>2
<1> QED
    BY <1>1, <1>2, <1>3, <1>4, <1>5 DEF SaveStep

LEMMA StartCore == ASSUME Core, NEW lines \in Seq(Line), StartWith(lines),
                          named' \in BOOLEAN, faults' \in Nat
                   PROVE  Core'
<1>1. Sound(Fresh(lines)) /\ <<>> \in Seq(Line)
    BY FreshSound, EmptySeq
<1>2. Text'
    BY <1>1, EmptyStack DEF Text, StartWith
<1>3. Saver'
    BY DEF Core, Saver, StartWith, disk
<1> QED
    BY <1>2, <1>3 DEF Core

LEMMA SessionCore ==
    Core /\ (Open \/ OpenUnread \/ Hangup \/ EndOfInput \/ Crash) => Core'
<1> SUFFICES ASSUME Core, Open \/ OpenUnread \/ Hangup \/ EndOfInput \/ Crash PROVE Core'
    OBVIOUS
<1>1. file.lines \in Seq(Line) /\ <<>> \in Seq(Line) /\ faults \in Nat /\ faults + 1 \in Nat
    BY EmptySeq DEF Core, Saver
<1>2. CASE Open
    <2>1. named' \in BOOLEAN /\ faults' \in Nat
        BY <1>1, <1>2 DEF Open
    <2>2. StartWith(file.lines) \/ StartWith(<<>>)
        BY <1>2 DEF Open
    <2> QED
        BY <1>1, <2>1, <2>2, StartCore
<1>3. CASE OpenUnread
    <2>1. named' \in BOOLEAN /\ faults' \in Nat /\ StartWith(<<>>)
        BY <1>1, <1>3 DEF OpenUnread
    <2> QED
        BY <1>1, <2>1, StartCore
<1>4. CASE Hangup
    <2>1. Text'
        BY <1>4 DEF Core, Text, Hangup, text
    <2>2. Saver'
        BY <1>4 DEF Core, Saver, Hangup, disk
    <2> QED
        BY <2>1, <2>2 DEF Core
<1>5. CASE EndOfInput \/ Crash
    <2>1. Text'
        BY <1>5, GoneText DEF EndOfInput, Crash
    <2>2. Saver'
        BY <1>1, <1>5 DEF Core, Saver, EndOfInput, Crash, Gone, disk
    <2> QED
        BY <2>1, <2>2 DEF Core
<1> QED
    BY <1>2, <1>3, <1>4, <1>5

LEMMA InitCore == Init => Core
<1> SUFFICES ASSUME Init PROVE Core
    OBVIOUS
<1>1. Sound(Fresh(<<>>)) /\ <<>> \in Seq(Line)
    BY FreshSound, EmptySeq
<1>2. file \in [exists : BOOLEAN, lines : Seq(Line)]
    BY CedAssumption DEF Init
<1>3. backup \in [exists : BOOLEAN, lines : Seq(Line)]
    BY <1>1 DEF Init, NoFile
<1> QED
    BY <1>1, <1>2, <1>3, EmptyStack DEF Init, Core, Text, Saver

LEMMA CoreStep == Core /\ [Next]_vars => Core'
<1> SUFFICES ASSUME Core, [Next]_vars PROVE Core'
    OBVIOUS
<1>1. CASE TypeChar \/ Enter \/ Backspace \/ Delete \/ Cut \/ Paste \/ InsertFile \/ undo
    BY <1>1, TypeCharCore, EnterCore, BackspaceCore, DeleteCore, CutCore, PasteCore,
       InsertFileCore, UndoCore
<1>2. CASE Move \/ Jump \/ Insert
    BY <1>2, MoveCore, InsertCore
<1>3. CASE Save \/ Exit \/ AnswerYes \/ AnswerNo \/ AskAgain \/ Cancel
              \/ NameGiven \/ NameRefused
    BY <1>3, AskingCore
<1>4. CASE SaveStep
    BY <1>4, SaveStepCore
<1>5. CASE Open \/ OpenUnread \/ Hangup \/ EndOfInput \/ Crash
    BY <1>5, SessionCore
<1>6. CASE UNCHANGED vars
    BY <1>6 DEF Core, Text, Saver, vars
<1> QED
    BY <1>1, <1>2, <1>3, <1>4, <1>5, <1>6 DEF Next

LEMMA CoreHolds == Spec => []Core
    BY InitCore, CoreStep, PTL DEF Spec

-----------------------------------------------------------------------------
\* Every variable keeps its type, for texts and stacks of every size.
THEOREM TypeCorrect == Spec => []TypeOK
<1>1. Core => ustack \in Seq([buf : Buffer, dirty : BOOLEAN])
    <2> SUFFICES ASSUME Core PROVE ustack \in Seq(Snapshots)
        BY DEF Snapshots
    <2>1. SoundSnapshots \subseteq Snapshots /\ ustack \in Seq(SoundSnapshots)
        BY DEF SoundSnapshots, Core, Text, StackSound
    <2> QED
        BY <2>1, SeqMonotonic
<1>2. Core => TypeOK
    BY <1>1 DEF Core, Saver, Text, Sound, TypeOK
<1> QED
    BY <1>2, CoreHolds, PTL

\* The cursor is in the text in every state, in every snapshot, and after every
\* key by the key's own doing: the clamp of the loop is never needed.
THEOREM CursorInsideHolds == Spec => []CursorInside
<1>1. ASSUME Core PROVE \A b \in KeyResults : Inside(b)
    <2>1. Sound(buf) /\ cbuf \in Seq(Line)
        BY <1>1 DEF Core, Text
    <2>2. \A b \in Moves \cup Jumps : Inside(b)
        BY <2>1, MovesSound DEF Sound
    <2>3. \A c \in Char, o \in BOOLEAN : Inside(type_char(buf, c, o))
        BY <2>1, TypeCharSound DEF Sound
    <2>4. Inside(do_enter(buf)) /\ Inside(cut_line(buf))
        BY <2>1, EnterSound, CutSound DEF Sound
    <2>5. \A t \in InsertTexts \cup ({cbuf} \ {<<>>}) : Inside(insert_text(buf, t))
        <3>1. \A t \in InsertTexts \cup ({cbuf} \ {<<>>}) : t \in Seq(Line) /\ t # <<>>
            BY <2>1, CedAssumption
        <3> QED
            BY <2>1, <3>1, InsertSound DEF Sound
    <2>6. CanBackspace(buf) => Inside(do_backspace(buf))
        BY <2>1, BackspaceSound DEF Sound
    <2>7. CanDelete(buf) => Inside(do_delete(buf))
        BY <2>1, DeleteSound DEF Sound
    <2> QED
        BY <2>2, <2>3, <2>4, <2>5, <2>6, <2>7 DEF KeyResults
<1>2. Core => CursorInside
    <2> SUFFICES ASSUME Core PROVE CursorInside
        OBVIOUS
    <2>1. ustack \in Seq(SoundSnapshots) /\ Inside(buf)
        BY DEF Core, Text, Sound, StackSound
    <2>2. \A i \in DOMAIN ustack : ustack[i] \in SoundSnapshots
        BY <2>1, LenProperties, ElementOfSeq
    <2>3. Inside(buf) /\ \A i \in DOMAIN ustack : Inside(ustack[i].buf)
        BY <2>1, <2>2 DEF SoundSnapshots
    <2> QED
        BY <1>1, <2>3 DEF CursorInside
<1> QED
    BY <1>2, CoreHolds, PTL

-----------------------------------------------------------------------------
(* Sums: Total by induction, which here means that a set of naturals with  *)
(* 0 and with every successor of its members leaves no least number out.   *)

LEMMA SetInduction ==
    ASSUME NEW S, 0 \in S, \A n \in Nat : n \in S => n + 1 \in S
    PROVE  \A n \in Nat : n \in S
<1> DEFINE Out == Nat \ S
<1>1. ASSUME Out # {} PROVE FALSE
    <2>1. PICK k \in Out : \A y \in Out : k <= y
        BY <1>1, FirstIsLeast
    <2>2. k # 0 /\ k - 1 \in Nat /\ (k - 1) + 1 = k
        BY <2>1
    <2>3. k - 1 \in S
        BY <2>1, <2>2
    <2> QED
        BY <2>1, <2>2, <2>3
<1> QED
    BY <1>1

\* The equation of Upto in Total.
Sums(f, w, N) == f = [n \in 0 .. N |-> IF n = 0 THEN 0 ELSE f[n - 1] + w[n]]

LEMMA SumsExist == ASSUME NEW w PROVE \A N \in Nat : \E f : Sums(f, w, N)
<1> DEFINE S == {N \in Nat : \E f : Sums(f, w, N)}
<1>1. 0 \in S
    <2> DEFINE f == [n \in 0 .. 0 |-> 0]
    <2>1. f = [n \in 0 .. 0 |-> IF n = 0 THEN 0 ELSE f[n - 1] + w[n]]
        OBVIOUS
    <2> QED
        BY <2>1 DEF Sums
<1>2. ASSUME NEW N \in Nat, N \in S PROVE N + 1 \in S
    <2>1. PICK f : Sums(f, w, N)
        BY <1>2
    <2> DEFINE g == [n \in 0 .. N + 1 |-> IF n = N + 1 THEN f[N] + w[N + 1] ELSE f[n]]
               h == [n \in 0 .. N + 1 |-> IF n = 0 THEN 0 ELSE g[n - 1] + w[n]]
    <2>2. ASSUME NEW n \in 0 .. N + 1 PROVE g[n] = h[n]
        <3>1. CASE n = N + 1
            <4>1. n # 0 /\ n - 1 = N /\ N \in 0 .. N + 1 /\ N # N + 1
                BY <3>1
            <4>2. g[n - 1] = f[N]
                BY <4>1
            <4> QED
                BY <3>1, <4>1, <4>2
        <3>2. CASE n = 0
            <4>1. f[0] = 0 /\ n # N + 1
                BY <2>1, <3>2 DEF Sums
            <4> QED
                BY <3>2, <4>1
        <3>3. CASE n # 0 /\ n # N + 1
            <4>1. n \in 0 .. N /\ n - 1 \in 0 .. N + 1 /\ n - 1 # N + 1
                BY <3>3
            <4>2. f[n] = f[n - 1] + w[n]
                BY <2>1, <3>3, <4>1 DEF Sums
            <4> QED
                BY <3>3, <4>1, <4>2
        <3> QED
            BY <3>1, <3>2, <3>3
    <2>3. g = h
        BY <2>2
    <2>4. Sums(g, w, N + 1)
        BY <2>3 DEF Sums
    <2> QED
        BY <2>4
<1> HIDE DEF S
<1>3. \A N \in Nat : N \in S
    BY <1>1, <1>2, SetInduction
<1> QED
    BY <1>3 DEF S

\* The sums up to N are those up to M as far as both go.
LEMMA SumsAgree ==
    ASSUME NEW w, NEW M \in Nat, NEW N \in Nat, M <= N,
           NEW f, Sums(f, w, M), NEW g, Sums(g, w, N)
    PROVE  f[M] = g[M]
<1> DEFINE S == {n \in Nat : n <= M => f[n] = g[n]}
<1>1. 0 \in S
    BY DEF Sums
<1>2. ASSUME NEW n \in Nat, n \in S PROVE n + 1 \in S
    <2>1. CASE n + 1 <= M
        <3>1. n + 1 \in 0 .. M /\ n + 1 \in 0 .. N /\ n + 1 # 0 /\ (n + 1) - 1 = n /\ n <= M
            BY <2>1
        <3>2. f[n + 1] = f[n] + w[n + 1]
            BY <3>1 DEF Sums
        <3>3. g[n + 1] = g[n] + w[n + 1]
            BY <3>1 DEF Sums
        <3> QED
            BY <1>2, <3>1, <3>2, <3>3
    <2> QED
        BY <2>1
<1> HIDE DEF S
<1>3. M \in S
    BY <1>1, <1>2, SetInduction
<1> QED
    BY <1>3 DEF S

LEMMA TotalSums ==
    ASSUME NEW w, NEW N \in Nat
    PROVE  \E f : Sums(f, w, N) /\ Total(w, N) = f[N]
<1> DEFINE f == CHOOSE f : Sums(f, w, N)
<1>1. Sums(f, w, N)
    BY SumsExist
<1>2. Total(w, N) = f[N]
    BY DEF Total, Sums
<1> QED
    BY <1>1, <1>2

LEMMA TotalStep ==
    ASSUME NEW w, NEW N \in Nat
    PROVE  Total(w, 0) = 0 /\ Total(w, N + 1) = Total(w, N) + w[N + 1]
<1>1. PICK f : Sums(f, w, N) /\ Total(w, N) = f[N]
    BY TotalSums
<1>2. PICK g : Sums(g, w, N + 1) /\ Total(w, N + 1) = g[N + 1]
    BY TotalSums
<1>3. PICK h : Sums(h, w, 0) /\ Total(w, 0) = h[0]
    BY TotalSums
<1>4. f[N] = g[N]
    BY <1>1, <1>2, SumsAgree
<1>5. N + 1 \in 0 .. N + 1 /\ N + 1 # 0 /\ (N + 1) - 1 = N
    OBVIOUS
<1>6. g[N + 1] = g[N] + w[N + 1]
    BY <1>2, <1>5 DEF Sums
<1>7. h[0] = 0
    BY <1>3 DEF Sums
<1> QED
    BY <1>1, <1>2, <1>3, <1>4, <1>6, <1>7

LEMMA TotalNat ==
    ASSUME NEW w, NEW N \in Nat, \A n \in 1 .. N : w[n] \in Nat
    PROVE  Total(w, N) \in Nat
<1> DEFINE S == {n \in Nat : n <= N => Total(w, n) \in Nat}
<1>1. 0 \in S
    BY TotalStep
<1>2. ASSUME NEW n \in Nat, n \in S PROVE n + 1 \in S
    <2>1. CASE n + 1 <= N
        <3>1. Total(w, n) \in Nat /\ w[n + 1] \in Nat
            BY <1>2, <2>1
        <3>2. Total(w, n + 1) = Total(w, n) + w[n + 1]
            BY TotalStep
        <3> QED
            BY <3>1, <3>2
    <2> QED
        BY <2>1
<1> HIDE DEF S
<1>3. N \in S
    BY <1>1, <1>2, SetInduction
<1> QED
    BY <1>3 DEF S

LEMMA TotalSame ==
    ASSUME NEW w, NEW v, NEW N \in Nat, \A n \in 1 .. N : w[n] = v[n]
    PROVE  Total(w, N) = Total(v, N)
<1> DEFINE S == {n \in Nat : n <= N => Total(w, n) = Total(v, n)}
<1>1. 0 \in S
    BY TotalStep
<1>2. ASSUME NEW n \in Nat, n \in S PROVE n + 1 \in S
    <2>1. CASE n + 1 <= N
        <3>1. Total(w, n) = Total(v, n) /\ w[n + 1] = v[n + 1]
            BY <1>2, <2>1
        <3>2. Total(w, n + 1) = Total(w, n) + w[n + 1]
            BY TotalStep
        <3>3. Total(v, n + 1) = Total(v, n) + v[n + 1]
            BY TotalStep
        <3> QED
            BY <3>1, <3>2, <3>3
    <2> QED
        BY <2>1
<1> HIDE DEF S
<1>3. N \in S
    BY <1>1, <1>2, SetInduction
<1> QED
    BY <1>3 DEF S

-----------------------------------------------------------------------------
(* The undo stack keeps to its caps                                        *)

LEMMA BytesNat == ASSUME NEW L \in Seq(Line) PROVE Bytes(L) \in Nat
<1> DEFINE w == [i \in 1 .. Len(L) |-> 1 + Len(L[i])]
<1>1. Len(L) \in Nat
    BY LenProperties
<1>2. \A i \in 1 .. Len(L) : Len(L[i]) \in Nat
    BY ElementOfSeq, LenProperties DEF Line
<1>3. \A i \in 1 .. Len(L) : w[i] \in Nat
    BY <1>2
<1> HIDE DEF w
<1>4. Total(w, Len(L)) \in Nat
    BY <1>1, <1>3, TotalNat
<1> QED
    BY <1>4 DEF Bytes, w

\* A stack weighs what its last snapshot and the rest weigh.
LEMMA WeightSplit ==
    ASSUME NEW st \in Seq(SoundSnapshots), NEW t \in Seq(SoundSnapshots),
           Len(t) = Len(st) + 1, \A i \in 1 .. Len(st) : t[i] = st[i]
    PROVE  /\ Weight(t) = Weight(st) + Bytes(t[Len(t)].buf.L)
           /\ Weight(st) \in Nat
           /\ Bytes(t[Len(t)].buf.L) \in Nat
<1> DEFINE N == Len(st)
           w == [i \in 1 .. N |-> Bytes(st[i].buf.L)]
           v == [i \in 1 .. N + 1 |-> Bytes(t[i].buf.L)]
<1>1. N \in Nat /\ N + 1 \in 1 .. N + 1
    BY LenProperties
<1>2. \A i \in 1 .. N + 1 : t[i].buf.L \in Seq(Line)
    <2>1. \A i \in 1 .. N + 1 : t[i] \in SoundSnapshots
        BY ElementOfSeq
    <2> QED
        BY <2>1, BufferFields DEF SoundSnapshots, Snapshots
<1>3. \A i \in 1 .. N + 1 : v[i] \in Nat /\ v[i] = Bytes(t[i].buf.L)
    BY <1>2, BytesNat
<1>4. \A i \in 1 .. N : w[i] = v[i]
    BY <1>1
<1>5. Weight(st) = Total(w, N) /\ Weight(t) = Total(v, N + 1)
    BY DEF Weight
<1> HIDE DEF w, v
<1>6. Total(w, N) = Total(v, N) /\ Total(v, N + 1) = Total(v, N) + v[N + 1]
    BY <1>1, <1>4, TotalSame, TotalStep
<1>7. Total(v, N) \in Nat
    BY <1>1, <1>3, TotalNat
<1> QED
    BY <1>1, <1>3, <1>5, <1>6, <1>7

LEMMA PushBounded ==
    ASSUME Text, UndoBounded, NEW kind, NEW run, push_undo(kind, run)
    PROVE  UndoBounded'
<1> DEFINE t == Trimmed(ustack, Snapshot)
<1>1. Snapshot \in SoundSnapshots /\ ustack \in Seq(SoundSnapshots)
    BY DEF Text, StackSound, Snapshot, Snapshots, SoundSnapshots, Sound
<1>2. t \in Seq(SoundSnapshots) /\ Fits(t, Snapshot) /\ Len(t) \in Nat
    BY <1>1, TrimmedFits, TrimmedIn
<1> HIDE DEF t
<1> DEFINE u == Append(t, Snapshot)
<1>3. /\ u \in Seq(SoundSnapshots) /\ Len(u) = Len(t) + 1
      /\ \A i \in 1 .. Len(t) : u[i] = t[i]
      /\ u[Len(t) + 1] = Snapshot
    BY <1>1, <1>2, AppendProperties
<1> HIDE DEF u
<1>4. /\ Weight(u) = Weight(t) + Bytes(Snapshot.buf.L)
      /\ Weight(t) \in Nat /\ Bytes(Snapshot.buf.L) \in Nat
    BY <1>2, <1>3, WeightSplit
<1>5. UndoMax \in Nat \ {0} /\ UndoBudget \in Nat
    BY CedAssumption
<1>6. CASE t = <<>>
    <2>1. Len(t) = 0 /\ Len(u) = 1
        BY <1>3, <1>6, EmptySeq
    <2>2. ustack' \in {ustack, t, u}
        BY DEF push_undo, t, u
    <2>3. CASE ustack' = ustack
        BY <2>3 DEF UndoBounded
    <2>4. CASE ustack' \in {t, u}
        <3>1. Len(ustack') \in {0, 1}
            BY <2>1, <2>4
        <3> QED
            BY <1>5, <3>1 DEF UndoBounded
    <2> QED
        BY <2>2, <2>3, <2>4
<1>7. CASE t # <<>>
    <2>1. Len(t) < UndoMax /\ Weight(t) + Bytes(Snapshot.buf.L) <= UndoBudget
        BY <1>2, <1>7 DEF Fits
    <2>2. Len(t) <= UndoMax /\ Len(u) <= UndoMax
        BY <1>2, <1>3, <1>5, <2>1
    <2>3. Weight(t) <= UndoBudget /\ Weight(u) <= UndoBudget
        BY <1>4, <1>5, <2>1
    <2>4. ustack' \in {ustack, t, u}
        BY DEF push_undo, t, u
    <2> QED
        BY <2>2, <2>3, <2>4 DEF UndoBounded
<1> QED
    BY <1>6, <1>7

LEMMA PopBounded ==
    ASSUME Text, UndoBounded, ustack # <<>>, ustack' = SubSeq(ustack, 1, Len(ustack) - 1)
    PROVE  UndoBounded'
<1> DEFINE t == SubSeq(ustack, 1, Len(ustack) - 1)
           n == Len(ustack)
<1>1. ustack \in Seq(SoundSnapshots)
    BY DEF Text, StackSound
<1>2. /\ t \in Seq(SoundSnapshots) /\ Len(t) = n - 1 /\ n \in Nat \ {0}
      /\ \A i \in 1 .. n - 1 : t[i] = ustack[i]
    BY <1>1, PoppedIn
<1>3. ustack' = t
    OBVIOUS
<1> HIDE DEF t
<1>4. n = Len(t) + 1 /\ \A i \in 1 .. Len(t) : ustack[i] = t[i]
    BY <1>2
<1>5. /\ Weight(ustack) = Weight(t) + Bytes(ustack[n].buf.L)
      /\ Weight(t) \in Nat /\ Bytes(ustack[n].buf.L) \in Nat
    BY <1>1, <1>2, <1>4, WeightSplit
<1>6. UndoMax \in Nat /\ UndoBudget \in Nat
    BY CedAssumption
<1>7. Len(t) <= UndoMax
    BY <1>2, <1>6 DEF UndoBounded
<1>8. ASSUME Len(t) > 1 PROVE Weight(t) <= UndoBudget
    <2>1. n > 1
        BY <1>2, <1>8
    <2> QED
        BY <1>5, <1>6, <2>1 DEF UndoBounded
<1> QED
    BY <1>3, <1>7, <1>8 DEF UndoBounded

LEMMA BoundedStep == Core /\ UndoBounded /\ [Next]_vars => UndoBounded'
<1> SUFFICES ASSUME Core, UndoBounded, [Next]_vars PROVE UndoBounded'
    OBVIOUS
<1> USE DEF Core
<1>1. CASE TypeChar \/ Enter \/ Backspace \/ Delete \/ Cut \/ Paste \/ InsertFile
    <2>1. \E kind, run : push_undo(kind, run)
        BY <1>1 DEF TypeChar, Enter, Backspace, Delete, Cut, Paste, InsertFile, EditTo
    <2> QED
        BY <2>1, PushBounded
<1>2. CASE undo
    BY <1>2, PopBounded DEF undo
<1>3. CASE ustack' = ustack
    BY <1>3 DEF UndoBounded
<1>4. CASE ustack' = <<>>
    BY <1>4, CedAssumption, EmptySeq DEF UndoBounded
<1>5. CASE Move \/ Jump \/ Insert \/ Save \/ AnswerYes \/ Cancel \/ NameGiven \/ NameRefused
    BY <1>3, <1>5 DEF Move, Jump, MoveTo, Insert, Save, AnswerYes, BeginSave, Cancel,
                      NameGiven, NameRefused, text
<1>6. CASE Exit \/ AnswerNo \/ SaveDone \/ EndOfInput \/ Crash \/ Open \/ OpenUnread
    BY <1>3, <1>4, <1>6 DEF Exit, AnswerNo, SaveDone, EndOfInput, Crash, Open,
                            OpenUnread, StartWith, Gone
<1>7. CASE BackupSkipped \/ BackupOpen \/ BackupWrite \/ BackupFails \/ Truncate
              \/ OpenFails \/ WriteLines \/ WriteFails \/ Hangup
    BY <1>3, <1>7 DEF BackupSkipped, BackupOpen, BackupWrite, BackupFails, Truncate,
                      OpenFails, WriteLines, WriteFails, Hangup, saving, text
<1>8. CASE AskAgain \/ UNCHANGED vars
    BY <1>3, <1>8 DEF AskAgain, vars
<1> QED
    BY <1>1, <1>2, <1>5, <1>6, <1>7, <1>8 DEF Next, SaveStep

\* The stack has at most UNDO_MAX snapshots, and more than one of them only
\* within the byte budget, whatever is typed, undone and dropped.
THEOREM UndoBoundedHolds == Spec => []UndoBounded
<1>1. Init => UndoBounded
    BY CedAssumption, EmptySeq DEF Init, UndoBounded
<1> QED
    BY <1>1, BoundedStep, CoreHolds, PTL DEF Spec

-----------------------------------------------------------------------------
(* Runs of edits                                                           *)

\* Two texts with the same first n lines and the same last m.
SameEnds(L, M, n, m) ==
    /\ n <= Len(L) /\ n <= Len(M) /\ m <= Len(L) /\ m <= Len(M)
    /\ \A i \in 1 .. n : L[i] = M[i]
    /\ \A j \in 1 .. m : L[Len(L) - m + j] = M[Len(M) - m + j]

LEMMA SameEndsChain ==
    ASSUME NEW L, NEW M, NEW N, NEW n, NEW m, SameEnds(L, M, n, m), SameEnds(M, N, n, m)
    PROVE  SameEnds(L, N, n, m)
<1>1. \A i \in 1 .. n : L[i] = M[i] /\ M[i] = N[i]
    BY DEF SameEnds
<1>2. \A j \in 1 .. m : /\ L[Len(L) - m + j] = M[Len(M) - m + j]
                        /\ M[Len(M) - m + j] = N[Len(N) - m + j]
    BY DEF SameEnds
<1>3. n <= Len(L) /\ n <= Len(N) /\ m <= Len(L) /\ m <= Len(N)
    BY DEF SameEnds
<1>4. \A j \in 1 .. m : L[Len(L) - m + j] = N[Len(N) - m + j]
    BY <1>2, Zenon
<1> QED
    BY <1>1, <1>3, <1>4 DEF SameEnds

LEMMA FewerLines ==
    ASSUME NEW L \in Seq(Line), NEW M \in Seq(Line), NEW n \in Nat, NEW m \in Nat,
           SameEnds(L, M, n, m), NEW k \in 0 .. n
    PROVE  SameEnds(L, M, k, m) /\ SameEnds(L, M, k, 0)
<1>1. Len(L) \in Nat /\ Len(M) \in Nat
    BY LenProperties
<1> QED
    BY <1>1 DEF SameEnds

LEMMA SuffixLines ==
    \A L \in Seq(Line) : \A m \in Nat :
        m <= Len(L) => /\ Suffix(L, m) \in Seq(Line) /\ Len(Suffix(L, m)) = m
                       /\ \A j \in 1 .. m : Suffix(L, m)[j] = L[Len(L) - m + j]
<1> SUFFICES ASSUME NEW L \in Seq(Line), NEW m \in Nat, m <= Len(L)
             PROVE  /\ Suffix(L, m) \in Seq(Line) /\ Len(Suffix(L, m)) = m
                    /\ \A j \in 1 .. m : Suffix(L, m)[j] = L[Len(L) - m + j]
    OBVIOUS
<1>1. Len(L) \in Nat
    BY LenProperties
<1>2. Len(L) - m + 1 \in Int
    BY <1>1
<1>3. PICK a \in Int : a = Len(L) - m + 1
    BY <1>2
<1>4. PICK l : l = Suffix(L, m)
    OBVIOUS
<1>5. 1 <= a /\ Len(L) <= Len(L) /\ Len(L) - a + 1 = m /\ Len(L) \in Int
      /\ \A j \in 1 .. m : a + j - 1 = Len(L) - m + j
    BY <1>1, <1>3
<1>6. l = SubSeq(L, a, Len(L))
    BY <1>3, <1>4 DEF Suffix
<1>7. /\ l \in Seq(Line) /\ Len(l) = IF a <= Len(L) THEN Len(L) - a + 1 ELSE 0
      /\ \A j \in 1 .. Len(L) - a + 1 : l[j] = L[a + j - 1]
    BY <1>5, <1>6, Piece
<1>8. Len(l) = m
    BY <1>1, <1>3, <1>5, <1>7
<1> QED
    BY <1>4, <1>5, <1>7, <1>8

LEMMA EndsEqual ==
    ASSUME NEW L \in Seq(Line), NEW M \in Seq(Line), NEW n \in Nat, NEW m \in Nat,
           SameEnds(L, M, n, m)
    PROVE  /\ \A k \in Int : k <= n => SubSeq(L, 1, k) = SubSeq(M, 1, k)
           /\ Suffix(L, m) = Suffix(M, m)
<1>1. /\ Len(L) \in Nat /\ Len(M) \in Nat
      /\ n <= Len(L) /\ n <= Len(M) /\ m <= Len(L) /\ m <= Len(M)
      /\ \A i \in 1 .. n : L[i] = M[i]
      /\ \A j \in 1 .. m : L[Len(L) - m + j] = M[Len(M) - m + j]
    BY LenProperties DEF SameEnds
<1>2. ASSUME NEW k \in Int, k <= n PROVE SubSeq(L, 1, k) = SubSeq(M, 1, k)
    <2>1. CASE k < 1
        BY <2>1, SubSeqEmpty
    <2>2. CASE k >= 1
        <3>1. PICK l : l = SubSeq(L, 1, k)
            OBVIOUS
        <3>2. PICK o : o = SubSeq(M, 1, k)
            OBVIOUS
        <3>3. k <= Len(L) /\ k <= Len(M) /\ 1 <= 1 /\ 1 \in Int /\ k - 1 + 1 = k
            BY <1>1, <1>2
        <3>4. l \in Seq(Line) /\ Len(l) = k /\ \A i \in 1 .. k : l[i] = L[1 + i - 1]
            BY <2>2, <3>1, <3>3, Piece
        <3>5. o \in Seq(Line) /\ Len(o) = k /\ \A i \in 1 .. k : o[i] = M[1 + i - 1]
            BY <2>2, <3>2, <3>3, Piece
        <3>6. ASSUME NEW i \in 1 .. k PROVE l[i] = o[i]
            <4>1. 1 + i - 1 = i /\ i \in 1 .. n
                BY <1>2
            <4> QED
                BY <1>1, <3>4, <3>5, <4>1
        <3>7. l = o
            BY <3>4, <3>5, <3>6, SeqEqual
        <3> QED
            BY <3>1, <3>2, <3>7
    <2> QED
        BY <2>1, <2>2
<1>3. Suffix(L, m) = Suffix(M, m)
    <2>1. PICK l : l = Suffix(L, m)
        OBVIOUS
    <2>2. PICK o : o = Suffix(M, m)
        OBVIOUS
    <2>3. l \in Seq(Line) /\ Len(l) = m /\ \A j \in 1 .. m : l[j] = L[Len(L) - m + j]
        BY <1>1, <2>1, SuffixLines, Zenon
    <2>4. o \in Seq(Line) /\ Len(o) = m /\ \A j \in 1 .. m : o[j] = M[Len(M) - m + j]
        BY <1>1, <2>2, SuffixLines, Zenon
    <2>5. l = o
        <3>1. \A j \in 1 .. Len(l) : l[j] = o[j]
            BY <1>1, <2>3, <2>4
        <3> QED
            BY <2>3, <2>4, <3>1, SeqEqual
    <2> QED
        BY <2>1, <2>2, <2>5
<1> QED
    BY <1>2, <1>3

\* One line rewritten.
LEMMA RewrittenEnds ==
    ASSUME NEW L \in Seq(Line), NEW y \in 1 .. Len(L), NEW x \in Line
    PROVE  /\ SameEnds([L EXCEPT ![y] = x], L, y - 1, Len(L) - y)
           /\ Len([L EXCEPT ![y] = x]) = Len(L)
<1>1. PICK M : M = [L EXCEPT ![y] = x]
    OBVIOUS
<1>2. Len(L) \in Nat /\ M \in Seq(Line) /\ Len(M) = Len(L)
    BY <1>1, ExceptSeq, LenProperties
<1>3. \A i \in 1 .. Len(L) : i # y => M[i] = L[i]
    BY <1>1, LenProperties
<1>4. \A i \in 1 .. y - 1 : M[i] = L[i]
    BY <1>2, <1>3
<1>5. ASSUME NEW j \in 1 .. Len(L) - y
      PROVE  M[Len(M) - (Len(L) - y) + j] = L[Len(L) - (Len(L) - y) + j]
    <2>1. Len(L) - (Len(L) - y) + j \in 1 .. Len(L) /\ Len(L) - (Len(L) - y) + j # y
        BY <1>2
    <2> QED
        BY <1>2, <1>3, <2>1
<1>6. y - 1 <= Len(L) /\ Len(L) - y <= Len(L)
    BY <1>2
<1> QED
    BY <1>1, <1>2, <1>4, <1>5, <1>6 DEF SameEnds

\* The lines between line a and line c replaced.
LEMMA ReplacedEnds ==
    ASSUME NEW L \in Seq(Line), NEW a \in Nat, NEW c \in Nat, a < c, c <= Len(L) + 1,
           NEW mid \in Seq(Line), NEW M,
           M = SubSeq(L, 1, a) \o mid \o SubSeq(L, c, Len(L))
    PROVE  M \in Seq(Line) /\ SameEnds(M, L, a, Len(L) + 1 - c)
<1>1. PICK s : s = SubSeq(L, 1, a)
    OBVIOUS
<1>2. PICK u : u = SubSeq(L, c, Len(L))
    OBVIOUS
<1>0. Len(L) \in Nat
    BY LenProperties
<1>3. PICK m \in Nat : m = Len(L) + 1 - c /\ Len(L) \in Nat
    <2>1. Len(L) + 1 - c \in Nat
        BY <1>0
    <2> QED
        BY <1>0, <2>1
<1>4. s \in Seq(Line) /\ Len(s) = a /\ \A i \in 1 .. a : s[i] = L[i]
    <2>1. 1 \in Int /\ 1 <= 1 /\ a <= Len(L) /\ a - 1 + 1 = a
        BY <1>3
    <2>2. /\ s \in Seq(Line) /\ Len(s) = IF 1 <= a THEN a - 1 + 1 ELSE 0
          /\ \A i \in 1 .. a - 1 + 1 : s[i] = L[1 + i - 1]
        BY <1>1, <2>1, Piece
    <2> QED
        BY <2>1, <2>2
<1>5. u \in Seq(Line) /\ Len(u) = m /\ \A j \in 1 .. m : u[j] = L[Len(L) - m + j]
    <2>1. 1 <= c /\ Len(L) <= Len(L) /\ Len(L) \in Int /\ Len(L) - c + 1 = m
          /\ \A j \in 1 .. m : c + j - 1 = Len(L) - m + j
        BY <1>3
    <2>2. /\ u \in Seq(Line) /\ Len(u) = IF c <= Len(L) THEN Len(L) - c + 1 ELSE 0
          /\ \A j \in 1 .. Len(L) - c + 1 : u[j] = L[c + j - 1]
        BY <1>2, <2>1, Piece
    <2>3. Len(u) = m
        BY <1>3, <2>1, <2>2
    <2> QED
        BY <2>1, <2>2, <2>3
<1>6. Row3(Line, M, s, mid, u)
    BY <1>1, <1>2, <1>4, <1>5, ThreeInARow
<1>7. /\ M \in Seq(Line) /\ Len(M) = a + Len(mid) + m /\ Len(mid) \in Nat
      /\ \A i \in 1 .. a : M[i] = s[i]
      /\ \A j \in 1 .. m : M[a + Len(mid) + j] = u[j]
    BY <1>4, <1>5, <1>6, LenProperties DEF Row3
<1>8. /\ a <= Len(L) /\ a <= Len(M) /\ m <= Len(L) /\ m <= Len(M)
      /\ Len(M) - m = a + Len(mid)
    <2>1. a <= Len(L) /\ m <= Len(L)
        BY <1>3
    <2>2. a <= Len(M) /\ m <= Len(M) /\ Len(M) - m = a + Len(mid)
        <3>1. PICK k \in Nat : k = Len(mid)
            BY <1>7
        <3>2. PICK p \in Nat : p = Len(M)
            BY <1>7, LenProperties
        <3>3. p = a + k + m
            BY <1>7, <3>1, <3>2
        <3>4. a <= p /\ m <= p /\ p - m = a + k
            BY <3>1, <3>3
        <3> QED
            BY <3>1, <3>2, <3>4
    <2> QED
        BY <2>1, <2>2
<1>9. SameEnds(M, L, a, m)
    BY <1>4, <1>5, <1>7, <1>8 DEF SameEnds
<1> QED
    BY <1>3, <1>7, <1>9

-----------------------------------------------------------------------------

\* What edits of one kind, begun at the cursor of t, have left of it in b.
RunKeeps(kind, t, b) ==
    /\ SameEnds(b.L, t.L, IF kind = "backspace" /\ t.cy > 1 THEN t.cy - 2 ELSE t.cy - 1,
                          IF kind = "delete" THEN 0 ELSE Len(t.L) - t.cy)
    /\ kind = "type" => Len(b.L) = Len(t.L)
    /\ kind = "backspace" /\ b.cy = t.cy => Len(b.L) = Len(t.L)
    /\ kind = "enter" => b.cy # t.cy

\* While the cursor is where the run began, the run goes on.
LEMMA RunGoesOn ==
    ASSUME NEW t, NEW b, NEW c, Sound(t), b.cy = t.cy,
           NEW kind \in {"type", "enter", "backspace", "delete"},
           RunKeeps(kind, t, b), RunKeeps(kind, b, c)
    PROVE  RunKeeps(kind, t, c)
<1>1. kind # "enter"
    BY DEF RunKeeps
<1>2. kind # "delete" => Len(b.L) = Len(t.L)
    BY <1>1 DEF RunKeeps
<1> DEFINE n == IF kind = "backspace" /\ t.cy > 1 THEN t.cy - 2 ELSE t.cy - 1
           m == IF kind = "delete" THEN 0 ELSE Len(t.L) - t.cy
<1>3. SameEnds(b.L, t.L, n, m)
    BY DEF RunKeeps
<1>4. SameEnds(c.L, b.L, n, m)
    BY <1>2 DEF RunKeeps
<1> HIDE DEF n, m
<1>5. SameEnds(c.L, t.L, n, m)
    BY <1>3, <1>4, SameEndsChain
<1>6. /\ kind = "type" => Len(c.L) = Len(t.L)
      /\ kind = "backspace" /\ c.cy = t.cy => Len(c.L) = Len(t.L)
    BY <1>2 DEF RunKeeps
<1> QED
    BY <1>1, <1>5, <1>6 DEF RunKeeps, n, m

\* One line rewritten at the cursor.
LEMMA RewriteKeeps ==
    ASSUME NEW b, Sound(b), NEW l \in Line, NEW c, c.L = [b.L EXCEPT ![b.cy] = l],
           NEW kind \in {"type", "backspace", "delete"}
    PROVE  RunKeeps(kind, b, c)
<1>1. b.L \in Seq(Line) /\ Len(b.L) \in Nat /\ b.cy \in 1 .. Len(b.L)
    BY Pieces
<1>2. SameEnds(c.L, b.L, b.cy - 1, Len(b.L) - b.cy) /\ Len(c.L) = Len(b.L)
    BY <1>1, RewrittenEnds
<1>3. c.L \in Seq(Line)
    BY <1>1, ExceptSeq
<1>4. b.cy - 1 \in Nat /\ Len(b.L) - b.cy \in Nat
      /\ (b.cy > 1 => b.cy - 2 \in 0 .. b.cy - 1) /\ b.cy - 1 \in 0 .. b.cy - 1
    BY <1>1
<1>5. PICK n \in Nat : n = b.cy - 1
    BY <1>4
<1>6. PICK m \in Nat : m = Len(b.L) - b.cy
    BY <1>4
<1>7. \A k \in 0 .. n : SameEnds(c.L, b.L, k, m) /\ SameEnds(c.L, b.L, k, 0)
    BY <1>1, <1>2, <1>3, <1>5, <1>6, FewerLines
<1> QED
    BY <1>2, <1>4, <1>5, <1>6, <1>7 DEF RunKeeps

\* Lines in place of the current one.
LEMMA SpliceKeeps ==
    ASSUME NEW b, Sound(b), NEW mid \in Seq(Line), NEW c,
           c.L = Above(b) \o mid \o Below(b),
           NEW kind \in {"enter", "cut", "paste", "read"}, kind = "enter" => c.cy # b.cy
    PROVE  RunKeeps(kind, b, c)
<1>1. b.L \in Seq(Line) /\ Len(b.L) \in Nat /\ b.cy \in 1 .. Len(b.L)
    BY Pieces
<1>2. PICK a \in Nat : a = b.cy - 1
    BY <1>1
<1>0. b.cy + 1 \in Nat
    BY <1>1
<1>3. PICK d \in Nat : d = b.cy + 1
    BY <1>0
<1>7. a < d /\ d <= Len(b.L) + 1
    BY <1>1, <1>2, <1>3
<1>4. c.L = SubSeq(b.L, 1, a) \o mid \o SubSeq(b.L, d, Len(b.L))
    BY <1>2, <1>3 DEF Above, Below
<1>5. SameEnds(c.L, b.L, a, Len(b.L) + 1 - d)
    BY <1>1, <1>3, <1>4, <1>7, ReplacedEnds
<1>6. Len(b.L) + 1 - d = Len(b.L) - b.cy
    <2>1. PICK n \in Nat : n = Len(b.L)
        BY <1>1
    <2>2. PICK y \in Nat : y = b.cy
        BY <1>1
    <2>3. d = y + 1
        BY <1>3, <2>2
    <2>4. n + 1 - d = n - y
        BY <2>3
    <2> QED
        BY <2>1, <2>2, <2>4
<1> QED
    BY <1>2, <1>5, <1>6 DEF RunKeeps

LEMMA TypeKeeps ==
    ASSUME NEW b, Sound(b), NEW c \in Char, NEW o \in BOOLEAN
    PROVE  RunKeeps("type", b, type_char(b, c, o))
<1>1. PICK l : l = Left(b) \o <<c>> \o
                     (IF o /\ b.cx < Len(Here(b)) THEN Tail(Right(b)) ELSE Right(b))
    OBVIOUS
<1>2. type_char(b, c, o) = At([b EXCEPT !.L[b.cy] = l], b.cy, b.cx + 1)
    BY <1>1 DEF type_char
<1>3. PICK d : d = type_char(b, c, o)
    OBVIOUS
<1>4. b \in Buffer /\ b.L \in Seq(Line) /\ b.cy \in 1 .. Len(b.L)
    BY Pieces DEF Sound
<1>5. d.L = [b.L EXCEPT ![b.cy] = l]
    BY <1>2, <1>3, <1>4 DEF At, Buffer
<1>6. l \in Line
    <2>1. d \in Buffer
        BY <1>3, TypeCharSound DEF Sound
    <2>2. d.L \in Seq(Line) /\ b.cy \in 1 .. Len(d.L) /\ d.L[b.cy] = l
        BY <1>4, <1>5, <2>1, BufferFields, LenProperties
    <2> QED
        BY <2>2, ElementOfSeq
<1> QED
    BY <1>3, <1>5, <1>6, RewriteKeeps

LEMMA EnterKeeps == ASSUME NEW b, Sound(b) PROVE RunKeeps("enter", b, do_enter(b))
<1>1. PICK mid : mid = <<Left(b), Right(b)>>
    OBVIOUS
<1>2. PICK c : c = do_enter(b)
    OBVIOUS
<1>3. b \in Buffer /\ Left(b) \in Line /\ Right(b) \in Line /\ b.cy \in Nat
    BY Pieces, BufferFields DEF Sound
<1>4. mid \in Seq(Line)
    BY <1>1, <1>3
<1>5. c.L = Above(b) \o mid \o Below(b) /\ c.cy = b.cy + 1
    BY <1>1, <1>2, <1>3 DEF do_enter, At, Buffer
<1>6. c.cy # b.cy
    BY <1>3, <1>5
<1> QED
    BY <1>2, <1>4, <1>5, <1>6, SpliceKeeps

\* Line y + 1 joined to line y.
LEMMA JoinedEnds ==
    ASSUME NEW L \in Seq(Line), NEW y \in 1 .. Len(L) - 1
    PROVE  SameEnds(join_lines(L, y), L, y - 1, Len(L) - (y + 1))
<1>1. Len(L) \in Nat /\ y \in 1 .. Len(L) /\ y + 1 \in 1 .. Len(L)
    BY LenProperties
<1>2. PICK l : l = L[y] \o L[y + 1]
    OBVIOUS
<1>3. L[y] \in Seq(Char) /\ L[y + 1] \in Seq(Char)
    BY <1>1, ElementOfSeq DEF Line
<1>4. l \in Line
    BY <1>2, <1>3, ConcatProperties DEF Line
<1>5. PICK mid : mid = <<l>>
    OBVIOUS
<1>6. mid \in Seq(Line)
    BY <1>4, <1>5, Single
<1>0. y - 1 \in Nat /\ y + 2 \in Nat
    BY <1>1
<1>7. PICK a \in Nat : a = y - 1
    BY <1>0
<1>8. PICK d \in Nat : d = y + 2
    BY <1>0
<1>9. PICK M : M = join_lines(L, y)
    OBVIOUS
<1>10. M = SubSeq(L, 1, a) \o mid \o SubSeq(L, d, Len(L))
    BY <1>2, <1>5, <1>7, <1>8, <1>9 DEF join_lines
<1>11. a < d /\ d <= Len(L) + 1 /\ Len(L) + 1 - d = Len(L) - (y + 1)
    BY <1>1, <1>7, <1>8
<1>12. SameEnds(M, L, a, Len(L) + 1 - d)
    BY <1>6, <1>10, <1>11, ReplacedEnds
<1> QED
    BY <1>7, <1>9, <1>11, <1>12

LEMMA BackspaceKeeps ==
    ASSUME NEW b, Sound(b), CanBackspace(b) PROVE RunKeeps("backspace", b, do_backspace(b))
<1>1. /\ b \in Buffer /\ b.L \in Seq(Line) /\ Len(b.L) \in Nat /\ b.cy \in 1 .. Len(b.L)
      /\ b.cx \in Nat /\ b.cx <= Len(Here(b)) /\ Here(b) \in Seq(Char)
      /\ Right(b) \in Seq(Char)
    BY Pieces DEF Sound, Line
<1>2. PICK c : c = do_backspace(b)
    OBVIOUS
<1>3. CASE b.cx > 0
    <2>1. PICK l : l = SubSeq(Here(b), 1, b.cx - 1) \o Right(b)
        OBVIOUS
    <2>2. SubSeq(Here(b), 1, b.cx - 1) \in Seq(Char)
        BY <1>1, <1>3, Piece
    <2>3. l \in Line
        BY <1>1, <2>1, <2>2, ConcatProperties DEF Line
    <2>4. c = At([b EXCEPT !.L[b.cy] = l], b.cy, b.cx - 1)
        BY <1>2, <1>3, <2>1 DEF do_backspace, Here
    <2>5. c.L = [b.L EXCEPT ![b.cy] = l]
        BY <1>1, <2>4 DEF At, Buffer
    <2> QED
        BY <1>2, <2>3, <2>5, RewriteKeeps
<1>4. CASE ~ (b.cx > 0)
    <2>1. b.cy - 1 \in 1 .. Len(b.L) - 1 /\ b.cy > 1
        BY <1>1, <1>4 DEF CanBackspace
    <2>2. PICK y : y = b.cy - 1
        OBVIOUS
    <2>3. y \in 1 .. Len(b.L) - 1
        BY <2>1, <2>2
    <2>4. c = At([b EXCEPT !.L = join_lines(b.L, y)], y, Len(b.L[y]))
        BY <1>2, <1>4, <2>2 DEF do_backspace
    <2>5. c.L = join_lines(b.L, y) /\ c.cy = y
        BY <1>1, <2>4 DEF At, Buffer
    <2>6. SameEnds(c.L, b.L, y - 1, Len(b.L) - (y + 1))
        BY <1>1, <2>3, <2>5, JoinedEnds
    <2>7. y - 1 = b.cy - 2 /\ Len(b.L) - (y + 1) = Len(b.L) - b.cy /\ c.cy # b.cy
        BY <1>1, <2>2, <2>5
    <2> QED
        BY <1>2, <2>1, <2>6, <2>7 DEF RunKeeps
<1> QED
    BY <1>3, <1>4

LEMMA DeleteKeeps ==
    ASSUME NEW b, Sound(b), CanDelete(b) PROVE RunKeeps("delete", b, do_delete(b))
<1>1. /\ b \in Buffer /\ b.L \in Seq(Line) /\ Len(b.L) \in Nat /\ b.cy \in 1 .. Len(b.L)
      /\ b.cx \in Nat /\ b.cx <= Len(Here(b)) /\ Left(b) \in Seq(Char)
      /\ Right(b) \in Seq(Char) /\ Len(Right(b)) = Len(Here(b)) - b.cx
      /\ Len(Here(b)) \in Nat
    BY Pieces DEF Sound, Line
<1>2. PICK c : c = do_delete(b)
    OBVIOUS
<1>3. CASE b.cx < Len(Here(b))
    <2>1. PICK l : l = Left(b) \o Tail(Right(b))
        OBVIOUS
    <2>2. Right(b) # <<>>
        BY <1>1, <1>3, EmptySeq
    <2>3. Tail(Right(b)) \in Seq(Char)
        BY <1>1, <2>2, HeadTailProperties
    <2>4. l \in Line
        BY <1>1, <2>1, <2>3, ConcatProperties DEF Line
    <2>5. c = [b EXCEPT !.L[b.cy] = l]
        BY <1>2, <1>3, <2>1 DEF do_delete
    <2>6. c.L = [b.L EXCEPT ![b.cy] = l]
        BY <1>1, <2>5 DEF Buffer
    <2> QED
        BY <1>2, <2>4, <2>6, RewriteKeeps
<1>4. CASE ~ (b.cx < Len(Here(b)))
    <2>1. b.cy \in 1 .. Len(b.L) - 1
        BY <1>1, <1>4 DEF CanDelete
    <2>2. c = [b EXCEPT !.L = join_lines(b.L, b.cy)]
        BY <1>2, <1>4 DEF do_delete
    <2>3. c.L = join_lines(b.L, b.cy)
        BY <1>1, <2>2 DEF Buffer
    <2>4. PICK M : M = c.L
        OBVIOUS
    <2>5. SameEnds(M, b.L, b.cy - 1, Len(b.L) - (b.cy + 1)) /\ M \in Seq(Line)
        BY <1>1, <2>1, <2>3, <2>4, JoinedEnds, Joined
    <2>6. b.cy - 1 \in Nat /\ Len(b.L) - (b.cy + 1) \in Nat
        BY <1>1, <2>1
    <2>7. PICK n \in Nat : n = b.cy - 1
        BY <2>6
    <2>8. PICK m \in Nat : m = Len(b.L) - (b.cy + 1)
        BY <2>6
    <2>9. n \in 0 .. n
        OBVIOUS
    <2>10. SameEnds(M, b.L, n, m)
        BY <2>5, <2>7, <2>8
    <2>11. SameEnds(M, b.L, n, 0)
        BY <1>1, <2>5, <2>9, <2>10, FewerLines
    <2> QED
        BY <1>2, <2>4, <2>7, <2>11 DEF RunKeeps
<1> QED
    BY <1>3, <1>4

LEMMA CutKeeps == ASSUME NEW b, Sound(b) PROVE RunKeeps("cut", b, cut_line(b))
<1>1. /\ b \in Buffer /\ b.L \in Seq(Line) /\ Len(b.L) \in Nat /\ b.cy \in 1 .. Len(b.L)
      /\ Above(b) \in Seq(Line) /\ Below(b) \in Seq(Line)
    BY Pieces DEF Sound
<1>2. PICK c : c = cut_line(b)
    OBVIOUS
<1>3. CASE Len(b.L) = 1
    <2>1. c.L = <<<<>>>>
        BY <1>1, <1>2, <1>3 DEF cut_line, At, Buffer
    <2>2. b.cy - 1 = 0 /\ Len(b.L) - b.cy = 0 /\ Len(c.L) = 1
        BY <1>1, <1>3, <2>1
    <2> QED
        BY <1>2, <1>3, <2>2 DEF RunKeeps, SameEnds
<1>4. CASE Len(b.L) # 1
    <2>1. c.L = Above(b) \o Below(b)
        BY <1>1, <1>2, <1>4 DEF cut_line, At, Buffer
    <2>2. <<>> \in Seq(Line) /\ Above(b) \o <<>> = Above(b)
        BY <1>1, EmptySeq, ConcatEmptySeq
    <2>3. PICK mid \in Seq(Line) : Above(b) \o mid = Above(b)
        BY <2>2
    <2>4. c.L = Above(b) \o mid \o Below(b)
        BY <2>1, <2>3
    <2> QED
        BY <1>2, <2>3, <2>4, SpliceKeeps
<1> QED
    BY <1>3, <1>4

LEMMA InsertKeeps ==
    ASSUME NEW b, Sound(b), NEW t \in Seq(Line), t # <<>>, NEW kind \in {"paste", "read"}
    PROVE  RunKeeps(kind, b, insert_text(b, t))
<1>1. PICK c : c = insert_text(b, t)
    OBVIOUS
<1>2. b \in Buffer /\ Left(b) \in Seq(Char) /\ Right(b) \in Seq(Char)
    BY Pieces DEF Sound, Line
<1>3. PICK n \in Nat \ {0} : n = Len(t)
    BY EmptySeq
<1>4. t[1] \in Seq(Char) /\ t[n] \in Seq(Char)
    BY <1>3, ElementOfSeq DEF Line
<1>5. \E mid \in Seq(Line) : c.L = Above(b) \o mid \o Below(b)
    <2>1. CASE n = 1
        <3>1. PICK l : l = Left(b) \o t[1] \o Right(b)
            OBVIOUS
        <3>2. l \in Line
            BY <1>2, <1>4, <3>1, ConcatProperties DEF Line
        <3>3. <<l>> \in Seq(Line)
            BY <3>2, Single
        <3>4. c.L = Above(b) \o <<l>> \o Below(b)
            BY <1>1, <1>2, <1>3, <2>1, <3>1 DEF insert_text, At, Buffer
        <3> QED
            BY <3>3, <3>4
    <2>2. CASE n # 1
        <3>1. PICK f : f = Left(b) \o t[1]
            OBVIOUS
        <3>2. PICK l : l = t[n] \o Right(b)
            OBVIOUS
        <3>3. PICK m : m = SubSeq(t, 2, n - 1)
            OBVIOUS
        <3>4. f \in Line /\ l \in Line
            BY <1>2, <1>4, <3>1, <3>2, ConcatProperties DEF Line
        <3>5. m \in Seq(Line)
            <4>1. n - 1 \in Int /\ n - 1 <= Len(t) /\ 2 \in Int /\ 1 <= 2
                BY <1>3
            <4> QED
                BY <3>3, <4>1, Piece
        <3>6. <<f>> \in Seq(Line) /\ <<l>> \in Seq(Line)
            BY <3>4, Single
        <3>7. PICK s : s = <<f>>
            OBVIOUS
        <3>8. PICK u : u = <<l>>
            OBVIOUS
        <3>9. s \o m \o u \in Seq(Line)
            BY <3>5, <3>6, <3>7, <3>8, ConcatProperties
        <3>10. c.L = Above(b) \o (s \o m \o u) \o Below(b)
            BY <1>1, <1>2, <1>3, <2>2, <3>1, <3>2, <3>3, <3>7, <3>8 DEF insert_text, At, Buffer
        <3> QED
            BY <3>9, <3>10
    <2> QED
        BY <2>1, <2>2
<1> QED
    BY <1>1, <1>5, SpliceKeeps

-----------------------------------------------------------------------------

\* While a run is open its snapshot is on top, taken where the run began, and
\* the run has kept what it may not touch.
RunInv ==
    u_kind # "none" =>
        /\ ustack # <<>>
        /\ LET top == ustack[Len(ustack)].buf
           IN  top.cy = u_line /\ RunKeeps(u_kind, top, buf)

\* An edit goes on with the run or begins one.
LEMMA EditRun ==
    ASSUME Core, RunInv, NEW kind \in Kinds, NEW run \in {u_kind, "none"},
           NEW b, Sound(b), RunKeeps(kind, buf, b), EditTo(kind, run, b),
           run = "none" \/ kind \in {"type", "enter", "backspace", "delete"}
    PROVE  RunInv'
<1>1. /\ ustack \in Seq(SoundSnapshots) /\ Snapshot \in SoundSnapshots
      /\ Snapshot.buf = buf /\ Sound(buf)
    BY DEF Core, Text, StackSound, Snapshot, Snapshots, SoundSnapshots, Sound
<1>2. buf' = b
    BY ClampSound DEF EditTo, Becomes
<1>3. "none" \notin Kinds
    BY DEF Kinds
<1>4. PICK t : t = Trimmed(ustack, Snapshot)
    OBVIOUS
<1>5. t \in Seq(SoundSnapshots)
    BY <1>1, <1>4, TrimmedIn
<1>6. CASE kind = run /\ buf.cy = u_line
    <2>1. /\ ustack' = ustack /\ u_kind' = kind /\ u_line' = u_line
          /\ kind = u_kind /\ kind \in {"type", "enter", "backspace", "delete"}
        BY <1>3, <1>6 DEF EditTo, push_undo
    <2>2. PICK p : p = ustack[Len(ustack)].buf
        OBVIOUS
    <2>3. ustack # <<>> /\ p.cy = u_line /\ RunKeeps(kind, p, buf)
        BY <1>3, <2>1, <2>2 DEF RunInv
    <2>4. Sound(p)
        BY <1>1, <2>2, <2>3, PoppedIn DEF SoundSnapshots, Snapshots, Sound
    <2>5. RunKeeps(kind, p, b)
        <3>1. buf.cy = p.cy
            BY <1>6, <2>3
        <3> QED
            BY <2>1, <2>3, <2>4, <3>1, RunGoesOn
    <2> QED
        BY <1>2, <2>1, <2>2, <2>3, <2>5 DEF RunInv
<1>7. CASE ustack' = Append(t, Snapshot) /\ u_kind' = kind /\ u_line' = buf.cy
    <2>1. PICK v : v = ustack'
        OBVIOUS
    <2>2. v # <<>> /\ v[Len(v)] = Snapshot
        <3>1. Len(v) = Len(t) + 1 /\ v[Len(t) + 1] = Snapshot /\ v # <<>>
            BY <1>1, <1>5, <1>7, <2>1, AppendProperties
        <3> QED
            BY <3>1
    <2>3. v[Len(v)].buf = buf
        BY <1>1, <2>2
    <2> QED
        BY <1>2, <1>7, <2>1, <2>2, <2>3 DEF RunInv
<1>8. CASE u_kind' = "none"
    BY <1>8 DEF RunInv
<1> QED
    BY <1>4, <1>6, <1>7, <1>8 DEF EditTo, push_undo

LEMMA EditsRun ==
    Core /\ RunInv /\ (TypeChar \/ Enter \/ Backspace \/ Delete \/ Cut \/ Paste \/ InsertFile)
        => RunInv'
<1> SUFFICES ASSUME Core, RunInv,
                    TypeChar \/ Enter \/ Backspace \/ Delete \/ Cut \/ Paste \/ InsertFile
             PROVE  RunInv'
    OBVIOUS
<1>0. Sound(buf) /\ overwrite \in BOOLEAN /\ cbuf \in Seq(Line)
    BY DEF Core, Text
<1>1. CASE TypeChar
    <2>1. PICK c \in Char : EditTo("type", u_kind, type_char(buf, c, overwrite))
        BY <1>1 DEF TypeChar
    <2>2. PICK b : b = type_char(buf, c, overwrite)
        OBVIOUS
    <2>3. Sound(b) /\ RunKeeps("type", buf, b)
        BY <1>0, <2>2, TypeCharSound, TypeKeeps
    <2> QED
        BY <2>1, <2>2, <2>3, EditRun DEF Kinds
<1>2. CASE Enter
    <2>1. PICK b : b = do_enter(buf)
        OBVIOUS
    <2>2. Sound(b) /\ RunKeeps("enter", buf, b) /\ EditTo("enter", u_kind, b)
        BY <1>0, <1>2, <2>1, EnterSound, EnterKeeps DEF Enter
    <2> QED
        BY <2>2, EditRun DEF Kinds
<1>3. CASE Backspace
    <2>1. PICK b : b = do_backspace(buf)
        OBVIOUS
    <2>2. CanBackspace(buf) /\ EditTo("backspace", u_kind, b)
        BY <1>3, <2>1 DEF Backspace
    <2>3. Sound(b) /\ RunKeeps("backspace", buf, b)
        BY <1>0, <2>1, <2>2, BackspaceSound, BackspaceKeeps
    <2> QED
        BY <2>2, <2>3, EditRun DEF Kinds
<1>4. CASE Delete
    <2>1. PICK b : b = do_delete(buf)
        OBVIOUS
    <2>2. CanDelete(buf) /\ EditTo("delete", u_kind, b)
        BY <1>4, <2>1 DEF Delete
    <2>3. Sound(b) /\ RunKeeps("delete", buf, b)
        BY <1>0, <2>1, <2>2, DeleteSound, DeleteKeeps
    <2> QED
        BY <2>2, <2>3, EditRun DEF Kinds
<1>5. CASE Cut
    <2>1. PICK b : b = cut_line(buf)
        OBVIOUS
    <2>2. Sound(b) /\ RunKeeps("cut", buf, b) /\ EditTo("cut", "none", b)
        BY <1>0, <1>5, <2>1, CutSound, CutKeeps DEF Cut
    <2> QED
        BY <2>2, EditRun DEF Kinds
<1>6. CASE Paste
    <2>1. PICK b : b = insert_text(buf, cbuf)
        OBVIOUS
    <2>2. cbuf # <<>> /\ EditTo("paste", "none", b)
        BY <1>6, <2>1 DEF Paste
    <2>3. Sound(b) /\ RunKeeps("paste", buf, b)
        BY <1>0, <2>1, <2>2, InsertSound, InsertKeeps
    <2> QED
        BY <2>2, <2>3, EditRun DEF Kinds
<1>7. CASE InsertFile
    <2>1. PICK t \in InsertTexts : EditTo("read", "none", insert_text(buf, t))
        BY <1>7 DEF InsertFile
    <2>2. t \in Seq(Line) /\ t # <<>>
        BY CedAssumption
    <2>3. PICK b : b = insert_text(buf, t)
        OBVIOUS
    <2>4. Sound(b) /\ RunKeeps("read", buf, b)
        BY <1>0, <2>2, <2>3, InsertSound, InsertKeeps
    <2> QED
        BY <2>1, <2>3, <2>4, EditRun DEF Kinds
<1> QED
    BY <1>1, <1>2, <1>3, <1>4, <1>5, <1>6, <1>7

LEMMA RunInvStep == Core /\ RunInv /\ [Next]_vars => RunInv'
<1> SUFFICES ASSUME Core, RunInv, [Next]_vars PROVE RunInv'
    OBVIOUS
<1>1. CASE TypeChar \/ Enter \/ Backspace \/ Delete \/ Cut \/ Paste \/ InsertFile
    BY <1>1, EditsRun
<1>2. CASE u_kind' = "none"
    BY <1>2 DEF RunInv
<1>3. CASE UNCHANGED <<buf, ustack, u_kind, u_line>>
    BY <1>3 DEF RunInv
<1>4. CASE undo \/ Move \/ Jump \/ Insert \/ Save
    BY <1>2, <1>4 DEF undo, Move, Jump, MoveTo, Insert, Save
<1>5. CASE AnswerYes \/ Cancel \/ NameGiven \/ NameRefused \/ AskAgain \/ Hangup
    BY <1>3, <1>5 DEF AnswerYes, BeginSave, Cancel, NameGiven, NameRefused, AskAgain,
                      Hangup, text, vars
<1>6. CASE Exit \/ AnswerNo \/ EndOfInput \/ Crash \/ Open \/ OpenUnread
    BY <1>2, <1>6 DEF Exit, AnswerNo, EndOfInput, Crash, Open, OpenUnread, StartWith, Gone
<1>7. CASE SaveDone
    BY <1>2, <1>3, <1>7 DEF SaveDone, Gone
<1>8. CASE BackupSkipped \/ BackupOpen \/ BackupWrite \/ BackupFails \/ Truncate
              \/ OpenFails \/ WriteLines \/ WriteFails
    BY <1>3, <1>8 DEF BackupSkipped, BackupOpen, BackupWrite, BackupFails, Truncate,
                      OpenFails, WriteLines, WriteFails, saving, text
<1>9. CASE UNCHANGED vars
    BY <1>3, <1>9 DEF vars
<1> QED
    BY <1>1, <1>4, <1>5, <1>6, <1>7, <1>8, <1>9 DEF Next, SaveStep

LEMMA RunInvShows == Core /\ RunInv => RunStaysOnItsLine
<1> SUFFICES ASSUME Core, RunInv, u_kind # "none" PROVE RunStaysOnItsLine
    BY DEF RunStaysOnItsLine
<1>1. PICK p : p = ustack[Len(ustack)].buf
    OBVIOUS
<1>2. ustack # <<>> /\ p.cy = u_line /\ RunKeeps(u_kind, p, buf)
    BY <1>1 DEF RunInv
<1>3. Sound(p) /\ Sound(buf)
    <2>1. ustack \in Seq(SoundSnapshots) /\ Sound(buf)
        BY DEF Core, Text, StackSound
    <2> QED
        BY <1>1, <1>2, <2>1, PoppedIn DEF SoundSnapshots, Snapshots, Sound
<1>4. /\ p.L \in Seq(Line) /\ Len(p.L) \in Nat /\ u_line \in 1 .. Len(p.L)
      /\ buf.L \in Seq(Line)
    BY <1>2, <1>3, Pieces
<1>5. u_line - 1 \in Nat /\ Len(p.L) - u_line \in Nat /\ (u_line > 1 => u_line - 2 \in Nat)
    BY <1>4
<1>6. PICK n \in Nat : n = IF u_kind = "backspace" /\ u_line > 1 THEN u_line - 2
                                                                 ELSE u_line - 1
    BY <1>5
<1>7. PICK m \in Nat : m = IF u_kind = "delete" THEN 0 ELSE Len(p.L) - u_line
    BY <1>5
<1>8. SameEnds(buf.L, p.L, n, m)
    BY <1>2, <1>6, <1>7 DEF RunKeeps
<1>9. /\ \A k \in Int : k <= n => SubSeq(buf.L, 1, k) = SubSeq(p.L, 1, k)
      /\ Suffix(buf.L, m) = Suffix(p.L, m)
    BY <1>4, <1>8, EndsEqual
<1>10. /\ u_line - 2 \in Int /\ u_line - 1 \in Int /\ u_line - 2 <= n
       /\ (u_kind # "backspace" => u_line - 1 <= n)
    BY <1>4, <1>6
<1>11. u_kind # "delete" => Suffix(buf.L, Len(p.L) - u_line) = Suffix(p.L, Len(p.L) - u_line)
    BY <1>7, <1>9
<1>12. u_kind = "type" => Len(buf.L) = Len(p.L)
    BY <1>2 DEF RunKeeps
<1>13. SubSeq(buf.L, 1, u_line - 2) = SubSeq(p.L, 1, u_line - 2)
    BY <1>9, <1>10
<1>14. u_kind # "backspace" => SubSeq(buf.L, 1, u_line - 1) = SubSeq(p.L, 1, u_line - 1)
    BY <1>9, <1>10
<1> QED
    BY <1>1, <1>2, <1>11, <1>12, <1>13, <1>14 DEF RunStaysOnItsLine

\* What one undo takes back is what was done on one line: a run of edits of one
\* kind stays on the line it began on, for texts, stacks and runs of any length.
THEOREM RunStaysOnItsLineHolds == Spec => []RunStaysOnItsLine
<1>1. Init => RunInv
    BY DEF Init, RunInv
<1> QED
    BY <1>1, RunInvStep, RunInvShows, CoreHolds, PTL DEF Spec

-----------------------------------------------------------------------------
(* Searches, and cutting and pasting                                       *)

\* The hits from a column on are the hits of the line there.
LEMMA HitsFrom ==
    ASSUME NEW b, Sound(b), NEW needle \in Line, NEW y \in 1 .. Len(b.L), NEW from \in Nat
    PROVE  /\ Hits(b, y, needle, 0) \in SUBSET Nat
           /\ Hits(b, y, needle, from) = {x \in Hits(b, y, needle, 0) : from <= x}
<1>1. Len(b.L[y]) \in Nat /\ Len(needle) \in Nat
    BY Pieces, LenProperties DEF Line
<1> QED
    BY <1>1 DEF Hits

LEMMA SearchNext ==
    ASSUME NEW b, Sound(b), NEW needle \in Line, NEW c, c = search(b, needle),
           NEW H, H = [y \in 1 .. Len(b.L) |-> Hits(b, y, needle, 0)]
    PROVE  \/ c = b /\ \A y \in 1 .. Len(b.L) : H[y] = {}
           \/ /\ c.cy \in 1 .. Len(b.L) /\ c.cx \in H[c.cy]
              /\ c.cy > b.cy \/ (c.cy = b.cy /\ c.cx > b.cx)
              /\ \A y \in 1 .. Len(b.L) : \A x \in H[y] :
                    y > b.cy \/ (y = b.cy /\ x > b.cx) =>
                        c.cy < y \/ (c.cy = y /\ c.cx <= x)
           \/ /\ c.cy \in 1 .. Len(b.L) /\ c.cx \in H[c.cy]
              /\ \A y \in 1 .. Len(b.L) : \A x \in H[y] :
                    /\ ~ (y > b.cy \/ (y = b.cy /\ x > b.cx))
                    /\ c.cy < y \/ (c.cy = y /\ c.cx <= x)
<1> DEFINE From(z) == IF z = b.cy THEN b.cx + 1 ELSE 0
           After == {z \in b.cy .. Len(b.L) : Hits(b, z, needle, From(z)) # {}}
           Early == {z \in 1 .. b.cy : Hits(b, z, needle, 0) # {}}
<1>1. b \in Buffer /\ Len(b.L) \in Nat /\ b.cy \in 1 .. Len(b.L) /\ b.cx \in Nat
    BY Pieces DEF Sound
<1>2. After \in SUBSET Nat /\ Early \in SUBSET Nat
    BY <1>1
<1>3. c = IF After # {}
          THEN At(b, First(After), First(Hits(b, First(After), needle, From(First(After)))))
          ELSE IF Early # {}
          THEN At(b, First(Early), First(Hits(b, First(Early), needle, 0)))
          ELSE b
    BY DEF search
<1>4. \A y, x : At(b, y, x).cy = y /\ At(b, y, x).cx = x
    BY <1>1 DEF At, Buffer
<1>5. \A y \in 1 .. Len(b.L) : H[y] \in SUBSET Nat /\ H[y] = Hits(b, y, needle, 0)
    BY HitsFrom
<1>6. \A y \in 1 .. Len(b.L) : From(y) \in Nat
    BY <1>1
<1>7. \A y \in 1 .. Len(b.L) : Hits(b, y, needle, From(y)) = {x \in H[y] : From(y) <= x}
    BY <1>5, <1>6, HitsFrom
<1>8. \A y \in b.cy .. Len(b.L) : y \in 1 .. Len(b.L)
    BY <1>1
<1>9. \A y \in 1 .. Len(b.L) : \A x \in H[y] :
          y > b.cy \/ (y = b.cy /\ x > b.cx) => y \in After /\ From(y) <= x
    <2> SUFFICES ASSUME NEW y \in 1 .. Len(b.L), NEW x \in H[y],
                        y > b.cy \/ (y = b.cy /\ x > b.cx)
                 PROVE  y \in After /\ From(y) <= x
        OBVIOUS
    <2>0. x \in Nat
        BY <1>5
    <2>1. x \in Nat /\ y \in b.cy .. Len(b.L)
        BY <1>1, <2>0
    <2>2. From(y) <= x
        BY <1>1, <2>1
    <2>3. x \in Hits(b, y, needle, From(y))
        BY <1>7, <2>2
    <2> QED
        BY <2>1, <2>2, <2>3
<1>10. CASE After # {}
    <2>1. PICK y0 : y0 = First(After)
        OBVIOUS
    <2>2. y0 \in After /\ \A y \in After : y0 <= y
        BY <1>2, <1>10, <2>1, FirstIsLeast
    <2>3. y0 \in b.cy .. Len(b.L) /\ y0 \in 1 .. Len(b.L)
        BY <1>8, <2>2
    <2>4. PICK S : S = Hits(b, y0, needle, From(y0))
        OBVIOUS
    <2>5. S \in SUBSET Nat /\ S = {x \in H[y0] : From(y0) <= x} /\ S # {}
        BY <1>5, <1>7, <2>2, <2>3, <2>4
    <2>6. PICK x0 : x0 = First(S)
        OBVIOUS
    <2>7. x0 \in S /\ \A x \in S : x0 <= x
        BY <2>5, <2>6, FirstIsLeast
    <2>8. c.cy = y0 /\ c.cx = x0
        BY <1>3, <1>4, <1>10, <2>1, <2>4, <2>6
    <2>9. x0 \in H[y0] /\ x0 \in Nat /\ From(y0) <= x0
        BY <2>5, <2>7
    <2>10. y0 > b.cy \/ (y0 = b.cy /\ x0 > b.cx)
        BY <1>1, <2>3, <2>9
    <2>11. ASSUME NEW y \in 1 .. Len(b.L), NEW x \in H[y],
                  y > b.cy \/ (y = b.cy /\ x > b.cx)
           PROVE  y0 < y \/ (y0 = y /\ x0 <= x)
        <3>1. y \in After /\ From(y) <= x
            BY <1>9, <2>11
        <3>2. y0 <= y
            BY <2>2, <3>1
        <3>3. y0 = y => x \in S
            BY <2>5, <3>1
        <3>4. y0 = y => x0 <= x
            BY <2>7, <3>3
        <3> QED
            BY <2>3, <3>2, <3>4
    <2> QED
        BY <2>3, <2>8, <2>9, <2>10, <2>11
<1>11. CASE After = {} /\ Early # {}
    <2>1. PICK y0 : y0 = First(Early)
        OBVIOUS
    <2>2. y0 \in Early /\ \A y \in Early : y0 <= y
        BY <1>2, <1>11, <2>1, FirstIsLeast
    <2>3. y0 \in 1 .. Len(b.L) /\ Hits(b, y0, needle, 0) # {}
        BY <1>1, <2>2
    <2>4. H[y0] \in SUBSET Nat /\ H[y0] # {} /\ H[y0] = Hits(b, y0, needle, 0)
        BY <1>5, <2>3
    <2>5. PICK x0 : x0 = First(H[y0])
        OBVIOUS
    <2>6. x0 \in H[y0] /\ \A x \in H[y0] : x0 <= x
        BY <2>4, <2>5, FirstIsLeast
    <2>7. c.cy = y0 /\ c.cx = x0
        <3>1. c = At(b, First(Early), First(Hits(b, First(Early), needle, 0)))
            BY <1>3, <1>11
        <3>2. c = At(b, y0, x0)
            BY <2>1, <2>4, <2>5, <3>1
        <3> QED
            BY <1>4, <3>2
    <2>8. ASSUME NEW y \in 1 .. Len(b.L), NEW x \in H[y]
          PROVE  /\ ~ (y > b.cy \/ (y = b.cy /\ x > b.cx))
                 /\ y0 < y \/ (y0 = y /\ x0 <= x)
        <3>1. ~ (y > b.cy \/ (y = b.cy /\ x > b.cx))
            BY <1>9, <1>11
        <3>2. y \in 1 .. b.cy /\ H[y] = Hits(b, y, needle, 0)
            BY <1>1, <1>5, <3>1
        <3>3. y \in Early
            BY <3>2
        <3>4. y0 <= y
            BY <2>2, <3>3
        <3>5. y0 = y => x0 <= x
            BY <2>6
        <3> QED
            BY <2>3, <3>1, <3>4, <3>5
    <2> QED
        BY <2>3, <2>6, <2>7, <2>8
<1>12. CASE After = {} /\ Early = {}
    <2>1. c = b
        BY <1>3, <1>12
    <2>2. ASSUME NEW y \in 1 .. Len(b.L), H[y] # {} PROVE FALSE
        <3>1. PICK x : x \in H[y]
            BY <2>2
        <3>2. ~ (y > b.cy \/ (y = b.cy /\ x > b.cx))
            BY <1>9, <1>12, <3>1
        <3>3. y \in 1 .. b.cy /\ H[y] = Hits(b, y, needle, 0)
            BY <1>1, <1>5, <3>2
        <3> QED
            BY <1>12, <2>2, <3>3
    <2> QED
        BY <2>1, <2>2
<1> QED
    BY <1>10, <1>11, <1>12

LEMMA SearchShows == Core => SearchFindsTheNext
<1> SUFFICES ASSUME Core, NEW n \in Needles
             PROVE  LET c == search(buf, n)
                    IN  IF Occurs(n) = {} THEN c = buf
                        ELSE <<c.cy, c.cx>> \in Occurs(n)
                             /\ \A p \in Occurs(n) : Sooner(<<c.cy, c.cx>>, p)
    BY DEF SearchFindsTheNext
<1>1. Sound(buf) /\ n \in Line
    BY CedAssumption DEF Core, Text
<1>2. PICK c : c = search(buf, n)
    OBVIOUS
<1>3. PICK H : H = [y \in 1 .. Len(buf.L) |-> Hits(buf, y, n, 0)]
    OBVIOUS
<1>4. Occurs(n) = UNION {{<<y, x>> : x \in H[y]} : y \in 1 .. Len(buf.L)}
    BY <1>3 DEF Occurs
<1>5. \A p \in Occurs(n) : \E y \in 1 .. Len(buf.L) : \E x \in H[y] : p = <<y, x>>
    BY <1>4
<1>6. \A y \in 1 .. Len(buf.L) : \A x \in H[y] : <<y, x>> \in Occurs(n)
    BY <1>4
<1> DEFINE Past(y, x) == y > buf.cy \/ (y = buf.cy /\ x > buf.cx)
           Ahead(y, x) == c.cy < y \/ (c.cy = y /\ c.cx <= x)
<1>7. \/ c = buf /\ \A y \in 1 .. Len(buf.L) : H[y] = {}
      \/ /\ c.cy \in 1 .. Len(buf.L) /\ c.cx \in H[c.cy]
         /\ Past(c.cy, c.cx)
         /\ \A y \in 1 .. Len(buf.L) : \A x \in H[y] : Past(y, x) => Ahead(y, x)
      \/ /\ c.cy \in 1 .. Len(buf.L) /\ c.cx \in H[c.cy]
         /\ \A y \in 1 .. Len(buf.L) : \A x \in H[y] : ~ Past(y, x) /\ Ahead(y, x)
    BY <1>1, <1>2, <1>3, SearchNext
<1>8. \A y, x : /\ AfterCursor(<<y, x>>) <=> Past(y, x)
                /\ Before(<<c.cy, c.cx>>, <<y, x>>) <=> Ahead(y, x)
    BY DEF AfterCursor, Before
<1>9. \A y, x : /\ Past(c.cy, c.cx) /\ (Past(y, x) => Ahead(y, x))
                     => Sooner(<<c.cy, c.cx>>, <<y, x>>)
                /\ ~ Past(c.cy, c.cx) /\ ~ Past(y, x) /\ Ahead(y, x)
                     => Sooner(<<c.cy, c.cx>>, <<y, x>>)
    BY <1>8 DEF Sooner
<1> HIDE DEF Past, Ahead
<1>10. CASE c = buf /\ \A y \in 1 .. Len(buf.L) : H[y] = {}
    <2>1. Occurs(n) = {}
        BY <1>5, <1>10
    <2> QED
        BY <1>2, <1>10, <2>1
<1>11. CASE /\ c.cy \in 1 .. Len(buf.L) /\ c.cx \in H[c.cy]
            /\ Past(c.cy, c.cx)
            /\ \A y \in 1 .. Len(buf.L) : \A x \in H[y] : Past(y, x) => Ahead(y, x)
    <2>1. <<c.cy, c.cx>> \in Occurs(n)
        BY <1>6, <1>11
    <2>2. \A p \in Occurs(n) : Sooner(<<c.cy, c.cx>>, p)
        BY <1>5, <1>9, <1>11
    <2> QED
        BY <1>2, <2>1, <2>2
<1>12. CASE /\ c.cy \in 1 .. Len(buf.L) /\ c.cx \in H[c.cy]
            /\ \A y \in 1 .. Len(buf.L) : \A x \in H[y] : ~ Past(y, x) /\ Ahead(y, x)
    <2>1. <<c.cy, c.cx>> \in Occurs(n)
        BY <1>6, <1>12
    <2>2. \A p \in Occurs(n) : Sooner(<<c.cy, c.cx>>, p)
        BY <1>5, <1>9, <1>12
    <2> QED
        BY <1>2, <2>1, <2>2
<1> QED
    BY <1>7, <1>10, <1>11, <1>12

\* ^W goes to the next occurrence after the cursor and around the end, in every
\* text: it never stays where it is while there is another, and skips none.
THEOREM SearchFindsTheNextHolds == Spec => []SearchFindsTheNext
    BY SearchShows, CoreHolds, PTL

-----------------------------------------------------------------------------

\* Nothing of an empty piece.
LEMMA NoPiece ==
    ASSUME NEW S, NEW s \in Seq(S), NEW m \in Int, NEW n \in Int, m > n
    PROVE  SubSeq(s, m, n) = <<>>
    BY SubSeqEmpty

LEMMA UncutOnlyLine ==
    ASSUME NEW b, Sound(b), Len(b.L) = 1 PROVE Uncut(b)
<1>0. b \in Buffer /\ b.L \in Seq(Line) /\ b.cy \in 1 .. Len(b.L) /\ Here(b) \in Line
    BY Pieces DEF Sound
<1>1. b \in Buffer /\ b.L \in Seq(Line) /\ b.cy = 1 /\ Here(b) \in Seq(Char)
    BY <1>0 DEF Line
<1>2. PICK c : c = cut_line(b)
    OBVIOUS
<1>3. c.L = <<<<>>>> /\ c.cy = 1 /\ c.cx = 0 /\ c \in Buffer
    BY <1>1, <1>2, EmptySeq, Single DEF cut_line, At, Buffer, Line
<1>4. PICK t : t = CutText(b)
    OBVIOUS
<1>5. t = <<Here(b)>>
    BY <1>1, <1>4 DEF CutText
<1>6. Len(t) = 1 /\ t[1] = Here(b)
    BY <1>5
<1>7. <<<<>>>> \in Seq(Line) /\ <<>> \in Seq(Char) /\ Len(<<<<>>>>) = 1 /\ Len(<<>>) = 0
      /\ Here(c) = <<>>
    BY <1>3, EmptySeq, Single DEF Line, Here
<1>8. Above(c) = <<>>
    BY <1>3, <1>7, NoPiece DEF Above
<1>9. Below(c) = <<>>
    BY <1>3, <1>7, NoPiece DEF Below
<1>10. Left(c) = <<>>
    BY <1>3, <1>7, NoPiece DEF Left
<1>11. Right(c) = <<>>
    BY <1>3, <1>7, NoPiece DEF Right
<1>12. insert_text(c, t).L = Above(c) \o <<Left(c) \o t[1] \o Right(c)>> \o Below(c)
    BY <1>3, <1>6 DEF insert_text, At, Buffer
<1>13. <<>> \o Here(b) \o <<>> = Here(b)
    BY <1>1, ConcatEmptySeq
<1>14. <<Here(b)>> \in Seq(Line) /\ Len(<<Here(b)>>) = 1
    BY <1>1, Single DEF Line
<1>15. PICK u : u = <<Here(b)>>
    OBVIOUS
<1>16. <<>> \o u \o <<>> = u
    BY <1>14, <1>15, ConcatEmptySeq
<1>17. insert_text(c, t).L = u
    BY <1>6, <1>8, <1>9, <1>10, <1>11, <1>12, <1>13, <1>15, <1>16
<1>18. u = b.L
    <2>1. u \in Seq(Line) /\ Len(u) = 1 /\ u[1] = b.L[1]
        BY <1>1, <1>14, <1>15 DEF Here
    <2> QED
        BY <1>1, <2>1, SeqEqual
<1> QED
    BY <1>2, <1>4, <1>17, <1>18 DEF Uncut

\* The first k lines and the lines after them.
LEMMA FirstLines ==
    \A L \in Seq(Line) : \A k \in Nat : \A A : k <= Len(L) /\ A = SubSeq(L, 1, k) =>
        A \in Seq(Line) /\ Len(A) = k /\ \A i \in 1 .. k : A[i] = L[i]
<1> SUFFICES ASSUME NEW L \in Seq(Line), NEW k \in Nat, k <= Len(L), NEW A, A = SubSeq(L, 1, k)
             PROVE  A \in Seq(Line) /\ Len(A) = k /\ \A i \in 1 .. k : A[i] = L[i]
    OBVIOUS
<1>1. 1 \in Int /\ k \in Int /\ 1 <= 1
    OBVIOUS
<1>2. /\ A \in Seq(Line) /\ Len(A) = IF 1 <= k THEN k - 1 + 1 ELSE 0
      /\ \A i \in 1 .. k - 1 + 1 : A[i] = L[1 + i - 1]
    BY <1>1, Piece
<1>3. Len(A) = k
    BY <1>2
<1>4. \A i \in 1 .. k : 1 + i - 1 = i /\ i \in 1 .. k - 1 + 1
    OBVIOUS
<1> QED
    BY <1>2, <1>3, <1>4

LEMMA OtherLines ==
    \A L \in Seq(Line) : \A k \in Nat : \A n \in Nat : \A B :
        n = Len(L) /\ k <= n /\ B = SubSeq(L, k + 1, n) =>
            B \in Seq(Line) /\ Len(B) = n - k /\ \A i \in 1 .. n - k : B[i] = L[k + i]
<1> SUFFICES ASSUME NEW L \in Seq(Line), NEW k \in Nat, NEW n \in Nat, n = Len(L), k <= n,
                    NEW B, B = SubSeq(L, k + 1, n)
             PROVE  B \in Seq(Line) /\ Len(B) = n - k /\ \A i \in 1 .. n - k : B[i] = L[k + i]
    OBVIOUS
<1>1. PICK m \in Int : m = k + 1
    OBVIOUS
<1>2. 1 <= m /\ n <= Len(L) /\ n \in Int
    BY <1>1
<1>3. /\ B \in Seq(Line) /\ Len(B) = IF m <= n THEN n - m + 1 ELSE 0
      /\ \A i \in 1 .. n - m + 1 : B[i] = L[m + i - 1]
    BY <1>1, <1>2, Piece
<1>4. Len(B) = n - k
    BY <1>1, <1>3
<1>5. \A i \in 1 .. n - k : m + i - 1 = k + i /\ i \in 1 .. n - m + 1
    BY <1>1
<1> QED
    BY <1>3, <1>4, <1>5

\* M is the n lines L with line y taken out.  Two lines in place of the one that
\* came up, the line taken out and that line, make L again.
Restores(L, n, k, y) ==
    \A M, two, N :
        /\ M = SubSeq(L, 1, k) \o SubSeq(L, y + 1, n)
        /\ two = <<L[y], L[y + 1]>>
        /\ N = SubSeq(M, 1, k) \o two \o SubSeq(M, y + 1, Len(M))
        => M \in Seq(Line) /\ Len(M) = n - 1 /\ M[y] = L[y + 1] /\ N = L

LEMMA TakenAndBack ==
    ASSUME NEW L \in Seq(Line), NEW n \in Nat, NEW k \in Nat, NEW y \in Nat,
           n = Len(L), y = k + 1, y < n
    PROVE  Restores(L, n, k, y)
<1>0. SUFFICES ASSUME NEW M, NEW two, NEW N,
                      M = SubSeq(L, 1, k) \o SubSeq(L, y + 1, n),
                      two = <<L[y], L[y + 1]>>,
                      N = SubSeq(M, 1, k) \o two \o SubSeq(M, y + 1, Len(M))
               PROVE  M \in Seq(Line) /\ Len(M) = n - 1 /\ M[y] = L[y + 1] /\ N = L
    BY Zenon DEF Restores
<1>1. PICK A : A = SubSeq(L, 1, k)
    OBVIOUS
<1>2. PICK B : B = SubSeq(L, y + 1, n)
    OBVIOUS
<1>3. k <= n /\ k <= Len(L) /\ y <= n
    OBVIOUS
<1>4. A \in Seq(Line) /\ Len(A) = k /\ \A i \in 1 .. k : A[i] = L[i]
    BY <1>1, <1>3, FirstLines
<1>5. B \in Seq(Line) /\ Len(B) = n - y /\ \A i \in 1 .. n - y : B[i] = L[y + i]
    BY <1>2, <1>3, OtherLines
<1>6. Row2(Line, M, A, B)
    <2>1. M = A \o B
        BY <1>0, <1>1, <1>2
    <2> QED
        BY <1>4, <1>5, <2>1, TwoInARow
<1>7. /\ M \in Seq(Line) /\ Len(M) = k + (n - y)
      /\ \A i \in 1 .. k : M[i] = A[i]
      /\ \A i \in 1 .. n - y : M[k + i] = B[i]
    BY <1>4, <1>5, <1>6, Zenon DEF Row2
<1>8. PICK m \in Nat : m = Len(M)
    BY <1>7, LenProperties
<1>9. m = n - 1
    BY <1>7, <1>8
<1>10. \A i \in 1 .. k : M[i] = L[i]
    BY <1>4, <1>7
<1>11. \A i \in 1 .. n - y : M[k + i] = L[y + i]
    BY <1>5, <1>7
<1>12. M[y] = L[y + 1]
    <2>1. 1 \in 1 .. n - y
        OBVIOUS
    <2> QED
        BY <1>11, <2>1
<1>13. PICK C : C = SubSeq(M, 1, k)
    OBVIOUS
<1>14. PICK D : D = SubSeq(M, y + 1, m)
    OBVIOUS
<1>15. k <= Len(M) /\ y <= m
    <2>1. k <= m /\ y <= m
        BY <1>9
    <2> QED
        BY <1>8, <2>1, Zenon
<1>16. C \in Seq(Line) /\ Len(C) = k /\ \A i \in 1 .. k : C[i] = M[i]
    BY <1>7, <1>13, <1>15, FirstLines
<1>17. D \in Seq(Line) /\ Len(D) = m - y /\ \A i \in 1 .. m - y : D[i] = M[y + i]
    BY <1>7, <1>8, <1>14, <1>15, OtherLines
<1>18. \A i \in 1 .. m - y : D[i] = L[y + 1 + i]
    <2> SUFFICES ASSUME NEW i \in 1 .. m - y PROVE D[i] = L[y + 1 + i]
        OBVIOUS
    <2>1. PICK j \in 1 .. n - y : j = i + 1
        BY <1>9
    <2>2. M[k + j] = L[y + j]
        BY <1>11
    <2>3. k + j = y + i /\ y + j = y + 1 + i
        BY <2>1
    <2> QED
        BY <1>17, <2>2, <2>3
<1>19. two \in Seq(Line) /\ Len(two) = 2 /\ two[1] = L[y] /\ two[2] = L[y + 1]
    <2>1. y \in 1 .. Len(L) /\ y + 1 \in 1 .. Len(L)
        OBVIOUS
    <2>2. L[y] \in Line /\ L[y + 1] \in Line
        BY <2>1, ElementOfSeq
    <2> QED
        BY <1>0, <2>2
<1>20. Row3(Line, N, C, two, D)
    <2>1. N = C \o two \o D
        BY <1>0, <1>8, <1>13, <1>14
    <2> QED
        BY <1>16, <1>17, <1>19, <2>1, ThreeInARow
<1>21. /\ N \in Seq(Line) /\ Len(N) = k + 2 + (m - y)
       /\ \A i \in 1 .. k : N[i] = C[i]
       /\ \A i \in 1 .. 2 : N[k + i] = two[i]
       /\ \A i \in 1 .. m - y : N[k + 2 + i] = D[i]
    BY <1>16, <1>17, <1>19, <1>20, Zenon DEF Row3
<1>22. Len(N) = n
    <2>1. PICK p : p = Len(N)
        OBVIOUS
    <2>2. p = k + 2 + (m - y)
        BY <1>21, <2>1
    <2>3. p = n
        BY <1>9, <2>2
    <2> QED
        BY <2>1, <2>3
<1>23. N[k + 1] = L[k + 1] /\ N[k + 2] = L[k + 2]
    <2>1. 1 \in 1 .. 2 /\ 2 \in 1 .. 2 /\ k + 1 = y /\ k + 2 = y + 1
        OBVIOUS
    <2>2. N[k + 1] = two[1] /\ N[k + 2] = two[2]
        BY <1>21, <2>1, Zenon
    <2> QED
        BY <1>19, <2>1, <2>2
<1>24. ASSUME NEW i \in 1 .. n PROVE N[i] = L[i]
    <2>1. CASE i <= k
        <3>1. i \in 1 .. k
            BY <2>1
        <3> QED
            BY <1>10, <1>16, <1>21, <3>1, Zenon
    <2>2. CASE i = k + 1 \/ i = k + 2
        BY <1>23, <2>2
    <2>3. CASE i > k + 2
        <3>1. i - (k + 2) \in 1 .. m - y
            BY <1>9, <2>3
        <3>2. PICK j \in 1 .. m - y : j = i - (k + 2)
            BY <3>1
        <3>3. k + 2 + j = i /\ y + 1 + j = i
            BY <3>2
        <3>4. N[k + 2 + j] = D[j] /\ D[j] = L[y + 1 + j]
            BY <1>18, <1>21
        <3> QED
            BY <3>3, <3>4
    <2>4. i <= k \/ i = k + 1 \/ i = k + 2 \/ i > k + 2
        OBVIOUS
    <2> QED
        BY <2>1, <2>2, <2>3, <2>4
<1>25. N = L
    BY <1>21, <1>22, <1>24, SeqEqual
<1> QED
    BY <1>7, <1>8, <1>9, <1>12, <1>25

LEMMA UncutLine ==
    ASSUME NEW b, Sound(b), b.cy < Len(b.L) PROVE Uncut(b)
<1>1. /\ b \in Buffer /\ b.L \in Seq(Line) /\ b.cy \in 1 .. Len(b.L) - 1
      /\ Len(b.L) \in Nat /\ b.cy \in Nat /\ Here(b) \in Seq(Char)
    BY Pieces DEF Sound, Line
<1>0. b.cy - 1 \in Nat /\ b.cy - 1 + 1 = b.cy
    BY <1>1
<1>2. PICK y \in Nat : y = b.cy
    BY <1>1
<1>24. PICK n \in Nat : n = Len(b.L)
    BY <1>1
<1>25. PICK k \in Nat : k = b.cy - 1
    BY <1>0
<1>26. y = k + 1 /\ y < n
    BY <1>0, <1>2, <1>24, <1>25
<1>3. PICK M : M = Above(b) \o Below(b)
    OBVIOUS
<1>4. M = SubSeq(b.L, 1, k) \o SubSeq(b.L, y + 1, n)
    BY <1>2, <1>3, <1>24, <1>25 DEF Above, Below
<1>5. PICK two : two = <<b.L[y], b.L[y + 1]>>
    OBVIOUS
<1>6. PICK N : N = SubSeq(M, 1, k) \o two \o SubSeq(M, y + 1, Len(M))
    OBVIOUS
<1>7. M \in Seq(Line) /\ Len(M) = n - 1 /\ M[y] = b.L[y + 1] /\ N = b.L
    <2>1. PICK L : L = b.L
        OBVIOUS
    <2>2. /\ L \in Seq(Line) /\ n = Len(L) /\ M = SubSeq(L, 1, k) \o SubSeq(L, y + 1, n)
          /\ two = <<L[y], L[y + 1]>>
        BY <1>1, <1>4, <1>5, <1>24, <2>1
    <2>3. M \in Seq(Line) /\ Len(M) = n - 1 /\ M[y] = L[y + 1] /\ N = L
        <3>1. L \in Seq(Line) /\ n = Len(L)
            BY <2>2
        <3>2. Restores(L, n, k, y)
            BY <1>26, <3>1, TakenAndBack
        <3> QED
            BY <1>6, <2>2, <3>2 DEF Restores
    <2> QED
        BY <2>1, <2>3
<1>8. PICK c : c = cut_line(b)
    OBVIOUS
<1>9. Least(y, n - 1) = y /\ n # 1
    BY <1>26 DEF Least
<1>10. c = At([b EXCEPT !.L = M], y, 0)
    BY <1>2, <1>3, <1>8, <1>9, <1>24 DEF cut_line
<1>11. c.L = M /\ c.cy = y /\ c.cx = 0 /\ c \in Buffer
    BY <1>1, <1>2, <1>7, <1>10 DEF At, Buffer
<1>12. PICK t : t = CutText(b)
    OBVIOUS
<1>13. t = <<Here(b), <<>>>> /\ Here(b) = b.L[y]
    BY <1>1, <1>2, <1>12 DEF CutText, Here
<1>14. Len(t) = 2 /\ t[1] = Here(b) /\ t[2] = <<>> /\ t \in Seq(Line)
    BY <1>1, <1>13, EmptySeq DEF Line
<1>15. Here(c) = b.L[y + 1] /\ Here(c) \in Seq(Char)
    <2>1. b.cy + 1 \in 1 .. Len(b.L)
        BY <1>1
    <2>2. b.L[b.cy + 1] \in Line
        BY <1>1, <2>1, ElementOfSeq
    <2> QED
        BY <1>2, <1>7, <1>11, <2>2 DEF Here, Line
<1>16. Left(c) = <<>>
    BY <1>11, <1>15, NoPiece DEF Left
<1>17. Right(c) = Here(c)
    <2>1. Right(c) = SubSeq(Here(c), 1, Len(Here(c)))
        BY <1>11 DEF Right
    <2> QED
        BY <1>15, <2>1, SubSeqFull
<1>18. SubSeq(t, 2, 1) = <<>>
    BY <1>14, NoPiece
<1>19. insert_text(c, t).L =
           Above(c) \o (<<Left(c) \o t[1]>> \o SubSeq(t, 2, 1) \o <<t[2] \o Right(c)>>) \o Below(c)
    <2>1. Len(t) - 1 = 1 /\ Len(t) # 1
        BY <1>14
    <2> QED
        BY <1>11, <1>14, <2>1 DEF insert_text, At, Buffer
<1>20. <<>> \o Here(b) = Here(b) /\ <<>> \o Here(c) = Here(c)
    BY <1>1, <1>15, ConcatEmptySeq
<1>21. <<Here(b)>> \o <<>> \o <<Here(c)>> = two
    <2>1. <<Here(b)>> \in Seq(Line) /\ <<Here(c)>> \in Seq(Line)
        BY <1>1, <1>15, Single DEF Line
    <2>2. PICK u : u = <<Here(b)>>
        OBVIOUS
    <2>3. u \o <<>> = u
        BY <2>1, <2>2, ConcatEmptySeq
    <2>4. u \o <<Here(c)>> = <<Here(b), Here(c)>>
        <3>1. PICK v : v = u \o <<Here(c)>>
            OBVIOUS
        <3>2. /\ Len(u) = 1 /\ Len(<<Here(c)>>) = 1 /\ u[1] = Here(b)
              /\ Row2(Line, v, u, <<Here(c)>>)
            BY <2>1, <2>2, <3>1, TwoInARow
        <3>3. v \in Seq(Line) /\ Len(v) = 2 /\ v[1] = Here(b) /\ v[2] = Here(c)
            BY <3>2 DEF Row2
        <3>4. PICK w : w = <<Here(b), Here(c)>>
            OBVIOUS
        <3>5. w \in Seq(Line) /\ Len(w) = 2 /\ w[1] = Here(b) /\ w[2] = Here(c)
            BY <1>1, <1>15, <3>4 DEF Line
        <3>6. \A i \in 1 .. 2 : v[i] = w[i]
            <4>1. \A i \in 1 .. 2 : i = 1 \/ i = 2
                OBVIOUS
            <4> QED
                BY <3>3, <3>5, <4>1
        <3> QED
            BY <3>1, <3>3, <3>4, <3>5, <3>6, SeqEqual
    <2> QED
        BY <1>5, <1>13, <1>15, <2>2, <2>3, <2>4
<1>22. Above(c) = SubSeq(M, 1, k) /\ Below(c) = SubSeq(M, y + 1, Len(M))
    BY <1>2, <1>11, <1>25 DEF Above, Below
<1>23. insert_text(c, t).L = N
    <2>1. Left(c) \o t[1] = Here(b) /\ t[2] \o Right(c) = Here(c)
        BY <1>14, <1>16, <1>17, <1>20
    <2>2. <<Left(c) \o t[1]>> \o SubSeq(t, 2, 1) \o <<t[2] \o Right(c)>> = two
        BY <1>18, <1>21, <2>1
    <2> QED
        BY <1>6, <1>19, <1>22, <2>2
<1> QED
    BY <1>7, <1>8, <1>12, <1>23 DEF Uncut

\* What ^K took, ^U puts back where it was, in every text, unless it was the
\* last of several lines.
THEOREM CutThenPasteRestoresHolds == Spec => []CutThenPasteRestoresButLast
<1>1. Core => CutThenPasteRestoresButLast
    BY UncutOnlyLine, UncutLine DEF Core, Text, CutThenPasteRestoresButLast
<1> QED
    BY <1>1, CoreHolds, PTL

-----------------------------------------------------------------------------
(* What the user can get back: the file after a bad save and the text      *)
(* before the edits.                                                       *)

hvars == <<vars, history>>

\* The history variables only watch.
LEMMA Watched ==
    /\ HInit => Init
    /\ [HNext]_hvars => [Next]_vars
    BY DEF HInit, HNext, hvars, vars

LEMMA HCore == HSpec => []Core
<1>1. HInit => Core
    BY Watched, InitCore
<1>2. Core /\ [HNext]_hvars => Core'
    BY Watched, CoreStep
<1> QED
    BY <1>1, <1>2, PTL DEF HSpec, hvars

-----------------------------------------------------------------------------
(* One bad save                                                            *)

Whole(f) == f.lines # <<>> => f = File(f.lines)

\* Where the last whole contents are while the first save since then runs: in
\* the file until it is truncated, and then in the backup, if one was made.
SaveProgress ==
    /\ tries \in 0 .. 2
    /\ Whole(good)
    /\ tries = 0 => file = good /\ pc \notin {"backup", "copy", "trunc", "write"}
    /\ tries = 1 /\ pc \in {"backup", "copy", "trunc"} => file = good
    /\ tries = 1 /\ pc = "trunc" /\ backed => backup = good
    /\ tries = 1 /\ pc = "write" /\ ~ bare => backup = good
    /\ pc = "write" => file = File(file.lines)

SaveInv == SaveProgress /\ OneBadSaveRecoverable

LEMMA SaveInvInit == HInit => SaveInv
<1> SUFFICES ASSUME HInit PROVE SaveInv
    OBVIOUS
<1>1. file \in InitFiles /\ good = file /\ tries = 0 /\ pc = "off"
    BY DEF HInit, Init
<1>2. Whole(file)
    BY <1>1, CedAssumption DEF Whole, File
<1> QED
    BY <1>1, <1>2 DEF SaveInv, SaveProgress, OneBadSaveRecoverable, Recoverable

\* Steps that touch no file.
Quiet ==
    /\ file' = file /\ backup' = backup /\ good' = good
    /\ bare => bare'
    /\ \/ tries' = tries /\ pc' \notin {"backup", "copy", "trunc", "write"}
       \/ tries' = tries /\ pc' = pc /\ backed' = backed
       \/ tries' = Least(tries + 1, 2) /\ pc' = "backup"

LEMMA SaveInvQuiet == SaveInv /\ Quiet => SaveInv'
<1> SUFFICES ASSUME SaveInv, Quiet PROVE SaveInv'
    OBVIOUS
<1> USE DEF Quiet
<1>1. tries' \in 0 .. 2
    BY DEF SaveInv, SaveProgress, Least
<1>2. OneBadSaveRecoverable'
    BY DEF SaveInv, SaveProgress, OneBadSaveRecoverable, Recoverable, Least
<1>3. SaveProgress'
    BY <1>1 DEF SaveInv, SaveProgress, Whole, Least
<1> QED
    BY <1>2, <1>3 DEF SaveInv

LEMMA SaveInvDone ==
    ASSUME SaveInv, SaveDone, HNext PROVE SaveInv'
<1>1. /\ good' = file /\ tries' = 0 /\ file' = file
      /\ pc = "write" /\ pc' \in {"edit", "off"}
    BY DEF SaveDone, HNext, Gone, disk
<1>2. Whole(file)
    BY <1>1 DEF SaveInv, SaveProgress, Whole
<1> QED
    BY <1>1, <1>2 DEF SaveInv, SaveProgress, OneBadSaveRecoverable, Recoverable, Whole

LEMMA SaveInvWrites ==
    ASSUME Core, SaveInv, HNext, ~ SaveDone,
           BackupSkipped \/ BackupOpen \/ BackupWrite \/ BackupFails \/ Truncate \/ WriteLines
    PROVE  SaveInv'
<1>1. /\ good' = good /\ tries' \in 0 .. 2 /\ Whole(good)'
      /\ tries' = tries /\ tries # 0
      /\ bare => bare'
      /\ Truncate /\ ~ backed => bare'
    BY DEF SaveInv, SaveProgress, HNext, Whole, BackupSkipped, BackupOpen, BackupWrite,
           BackupFails, Truncate, WriteLines
<1>2. CASE BackupSkipped \/ BackupFails
    BY <1>1, <1>2 DEF SaveInv, SaveProgress, OneBadSaveRecoverable, Recoverable,
                      BackupSkipped, BackupFails, disk
<1>3. CASE BackupOpen
    BY <1>1, <1>3 DEF SaveInv, SaveProgress, OneBadSaveRecoverable, Recoverable, BackupOpen
<1>4. CASE BackupWrite
    <2>1. PICK n \in Len(backup.lines) + 1 .. Len(file.lines) :
              /\ backup' = File(SubSeq(file.lines, 1, n))
              /\ pc' = IF n = Len(file.lines) THEN "trunc" ELSE "copy"
              /\ backed' = (n = Len(file.lines))
        BY <1>4 DEF BackupWrite
    <2>2. pc = "copy" /\ file' = file
        BY <1>4 DEF BackupWrite
    <2>3. file.lines \in Seq(Line) /\ backup.lines \in Seq(Line)
        BY DEF Core, Saver
    <2>4. file.lines # <<>>
        BY <2>1, <2>3, LenProperties, EmptySeq
    <2>5. tries = 1 => good = file /\ good = File(file.lines)
        BY <2>2, <2>4 DEF SaveInv, SaveProgress, Whole
    <2>6. backed' => backup' = File(file.lines)
        BY <2>1, <2>3, SubSeqFull
    <2> QED
        BY <1>1, <2>1, <2>2, <2>5, <2>6 DEF SaveInv, SaveProgress, OneBadSaveRecoverable,
                                            Recoverable
<1>5. CASE Truncate
    <2>1. /\ pc = "trunc" /\ pc' = "write" /\ file' = File(<<>>) /\ backup' = backup
          /\ ~ bare' => ~ bare /\ backed
        BY <1>1, <1>5 DEF Truncate
    <2>2. file' = File(file'.lines)
        BY <2>1 DEF File
    <2> QED
        <3>1. tries = 1 /\ ~ bare' => backup' = good'
            BY <1>1, <2>1 DEF SaveInv, SaveProgress
        <3>2. tries # 0 /\ tries' = tries
            BY <1>1
        <3> QED
            BY <1>1, <2>1, <2>2, <3>1, <3>2 DEF SaveInv, SaveProgress,
                                               OneBadSaveRecoverable, Recoverable
<1>6. CASE WriteLines
    <2>1. /\ pc = "write" /\ pc' = "write" /\ backup' = backup
          /\ file' = File(file'.lines)
        BY <1>6 DEF WriteLines, File
    <2>2. tries = 1 /\ ~ bare' => backup' = good'
        BY <1>1, <2>1 DEF SaveInv, SaveProgress
    <2> QED
        BY <1>1, <2>1, <2>2 DEF SaveInv, SaveProgress, OneBadSaveRecoverable, Recoverable
<1> QED
    BY <1>2, <1>3, <1>4, <1>5, <1>6

LEMMA SaveInvStep == Core /\ SaveInv /\ [HNext]_hvars => SaveInv'
<1> SUFFICES ASSUME Core, SaveInv, [HNext]_hvars PROVE SaveInv'
    OBVIOUS
<1>1. CASE UNCHANGED hvars
    BY <1>1 DEF SaveInv, SaveProgress, OneBadSaveRecoverable, Recoverable, Whole, hvars,
                vars, history
<1>2. CASE HNext /\ SaveDone
    BY <1>2, SaveInvDone
<1>3. CASE HNext /\ ~ SaveDone /\ (BackupSkipped \/ BackupOpen \/ BackupWrite
                                     \/ BackupFails \/ Truncate \/ WriteLines)
    BY <1>3, SaveInvWrites
<1>4. CASE HNext /\ ~ SaveDone /\ ~ (BackupSkipped \/ BackupOpen \/ BackupWrite
                                     \/ BackupFails \/ Truncate \/ WriteLines)
    <2>1. /\ good' = good
          /\ bare => bare'
          /\ tries' = IF pc' = "backup" /\ pc # "backup" THEN Least(tries + 1, 2) ELSE tries
        BY <1>4 DEF HNext
    <2>2. /\ UNCHANGED <<file, backup>>
          /\ \/ pc' \in {"edit", "exit", "name", "off"}
             \/ pc' = pc /\ backed' = backed
             \/ pc' = "backup" /\ pc # "backup"
        <3>1. CASE TypeChar \/ Enter \/ Backspace \/ Delete \/ Cut \/ Paste \/ InsertFile
            BY <3>1 DEF TypeChar, Enter, Backspace, Delete, Cut, Paste, InsertFile, EditTo,
                        disk
        <3>2. CASE undo \/ Move \/ Jump \/ Insert
            BY <3>2 DEF undo, Move, Jump, MoveTo, Insert, disk
        <3>3. CASE Save \/ AnswerYes
            BY <3>3 DEF Save, AnswerYes, BeginSave, Reading, disk
        <3>4. CASE NameGiven \/ NameRefused \/ Cancel \/ AskAgain \/ Hangup
            BY <3>4 DEF NameGiven, NameRefused, Cancel, AskAgain, Hangup, vars, disk,
                        Core, Saver
        <3>5. CASE Exit
            BY <3>5 DEF Exit, Gone, disk
        <3>6. CASE AnswerNo \/ EndOfInput \/ Crash
            BY <3>6 DEF AnswerNo, EndOfInput, Crash, Gone, disk
        <3>7. CASE Open \/ OpenUnread
            BY <3>7 DEF Open, OpenUnread, StartWith, disk
        <3>8. CASE OpenFails \/ WriteFails
            BY <3>8 DEF OpenFails, WriteFails, disk, Core, Saver
        <3> QED
            BY <1>4, <3>1, <3>2, <3>3, <3>4, <3>5, <3>6, <3>7, <3>8 DEF HNext, Next, SaveStep
    <2>3. ASSUME pc' \in {"edit", "exit", "name", "off"} PROVE Quiet
        BY <2>1, <2>2, <2>3 DEF Quiet
    <2>4. ASSUME pc' = pc /\ backed' = backed PROVE Quiet
        BY <2>1, <2>2, <2>4 DEF Quiet
    <2>5. ASSUME pc' = "backup" /\ pc # "backup" PROVE Quiet
        BY <2>1, <2>2, <2>5 DEF Quiet
    <2>6. Quiet
        BY <2>2, <2>3, <2>4, <2>5
    <2> QED
        BY <2>6, SaveInvQuiet
<1> QED
    BY <1>1, <1>2, <1>3, <1>4

\* "A bad save is always recoverable", as long as it is the first since the
\* file was whole and FILE~ could be made: for every file and text, and however
\* many lines each write takes.
THEOREM OneBadSaveRecoverableHolds == HSpec => []OneBadSaveRecoverable
<1>1. SaveInv => OneBadSaveRecoverable
    BY DEF SaveInv
<1> QED
    BY <1>1, SaveInvInit, SaveInvStep, HCore, PTL DEF HSpec, hvars

-----------------------------------------------------------------------------
(* The way back by undo                                                    *)

\* An open run has its snapshot.
RunHasSnapshot == u_kind # "none" => ustack # <<>>

UndoInv == RunHasSnapshot /\ UndoReachesTheStart

\* The text undo ends at.
Bottom == IF ustack = <<>> THEN buf.L ELSE ustack[1].buf.L

LEMMA EditReaches ==
    ASSUME Core, UndoInv, pc = "edit", pc' = "edit", ~ undo, ~ Forgets,
           NEW kind \in Kinds, NEW run, push_undo(kind, run), run \in {u_kind, "none"}
    PROVE  RunHasSnapshot' /\ Bottom' = Bottom
<1> DEFINE t == Trimmed(ustack, Snapshot)
<1>1. ustack \in Seq(SoundSnapshots) /\ Snapshot \in SoundSnapshots /\ Snapshot.buf = buf
    BY DEF Core, Text, StackSound, Snapshot, Snapshots, SoundSnapshots, Sound
<1>2. /\ t \in Seq(SoundSnapshots) /\ Len(t) \in 0 .. Len(ustack)
      /\ Len(t) = Len(ustack) => t = ustack
      /\ Len(ustack) \in Nat
    BY <1>1, TrimmedIn, LenProperties
<1> HIDE DEF t
<1>3. "none" \notin Kinds
    BY DEF Kinds
<1>4. CASE kind = run /\ buf.cy = u_line
    <2>1. ustack' = ustack /\ u_kind' = run /\ run = u_kind /\ run # "none"
        BY <1>3, <1>4 DEF push_undo
    <2>2. ustack # <<>>
        BY <2>1 DEF UndoInv, RunHasSnapshot
    <2> QED
        BY <2>1, <2>2 DEF RunHasSnapshot, Bottom
<1>5. CASE ustack' = Append(t, Snapshot)
    <2>1. /\ Len(ustack') = Len(t) + 1 /\ ustack' # <<>>
          /\ \A i \in 1 .. Len(t) : ustack'[i] = t[i]
          /\ ustack'[Len(t) + 1] = Snapshot
        BY <1>1, <1>2, <1>5, AppendProperties
    <2>2. ustack' = ustack \/ Len(t) = Len(ustack)
        BY <1>2, <2>1 DEF Forgets
    <2>3. CASE ustack' = ustack
        BY <2>1, <2>3 DEF RunHasSnapshot, Bottom
    <2>4. CASE Len(t) = Len(ustack)
        <3>1. t = ustack
            BY <1>2, <2>4
        <3>2. ustack = <<>> => ustack'[1] = Snapshot
            <4> SUFFICES ASSUME ustack = <<>> PROVE ustack'[1] = Snapshot
                OBVIOUS
            <4>1. Len(t) + 1 = 1
                BY <3>1, EmptySeq
            <4> QED
                BY <2>1, <4>1
        <3>3. ustack # <<>> => ustack'[1] = ustack[1]
            BY <1>1, <1>2, <2>1, <3>1, EmptySeq
        <3> QED
            BY <1>1, <2>1, <3>2, <3>3 DEF RunHasSnapshot, Bottom
    <2> QED
        BY <2>2, <2>3, <2>4
<1>6. CASE ustack' \in {ustack, t} /\ u_kind' = "none"
    <2>1. ustack' = ustack
        BY <1>2, <1>6 DEF Forgets
    <2>2. buf'.L = buf.L
        BY <1>6, <2>1 DEF Forgets
    <2> QED
        BY <1>6, <2>1, <2>2 DEF RunHasSnapshot, Bottom
<1> QED
    BY <1>4, <1>5, <1>6 DEF push_undo, t

LEMMA UndoReaches ==
    ASSUME Core, undo PROVE RunHasSnapshot' /\ Bottom' = Bottom
<1> DEFINE n == Len(ustack)
           s == ustack[n]
<1>1. ustack \in Seq(SoundSnapshots) /\ ustack # <<>>
    BY DEF Core, Text, StackSound, undo
<1>2. /\ ustack' = SubSeq(ustack, 1, n - 1) /\ buf' = clamp_cursor(s.buf)
      /\ u_kind' = "none"
    BY DEF undo
<1>3. /\ ustack' \in Seq(SoundSnapshots) /\ Len(ustack') = n - 1 /\ n \in Nat \ {0}
      /\ \A i \in 1 .. n - 1 : ustack'[i] = ustack[i]
      /\ s \in SoundSnapshots
    BY <1>1, <1>2, PoppedIn
<1>4. Sound(s.buf)
    BY <1>3 DEF SoundSnapshots, Snapshots, Sound
<1>5. buf' = s.buf
    BY <1>2, <1>4, ClampSound
<1>6. CASE n = 1
    <2>1. ustack' = <<>>
        BY <1>3, <1>6, EmptySeq
    <2> QED
        BY <1>1, <1>2, <1>5, <1>6, <2>1 DEF Bottom, RunHasSnapshot
<1>7. CASE n # 1
    <2>1. 1 \in 1 .. n - 1 /\ ustack' # <<>>
        BY <1>3, <1>7, EmptySeq
    <2> QED
        BY <1>1, <1>2, <1>3, <2>1 DEF Bottom, RunHasSnapshot
<1> QED
    BY <1>6, <1>7

LEMMA UndoInvStep == Core /\ UndoInv /\ [HNext]_hvars => UndoInv'
<1> SUFFICES ASSUME Core, UndoInv, [HNext]_hvars PROVE UndoInv'
    OBVIOUS
<1>1. CASE UNCHANGED hvars
    BY <1>1 DEF UndoInv, RunHasSnapshot, UndoReachesTheStart, Session, hvars, vars, history
<1>2. CASE HNext /\ Starts
    BY <1>2 DEF Starts, Open, OpenUnread, StartWith, HNext, UndoInv, RunHasSnapshot,
                UndoReachesTheStart
<1>3. CASE HNext /\ ~ Starts
    <2>1. Next /\ orig' = orig /\ (~ dropped' => ~ dropped /\ ~ Forgets)
        BY <1>3 DEF HNext
    <2>2. ASSUME pc # "off", RunHasSnapshot', ~ dropped' => Bottom' = Bottom
          PROVE  UndoInv'
        BY <2>1, <2>2 DEF UndoInv, UndoReachesTheStart, Session, Bottom
    <2>3. ASSUME pc # "off", UNCHANGED <<buf, ustack>>, u_kind' \in {u_kind, "none"}
          PROVE  UndoInv'
        BY <2>2, <2>3 DEF UndoInv, RunHasSnapshot, Bottom
    <2>4. ASSUME Gone PROVE UndoInv'
        BY <2>4 DEF Gone, UndoInv, RunHasSnapshot, UndoReachesTheStart, Session
    <2>5. CASE undo
        BY <2>2, <2>5, UndoReaches DEF undo, Reading
    <2>6. CASE ~ undo /\ (TypeChar \/ Enter \/ Backspace \/ Delete \/ Cut \/ Paste
                            \/ InsertFile)
        <3>1. PICK kind \in Kinds, run \in {u_kind, "none"} : push_undo(kind, run)
            BY <2>6 DEF TypeChar, Enter, Backspace, Delete, Cut, Paste, InsertFile, EditTo,
                        Kinds
        <3>2. pc = "edit" /\ pc' = "edit"
            BY <2>6 DEF TypeChar, Enter, Backspace, Delete, Cut, Paste, InsertFile, EditTo,
                        Reading
        <3>3. ~ Forgets => RunHasSnapshot' /\ Bottom' = Bottom
            BY <2>6, <3>1, <3>2, EditReaches
        <3>4. RunHasSnapshot'
            <4>1. \/ ustack' = ustack /\ u_kind' = u_kind
                  \/ u_kind' = "none"
                  \/ ustack' = Append(Trimmed(ustack, Snapshot), Snapshot)
                BY <3>1 DEF push_undo
            <4>2. Append(Trimmed(ustack, Snapshot), Snapshot) # <<>>
                <5>1. Snapshot \in SoundSnapshots /\ ustack \in Seq(SoundSnapshots)
                    BY DEF Core, Text, StackSound, Snapshot, Snapshots, SoundSnapshots, Sound
                <5>2. Trimmed(ustack, Snapshot) \in Seq(SoundSnapshots)
                    BY <5>1, TrimmedIn
                <5> QED
                    BY <5>1, <5>2, AppendProperties
            <4> QED
                BY <4>1, <4>2 DEF RunHasSnapshot, UndoInv
        <3> QED
            BY <2>1, <2>2, <3>2, <3>3, <3>4
    <2>7. CASE Move \/ Jump
        <3>1. /\ pc = "edit" /\ pc' = "edit" /\ ustack' = ustack /\ u_kind' = "none"
            BY <2>7 DEF Move, Jump, MoveTo, Reading
        <3>2. ~ undo /\ ~ Forgets => buf'.L = buf.L
            BY <3>1 DEF Forgets
        <3>3. ~ Forgets => Bottom' = Bottom
            BY <3>1, <3>2, UndoReaches DEF Bottom
        <3> QED
            BY <2>1, <2>2, <3>1, <3>3 DEF RunHasSnapshot
    <2>8. CASE Insert \/ Save \/ AnswerYes \/ Cancel \/ NameGiven \/ NameRefused
                  \/ AskAgain \/ Hangup
        BY <2>3, <2>8 DEF Insert, Save, AnswerYes, BeginSave, Cancel, NameGiven, NameRefused,
                          AskAgain, Hangup, Reading, text, vars
    <2>9. CASE Exit
        BY <2>3, <2>4, <2>9 DEF Exit, Reading
    <2>10. CASE AnswerNo \/ EndOfInput \/ Crash
        BY <2>4, <2>10 DEF AnswerNo, EndOfInput, Crash
    <2>11. CASE SaveDone
        BY <2>3, <2>4, <2>11 DEF SaveDone
    <2>12. CASE BackupSkipped \/ BackupOpen \/ BackupWrite \/ BackupFails \/ Truncate
                   \/ OpenFails \/ WriteLines \/ WriteFails
        BY <2>3, <2>12 DEF BackupSkipped, BackupOpen, BackupWrite, BackupFails, Truncate,
                           OpenFails, WriteLines, WriteFails, saving, text
    <2> QED
        BY <1>3, <2>1, <2>5, <2>6, <2>7, <2>8, <2>9, <2>10, <2>11, <2>12
           DEF Next, SaveStep, Starts
<1> QED
    BY <1>1, <1>2, <1>3

\* With nothing dropped, undo leads back to the text as it was opened: however
\* edits coalesce and whatever is saved in between.
THEOREM UndoReachesTheStartHolds == HSpec => []UndoReachesTheStart
<1>1. HInit => UndoInv
    BY DEF HInit, Init, UndoInv, RunHasSnapshot, UndoReachesTheStart, Session
<1>2. UndoInv => UndoReachesTheStart
    BY DEF UndoInv
<1> QED
    BY <1>1, <1>2, UndoInvStep, HCore, PTL DEF HSpec, hvars

-----------------------------------------------------------------------------
(* Unmodified means saved                                                  *)

OfFile(L) == L = load(file.lines)

\* While no save has succeeded in this session, a snapshot that undo would mark
\* unmodified is the text of the file too.
CleanInv ==
    /\ pc = "name" => ~ named
    /\ pc \in {"edit", "exit"} /\ named /\ ~ astray =>
        /\ ~ dirty => OfFile(buf.L)
        /\ ~ wrote => \A i \in 1 .. Len(ustack) :
                            ~ ustack[i].dirty => OfFile(ustack[i].buf.L)

\* Snapshots that are marked modified or hold the text of the file.
Honest == {s \in SoundSnapshots : ~ s.dirty => OfFile(s.buf.L)}

LEMMA HonestStack ==
    ASSUME NEW st \in Seq(SoundSnapshots)
    PROVE  st \in Seq(Honest)
             <=> \A i \in 1 .. Len(st) : ~ st[i].dirty => OfFile(st[i].buf.L)
<1>1. ASSUME st \in Seq(Honest)
      PROVE  \A i \in 1 .. Len(st) : ~ st[i].dirty => OfFile(st[i].buf.L)
    <2>1. \A i \in 1 .. Len(st) : st[i] \in Honest
        BY <1>1, ElementOfSeq
    <2> QED
        BY <2>1 DEF Honest
<1>2. ASSUME \A i \in 1 .. Len(st) : ~ st[i].dirty => OfFile(st[i].buf.L)
      PROVE  st \in Seq(Honest)
    <2>1. \A i \in 1 .. Len(st) : st[i] \in SoundSnapshots
        BY ElementOfSeq
    <2>2. \A i \in 1 .. Len(st) : st[i] \in Honest
        BY <1>2, <2>1 DEF Honest
    <2>3. Len(st) \in Nat /\ st \in [1 .. Len(st) -> SoundSnapshots]
        BY LenProperties
    <2>4. st \in [1 .. Len(st) -> Honest]
        BY <2>2, <2>3
    <2> QED
        BY <2>3, <2>4, SeqDef
<1> QED
    BY <1>1, <1>2

LEMMA EditClean ==
    ASSUME Core, CleanInv, pc = "edit", pc' = "edit", dirty' = TRUE,
           named' = named, file' = file, astray' <=> astray, wrote' <=> wrote,
           NEW kind, NEW run, push_undo(kind, run), StackSound(ustack')
    PROVE  CleanInv'
<1> SUFFICES ASSUME named, ~ astray, ~ wrote
             PROVE  \A i \in 1 .. Len(ustack') : ~ ustack'[i].dirty => OfFile(ustack'[i].buf.L)
    BY DEF CleanInv, OfFile
<1>1. /\ ustack \in Seq(SoundSnapshots) /\ Snapshot \in SoundSnapshots
      /\ Snapshot.buf = buf /\ Snapshot.dirty = dirty
    BY DEF Core, Text, StackSound, Snapshot, Snapshots, SoundSnapshots, Sound
<1>2. ustack \in Seq(Honest)
    BY <1>1, HonestStack DEF CleanInv
<1>3. Snapshot \in Honest
    BY <1>1 DEF CleanInv, Honest
<1>4. Trimmed(ustack, Snapshot) \in Seq(Honest)
    BY <1>2, TrimmedIn
<1>5. Append(Trimmed(ustack, Snapshot), Snapshot) \in Seq(Honest)
    BY <1>3, <1>4, AppendProperties
<1>6. ustack' \in Seq(Honest)
    BY <1>2, <1>4, <1>5 DEF push_undo
<1>7. ustack' \in Seq(SoundSnapshots)
    BY DEF StackSound
<1> QED
    BY <1>6, <1>7, HonestStack

LEMMA UndoClean ==
    ASSUME Core, CleanInv, undo, wrote' <=> wrote, astray' <=> astray \/ wrote
    PROVE  CleanInv'
<1> DEFINE n == Len(ustack)
           s == ustack[n]
<1>1. /\ pc = "edit" /\ pc' = "edit" /\ named' = named /\ file' = file
      /\ ustack # <<>> /\ buf' = clamp_cursor(s.buf) /\ dirty' = s.dirty
      /\ ustack' = SubSeq(ustack, 1, n - 1)
    BY DEF undo, Reading, disk
<1> SUFFICES ASSUME named, ~ astray, ~ wrote
             PROVE  /\ ~ dirty' => OfFile(buf'.L)
                    /\ \A i \in 1 .. Len(ustack') :
                            ~ ustack'[i].dirty => OfFile(ustack'[i].buf.L)
    BY <1>1 DEF CleanInv, OfFile
<1>2. ustack \in Seq(SoundSnapshots)
    BY DEF Core, Text, StackSound
<1>3. ustack \in Seq(Honest)
    BY <1>1, <1>2, HonestStack DEF CleanInv
<1>4. s \in Honest /\ ustack' \in Seq(Honest)
    BY <1>1, <1>3, PoppedIn
<1>5. ustack' \in Seq(SoundSnapshots)
    BY <1>1, <1>2, PoppedIn
<1>6. Sound(s.buf)
    BY <1>4 DEF Honest, SoundSnapshots, Snapshots, Sound
<1>7. buf' = s.buf
    BY <1>1, <1>6, ClampSound
<1> QED
    BY <1>1, <1>4, <1>5, <1>7, HonestStack DEF Honest

\* A move of the cursor leaves the text alone.
LEMMA MoveKeepsText ==
    ASSUME Core, Move \/ Jump
    PROVE  /\ buf'.L = buf.L
           /\ pc = "edit" /\ UNCHANGED <<pc, dirty, ustack, named, file>>
<1>1. PICK b \in Moves \cup Jumps : MoveTo(b)
    BY DEF Move, Jump
<1>2. Sound(b)
    BY MovesSound DEF Core, Text
<1>3. buf' = b
    BY <1>1, <1>2, ClampSound DEF MoveTo, Becomes
<1>4. buf \in Buffer
    BY DEF Core, Text, Sound
<1>5. \A cy, cx : At(buf, cy, cx).L = buf.L
    BY <1>4 DEF At, Buffer
<1>6. \A dy : move_vert(buf, dy).L = buf.L
    BY <1>4 DEF move_vert, Buffer
<1>7. /\ move_left(buf).L = buf.L /\ move_right(buf).L = buf.L
      /\ Home(buf).L = buf.L /\ End(buf).L = buf.L
    BY <1>5 DEF move_left, move_right, Home, End
<1>8. \A v : goto_line(buf, v).L = buf.L
    BY <1>5 DEF goto_line
<1>9. \A n : search(buf, n).L = buf.L
    BY <1>5 DEF search
<1>10. b.L = buf.L
    BY <1>6, <1>7, <1>8, <1>9 DEF Moves, Jumps
<1> QED
    BY <1>1, <1>3, <1>10 DEF MoveTo, Move, Jump, Reading, disk

\* What an edit does to all but the text and the cut text.
LEMMA EditKeepsFile ==
    ASSUME Core, TypeChar \/ Enter \/ Backspace \/ Delete \/ Cut \/ Paste \/ InsertFile
    PROVE  /\ pc = "edit" /\ pc' = "edit" /\ dirty' = TRUE
           /\ named' = named /\ file' = file
           /\ \E kind \in Kinds : \E run : push_undo(kind, run)
    BY DEF TypeChar, Enter, Backspace, Delete, Cut, Paste, InsertFile, EditTo, Kinds,
           Reading, disk

\* A step of a session that leaves the text and the file alone.
Resting ==
    /\ UNCHANGED <<dirty, ustack, named, file>>
    /\ buf'.L = buf.L
    /\ pc \in {"edit", "exit"} \/ ~ named
    /\ pc' = "name" => ~ named

LEMMA RestingClean ==
    ASSUME CleanInv, Resting, wrote' <=> wrote, astray' <=> astray PROVE CleanInv'
    BY DEF CleanInv, Resting, OfFile

LEMMA CleanStep == Core /\ Core' /\ CleanInv /\ [HNext]_hvars => CleanInv'
<1> SUFFICES ASSUME Core, Core', CleanInv, [HNext]_hvars PROVE CleanInv'
    OBVIOUS
<1>1. CASE UNCHANGED hvars
    BY <1>1 DEF CleanInv, OfFile, hvars, vars, history
<1>2. CASE HNext /\ Starts
    <2>1. /\ dirty' = FALSE /\ ustack' = <<>> /\ pc' = "edit" /\ file' = file
          /\ OpenUnread => astray'
          /\ ~ OpenUnread /\ named' => buf' = Fresh(file.lines)
        BY <1>2 DEF Starts, Open, OpenUnread, StartWith, HNext, disk
    <2>2. Fresh(file.lines).L = load(file.lines)
        BY DEF Fresh
    <2> QED
        BY <2>1, <2>2, EmptySeq DEF CleanInv, OfFile
<1>3. CASE HNext /\ SaveDone /\ ~ Starts
    <2>1. \/ pc' = "off"
          \/ pc' = "edit" /\ buf' = buf /\ wrote' /\ file' = file /\ file.lines = buf.L
        BY <1>3 DEF SaveDone, HNext, Gone, disk
    <2>2. Len(buf.L) # 0
        <3>1. buf.cy \in 1 .. Len(buf.L) /\ Len(buf.L) \in Nat
            BY Pieces DEF Core, Text
        <3> QED
            BY <3>1
    <2>3. load(buf.L) = buf.L
        BY <2>2, EmptySeq DEF load
    <2> QED
        BY <2>1, <2>3 DEF CleanInv, OfFile
<1>4. CASE HNext /\ ~ Starts /\ ~ SaveDone
    <2>1. /\ Next
          /\ wrote' <=> wrote
          /\ astray' <=> (astray \/ (undo /\ wrote) \/ Failed)
        BY <1>4 DEF HNext
    <2>2. pc \notin {"trunc", "write"} => ~ Failed
        BY DEF Failed, OpenFails, WriteFails
    <2>3. ASSUME pc' \in {"off", "backup", "copy", "trunc", "write"} PROVE CleanInv'
        BY <2>3 DEF CleanInv
    <2>4. ASSUME Resting, ~ undo, pc \notin {"trunc", "write"} PROVE CleanInv'
        BY <2>1, <2>2, <2>4, RestingClean
    <2>5. CASE undo
        BY <2>1, <2>2, <2>5, UndoClean DEF undo, Reading
    <2>6. CASE ~ undo /\ (TypeChar \/ Enter \/ Backspace \/ Delete \/ Cut \/ Paste
                            \/ InsertFile)
        <3>1. StackSound(ustack')
            BY DEF Core, Text
        <3>2. /\ pc = "edit" /\ pc' = "edit" /\ dirty' = TRUE
              /\ named' = named /\ file' = file
              /\ \E kind \in Kinds : \E run : push_undo(kind, run)
            BY <2>6, EditKeepsFile
        <3>3. astray' <=> astray
            BY <2>1, <2>2, <2>6, <3>2
        <3> QED
            BY <2>1, <3>1, <3>2, <3>3, EditClean
    <2>7. CASE ~ undo /\ (Move \/ Jump)
        <3>1. Resting /\ pc = "edit"
            BY <2>7, MoveKeepsText DEF Resting
        <3> QED
            BY <2>4, <2>7, <3>1
    <2>8. CASE ~ undo /\ (Insert \/ Cancel \/ NameRefused \/ AskAgain)
        <3>1. /\ UNCHANGED <<dirty, ustack, named, file, buf>>
              /\ pc \in {"edit", "exit", "name"} /\ pc' # "name"
            BY <2>8 DEF Insert, Cancel, NameRefused, AskAgain, Reading, text, disk, vars,
                        Core, Saver
        <3>2. Resting
            BY <3>1 DEF Resting, CleanInv
        <3> QED
            BY <2>4, <2>8, <3>1, <3>2
    <2>9. CASE ~ undo /\ (Save \/ AnswerYes)
        <3>1. /\ UNCHANGED <<dirty, ustack, named, file, buf>>
              /\ pc \in {"edit", "exit"} /\ (pc' = "name" => ~ named)
            BY <2>9 DEF Save, AnswerYes, BeginSave, Reading, disk
        <3>2. Resting
            BY <3>1 DEF Resting
        <3> QED
            BY <2>4, <2>9, <3>1, <3>2
    <2>10. CASE ~ undo /\ Exit
        <3>1. CASE Gone
            BY <2>3, <3>1 DEF Gone
        <3>2. CASE ~ Gone
            <4>1. /\ UNCHANGED <<dirty, ustack, named, file, buf>>
                  /\ pc = "edit" /\ pc' = "exit"
                BY <2>10, <3>2 DEF Exit, Reading, disk
            <4>2. Resting
                BY <4>1 DEF Resting
            <4> QED
                BY <2>4, <2>10, <4>1, <4>2
        <3> QED
            BY <3>1, <3>2
    <2>11. CASE ~ undo /\ Hangup
        <3>1. UNCHANGED <<dirty, ustack, named, file, buf, pc>>
            BY <2>11 DEF Hangup, text, disk
        <3>2. CASE pc \in {"edit", "exit", "name"}
            <4>1. Resting
                BY <3>1, <3>2 DEF Resting, CleanInv
            <4> QED
                BY <2>4, <2>11, <3>2, <4>1
        <3>3. CASE pc \notin {"edit", "exit", "name"}
            BY <3>1, <3>3, <2>3 DEF Core, Saver
        <3> QED
            BY <3>2, <3>3
    <2>12. CASE NameGiven \/ AnswerNo \/ EndOfInput \/ Crash
        BY <2>3, <2>12 DEF NameGiven, AnswerNo, EndOfInput, Crash, Gone
    <2>13. CASE BackupSkipped \/ BackupOpen \/ BackupWrite \/ BackupFails \/ Truncate
                   \/ WriteLines
        BY <2>3, <2>13 DEF BackupSkipped, BackupOpen, BackupWrite, BackupFails, Truncate,
                           WriteLines
    <2>14. CASE OpenFails \/ WriteFails
        <3>1. astray' /\ pc' # "name"
            BY <2>1, <2>14 DEF Failed, OpenFails, WriteFails, Core, Saver
        <3> QED
            BY <3>1 DEF CleanInv
    <2> QED
        BY <1>4, <2>1, <2>5, <2>6, <2>7, <2>8, <2>9, <2>10, <2>11, <2>12, <2>13, <2>14
           DEF Next, SaveStep, Starts
<1> QED
    BY <1>1, <1>2, <1>3, <1>4

\* A buffer that is not marked modified holds the text of the file: for every
\* file and every order of edits, undos, saves and failures.
THEOREM CleanMeansSavedHolds == HSpec => []CleanMeansSaved
<1>1. HInit => CleanInv
    BY DEF HInit, Init, CleanInv
<1>2. CleanInv => CleanMeansSaved
    BY DEF CleanInv, CleanMeansSaved, OfFile
<1> QED
    BY <1>1, <1>2, CleanStep, HCore, PTL DEF HSpec, hvars
=============================================================================
