----------------------------- MODULE MkfsProofs -----------------------------
(***************************************************************************)
(* The makers of file systems, for devices of every size: the probe finds  *)
(* the end of the device, the geometry fits it, and what was written is a  *)
(* volume whose parts agree.                                               *)
(***************************************************************************)
EXTENDS Mkfs, SequenceTheorems, FiniteSetTheorems, WellFoundedInduction, TLAPS

-----------------------------------------------------------------------------
(* Induction, which here means that a set of naturals with 0 and with      *)
(* every successor of its members leaves no least number out.              *)

LEMMA LeastOf ==
  ASSUME NEW Z \in SUBSET Nat, Z # {}
  PROVE  \E k \in Z : \A y \in Z : k <= y
<1>1. PICK k \in Z : \A y \in Z : ~ (<<y, k>> \in OpToRel(<, Nat))
  BY NatLessThanWellFounded, WFMin
<1>2. \A y \in Z : ~ (y < k)
  BY <1>1 DEF OpToRel
<1>3. \A y \in Z : k <= y
  BY <1>2
<1> QED
  BY <1>3

LEMMA SetInduction ==
  ASSUME NEW Z, 0 \in Z, \A n \in Nat : n \in Z => n + 1 \in Z
  PROVE  \A n \in Nat : n \in Z
<1> DEFINE Out == Nat \ Z
<1>1. ASSUME Out # {} PROVE FALSE
  <2>1. PICK k \in Out : \A y \in Out : k <= y
    BY <1>1, LeastOf
  <2>2. k # 0 /\ k - 1 \in Nat /\ (k - 1) + 1 = k
    BY <2>1
  <2>3. k - 1 \in Z
    BY <2>1, <2>2
  <2> QED
    BY <2>1, <2>2, <2>3
<1> QED
  BY <1>1

-----------------------------------------------------------------------------
(* The probe                                                               *)

\* the sectors that can be read are those in front of End
Reach(d) == IF d.sectors <= MaxLba THEN d.sectors ELSE MaxLba + 1

\* the equation of double
DoubleStep(d, f, hi) ==
  IF ~rd512(d, hi) THEN <<hi \div 2, hi>>
  ELSE IF hi > MaxLba \div 2 THEN <<hi, MaxLba>>
  ELSE f[2 * hi]
Doubles(d, f) == f = [hi \in 1..(2 * MaxLba) |-> DoubleStep(d, f, hi)]

\* an f that satisfies it from 2 * MaxLba - m on
DoublesFrom(d, f, m) ==
  /\ f = [hi \in 1..(2 * MaxLba) |-> f[hi]]
  /\ \A hi \in 1..(2 * MaxLba) : 2 * MaxLba - hi <= m => f[hi] = DoubleStep(d, f, hi)

LEMMA DoubleExists == ASSUME NEW d PROVE \E f : Doubles(d, f)
<1> DEFINE D == 1..(2 * MaxLba)
           Z == {m \in Nat : \E f : DoublesFrom(d, f, m)}
<1>0. MaxLba \in Nat \ {0}
  BY DeviceAssumption
<1>1. 0 \in Z
  <2> DEFINE f == [hi \in D |-> DoubleStep(d, <<>>, hi)]
  <2>1. ASSUME NEW hi \in D, 2 * MaxLba - hi <= 0 PROVE f[hi] = DoubleStep(d, f, hi)
    <3>1. hi = 2 * MaxLba /\ hi > MaxLba \div 2
      BY <1>0, <2>1
    <3> QED
      BY <3>1 DEF DoubleStep
  <2>2. f = [hi \in D |-> f[hi]]
    OBVIOUS
  <2> HIDE DEF f
  <2>3. DoublesFrom(d, f, 0)
    BY <2>1, <2>2 DEF DoublesFrom
  <2> QED
    BY <2>3
<1>2. ASSUME NEW m \in Nat, m \in Z PROVE m + 1 \in Z
  <2>1. PICK f : DoublesFrom(d, f, m)
    BY <1>2
  <2> DEFINE h == [hi \in D |-> DoubleStep(d, f, hi)]
  <2>2. ASSUME NEW hi \in D, 2 * MaxLba - hi <= m + 1 PROVE h[hi] = DoubleStep(d, h, hi)
    <3>1. h[hi] = DoubleStep(d, f, hi)
      OBVIOUS
    <3>2. CASE hi > MaxLba \div 2 \/ ~rd512(d, hi)
      BY <3>1, <3>2 DEF DoubleStep
    <3>3. CASE ~(hi > MaxLba \div 2) /\ rd512(d, hi)
      <4>1. 2 * hi \in D /\ 2 * MaxLba - 2 * hi <= m
        BY <1>0, <2>2, <3>3
      <4>2. f[2 * hi] = DoubleStep(d, f, 2 * hi)
        BY <2>1, <4>1 DEF DoublesFrom
      <4>3. h[2 * hi] = f[2 * hi]
        BY <4>1, <4>2
      <4> HIDE DEF h
      <4> QED
        BY <3>1, <3>3, <4>3 DEF DoubleStep
    <3> QED
      BY <3>2, <3>3
  <2>3. h = [hi \in D |-> h[hi]]
    OBVIOUS
  <2> HIDE DEF h
  <2>4. DoublesFrom(d, h, m + 1)
    BY <2>2, <2>3 DEF DoublesFrom
  <2> QED
    BY <2>4
<1>3. 2 * MaxLba \in Nat
  BY <1>0
<1> HIDE DEF Z
<1>4. 2 * MaxLba \in Z
  BY <1>1, <1>2, <1>3, SetInduction
<1>5. PICK f : DoublesFrom(d, f, 2 * MaxLba)
  BY <1>4 DEF Z
<1>6. \A hi \in D : f[hi] = DoubleStep(d, f, hi)
  BY <1>0, <1>5 DEF DoublesFrom
<1>7. f = [hi \in D |-> f[hi]]
  BY <1>5 DEF DoublesFrom
<1> QED
  BY <1>6, <1>7 DEF Doubles

\* where the doubling stops: at a sector that can be read and one that cannot,
\* or at the cap
Brackets(d, pair) ==
  /\ pair = <<pair[1], pair[2]>>
  /\ pair[1] \in 0..MaxLba /\ pair[2] \in 1..MaxLba /\ pair[1] <= pair[2]
  /\ rd512(d, pair[1])
  /\ rd512(d, pair[2]) => pair[2] = MaxLba

LEMMA DoubleBrackets ==
  ASSUME NEW d, rd512(d, 0), NEW f, Doubles(d, f)
  PROVE  Brackets(d, f[1])
<1> DEFINE Z == {m \in Nat : \A hi \in 1..MaxLba :
                   MaxLba - hi <= m /\ rd512(d, hi \div 2) => Brackets(d, f[hi])}
<1>0. MaxLba \in Nat \ {0}
  BY DeviceAssumption
<1>1. ASSUME NEW hi \in 1..MaxLba PROVE f[hi] = DoubleStep(d, f, hi)
  <2>1. hi \in 1..(2 * MaxLba)
    BY <1>0
  <2> QED
    BY <2>1 DEF Doubles
<1>2. ASSUME NEW hi \in 1..MaxLba, rd512(d, hi \div 2),
             ~rd512(d, hi) \/ hi > MaxLba \div 2
      PROVE  Brackets(d, f[hi])
  <2>1. hi \div 2 \in 0..MaxLba /\ hi \div 2 <= hi
    BY <1>0
  <2>2. CASE ~rd512(d, hi)
    <3>1. f[hi] = <<hi \div 2, hi>>
      BY <1>1, <2>2 DEF DoubleStep
    <3> QED
      BY <1>2, <2>1, <2>2, <3>1 DEF Brackets
  <2>3. CASE rd512(d, hi)
    <3>1. f[hi] = <<hi, MaxLba>>
      BY <1>1, <1>2, <2>3 DEF DoubleStep
    <3>2. hi \in 0..MaxLba /\ MaxLba \in 1..MaxLba /\ hi <= MaxLba
      BY <1>0
    <3> QED
      BY <2>3, <3>1, <3>2 DEF Brackets
  <2> QED
    BY <2>2, <2>3
<1>3. 0 \in Z
  <2>1. ASSUME NEW hi \in 1..MaxLba, MaxLba - hi <= 0 PROVE hi > MaxLba \div 2
    BY <1>0, <2>1
  <2> QED
    BY <1>2, <2>1
<1>4. ASSUME NEW m \in Nat, m \in Z PROVE m + 1 \in Z
  <2> SUFFICES ASSUME NEW hi \in 1..MaxLba, MaxLba - hi <= m + 1, rd512(d, hi \div 2)
               PROVE  Brackets(d, f[hi])
    OBVIOUS
  <2>1. CASE ~rd512(d, hi) \/ hi > MaxLba \div 2
    BY <1>2, <2>1
  <2>2. CASE rd512(d, hi) /\ ~(hi > MaxLba \div 2)
    <3>1. 2 * hi \in 1..MaxLba /\ MaxLba - 2 * hi <= m /\ (2 * hi) \div 2 = hi
      BY <1>0, <2>2
    <3>2. Brackets(d, f[2 * hi])
      BY <1>4, <2>2, <3>1
    <3>3. f[hi] = f[2 * hi]
      BY <1>1, <2>2 DEF DoubleStep
    <3> QED
      BY <3>2, <3>3
  <2> QED
    BY <2>1, <2>2
<1> HIDE DEF Z
<1>5. MaxLba \in Z
  BY <1>0, <1>3, <1>4, SetInduction
<1>6. 1 \in 1..MaxLba /\ MaxLba - 1 <= MaxLba /\ 1 \div 2 = 0
  BY <1>0
<1> QED
  BY <1>5, <1>6 DEF Z

\* the equation of halve
Pairs == (0..MaxLba) \X (0..MaxLba)
HalveStep(d, f, between) ==
  LET lo  == between[1]
      hi  == between[2]
      mid == lo + (hi - lo) \div 2
  IN  IF hi - lo <= 1 THEN lo + 1
      ELSE IF rd512(d, mid) THEN f[<<mid, hi>>] ELSE f[<<lo, mid>>]
Halves(d, f) == f = [between \in Pairs |-> HalveStep(d, f, between)]

\* an f that satisfies it where at most m sectors lie between
HalvesUpto(d, f, m) ==
  /\ f = [between \in Pairs |-> f[between]]
  /\ \A between \in Pairs : between[2] - between[1] <= m =>
       f[between] = HalveStep(d, f, between)

LEMMA Middle ==
  ASSUME NEW lo \in 0..MaxLba, NEW hi \in 0..MaxLba, hi - lo > 1
  PROVE  LET mid == lo + (hi - lo) \div 2
         IN  mid \in 0..MaxLba /\ mid - lo < hi - lo /\ hi - mid < hi - lo /\ lo < mid /\ mid < hi
  BY DeviceAssumption

LEMMA HalveExists == ASSUME NEW d PROVE \E f : Halves(d, f)
<1> DEFINE Z == {m \in Nat : \E f : HalvesUpto(d, f, m)}
<1>0. MaxLba \in Nat \ {0}
  BY DeviceAssumption
<1>1. 0 \in Z
  <2> DEFINE f == [between \in Pairs |-> between[1] + 1]
  <2>1. ASSUME NEW between \in Pairs, between[2] - between[1] <= 0
        PROVE  f[between] = HalveStep(d, f, between)
    <3>1. between[2] - between[1] <= 1
      BY <1>0, <2>1 DEF Pairs
    <3>2. f[between] = between[1] + 1
      OBVIOUS
    <3> HIDE DEF f
    <3> QED
      BY <3>1, <3>2 DEF HalveStep
  <2>2. f = [between \in Pairs |-> f[between]]
    OBVIOUS
  <2> HIDE DEF f
  <2>3. HalvesUpto(d, f, 0)
    BY <2>1, <2>2 DEF HalvesUpto
  <2> QED
    BY <2>3
<1>2. ASSUME NEW m \in Nat, m \in Z PROVE m + 1 \in Z
  <2>1. PICK f : HalvesUpto(d, f, m)
    BY <1>2
  <2> DEFINE h == [between \in Pairs |-> HalveStep(d, f, between)]
  <2>2. \A between \in Pairs : h[between] = HalveStep(d, f, between)
    OBVIOUS
  <2>3. h = [between \in Pairs |-> h[between]]
    OBVIOUS
  <2> HIDE DEF h
  <2>4. ASSUME NEW p \in Pairs, p[2] - p[1] <= m PROVE h[p] = f[p]
    BY <2>1, <2>2, <2>4 DEF HalvesUpto
  <2>5. ASSUME NEW p \in Pairs, p[2] - p[1] <= m + 1 PROVE h[p] = HalveStep(d, h, p)
    <3> DEFINE lo  == p[1]
               hi  == p[2]
               mid == lo + (hi - lo) \div 2
    <3>1. lo \in 0..MaxLba /\ hi \in 0..MaxLba
      BY DEF Pairs
    <3>2. CASE hi - lo <= 1
      BY <2>2, <3>2 DEF HalveStep
    <3>3. CASE ~(hi - lo <= 1)
      <4>1. hi - lo > 1
        BY <1>0, <3>1, <3>3
      <4>2. mid \in 0..MaxLba /\ mid - lo < hi - lo /\ hi - mid < hi - lo
        BY <3>1, <4>1, Middle
      <4>3. mid - lo <= m /\ hi - mid <= m
        BY <1>0, <2>5, <3>1, <4>2
      <4>4. <<mid, hi>> \in Pairs /\ <<lo, mid>> \in Pairs
        BY <3>1, <4>2 DEF Pairs
      <4> HIDE DEF mid
      <4>5. h[<<mid, hi>>] = f[<<mid, hi>>] /\ h[<<lo, mid>>] = f[<<lo, mid>>]
        <5>1. <<mid, hi>>[2] - <<mid, hi>>[1] <= m /\ <<lo, mid>>[2] - <<lo, mid>>[1] <= m
          BY <4>3
        <5> QED
          BY <2>4, <4>4, <5>1
      <4> QED
        BY <2>2, <4>5 DEF HalveStep, mid
    <3> QED
      BY <3>2, <3>3
  <2>6. HalvesUpto(d, h, m + 1)
    BY <2>3, <2>5 DEF HalvesUpto
  <2> QED
    BY <2>6
<1> HIDE DEF Z
<1>3. MaxLba \in Z
  BY <1>0, <1>1, <1>2, SetInduction
<1>4. PICK f : HalvesUpto(d, f, MaxLba)
  BY <1>3 DEF Z
<1>5. ASSUME NEW p \in Pairs PROVE p[2] - p[1] <= MaxLba
  BY <1>0 DEF Pairs
<1>6. \A p \in Pairs : f[p] = HalveStep(d, f, p)
  BY <1>4, <1>5 DEF HalvesUpto
<1>7. f = [p \in Pairs |-> f[p]]
  BY <1>4 DEF HalvesUpto
<1> QED
  BY <1>6, <1>7 DEF Halves

LEMMA HalveFinds ==
  ASSUME NEW d, d.sectors \in Nat, NEW f, Halves(d, f),
         NEW lo \in 0..MaxLba, NEW hi \in 0..MaxLba, lo <= hi,
         rd512(d, lo), ~rd512(d, hi)
  PROVE  f[<<lo, hi>>] = Reach(d)
<1> DEFINE Z == {m \in Nat : \A x, y \in 0..MaxLba :
                   y - x <= m /\ x <= y /\ rd512(d, x) /\ ~rd512(d, y) => f[<<x, y>>] = Reach(d)}
<1>0. MaxLba \in Nat \ {0}
  BY DeviceAssumption
<1>1. ASSUME NEW x \in 0..MaxLba, NEW y \in 0..MaxLba
      PROVE  f[<<x, y>>] = HalveStep(d, f, <<x, y>>)
  <2>1. <<x, y>> \in Pairs
    BY DEF Pairs
  <2> QED
    BY <2>1 DEF Halves
<1>2. ASSUME NEW x \in 0..MaxLba, NEW y \in 0..MaxLba, y - x <= 1, x <= y,
             rd512(d, x), ~rd512(d, y)
      PROVE  f[<<x, y>>] = Reach(d)
  <2>1. f[<<x, y>>] = x + 1
    BY <1>1, <1>2 DEF HalveStep
  <2>2. d.sectors = x + 1 /\ x + 1 <= MaxLba
    BY <1>0, <1>2 DEF rd512
  <2> QED
    BY <2>1, <2>2 DEF Reach
<1>3. 0 \in Z
  BY <1>2
<1>4. ASSUME NEW m \in Nat, m \in Z PROVE m + 1 \in Z
  <2> SUFFICES ASSUME NEW x \in 0..MaxLba, NEW y \in 0..MaxLba, y - x <= m + 1, x <= y,
                      rd512(d, x), ~rd512(d, y)
               PROVE  f[<<x, y>>] = Reach(d)
    OBVIOUS
  <2>1. CASE y - x <= 1
    BY <1>2, <2>1
  <2>2. CASE ~(y - x <= 1)
    <3> DEFINE mid == x + (y - x) \div 2
    <3>1. y - x > 1
      BY <1>0, <2>2
    <3>2. mid \in 0..MaxLba /\ mid - x < y - x /\ y - mid < y - x /\ x < mid /\ mid < y
      BY <3>1, Middle
    <3>3. f[<<x, y>>] = IF rd512(d, mid) THEN f[<<mid, y>>] ELSE f[<<x, mid>>]
      BY <1>1, <2>2 DEF HalveStep
    <3> HIDE DEF mid
    <3>4. mid - x <= m /\ y - mid <= m /\ x <= mid /\ mid <= y
      BY <1>0, <3>2
    <3> QED
      BY <1>4, <3>2, <3>3, <3>4
  <2> QED
    BY <2>1, <2>2
<1> HIDE DEF Z
<1>5. MaxLba \in Z
  BY <1>0, <1>3, <1>4, SetInduction
<1>6. hi - lo <= MaxLba
  BY <1>0
<1> QED
  BY <1>5, <1>6 DEF Z

LEMMA ProbeIs ==
  ASSUME NEW d
  PROVE  \E f, h : /\ Doubles(d, f) /\ Halves(d, h)
                    /\ probe_capacity(d) =
                         IF ~rd512(d, 0) THEN 0
                         ELSE IF f[1][2] <= MaxLba /\ ~rd512(d, f[1][2])
                              THEN h[<<f[1][1], f[1][2]>>] * Sector
                         ELSE (MaxLba + 1) * Sector
<1> DEFINE f == CHOOSE f : Doubles(d, f)
           h == CHOOSE h : Halves(d, h)
<1>1. Doubles(d, f) /\ Halves(d, h)
  BY DoubleExists, HalveExists
<1>2. probe_capacity(d) =
        IF ~rd512(d, 0) THEN 0
        ELSE IF f[1][2] <= MaxLba /\ ~rd512(d, f[1][2]) THEN h[<<f[1][1], f[1][2]>>] * Sector
        ELSE (MaxLba + 1) * Sector
  BY DEF probe_capacity, Doubles, DoubleStep, Halves, HalveStep, Pairs
<1> HIDE DEF f, h
<1> QED
  BY <1>1, <1>2

\* On a device of any size, and for any last sector the tools can address,
\* the probe (mkfs.ext4/main.c:54) finds the number of sectors that can be
\* used.
THEOREM ProbeFindsTheEnd == \A d \in [reported : Nat, sectors : Nat] : ProbeIsExact(d)
<1> SUFFICES ASSUME NEW d \in [reported : Nat, sectors : Nat] PROVE ProbeIsExact(d)
  OBVIOUS
<1>0. MaxLba \in Nat \ {0} /\ Sector \in Nat \ {0} /\ d.sectors \in Nat
  BY DeviceAssumption
<1>1. PICK f, h : /\ Doubles(d, f) /\ Halves(d, h)
                  /\ probe_capacity(d) =
                       IF ~rd512(d, 0) THEN 0
                       ELSE IF f[1][2] <= MaxLba /\ ~rd512(d, f[1][2])
                            THEN h[<<f[1][1], f[1][2]>>] * Sector
                       ELSE (MaxLba + 1) * Sector
  BY ProbeIs
<1>2. probe_capacity(d) = Reach(d) * Sector
  <2>1. CASE ~rd512(d, 0)
    <3>1. d.sectors = 0 /\ Reach(d) = 0
      BY <1>0, <2>1 DEF rd512, Reach
    <3> QED
      BY <1>0, <1>1, <2>1, <3>1
  <2>2. CASE rd512(d, 0)
    <3> DEFINE lo == f[1][1]
               hi == f[1][2]
    <3>1. /\ lo \in 0..MaxLba /\ hi \in 1..MaxLba /\ lo <= hi
          /\ rd512(d, lo) /\ (rd512(d, hi) => hi = MaxLba)
      BY <1>1, <2>2, DoubleBrackets DEF Brackets
    <3>2. CASE rd512(d, hi)
      <4>1. Reach(d) = MaxLba + 1
        BY <1>0, <3>1, <3>2 DEF rd512, Reach
      <4> QED
        BY <1>1, <2>2, <3>2, <4>1
    <3>3. CASE ~rd512(d, hi)
      <4>1. hi \in 0..MaxLba /\ hi <= MaxLba
        BY <1>0, <3>1
      <4>2. h[<<lo, hi>>] = Reach(d)
        BY <1>0, <1>1, <3>1, <3>3, <4>1, HalveFinds
      <4> QED
        BY <1>1, <2>2, <3>3, <4>1, <4>2
    <3> QED
      BY <3>2, <3>3
  <2> QED
    BY <2>1, <2>2
<1>3. Reach(d) \in Nat /\ Reach(d) * Sector = Sector * Reach(d)
  BY <1>0 DEF Reach
<1> QED
  BY <1>2, <1>3 DEF ProbeIsExact, Reach

LEMMA SizesAreNatural ==
  ASSUME NEW d \in [reported : Nat, sectors : Nat]
  PROVE  SizeOf(d) \in Nat
<1>1. Sector \in Nat /\ Reach(d) \in Nat /\ Sector * Reach(d) \in Nat
  BY DeviceAssumption DEF Reach
<1>2. probe_capacity(d) = Sector * Reach(d)
  BY ProbeFindsTheEnd DEF ProbeIsExact, Reach
<1>3. d.reported \in Nat
  OBVIOUS
<1> QED
  BY <1>1, <1>2, <1>3 DEF SizeOf

-----------------------------------------------------------------------------
(* Division                                                                *)

LEMMA Euclid ==
  ASSUME NEW n \in Int, NEW b \in Nat \ {0}
  PROVE  n = b * (n \div b) + (n % b) /\ n % b \in 0..(b - 1) /\ n \div b \in Int
OBVIOUS

LEMMA Times ==
  ASSUME NEW b \in Nat \ {0}, NEW q \in Int, NEW r \in Int
  PROVE  /\ b * q \in Int
         /\ b * (q + 1) = b * q + b
         /\ q <= r => b * q <= b * r
         /\ b * q < b * r + b => q <= r
<1>1. b * q \in Int /\ b * r \in Int /\ b * (q + 1) = b * q + b /\ b * (r + 1) = b * r + b
  OBVIOUS
<1>2. q <= r => b * q <= b * r
  OBVIOUS
<1>3. ASSUME ~(q <= r) PROVE b * r + b <= b * q
  <2>1. r + 1 <= q
    BY <1>3
  <2>2. b * (r + 1) <= b * q
    BY <2>1
  <2> QED
    BY <1>1, <2>2
<1> QED
  BY <1>1, <1>2, <1>3

LEMMA DivGrows ==
  ASSUME NEW m \in Int, NEW n \in Int, m <= n, NEW b \in Nat \ {0}
  PROVE  m \div b <= n \div b
<1>1. /\ m = b * (m \div b) + (m % b) /\ m % b \in 0..(b - 1) /\ m \div b \in Int
      /\ n = b * (n \div b) + (n % b) /\ n % b \in 0..(b - 1) /\ n \div b \in Int
  BY Euclid
<1>2. b * (m \div b) \in Int /\ b * (n \div b) \in Int
  BY <1>1, Times
<1>3. b * (m \div b) < b * (n \div b) + b
  BY <1>1, <1>2
<1> QED
  BY <1>1, <1>3, Times

LEMMA DivOfNat ==
  ASSUME NEW n \in Nat, NEW b \in Nat \ {0}
  PROVE  n \div b \in Nat /\ b * (n \div b) <= n /\ n < b * (n \div b) + b
<1>1. n = b * (n \div b) + (n % b) /\ n % b \in 0..(b - 1) /\ n \div b \in Int
  BY Euclid
<1>2. 0 \div b = 0 /\ 0 \div b <= n \div b
  BY DivGrows
<1> QED
  BY <1>1, <1>2, Times

LEMMA CeilHolds ==
  ASSUME NEW n \in Nat \ {0}, NEW b \in Nat \ {0}
  PROVE  /\ ceil_div(n, b) \in Nat \ {0}
         /\ n <= b * ceil_div(n, b)
<1>1. n + b - 1 \in Nat /\ b <= n + b - 1
  OBVIOUS
<1> DEFINE q == (n + b - 1) \div b
<1>2. q \in Nat /\ b * q <= n + b - 1 /\ n + b - 1 < b * q + b
  BY <1>1, DivOfNat
<1>3. b * q \in Int /\ (q = 0 => b * q = 0)
  BY <1>2, Times
<1> HIDE DEF q
<1>4. n <= b * q /\ q # 0
  BY <1>2, <1>3
<1> QED
  BY <1>2, <1>4 DEF ceil_div, q

LEMMA CeilGrows ==
  ASSUME NEW m \in Nat, NEW n \in Nat, m <= n, NEW b \in Nat \ {0}
  PROVE  ceil_div(m, b) <= ceil_div(n, b)
<1>1. m + b - 1 \in Int /\ n + b - 1 \in Int /\ m + b - 1 <= n + b - 1
  OBVIOUS
<1> QED
  BY <1>1, DivGrows DEF ceil_div

-----------------------------------------------------------------------------
(* The FAT that holds the clusters it leaves room for                      *)

LEMMA RoomShrinks ==
  ASSUME NEW n \in Nat, NEW i \in Nat, NEW j \in Nat, i <= j
  PROVE  left_by(n, i) \in Int /\ left_by(n, j) \in Int /\ left_by(n, j) <= left_by(n, i)
<1>1. Fats \in Nat \ {0} /\ Reserved \in Nat
  BY Fat32Assumption
<1>2. Fats * i \in Int /\ Fats * j \in Int /\ Fats * i <= Fats * j
  BY <1>1, Times
<1> QED
  BY <1>1, <1>2 DEF left_by

LEMMA NeedIs ==
  ASSUME NEW n \in Nat, NEW c \in Nat \ {0}, NEW i \in Nat, left_by(n, i) > 0
  PROVE  /\ clusters(n, c, i) \in Nat
         /\ need(n, c, i) \in Nat \ {0}
         /\ clusters(n, c, i) + 2 <= PerSector * need(n, c, i)
         /\ c * clusters(n, c, i) <= left_by(n, i)
<1>1. left_by(n, i) \in Nat
  BY RoomShrinks
<1>2. clusters(n, c, i) \in Nat /\ c * clusters(n, c, i) <= left_by(n, i)
  BY <1>1, DivOfNat DEF clusters
<1>3. clusters(n, c, i) + 2 \in Nat \ {0} /\ PerSector \in Nat \ {0}
  BY <1>2, Fat32Assumption
<1> QED
  BY <1>2, <1>3, CeilHolds DEF need

LEMMA NeedShrinks ==
  ASSUME NEW n \in Nat, NEW c \in Nat \ {0}, NEW i \in Nat, NEW j \in Nat, i <= j,
         left_by(n, j) > 0
  PROVE  need(n, c, j) <= need(n, c, i)
<1>1. left_by(n, i) \in Nat /\ left_by(n, j) \in Nat /\ left_by(n, j) <= left_by(n, i)
  BY RoomShrinks
<1>2. clusters(n, c, j) \in Nat /\ clusters(n, c, i) \in Nat
  BY <1>1, DivOfNat DEF clusters
<1>3. clusters(n, c, j) <= clusters(n, c, i)
  BY <1>1, DivGrows DEF clusters
<1>4. /\ clusters(n, c, j) + 2 \in Nat /\ clusters(n, c, i) + 2 \in Nat
      /\ clusters(n, c, j) + 2 <= clusters(n, c, i) + 2 /\ PerSector \in Nat \ {0}
  BY <1>2, <1>3, Fat32Assumption
<1> QED
  BY <1>4, CeilGrows DEF need

\* the equation of grow
GrowStep(n, c, f, nfs) ==
  IF left_by(n, nfs) <= 0 THEN [fs |-> 0, cc |-> 0]
  ELSE IF nfs >= need(n, c, nfs) THEN [fs |-> nfs, cc |-> clusters(n, c, nfs)]
  ELSE f[need(n, c, nfs)]
Grows(n, c, f) == f = [nfs \in Nat |-> GrowStep(n, c, f, nfs)]

\* the second round is the last
Settled(n, c, nfs) ==
  IF left_by(n, nfs) <= 0 THEN [fs |-> 0, cc |-> 0] ELSE [fs |-> nfs, cc |-> clusters(n, c, nfs)]

LEMMA NeedSuffices ==
  ASSUME NEW n \in Nat, NEW c \in Nat \ {0}, NEW i \in Nat, left_by(n, i) > 0,
         ~(i >= need(n, c, i)), NEW f
  PROVE  GrowStep(n, c, f, need(n, c, i)) = Settled(n, c, need(n, c, i))
<1> DEFINE j == need(n, c, i)
<1>1. j \in Nat /\ i <= j
  BY NeedIs
<1>2. CASE left_by(n, j) <= 0
  BY <1>2 DEF GrowStep, Settled
<1>3. CASE ~(left_by(n, j) <= 0)
  <2>1. left_by(n, j) > 0
    BY <1>1, <1>3, RoomShrinks
  <2>2. need(n, c, j) <= need(n, c, i) /\ need(n, c, j) \in Nat
    BY <1>1, <2>1, NeedShrinks, NeedIs
  <2> HIDE DEF j
  <2>3. j >= need(n, c, j)
    BY <1>1, <2>2 DEF j
  <2> QED
    BY <1>3, <2>3 DEF GrowStep, Settled, j
<1> QED
  BY <1>2, <1>3

LEMMA GrowExists ==
  ASSUME NEW n \in Nat, NEW c \in Nat \ {0}
  PROVE  \E f : Grows(n, c, f)
<1> DEFINE none == [nfs \in Nat |-> Settled(n, c, nfs)]
           f == [nfs \in Nat |-> GrowStep(n, c, none, nfs)]
<1>1. ASSUME NEW i \in Nat PROVE f[i] = GrowStep(n, c, f, i)
  <2>1. f[i] = GrowStep(n, c, none, i)
    OBVIOUS
  <2>2. CASE left_by(n, i) <= 0 \/ i >= need(n, c, i)
    BY <2>1, <2>2 DEF GrowStep
  <2>3. CASE ~(left_by(n, i) <= 0) /\ ~(i >= need(n, c, i))
    <3>1. left_by(n, i) > 0 /\ need(n, c, i) \in Nat
      BY <2>3, RoomShrinks, NeedIs
    <3>2. f[need(n, c, i)] = GrowStep(n, c, none, need(n, c, i))
      BY <3>1
    <3>3. none[need(n, c, i)] = Settled(n, c, need(n, c, i))
      BY <3>1
    <3>4. f[need(n, c, i)] = none[need(n, c, i)]
      BY <2>3, <3>1, <3>2, <3>3, NeedSuffices
    <3> HIDE DEF f, none
    <3> QED
      BY <2>1, <2>3, <3>4 DEF GrowStep
  <2> QED
    BY <2>2, <2>3
<1>2. f = [i \in Nat |-> f[i]]
  OBVIOUS
<1> HIDE DEF f
<1> QED
  BY <1>1, <1>2 DEF Grows

\* the code's iteration ends, after two rounds at most, and a FAT it finds has
\* an entry for every cluster
LEMMA FatIsFound ==
  ASSUME NEW n \in Nat, NEW c \in Nat \ {0}
  PROVE  LET f == fat_of(n, c)
         IN  \/ f = [fs |-> 0, cc |-> 0]
             \/ /\ f.fs \in Nat \ {0} /\ left_by(n, f.fs) > 0
                /\ f.cc = clusters(n, c, f.fs) /\ f.fs >= need(n, c, f.fs)
<1> DEFINE h == CHOOSE h : Grows(n, c, h)
<1>1. Grows(n, c, h)
  BY GrowExists
<1>2. fat_of(n, c) = h[1]
  BY DEF fat_of, Grows, GrowStep
<1> HIDE DEF h
<1>3. \A i \in Nat : h[i] = GrowStep(n, c, h, i)
  BY <1>1 DEF Grows
<1>4. h[1] = GrowStep(n, c, h, 1)
  BY <1>3
<1>5. CASE left_by(n, 1) <= 0
  BY <1>2, <1>4, <1>5 DEF GrowStep
<1>6. CASE ~(left_by(n, 1) <= 0)
  <2>1. left_by(n, 1) > 0
    BY <1>6, RoomShrinks
  <2>2. CASE 1 >= need(n, c, 1)
    BY <1>2, <1>4, <1>6, <2>1, <2>2 DEF GrowStep
  <2>3. CASE ~(1 >= need(n, c, 1))
    <3> DEFINE j == need(n, c, 1)
    <3>1. j \in Nat \ {0} /\ 1 <= j
      BY <2>1, NeedIs
    <3>2. h[1] = h[j]
      BY <1>4, <1>6, <2>3 DEF GrowStep
    <3>3. h[j] = Settled(n, c, j)
      BY <1>3, <2>1, <2>3, <3>1, NeedSuffices
    <3>4. CASE left_by(n, j) <= 0
      BY <1>2, <3>2, <3>3, <3>4 DEF Settled
    <3>5. CASE ~(left_by(n, j) <= 0)
      <4>1. left_by(n, j) > 0
        BY <3>1, <3>5, RoomShrinks
      <4>2. need(n, c, j) <= j
        BY <3>1, <4>1, NeedShrinks
      <4>3. need(n, c, j) \in Nat
        BY <3>1, <4>1, NeedIs
      <4>4. fat_of(n, c) = [fs |-> j, cc |-> clusters(n, c, j)]
        BY <1>2, <3>2, <3>3, <3>5 DEF Settled
      <4> HIDE DEF j
      <4> QED
        BY <3>1, <4>1, <4>2, <4>3, <4>4
    <3> QED
      BY <3>4, <3>5
  <2> QED
    BY <2>2, <2>3
<1> QED
  BY <1>5, <1>6

\* what the geometry of a volume of n sectors must satisfy
Sound32(n, gm) ==
  /\ gm.spc \in Nat \ {0} /\ gm.fat_sectors \in Nat \ {0} /\ gm.root = 2
  /\ gm.data_start = Reserved + Fats * gm.fat_sectors /\ gm.data_start \in Nat
  /\ gm.cluster_count \in Nat
  /\ gm.cluster_count = (n - gm.data_start) \div gm.spc
  /\ gm.cluster_count >= MinClusters /\ gm.cluster_count <= MaxClusters
  /\ gm.cluster_count + 2 <= PerSector * gm.fat_sectors
  /\ gm.data_start + gm.spc * gm.cluster_count <= n

LEMMA GeometryIsSound ==
  ASSUME NEW n \in Nat, Candidates(n) # {}
  PROVE  Sound32(n, f32_geometry(n))
<1> DEFINE c == CHOOSE x \in Candidates(n) : \A y \in Candidates(n) : x <= y
           f == fat_of(n, c)
           gm == f32_geometry(n)
<1>1. Candidates(n) \in SUBSET Nat
  BY DEF Candidates
<1>2. c \in Candidates(n)
  BY <1>1, LeastOf
<1> HIDE DEF c
<1>3. /\ c \in Nat \ {0} /\ f.fs # 0 /\ f.cc >= MinClusters /\ f.cc <= MaxClusters
  BY <1>2 DEF Candidates
<1>4. /\ f.fs \in Nat \ {0} /\ left_by(n, f.fs) > 0
      /\ f.cc = clusters(n, c, f.fs) /\ f.fs >= need(n, c, f.fs)
  <2>1. ~(f = [fs |-> 0, cc |-> 0])
    BY <1>3
  <2> HIDE DEF f
  <2>2. \/ f = [fs |-> 0, cc |-> 0]
        \/ /\ f.fs \in Nat \ {0} /\ left_by(n, f.fs) > 0
           /\ f.cc = clusters(n, c, f.fs) /\ f.fs >= need(n, c, f.fs)
    BY <1>3, FatIsFound DEF f
  <2> QED
    BY <2>1, <2>2
<1>5. gm = [spc |-> c, fat_sectors |-> f.fs, root |-> 2,
            data_start |-> Reserved + Fats * f.fs, cluster_count |-> f.cc]
  BY DEF f32_geometry, c
<1> HIDE DEF f, gm
<1>6. gm.spc = c /\ gm.fat_sectors = f.fs /\ gm.root = 2 /\ gm.cluster_count = f.cc
      /\ gm.data_start = Reserved + Fats * f.fs
  BY <1>5
<1>7. /\ f.cc \in Nat /\ need(n, c, f.fs) \in Nat
      /\ f.cc + 2 <= PerSector * need(n, c, f.fs) /\ c * f.cc <= left_by(n, f.fs)
  BY <1>3, <1>4, NeedIs
<1>8. Fats * f.fs \in Nat /\ Reserved \in Nat
  BY <1>4, Fat32Assumption
<1>9. f.cc + 2 <= PerSector * f.fs
  <2>1. PerSector \in Nat \ {0}
    BY Fat32Assumption
  <2>2. PerSector * need(n, c, f.fs) <= PerSector * f.fs /\ PerSector * need(n, c, f.fs) \in Int
        /\ PerSector * f.fs \in Int
    BY <1>4, <1>7, <2>1, Times
  <2> QED
    BY <1>7, <2>2
<1>10. left_by(n, f.fs) = n - (Reserved + Fats * f.fs)
  BY <1>8 DEF left_by
<1>11. f.cc = (n - (Reserved + Fats * f.fs)) \div c
  BY <1>4, <1>10 DEF clusters
<1>12. Reserved + Fats * f.fs + c * f.cc <= n
  BY <1>3, <1>7, <1>8, <1>10
<1> QED
  BY <1>3, <1>4, <1>6, <1>7, <1>8, <1>9, <1>11, <1>12 DEF Sound32, gm

-----------------------------------------------------------------------------
(* The writes                                                              *)

\* the sectors in front of the FATs, and those of the root directory
Fixed(n, gm) ==
  <<S(0, make_boot_sector(n, gm)), S(1, make_fsinfo(gm)), S(2, Zero),
    S(6, make_boot_sector(n, gm)), S(7, make_fsinfo(gm))>>
RootWrites(gm, l) == [k \in 1..gm.spc |-> S(gm.data_start + k - 1, root_sector(l, k - 1))]
FatCount(gm) == Fats * gm.fat_sectors

Sectors(n, gm, l) ==
  {Fixed(n, gm)[i] : i \in 1..5} \cup {FatWrites(gm)[k] : k \in 1..FatCount(gm)}
  \cup {RootWrites(gm, l)[k] : k \in 1..gm.spc}

LEMMA WritesAre ==
  ASSUME NEW n \in Nat, NEW gm, Sound32(n, gm), NEW l
  PROVE  LET ws == f32_writes(n, gm, l)
         IN  /\ ws \in Seq(Sectors(n, gm, l))
             /\ Len(ws) = 5 + FatCount(gm) + gm.spc /\ FatCount(gm) \in Nat \ {0}
             /\ \A i \in 1..Len(ws) : ws[i] =
                  IF i <= 5 THEN Fixed(n, gm)[i]
                  ELSE IF i <= 5 + FatCount(gm) THEN FatWrites(gm)[i - 5]
                  ELSE RootWrites(gm, l)[i - 5 - FatCount(gm)]
<1> DEFINE T == Sectors(n, gm, l)
           fixed == Fixed(n, gm)
           fats == FatWrites(gm)
           root == RootWrites(gm, l)
<1>1. FatCount(gm) \in Nat \ {0} /\ gm.spc \in Nat \ {0}
  BY Fat32Assumption DEF Sound32, FatCount
<1>2. fixed \in Seq(T) /\ Len(fixed) = 5
  <2>1. Len(fixed) = 5 /\ fixed = [i \in 1..5 |-> fixed[i]]
    BY DEF Fixed
  <2>2. \A i \in 1..5 : fixed[i] \in T
    BY DEF Sectors
  <2> HIDE DEF fixed, T
  <2> QED
    BY <2>1, <2>2
<1>3. fats \in Seq(T) /\ Len(fats) = FatCount(gm)
  <2>1. fats = [k \in 1..FatCount(gm) |-> fats[k]]
    BY DEF FatWrites, FatCount
  <2>2. \A k \in 1..FatCount(gm) : fats[k] \in T
    BY DEF Sectors
  <2> HIDE DEF fats, T
  <2> QED
    BY <1>1, <2>1, <2>2
<1>4. root \in Seq(T) /\ Len(root) = gm.spc
  <2>1. root = [k \in 1..gm.spc |-> root[k]]
    BY DEF RootWrites
  <2>2. \A k \in 1..gm.spc : root[k] \in T
    BY DEF Sectors
  <2> HIDE DEF root, T
  <2> QED
    BY <1>1, <2>1, <2>2
<1>5. f32_writes(n, gm, l) = (fixed \o fats) \o root
  BY DEF f32_writes, Fixed, RootWrites
<1> HIDE DEF fixed, fats, root, T
<1>6. /\ fixed \o fats \in Seq(T) /\ Len(fixed \o fats) = 5 + FatCount(gm)
      /\ \A i \in 1..(5 + FatCount(gm)) :
           (fixed \o fats)[i] = IF i <= 5 THEN fixed[i] ELSE fats[i - 5]
  <2>1. /\ fixed \o fats \in Seq(T) /\ Len(fixed \o fats) = Len(fixed) + Len(fats)
        /\ \A i \in 1..Len(fixed) + Len(fats) :
             (fixed \o fats)[i] = IF i <= Len(fixed) THEN fixed[i] ELSE fats[i - Len(fixed)]
    BY <1>2, <1>3, ConcatProperties
  <2> QED
    BY <1>2, <1>3, <2>1
<1> DEFINE front == fixed \o fats
<1> HIDE DEF front
<1>7. /\ front \o root \in Seq(T) /\ Len(front \o root) = 5 + FatCount(gm) + gm.spc
      /\ \A i \in 1..(5 + FatCount(gm) + gm.spc) :
           (front \o root)[i] = IF i <= 5 + FatCount(gm) THEN front[i]
                               ELSE root[i - (5 + FatCount(gm))]
  <2>1. /\ front \o root \in Seq(T) /\ Len(front \o root) = Len(front) + Len(root)
        /\ \A i \in 1..Len(front) + Len(root) :
             (front \o root)[i] = IF i <= Len(front) THEN front[i] ELSE root[i - Len(front)]
    <3>1. front \in Seq(T)
      BY <1>6 DEF front
    <3> QED
      BY <1>4, <3>1, ConcatProperties
  <2>2. Len(front) = 5 + FatCount(gm)
    BY <1>6 DEF front
  <2> QED
    BY <1>4, <2>1, <2>2
<1>8. ASSUME NEW i \in 1..(5 + FatCount(gm) + gm.spc)
      PROVE  (front \o root)[i] = IF i <= 5 THEN fixed[i]
                                 ELSE IF i <= 5 + FatCount(gm) THEN fats[i - 5]
                                 ELSE root[i - 5 - FatCount(gm)]
  <2>1. CASE i <= 5 + FatCount(gm)
    <3>1. i \in 1..(5 + FatCount(gm)) /\ (front \o root)[i] = front[i]
      BY <1>1, <1>7, <2>1
    <3> QED
      BY <1>6, <2>1, <3>1 DEF front
  <2>2. CASE ~(i <= 5 + FatCount(gm))
    <3>1. i - (5 + FatCount(gm)) = i - 5 - FatCount(gm) /\ ~(i <= 5)
      BY <1>1, <2>2
    <3> QED
      BY <1>7, <2>2, <3>1
  <2> QED
    BY <2>1, <2>2
<1> QED
  BY <1>1, <1>5, <1>7, <1>8 DEF front, fixed, fats, root, T

\* no sector is written twice
LEMMA WrittenOnce ==
  ASSUME NEW n \in Nat, NEW gm, Sound32(n, gm), NEW l
  PROVE  LET ws == f32_writes(n, gm, l)
         IN  /\ \A i \in 1..Len(ws) : ws[i].at \in Nat
             /\ \A i, j \in 1..Len(ws) : ws[i].at = ws[j].at => i = j
             /\ \A i \in 1..Len(ws) : i > 5 => ws[i].at = Reserved + i - 6
<1> DEFINE ws == f32_writes(n, gm, l)
           c == FatCount(gm)
<1>1. /\ Len(ws) = 5 + c + gm.spc /\ c \in Nat \ {0}
      /\ \A i \in 1..Len(ws) : ws[i] =
           IF i <= 5 THEN Fixed(n, gm)[i]
           ELSE IF i <= 5 + c THEN FatWrites(gm)[i - 5] ELSE RootWrites(gm, l)[i - 5 - c]
  BY WritesAre
<1> HIDE DEF ws
<1>2. /\ Reserved \in Nat /\ Reserved > 7 /\ gm.spc \in Nat \ {0}
      /\ gm.data_start = Reserved + c /\ c = Fats * gm.fat_sectors
  BY Fat32Assumption DEF Sound32, FatCount
<1> HIDE DEF c
<1>3. ASSUME NEW i \in 1..Len(ws), i <= 5
      PROVE  ws[i].at = (IF i = 1 THEN 0 ELSE IF i = 2 THEN 1 ELSE IF i = 3 THEN 2
                         ELSE IF i = 4 THEN 6 ELSE 7)
  <2>1. i \in {1, 2, 3, 4, 5} /\ ws[i] = Fixed(n, gm)[i]
    BY <1>1, <1>2, <1>3
  <2> QED
    BY <2>1 DEF Fixed, S
<1>4. ASSUME NEW i \in 1..Len(ws), i > 5
      PROVE  ws[i].at = Reserved + i - 6
  <2>1. CASE i <= 5 + c
    <3>1. ws[i] = FatWrites(gm)[i - 5] /\ i - 5 \in 1..(Fats * gm.fat_sectors)
      BY <1>1, <1>2, <1>4, <2>1
    <3>2. ws[i].at = Reserved + (i - 5) - 1
      BY <3>1 DEF FatWrites, S
    <3> QED
      BY <1>2, <3>2
  <2>2. CASE ~(i <= 5 + c)
    <3>0. i \in Nat /\ c \in Nat /\ gm.spc \in Nat /\ i <= 5 + c + gm.spc
      BY <1>1, <1>2
    <3>1. ws[i] = RootWrites(gm, l)[i - 5 - c]
      BY <1>1, <1>4, <2>2, <3>0
    <3>2. i - 5 - c \in 1..gm.spc
      BY <2>2, <3>0
    <3>3. ws[i].at = gm.data_start + (i - 5 - c) - 1
      BY <3>1, <3>2 DEF RootWrites, S
    <3>4. gm.data_start = Reserved + c /\ Reserved \in Nat
      BY <1>2
    <3> QED
      BY <3>0, <3>3, <3>4
  <2> QED
    BY <2>1, <2>2
<1>5. Len(ws) \in Nat
  BY <1>1, <1>2
<1>6. \A i \in 1..Len(ws) : ws[i].at \in Nat
  BY <1>2, <1>3, <1>4, <1>5
<1>7. ASSUME NEW i \in 1..Len(ws), NEW j \in 1..Len(ws), ws[i].at = ws[j].at PROVE i = j
  <2>1. CASE i <= 5 /\ j <= 5
    BY <1>3, <1>5, <1>7, <2>1
  <2>2. CASE i <= 5 /\ j > 5
    <3>1. ws[i].at \in Nat /\ ws[i].at <= 7 /\ ws[j].at = Reserved + j - 6
      BY <1>3, <1>4, <1>5, <2>2
    <3> QED
      BY <1>2, <1>5, <1>7, <2>2, <3>1
  <2>3. CASE i > 5 /\ j <= 5
    <3>1. ws[j].at \in Nat /\ ws[j].at <= 7 /\ ws[i].at = Reserved + i - 6
      BY <1>3, <1>4, <1>5, <2>3
    <3> QED
      BY <1>2, <1>5, <1>7, <2>3, <3>1
  <2>4. CASE i > 5 /\ j > 5
    <3>1. ws[i].at = Reserved + i - 6 /\ ws[j].at = Reserved + j - 6
      BY <1>4, <2>4
    <3>2. i \in Int /\ j \in Int /\ Reserved \in Int
      BY <1>2, <1>5
    <3>3. Reserved + i - 6 = Reserved + j - 6
      BY <1>7, <3>1
    <3> QED
      BY <3>2, <3>3
  <2>5. i > 5 \/ i <= 5
    BY <1>5
  <2>6. j > 5 \/ j <= 5
    BY <1>5
  <2> QED
    BY <2>1, <2>2, <2>3, <2>4, <2>5, <2>6
<1> QED
  BY <1>4, <1>6, <1>7 DEF ws

\* The sectors laid out so far are the first of the writes, and what is left
\* are the others.
Laid32(n) ==
  LET ws == f32_writes(n, geo32, label)
      k  == Len(ws) - Len(todo32)
  IN  /\ Sound32(n, geo32)
      /\ todo32 \in Seq(Sectors(n, geo32, label)) /\ Len(todo32) <= Len(ws)
      /\ \A i \in 1..Len(todo32) : todo32[i] = ws[k + i]
      /\ \A i \in 1..k : ws[i].at \in DOMAIN sec /\ sec[ws[i].at] = ws[i].what
      /\ mkfs32 = "done" <=> Len(todo32) = 0
Inv32 ==
  /\ dev32 \in F32Devices
  /\ mkfs32 \in {"open", "writing", "done", "failed", "refused"}
  /\ mkfs32 \in {"writing", "done"} => Laid32(sectors32(dev32))

LEMMA SectorsAreNatural ==
  ASSUME NEW d \in F32Devices
  PROVE  /\ sectors32(d) \in Nat /\ sectors32(d) < Word
         /\ Sector * sectors32(d) <= SizeOf(d) /\ SizeOf(d) \in Nat
<1>1. /\ d \in [reported : 0..(Sector * Word - 1), sectors : Nat]
      /\ Sector \in Nat \ {0} /\ Word \in Nat /\ MaxLba \in Nat /\ MaxLba + 1 < Word
  BY Fat32Assumption, DeviceAssumption
<1>2. d \in [reported : Nat, sectors : Nat] /\ d.reported < Sector * Word
  BY <1>1
<1>3. SizeOf(d) \in Nat
  BY <1>2, SizesAreNatural
<1> DEFINE n == sectors32(d)
<1>4. n \in Nat /\ Sector * n <= SizeOf(d)
  BY <1>1, <1>3, DivOfNat DEF sectors32
<1>5. n < Word
  <2>1. CASE d.reported > 0
    <3>1. SizeOf(d) < Sector * Word
      BY <1>2, <2>1 DEF SizeOf
    <3> HIDE DEF n
    <3>2. Sector * Word \in Int /\ Sector * n \in Int /\ (Word <= n => Sector * Word <= Sector * n)
      BY <1>1, <1>4, Times
    <3> QED
      BY <1>1, <1>3, <1>4, <3>1, <3>2
  <2>2. CASE ~(d.reported > 0)
    <3>1. SizeOf(d) = Sector * Reach(d)
      BY <1>2, <2>2, ProbeFindsTheEnd DEF SizeOf, ProbeIsExact, Reach
    <3>2. Reach(d) \in Nat /\ Reach(d) < Word /\ Word \in Nat
      BY <1>1, <1>2 DEF Reach
    <3> HIDE DEF n
    <3>3. Sector * n < Sector * Reach(d) + Sector
      BY <1>1, <1>3, <1>4, <3>1
    <3>4. n <= Reach(d)
      BY <1>1, <1>4, <3>2, <3>3, Times
    <3>5. n \in Nat
      BY <1>4
    <3> QED
      BY <3>2, <3>4, <3>5
  <2> QED
    BY <2>1, <2>2
<1> QED
  BY <1>3, <1>4, <1>5

LEMMA FormatLays ==
  ASSUME Inv32, f32_format
  PROVE  Inv32'
<1> DEFINE n == sectors32(dev32)
<1>1. dev32' = dev32 /\ label' = label /\ sec' = sec /\ n \in Nat /\ dev32 \in F32Devices
  BY SectorsAreNatural DEF f32_format, Inv32
<1>2. CASE n < MinSectors \/ Candidates(n) = {}
  BY <1>1, <1>2 DEF f32_format, Inv32
<1>3. CASE ~(n < MinSectors \/ Candidates(n) = {})
  <2> DEFINE gm == f32_geometry(n)
             ws == f32_writes(n, gm, label)
  <2>1. geo32' = gm /\ mkfs32' = "writing" /\ todo32' = ws
    BY <1>3 DEF f32_format
  <2>2. Sound32(n, gm)
    BY <1>1, <1>3, GeometryIsSound
  <2>3. ws \in Seq(Sectors(n, gm, label)) /\ Len(ws) = 5 + FatCount(gm) + gm.spc
        /\ FatCount(gm) \in Nat \ {0}
    BY <1>1, <2>2, WritesAre
  <2>4. gm.spc \in Nat
    BY <2>2 DEF Sound32
  <2> HIDE DEF ws, gm, n
  <2>5. Len(ws) \in Nat \ {0} /\ Len(ws) - Len(ws) = 0
    BY <2>3, <2>4
  <2>6. \A i \in 1..Len(ws) : ws[i] = ws[0 + i]
    OBVIOUS
  <2>7. Laid32(n)'
    <3>1. sectors32(dev32)' = n
      BY <1>1 DEF n
    <3>2. f32_writes(n, geo32, label)' = ws
      BY <1>1, <2>1, <3>1 DEF ws, n
    <3> QED
      BY <1>1, <2>1, <2>2, <2>3, <2>5, <2>6, <3>1, <3>2 DEF Laid32, n
  <2> QED
    BY <1>1, <2>1, <2>7 DEF Inv32, n
<1> QED
  BY <1>2, <1>3

\* A sector out goes over to the sectors laid.
LEMMA SectorOut ==
  ASSUME NEW Q, NEW ws \in Seq(Q), NEW todo \in Seq(Q), Len(todo) \in 1..Len(ws),
         \A i \in 1..Len(todo) : todo[i] = ws[Len(ws) - Len(todo) + i]
  PROVE  LET k == Len(ws) - Len(todo)
         IN  /\ Head(todo) = ws[k + 1] /\ k + 1 \in 1..Len(ws) /\ k \in Nat
             /\ Tail(todo) \in Seq(Q) /\ Len(Tail(todo)) = Len(todo) - 1
             /\ Len(ws) - Len(Tail(todo)) = k + 1
             /\ \A i \in 1..Len(Tail(todo)) : Tail(todo)[i] = ws[k + 1 + i]
<1>1. Len(todo) \in Nat /\ Len(ws) \in Nat /\ todo # <<>> /\ Len(todo) >= 1
  BY LenProperties, EmptySeq
<1>2. /\ Tail(todo) \in Seq(Q) /\ Len(Tail(todo)) = Len(todo) - 1
      /\ \A i \in 1..Len(Tail(todo)) : Tail(todo)[i] = todo[i + 1]
  BY <1>1, HeadTailProperties
<1>3. Head(todo) = todo[1]
  BY <1>1
<1>4. ASSUME NEW i \in 1..Len(Tail(todo))
      PROVE  Tail(todo)[i] = ws[Len(ws) - Len(todo) + 1 + i]
  <2>1. i + 1 \in 1..Len(todo) /\ Tail(todo)[i] = todo[i + 1]
    BY <1>1, <1>2
  <2>2. todo[i + 1] = ws[Len(ws) - Len(todo) + (i + 1)]
    BY <2>1
  <2>3. Len(ws) - Len(todo) + (i + 1) = Len(ws) - Len(todo) + 1 + i
    BY <1>1, <2>1
  <2> QED
    BY <2>1, <2>2, <2>3
<1> QED
  BY <1>1, <1>2, <1>3, <1>4

LEMMA WriteLays ==
  ASSUME Inv32, write_sec
  PROVE  Inv32'
<1> DEFINE n == sectors32(dev32)
           ws == f32_writes(n, geo32, label)
           k == Len(ws) - Len(todo32)
           w == Head(todo32)
           Q == Sectors(n, geo32, label)
<1>1. /\ mkfs32 = "writing" /\ dev32' = dev32 /\ label' = label /\ geo32' = geo32
      /\ dev32 \in F32Devices /\ n \in Nat
  BY SectorsAreNatural DEF write_sec, Inv32
<1>2. Laid32(n)
  BY <1>1 DEF Inv32
<1>3. /\ Sound32(n, geo32) /\ todo32 \in Seq(Q) /\ Len(todo32) <= Len(ws)
      /\ \A i \in 1..Len(todo32) : todo32[i] = ws[k + i]
      /\ \A i \in 1..k : ws[i].at \in DOMAIN sec /\ sec[ws[i].at] = ws[i].what
      /\ Len(todo32) # 0
  BY <1>1, <1>2 DEF Laid32
<1>4. ws \in Seq(Q) /\ \A i, j \in 1..Len(ws) : ws[i].at = ws[j].at => i = j
  BY <1>1, <1>3, WritesAre, WrittenOnce
<1>5. Len(ws) \in Nat /\ Len(todo32) \in 1..Len(ws)
  BY <1>3, <1>4, LenProperties
<1> HIDE DEF Q, ws, n
<1>6. /\ w = ws[k + 1] /\ k + 1 \in 1..Len(ws) /\ k \in Nat
      /\ Tail(todo32) \in Seq(Q) /\ Len(Tail(todo32)) = Len(todo32) - 1
      /\ Len(ws) - Len(Tail(todo32)) = k + 1
      /\ \A i \in 1..Len(Tail(todo32)) : Tail(todo32)[i] = ws[k + 1 + i]
  BY <1>3, <1>4, <1>5, SectorOut
<1>7. CASE ~wr512(dev32, w.at)
  BY <1>1, <1>7 DEF write_sec, Inv32
<1>8. CASE wr512(dev32, w.at)
  <2>1. /\ sec' = [x \in DOMAIN sec \cup {w.at} |-> IF x = w.at THEN w.what ELSE sec[x]]
        /\ todo32' = Tail(todo32)
        /\ mkfs32' = IF Len(todo32) = 1 THEN "done" ELSE mkfs32
    BY <1>8 DEF write_sec
  <2>2. /\ DOMAIN sec' = {w.at} \cup DOMAIN sec
        /\ sec'[w.at] = w.what
        /\ \A x \in DOMAIN sec : x # w.at => sec'[x] = sec[x]
    BY <2>1
  <2> HIDE DEF k, w
  <2>3. ASSUME NEW i \in 1..(k + 1)
        PROVE  ws[i].at \in DOMAIN sec' /\ sec'[ws[i].at] = ws[i].what
    <3>1. CASE i = k + 1
      BY <1>6, <2>2, <3>1
    <3>2. CASE i # k + 1
      <4>1. i \in 1..k /\ i \in 1..Len(ws) /\ k + 1 \in 1..Len(ws)
        BY <1>5, <1>6, <3>2
      <4>2. ws[i].at # w.at
        BY <1>4, <1>6, <3>2, <4>1
      <4>3. ws[i].at \in DOMAIN sec /\ sec[ws[i].at] = ws[i].what
        BY <1>3, <4>1 DEF k
      <4> QED
        BY <2>2, <4>2, <4>3
    <3> QED
      BY <3>1, <3>2
  <2>4. mkfs32' \in {"writing", "done"} /\ (mkfs32' = "done" <=> Len(Tail(todo32)) = 0)
    BY <1>1, <1>5, <1>6, <2>1
  <2>5. Len(Tail(todo32)) <= Len(ws)
    BY <1>5, <1>6
  <2>6. /\ n' = n /\ f32_writes(n, geo32, label)' = ws
        /\ Sectors(n, geo32, label)' = Q
    BY <1>1 DEF n, ws, Q
  <2>7. Sound32(n, geo32)'
    BY <1>1, <1>3, <2>6
  <2>8. Laid32(n)'
    BY <1>6, <2>1, <2>3, <2>4, <2>5, <2>6, <2>7 DEF Laid32
  <2> QED
    BY <1>1, <2>4, <2>8 DEF Inv32, n
<1> QED
  BY <1>7, <1>8

LEMMA Inv32Holds == Fat32Spec => []Inv32
<1>1. Fat32Init => Inv32
  BY DEF Fat32Init, Inv32
<1>2. Inv32 /\ [Fat32Next]_fat32Vars => Inv32'
  <2> SUFFICES ASSUME Inv32, [Fat32Next]_fat32Vars PROVE Inv32'
    OBVIOUS
  <2>1. CASE f32_format
    BY <2>1, FormatLays
  <2>2. CASE write_sec
    BY <2>2, WriteLays
  <2>3. CASE UNCHANGED fat32Vars
    <3>1. Inv32' <=> Inv32
      BY <2>3 DEF Inv32, Laid32, fat32Vars
    <3> QED
      BY <3>1
  <2> QED
    BY <2>1, <2>2, <2>3 DEF Fat32Next
<1> QED
  BY <1>1, <1>2, PTL DEF Fat32Spec

-----------------------------------------------------------------------------
(* The volume                                                              *)

LEMMA ModIs ==
  ASSUME NEW b \in Nat \ {0}, NEW q \in Nat, NEW r \in 0..(b - 1)
  PROVE  (b * q + r) % b = r
<1> DEFINE n == b * q + r
<1>1. b * q \in Int /\ n \in Int
  BY Times
<1>2. n = b * (n \div b) + (n % b) /\ n % b \in 0..(b - 1) /\ n \div b \in Int
  BY <1>1, Euclid
<1> DEFINE p == n \div b
           s == n % b
<1>3. n = b * p + s /\ s \in 0..(b - 1) /\ p \in Int
  BY <1>2
<1>4. n = b * q + r
  OBVIOUS
<1> HIDE DEF n, p, s
<1>5. b * p \in Int /\ b * p < b * q + b /\ b * q < b * p + b
  BY <1>1, <1>3, <1>4, Times
<1>6. p <= q /\ q <= p
  BY <1>3, <1>5, Times
<1>7. p = q
  BY <1>3, <1>6
<1>8. s = r
  BY <1>1, <1>3, <1>4, <1>7
<1> QED
  BY <1>8 DEF s, n

\* every write is where it belongs
Written32(n) ==
  /\ Sound32(n, geo32)
  /\ LET ws == f32_writes(n, geo32, label)
     IN  \A i \in 1..Len(ws) : sec[ws[i].at] = ws[i].what

LEMMA AllWritten ==
  ASSUME Inv32, mkfs32 = "done"
  PROVE  Written32(sectors32(dev32))
<1>1. Laid32(sectors32(dev32)) /\ sectors32(dev32) \in Nat
  BY SectorsAreNatural DEF Inv32
<1> DEFINE n == sectors32(dev32)
           ws == f32_writes(n, geo32, label)
<1>2. Sound32(n, geo32) /\ Len(todo32) = 0
  BY <1>1 DEF Laid32
<1>3. Len(ws) = 5 + FatCount(geo32) + geo32.spc /\ FatCount(geo32) \in Nat /\ geo32.spc \in Nat
  <2>1. Len(ws) = 5 + FatCount(geo32) + geo32.spc /\ FatCount(geo32) \in Nat
    BY <1>1, <1>2, WritesAre
  <2>2. geo32.spc \in Nat
    BY <1>2 DEF Sound32
  <2> QED
    BY <2>1, <2>2
<1>4. \A i \in 1..(Len(ws) - Len(todo32)) : sec[ws[i].at] = ws[i].what
  BY <1>1 DEF Laid32
<1>5. Len(ws) - Len(todo32) = Len(ws)
  BY <1>2, <1>3
<1> QED
  BY <1>2, <1>4, <1>5 DEF Written32

LEMMA FixedSectors ==
  ASSUME NEW n \in Nat, Written32(n)
  PROVE  /\ sec[0] = make_boot_sector(n, geo32) /\ sec[6] = make_boot_sector(n, geo32)
         /\ sec[1] = make_fsinfo(geo32) /\ sec[7] = make_fsinfo(geo32)
<1> DEFINE ws == f32_writes(n, geo32, label)
<1>1. /\ Len(ws) = 5 + FatCount(geo32) + geo32.spc /\ FatCount(geo32) \in Nat
      /\ \A i \in 1..Len(ws) : i <= 5 => ws[i] = Fixed(n, geo32)[i]
      /\ geo32.spc \in Nat
  BY WritesAre DEF Written32, Sound32
<1>2. \A i \in 1..Len(ws) : sec[ws[i].at] = ws[i].what
  BY DEF Written32
<1> HIDE DEF ws
<1>3. \A i \in 1..5 : ws[i] = Fixed(n, geo32)[i] /\ sec[ws[i].at] = ws[i].what
  <2>1. \A i \in 1..5 : i \in 1..Len(ws) /\ i <= 5
    BY <1>1
  <2> QED
    BY <1>1, <1>2, <2>1
<1>4. /\ ws[1] = S(0, make_boot_sector(n, geo32)) /\ ws[2] = S(1, make_fsinfo(geo32))
      /\ ws[4] = S(6, make_boot_sector(n, geo32)) /\ ws[5] = S(7, make_fsinfo(geo32))
  BY <1>3 DEF Fixed
<1>5. /\ sec[ws[1].at] = ws[1].what /\ sec[ws[2].at] = ws[2].what
      /\ sec[ws[4].at] = ws[4].what /\ sec[ws[5].at] = ws[5].what
  BY <1>3
<1> QED
  BY <1>4, <1>5 DEF S

LEMMA FatSectors ==
  ASSUME NEW n \in Nat, Written32(n),
         NEW copy \in 0..(Fats - 1), NEW i \in 0..(geo32.fat_sectors - 1)
  PROVE  sec[Reserved + copy * geo32.fat_sectors + i] = fat_sector(geo32, i)
<1> DEFINE ws == f32_writes(n, geo32, label)
           f == geo32.fat_sectors
           p == f * copy
<1>1. /\ Fats \in Nat \ {0} /\ Reserved \in Nat /\ f \in Nat \ {0} /\ geo32.spc \in Nat
      /\ FatCount(geo32) = Fats * f
  BY Fat32Assumption DEF Written32, Sound32, FatCount
<1>2. copy \in Nat /\ i \in Nat /\ copy <= Fats - 1
  BY <1>1
<1>3. copy * f = p /\ Fats * f = f * Fats /\ p \in Nat
  BY <1>1, <1>2
<1>4. p + f <= Fats * f
  <2>1. f * (copy + 1) = f * copy + f /\ f * (copy + 1) <= f * Fats
    BY <1>1, <1>2, Times
  <2> QED
    BY <1>3, <2>1
<1>5. Fats * f \in Nat
  BY <1>1
<1>6. (p + i) % f = i
  BY <1>1, <1>2, ModIs
<1>7. /\ Len(ws) = 5 + FatCount(geo32) + geo32.spc
      /\ \A j \in 1..Len(ws) : ~(j <= 5) /\ j <= 5 + FatCount(geo32) =>
                                ws[j] = FatWrites(geo32)[j - 5]
      /\ \A j \in 1..Len(ws) : sec[ws[j].at] = ws[j].what
  BY WritesAre DEF Written32
<1> HIDE DEF ws, p, f
<1> DEFINE j == p + i + 6
<1>8. /\ j \in 1..Len(ws) /\ ~(j <= 5) /\ j <= 5 + FatCount(geo32)
      /\ j - 5 = p + i + 1 /\ p + i + 1 \in 1..(Fats * f)
  <2> DEFINE all == Fats * f
             here == FatCount(geo32)
  <2>1. /\ i < f /\ f \in Nat /\ i \in Nat /\ p \in Nat /\ geo32.spc \in Nat
        /\ all \in Nat /\ here = all /\ p + f <= all /\ Len(ws) = 5 + here + geo32.spc
    BY <1>1, <1>2, <1>3, <1>4, <1>5, <1>7 DEF f
  <2> HIDE DEF all, here
  <2>2. p + i + 1 <= all /\ p + i + 1 \in Nat /\ p + i + 1 >= 1
    BY <2>1
  <2>3. j \in 1..Len(ws) /\ ~(j <= 5) /\ j <= 5 + here /\ j - 5 = p + i + 1
    BY <2>1, <2>2
  <2>4. p + i + 1 \in 1..all
    BY <2>1, <2>2
  <2> QED
    BY <2>3, <2>4 DEF all, here
<1>9. ws[j] = FatWrites(geo32)[p + i + 1] /\ sec[ws[j].at] = ws[j].what
  BY <1>7, <1>8
<1>10. FatWrites(geo32)[p + i + 1] =
         S(Reserved + (p + i + 1) - 1, fat_sector(geo32, ((p + i + 1) - 1) % f))
  BY <1>8 DEF FatWrites, f
<1>11. (p + i + 1) - 1 = p + i /\ Reserved + (p + i + 1) - 1 = Reserved + p + i
  BY <1>1, <1>2, <1>3
<1>12. ws[j] = S(Reserved + p + i, fat_sector(geo32, i))
  BY <1>6, <1>9, <1>10, <1>11
<1>13. sec[Reserved + p + i] = fat_sector(geo32, i)
  BY <1>9, <1>12 DEF S
<1> QED
  BY <1>3, <1>13 DEF f

LEMMA RootSectors ==
  ASSUME NEW n \in Nat, Written32(n), NEW i \in 0..(geo32.spc - 1)
  PROVE  sec[geo32.data_start + i] = root_sector(label, i)
<1> DEFINE ws == f32_writes(n, geo32, label)
           c == FatCount(geo32)
<1>1. geo32.spc \in Nat \ {0} /\ geo32.data_start \in Nat
  BY DEF Written32, Sound32
<1>2. /\ Len(ws) = 5 + c + geo32.spc /\ c \in Nat
      /\ \A j \in 1..Len(ws) : ~(j <= 5) /\ ~(j <= 5 + c) =>
                                ws[j] = RootWrites(geo32, label)[j - 5 - c]
      /\ \A j \in 1..Len(ws) : sec[ws[j].at] = ws[j].what
  BY WritesAre DEF Written32
<1> HIDE DEF ws, c
<1> DEFINE j == 6 + c + i
<1>3. /\ j \in 1..Len(ws) /\ ~(j <= 5) /\ ~(j <= 5 + c)
      /\ j - 5 - c = i + 1 /\ i + 1 \in 1..geo32.spc
  <2> DEFINE spc == geo32.spc
  <2>1. spc \in Nat /\ i \in Nat /\ i < spc /\ c \in Nat /\ Len(ws) = 5 + c + spc
    BY <1>1, <1>2
  <2> HIDE DEF spc
  <2>2. j \in Nat /\ 1 <= j /\ j <= Len(ws)
    BY <2>1
  <2>3. j \in 1..Len(ws)
    BY <2>1, <2>2
  <2>4. ~(j <= 5) /\ ~(j <= 5 + c) /\ j - 5 - c = i + 1 /\ i + 1 \in 1..spc
    BY <2>1
  <2> QED
    BY <2>3, <2>4 DEF spc
<1>4. ws[j] = RootWrites(geo32, label)[i + 1] /\ sec[ws[j].at] = ws[j].what
  BY <1>2, <1>3
<1>5. RootWrites(geo32, label)[i + 1] =
        S(geo32.data_start + (i + 1) - 1, root_sector(label, (i + 1) - 1))
  BY <1>3 DEF RootWrites
<1>6. (i + 1) - 1 = i /\ geo32.data_start + (i + 1) - 1 = geo32.data_start + i
  BY <1>1
<1> QED
  BY <1>4, <1>5, <1>6 DEF S

\* Entry e of a FAT is in its sector e \div PerSector.
LEMMA EntryIsInItsSector ==
  ASSUME NEW e \in 0..2, NEW f \in Nat, 3 <= PerSector * f
  PROVE  \E i \in 0..(f - 1) : i * PerSector <= e /\ e < (i + 1) * PerSector
<1> DEFINE b == PerSector
           q == e \div b
<1>1. b \in Nat \ {0} /\ e \in Nat /\ e <= 2
  BY Fat32Assumption
<1>2. q \in Nat /\ b * q <= e /\ e < b * q + b
  BY <1>1, DivOfNat
<1> HIDE DEF q
<1>3. b * q \in Int /\ b * f \in Int /\ b * (q + 1) = b * q + b /\ (b * f <= b * q \/ ~(f <= q))
  BY <1>1, <1>2, Times
<1>4. ~(f <= q)
  BY <1>1, <1>2, <1>3
<1>5. q \in 0..(f - 1)
  BY <1>2, <1>4
<1>6. q * b = b * q /\ (q + 1) * b = b * (q + 1)
  BY <1>1, <1>2
<1> QED
  BY <1>2, <1>3, <1>5, <1>6

\* Every copy of the FAT takes the two media marks and the root cluster.
LEMMA FatTakes ==
  ASSUME NEW n \in Nat, Written32(n), NEW copy \in 0..(Fats - 1)
  PROVE  Taken(make_boot_sector(n, geo32), copy) = {0, 1, 2}
<1> DEFINE b == make_boot_sector(n, geo32)
           f == geo32.fat_sectors
           T == Taken(b, copy)
<1>1. /\ geo32.root = 2 /\ f \in Nat \ {0} /\ geo32.cluster_count \in Nat
      /\ geo32.cluster_count >= MinClusters /\ geo32.cluster_count + 2 <= PerSector * f
      /\ PerSector \in Nat \ {0} /\ MinClusters \in Nat \ {0}
  BY Fat32Assumption DEF Written32, Sound32
<1>2. b.rsvd = Reserved /\ b.fat = f
  BY DEF make_boot_sector
<1>3. T = UNION {sec[Reserved + copy * f + i].taken : i \in 0..(f - 1)}
  BY <1>2 DEF Taken
<1>4. \A i \in 0..(f - 1) : sec[Reserved + copy * f + i].taken =
        {e \in {0, 1, 2} : i * PerSector <= e /\ e < (i + 1) * PerSector}
  <2> SUFFICES ASSUME NEW i \in 0..(f - 1)
      PROVE  sec[Reserved + copy * f + i].taken =
               {e \in {0, 1, 2} : i * PerSector <= e /\ e < (i + 1) * PerSector}
    OBVIOUS
  <2>1. sec[Reserved + copy * f + i] = fat_sector(geo32, i)
    BY FatSectors
  <2>2. fat_sector(geo32, i).taken =
          {e \in {0, 1, 2} : i * PerSector <= e /\ e < (i + 1) * PerSector}
    BY <1>1 DEF fat_sector
  <2> QED
    BY <2>1, <2>2
<1>5. PerSector * f \in Int
  BY <1>1
<1>6. 3 <= PerSector * f
  BY <1>1, <1>5
<1> HIDE DEF T, f, b
<1>7. ASSUME NEW e \in T PROVE e \in {0, 1, 2}
  BY <1>3, <1>4
<1>8. ASSUME NEW e \in {0, 1, 2} PROVE e \in T
  <2>1. PICK i \in 0..(f - 1) : i * PerSector <= e /\ e < (i + 1) * PerSector
    <3>1. e \in 0..2 /\ f \in Nat
      BY <1>1
    <3> QED
      BY <1>6, <3>1, EntryIsInItsSector
  <2> QED
    BY <1>3, <1>4, <2>1
<1> QED
  BY <1>7, <1>8 DEF T, b

LEMMA ThreeTaken == Cardinality({0, 1, 2}) = 3
<1>1. IsFiniteSet({0}) /\ Cardinality({0}) = 1
  BY FS_Singleton
<1>2. 1 \notin {0} /\ {0, 1} = {0} \cup {1}
  OBVIOUS
<1>3. IsFiniteSet({0} \cup {1}) /\ Cardinality({0} \cup {1}) = 1 + 1
  BY <1>1, <1>2, FS_AddElement
<1>4. IsFiniteSet({0, 1}) /\ Cardinality({0, 1}) = 2
  BY <1>2, <1>3
<1>5. 2 \notin {0, 1} /\ {0, 1, 2} = {0, 1} \cup {2}
  OBVIOUS
<1>6. Cardinality({0, 1} \cup {2}) = 2 + 1
  BY <1>4, <1>5, FS_AddElement
<1> QED
  BY <1>5, <1>6

\* What the boot sector says of the volume is what the geometry was.
LEMMA BootSays ==
  ASSUME NEW n \in Nat, n < Word, Sound32(n, geo32)
  PROVE  LET b == make_boot_sector(n, geo32)
         IN  /\ b.fats = Fats /\ b.fat = geo32.fat_sectors /\ b.root = 2
             /\ b.fsinfo = 1 /\ b.bkboot = 6 /\ b.spc = geo32.spc
             /\ Data(b) = geo32.data_start /\ Clusters(b) = geo32.cluster_count
<1> DEFINE b == make_boot_sector(n, geo32)
<1>1. /\ b.fats = Fats /\ b.fat = geo32.fat_sectors /\ b.root = geo32.root
      /\ b.fsinfo = 1 /\ b.bkboot = 6 /\ b.spc = geo32.spc /\ b.tot = n /\ b.rsvd = Reserved
  <2>1. n % Word = n
    BY Fat32Assumption
  <2> QED
    BY <2>1 DEF make_boot_sector
<1> HIDE DEF b
<1>2. Data(b) = geo32.data_start /\ geo32.root = 2
  BY <1>1 DEF Data, Sound32
<1>3. Clusters(b) = geo32.cluster_count
  BY <1>1, <1>2 DEF Clusters, Sound32
<1> QED
  BY <1>1, <1>2, <1>3 DEF b

LEMMA WrittenFits ==
  ASSUME Inv32, mkfs32 = "done"
  PROVE  Fat32Fits
<1> DEFINE n == sectors32(dev32)
           b == make_boot_sector(n, geo32)
           c == geo32.cluster_count
           spc == geo32.spc
<1>1. n \in Nat /\ n < Word /\ Sector * n <= SizeOf(dev32) /\ SizeOf(dev32) \in Nat /\ Written32(n)
  BY AllWritten, SectorsAreNatural DEF Inv32
<1>2. Sound32(n, geo32)
  BY <1>1 DEF Written32
<1>3. /\ b.fats = Fats /\ b.fat = geo32.fat_sectors /\ b.root = 2
      /\ b.fsinfo = 1 /\ b.bkboot = 6 /\ b.spc = spc
      /\ Data(b) = geo32.data_start /\ Clusters(b) = c
  BY <1>1, <1>2, BootSays
<1>4. sec[0] = b /\ sec[6] = b /\ sec[1] = make_fsinfo(geo32) /\ sec[7] = make_fsinfo(geo32)
  BY <1>1, FixedSectors
<1>5. \A copy \in 0..(Fats - 1) : Taken(b, copy) = {0, 1, 2}
  BY <1>1, FatTakes
<1>6. \A i \in 0..(spc - 1) : sec[geo32.data_start + i] = root_sector(label, i)
  BY <1>1, RootSectors
<1>7. /\ spc \in Nat \ {0} /\ geo32.fat_sectors \in Nat \ {0} /\ geo32.data_start \in Nat
      /\ c \in Nat /\ c >= MinClusters /\ c <= MaxClusters
      /\ c + 2 <= PerSector * geo32.fat_sectors /\ geo32.data_start + spc * c <= n
      /\ MinClusters \in Nat \ {0} /\ MaxClusters \in Nat /\ PerSector \in Nat \ {0}
      /\ Fats \in Nat \ {0} /\ Sector \in Nat \ {0}
  BY <1>2, Fat32Assumption, DeviceAssumption DEF Sound32
<1> HIDE DEF n, b
<1>8. sec[b.bkboot] = b /\ sec[b.bkboot + 1] = sec[b.fsinfo]
  BY <1>3, <1>4
<1>9. Clusters(b) \in MinClusters..MaxClusters
  BY <1>3, <1>7
<1>10. Clusters(b) + 2 <= b.fat * PerSector
  <2>1. PerSector * geo32.fat_sectors = geo32.fat_sectors * PerSector
    BY <1>7
  <2> QED
    BY <1>3, <1>7, <2>1
<1>11. (Data(b) + Clusters(b) * b.spc) * Sector <= SizeOf(dev32)
  <2> DEFINE end == geo32.data_start + spc * c
  <2>1. c * spc = spc * c /\ spc * c \in Nat
    BY <1>7
  <2>2. end \in Nat /\ end <= n
    BY <1>7, <2>1
  <2>3. Data(b) + Clusters(b) * b.spc = end
    BY <1>3, <2>1
  <2> HIDE DEF end
  <2>4. Sector * end <= Sector * n /\ Sector * end \in Int /\ Sector * n \in Int
    BY <1>1, <1>7, <2>2, Times
  <2>5. end * Sector = Sector * end
    BY <1>7, <2>2
  <2> QED
    BY <1>1, <2>3, <2>4, <2>5
<1>12. \A copy \in 0..(b.fats - 1) : Taken(b, copy) = {0, 1, b.root}
  BY <1>3, <1>5
<1>13. sec[b.fsinfo].free = Clusters(b) + 2 - Cardinality(Taken(b, 0))
  <2>1. Taken(b, 0) = {0, 1, 2}
    <3>1. 0 \in 0..(Fats - 1)
      BY <1>7
    <3> QED
      BY <1>5, <3>1
  <2>2. make_fsinfo(geo32).free = c - 1
    BY <1>7 DEF make_fsinfo
  <2> QED
    <3>1. sec[b.fsinfo].free = c - 1
      BY <1>3, <1>4, <2>2
    <3>2. Cardinality(Taken(b, 0)) = 3 /\ Clusters(b) = c
      BY <1>3, <2>1, ThreeTaken
    <3> HIDE DEF c
    <3> QED
      BY <1>7, <3>1, <3>2
<1>14. ASSUME NEW i \in 0..(b.spc - 1)
       PROVE  sec[Data(b) + (b.root - 2) * b.spc + i].kind =
                IF i = 0 /\ label # NoLabel THEN "label" ELSE "zero"
  <2>1. Data(b) + (b.root - 2) * b.spc + i = geo32.data_start + i
    BY <1>3, <1>7
  <2>2. sec[geo32.data_start + i] = root_sector(label, i)
    BY <1>3, <1>6
  <2> QED
    BY <2>1, <2>2 DEF root_sector, Zero
<1> QED
  BY <1>4, <1>8, <1>9, <1>10, <1>11, <1>12, <1>13, <1>14 DEF Fat32Fits

(* On a device of any size, however it is sized, with any label and any    *)
(* sector refusing to be written: a mkfs.fat32 that ends well leaves a     *)
(* volume whose FATs have an entry for every cluster and are alike, whose  *)
(* clusters lie in the device, whose free count is what the FAT says and   *)
(* whose root directory is empty.                                          *)
THEOREM Fat32FitsHolds == Fat32Spec => []Fat32Fits
<1>1. Inv32 => Fat32Fits
  <2>1. CASE mkfs32 = "done"
    BY <2>1, WrittenFits
  <2>2. CASE mkfs32 # "done"
    BY <2>2 DEF Fat32Fits
  <2> QED
    BY <2>1, <2>2
<1> QED
  BY <1>1, Inv32Holds, PTL

-----------------------------------------------------------------------------
(* Sums and powers                                                         *)

\* s holds the sums of f, and it does so up to m
SumStep(f, s, k) == IF k = 0 THEN 0 ELSE s[k - 1] + f[k - 1]
Sums(f, n, s) == s = [k \in 0..n |-> SumStep(f, s, k)]
SumsUpto(f, n, s, m) ==
  /\ s = [k \in 0..n |-> s[k]]
  /\ \A k \in 0..n : k <= m => s[k] = SumStep(f, s, k)

LEMMA SumsExist == ASSUME NEW f, NEW n \in Nat PROVE \E s : Sums(f, n, s)
<1> DEFINE Z == {m \in Nat : \E s : SumsUpto(f, n, s, m)}
<1>1. 0 \in Z
  <2> DEFINE s == [k \in 0..n |-> 0]
  <2>1. SumsUpto(f, n, s, 0)
    BY DEF SumsUpto, SumStep
  <2> HIDE DEF s
  <2> QED
    BY <2>1
<1>2. ASSUME NEW m \in Nat, m \in Z PROVE m + 1 \in Z
  <2>1. PICK s : SumsUpto(f, n, s, m)
    BY <1>2
  <2> DEFINE t == [k \in 0..n |-> SumStep(f, s, k)]
  <2>2. ASSUME NEW k \in 0..n, k <= m + 1 PROVE t[k] = SumStep(f, t, k)
    <3>1. CASE k = 0
      BY <3>1 DEF SumStep
    <3>2. CASE k # 0
      <4>1. k - 1 \in 0..n /\ k - 1 <= m
        BY <2>2, <3>2
      <4>2. t[k - 1] = s[k - 1]
        BY <2>1, <4>1 DEF SumsUpto
      <4> QED
        BY <3>2, <4>2 DEF SumStep
    <3> QED
      BY <3>1, <3>2
  <2>3. t = [k \in 0..n |-> t[k]]
    OBVIOUS
  <2> HIDE DEF t
  <2>4. SumsUpto(f, n, t, m + 1)
    BY <2>2, <2>3 DEF SumsUpto
  <2> QED
    BY <2>4
<1> HIDE DEF Z
<1>3. n \in Z
  BY <1>1, <1>2, SetInduction
<1>4. PICK s : SumsUpto(f, n, s, n)
  BY <1>3 DEF Z
<1> QED
  BY <1>4 DEF SumsUpto, Sums

LEMMA TotalIs ==
  ASSUME NEW f, NEW n \in Nat
  PROVE  \E s : total(f, n) = s[n] /\ \A k \in 0..n : s[k] = SumStep(f, s, k)
<1> DEFINE s == CHOOSE s : Sums(f, n, s)
<1>1. Sums(f, n, s)
  BY SumsExist
<1>2. total(f, n) = s[n]
  BY DEF total, Sums, SumStep
<1> HIDE DEF s
<1>3. \A k \in 0..n : s[k] = SumStep(f, s, k)
  BY <1>1 DEF Sums
<1> QED
  BY <1>2, <1>3

\* two sums of the same numbers
LEMMA TotalSame ==
  ASSUME NEW f, NEW h, NEW n \in Nat, \A k \in 0..(n - 1) : f[k] = h[k]
  PROVE  total(f, n) = total(h, n)
<1>1. PICK s : total(f, n) = s[n] /\ \A k \in 0..n : s[k] = SumStep(f, s, k)
  BY TotalIs
<1>2. PICK t : total(h, n) = t[n] /\ \A k \in 0..n : t[k] = SumStep(h, t, k)
  BY TotalIs
<1> DEFINE Z == {m \in Nat : m <= n => s[m] = t[m]}
<1>3. 0 \in Z
  BY <1>1, <1>2 DEF SumStep
<1>4. ASSUME NEW m \in Nat, m \in Z PROVE m + 1 \in Z
  <2>1. CASE m + 1 <= n
    <3>1. s[m] = t[m] /\ f[m] = h[m]
      BY <1>4, <2>1
    <3>2. s[m + 1] = s[m] + f[m] /\ t[m + 1] = t[m] + h[m]
      <4>1. m + 1 \in 0..n /\ m + 1 # 0 /\ (m + 1) - 1 = m
        BY <2>1
      <4> QED
        BY <1>1, <1>2, <4>1 DEF SumStep
    <3> QED
      BY <3>1, <3>2
  <2> QED
    BY <2>1
<1> HIDE DEF Z
<1>5. n \in Z
  BY <1>3, <1>4, SetInduction
<1> QED
  BY <1>1, <1>2, <1>5 DEF Z

\* n times c, less d in the first place
LEMMA TotalOfAlmostEqual ==
  ASSUME NEW f, NEW n \in Nat \ {0}, NEW c \in Int, NEW d \in Int,
         \A k \in 0..(n - 1) : f[k] = IF k = 0 THEN c - d ELSE c
  PROVE  total(f, n) = n * c - d
<1>1. PICK s : total(f, n) = s[n] /\ \A k \in 0..n : s[k] = SumStep(f, s, k)
  BY TotalIs
<1> DEFINE Z == {m \in Nat : m + 1 <= n => s[m + 1] = (m + 1) * c - d}
<1>2. 0 \in Z
  <2>1. s[0] = 0 /\ f[0] = c - d
    BY <1>1 DEF SumStep
  <2>2. s[1] = s[0] + f[0]
    <3>1. 1 \in 0..n /\ 1 # 0 /\ 1 - 1 = 0
      OBVIOUS
    <3> QED
      BY <1>1, <3>1 DEF SumStep
  <2> QED
    BY <2>1, <2>2
<1>3. ASSUME NEW m \in Nat, m \in Z PROVE m + 1 \in Z
  <2>1. CASE (m + 1) + 1 <= n
    <3>1. s[m + 1] = (m + 1) * c - d /\ f[m + 1] = c
      BY <1>3, <2>1
    <3>2. s[(m + 1) + 1] = s[m + 1] + f[m + 1]
      <4>1. (m + 1) + 1 \in 0..n /\ (m + 1) + 1 # 0 /\ ((m + 1) + 1) - 1 = m + 1
        BY <2>1
      <4> QED
        BY <1>1, <4>1 DEF SumStep
    <3>3. ((m + 1) + 1) * c = (m + 1) * c + c /\ (m + 1) * c \in Int
      OBVIOUS
    <3> QED
      BY <3>1, <3>2, <3>3
  <2> QED
    BY <2>1
<1> HIDE DEF Z
<1>4. n - 1 \in Z
  BY <1>2, <1>3, SetInduction
<1>5. (n - 1) + 1 = n
  OBVIOUS
<1> QED
  BY <1>1, <1>4, <1>5 DEF Z

\* the entries of a directory block
LEMMA TotalOfTwo == ASSUME NEW f, f[0] \in Int, f[1] \in Int PROVE total(f, 2) = f[0] + f[1]
<1>1. PICK s : total(f, 2) = s[2] /\ \A k \in 0..2 : s[k] = SumStep(f, s, k)
  BY TotalIs
<1>2. s[0] = 0 /\ s[1] = s[0] + f[0] /\ s[2] = s[1] + f[1]
  BY <1>1 DEF SumStep
<1> QED
  BY <1>1, <1>2

LEMMA TotalOfThree ==
  ASSUME NEW f, f[0] \in Int, f[1] \in Int, f[2] \in Int
  PROVE  total(f, 3) = f[0] + f[1] + f[2]
<1>1. PICK s : total(f, 3) = s[3] /\ \A k \in 0..3 : s[k] = SumStep(f, s, k)
  BY TotalIs
<1>2. s[0] = 0 /\ s[1] = s[0] + f[0] /\ s[2] = s[1] + f[1] /\ s[3] = s[2] + f[2]
  BY <1>1 DEF SumStep
<1> QED
  BY <1>1, <1>2

LEMMA DivIs ==
  ASSUME NEW b \in Nat \ {0}, NEW q \in Nat
  PROVE  (b * q) % b = 0 /\ (b * q) \div b = q
<1> DEFINE n == b * q
           p == n \div b
           s == n % b
<1>1. n \in Int
  BY Times
<1>2. n = b * p + s /\ s \in 0..(b - 1) /\ p \in Int
  BY <1>1, Euclid
<1>3. n = b * q
  OBVIOUS
<1> HIDE DEF n, p, s
<1>4. b * p \in Int /\ b * p < b * q + b /\ b * q < b * p + b
  BY <1>1, <1>2, <1>3, Times
<1>5. p <= q /\ q <= p
  BY <1>2, <1>4, Times
<1>6. p = q
  BY <1>2, <1>5
<1>7. s = 0
  BY <1>1, <1>2, <1>3, <1>6
<1> QED
  BY <1>6, <1>7 DEF p, s, n

\* the equations of the code's loop, upwards from p, and of the definition,
\* downwards from the number
Pos == Nat \ {0}
UpStep(g, p, u, x) == x = g \/ (x < g /\ u[x * p])
Ups(g, p, u) == u = [x \in Pos |-> UpStep(g, p, u, x)]
UpsFrom(g, p, u, m) ==
  /\ u = [x \in Pos |-> u[x]]
  /\ \A x \in Pos : g - x <= m => u[x] = UpStep(g, p, u, x)
DownStep(p, d, x) == x = 1 \/ (x % p = 0 /\ d[x \div p])
Downs(n, p, d) == d = [x \in 1..n |-> DownStep(p, d, x)]
DownsUpto(n, p, d, m) ==
  /\ d = [x \in 1..n |-> d[x]]
  /\ \A x \in 1..n : x <= m => d[x] = DownStep(p, d, x)

LEMMA UpExists ==
  ASSUME NEW g \in Nat, NEW p \in {3, 5, 7}
  PROVE  \E u : Ups(g, p, u)
<1> DEFINE Z == {m \in Nat : \E u : UpsFrom(g, p, u, m)}
<1>1. 0 \in Z
  <2> DEFINE u == [x \in Pos |-> UpStep(g, p, <<>>, x)]
  <2>1. ASSUME NEW x \in Pos, g - x <= 0 PROVE u[x] = UpStep(g, p, u, x)
    <3>1. ~(x < g)
      BY <2>1 DEF Pos
    <3> QED
      BY <3>1 DEF UpStep
  <2>2. u = [x \in Pos |-> u[x]]
    OBVIOUS
  <2> HIDE DEF u
  <2>3. UpsFrom(g, p, u, 0)
    BY <2>1, <2>2 DEF UpsFrom
  <2> QED
    BY <2>3
<1>2. ASSUME NEW m \in Nat, m \in Z PROVE m + 1 \in Z
  <2>1. PICK u : UpsFrom(g, p, u, m)
    BY <1>2
  <2> DEFINE v == [x \in Pos |-> UpStep(g, p, u, x)]
  <2>2. ASSUME NEW x \in Pos, g - x <= m + 1 PROVE v[x] = UpStep(g, p, v, x)
    <3>1. CASE ~(x < g)
      BY <3>1 DEF UpStep
    <3>2. CASE x < g
      <4>1. x * p \in Pos /\ g - x * p <= m
        BY <2>2, <3>2 DEF Pos
      <4>2. v[x * p] = u[x * p]
        BY <2>1, <4>1 DEF UpsFrom
      <4>3. v[x] = UpStep(g, p, u, x)
        OBVIOUS
      <4> HIDE DEF v
      <4> QED
        BY <4>2, <4>3 DEF UpStep
    <3> QED
      BY <3>1, <3>2
  <2>3. v = [x \in Pos |-> v[x]]
    OBVIOUS
  <2> HIDE DEF v
  <2>4. UpsFrom(g, p, v, m + 1)
    BY <2>2, <2>3 DEF UpsFrom
  <2> QED
    BY <2>4
<1> HIDE DEF Z
<1>3. g \in Z
  BY <1>1, <1>2, SetInduction
<1>4. PICK u : UpsFrom(g, p, u, g)
  BY <1>3 DEF Z
<1>5. \A x \in Pos : u[x] = UpStep(g, p, u, x)
  BY <1>4 DEF UpsFrom, Pos
<1>6. u = [x \in Pos |-> u[x]]
  BY <1>4 DEF UpsFrom
<1> QED
  BY <1>5, <1>6 DEF Ups

LEMMA Smaller ==
  ASSUME NEW p \in {3, 5, 7}, NEW n \in Nat, NEW x \in 1..n, x # 1, x % p = 0
  PROVE  x \div p \in 1..n /\ x \div p < x /\ x = p * (x \div p)
<1>1. p \in Nat \ {0} /\ x \in Int
  OBVIOUS
<1>2. x = p * (x \div p) + (x % p) /\ x \div p \in Int
  BY <1>1, Euclid
<1> QED
  BY <1>2

LEMMA DownExists ==
  ASSUME NEW n \in Nat, NEW p \in {3, 5, 7}
  PROVE  \E d : Downs(n, p, d)
<1> DEFINE Z == {m \in Nat : \E d : DownsUpto(n, p, d, m)}
<1>1. 0 \in Z
  <2> DEFINE d == [x \in 1..n |-> TRUE]
  <2>1. d = [x \in 1..n |-> d[x]]
    OBVIOUS
  <2> HIDE DEF d
  <2>2. \A x \in 1..n : ~(x <= 0)
    OBVIOUS
  <2>3. DownsUpto(n, p, d, 0)
    BY <2>1, <2>2 DEF DownsUpto
  <2> QED
    BY <2>3
<1>2. ASSUME NEW m \in Nat, m \in Z PROVE m + 1 \in Z
  <2>1. PICK d : DownsUpto(n, p, d, m)
    BY <1>2
  <2> DEFINE e == [x \in 1..n |-> DownStep(p, d, x)]
  <2>2. ASSUME NEW x \in 1..n, x <= m + 1 PROVE e[x] = DownStep(p, e, x)
    <3>1. CASE x = 1 \/ x % p # 0
      BY <3>1 DEF DownStep
    <3>2. CASE x # 1 /\ x % p = 0
      <4>1. x \div p \in 1..n /\ x \div p <= m
        BY <2>2, <3>2, Smaller
      <4>2. e[x \div p] = d[x \div p]
        BY <2>1, <4>1 DEF DownsUpto
      <4>3. e[x] = DownStep(p, d, x)
        OBVIOUS
      <4> HIDE DEF e
      <4> QED
        BY <4>2, <4>3 DEF DownStep
    <3> QED
      BY <3>1, <3>2
  <2>3. e = [x \in 1..n |-> e[x]]
    OBVIOUS
  <2> HIDE DEF e
  <2>4. DownsUpto(n, p, e, m + 1)
    BY <2>2, <2>3 DEF DownsUpto
  <2> QED
    BY <2>4
<1> HIDE DEF Z
<1>3. n \in Z
  BY <1>1, <1>2, SetInduction
<1>4. PICK d : DownsUpto(n, p, d, n)
  BY <1>3 DEF Z
<1>5. \A x \in 1..n : d[x] = DownStep(p, d, x)
  BY <1>4 DEF DownsUpto
<1>6. d = [x \in 1..n |-> d[x]]
  BY <1>4 DEF DownsUpto
<1> QED
  BY <1>5, <1>6 DEF Downs

\* the loop goes up from x to g if and only if going down from g / x ends at 1
LEMMA UpIsDown ==
  ASSUME NEW g \in Pos, NEW p \in {3, 5, 7}, NEW u, NEW d,
         \A x \in Pos : u[x] = UpStep(g, p, u, x),
         \A x \in 1..g : d[x] = DownStep(p, d, x)
  PROVE  \A x \in Pos : u[x] <=> \E q \in 1..g : g = x * q /\ d[q]
<1> DEFINE Same(x) == u[x] <=> \E q \in 1..g : g = x * q /\ d[q]
           Z == {m \in Nat : \A x \in Pos : g - x <= m => Same(x)}
<1>0. g \in Nat /\ g >= 1 /\ p \in Nat \ {0} /\ p >= 2
  BY DEF Pos
<1>1. ASSUME NEW x \in Pos, x >= g PROVE Same(x)
  <2>1. x \in Nat /\ x >= 1
    BY DEF Pos
  <2>2. CASE x = g
    <3>1. u[x]
      BY <2>2 DEF UpStep
    <3>2. 1 \in 1..g /\ g = x * 1
      BY <1>0, <2>2
    <3>3. d[1]
      BY <3>2 DEF DownStep
    <3> QED
      BY <3>1, <3>2, <3>3
  <2>3. CASE x # g
    <3>0. ~(x < g)
      BY <1>0, <1>1, <2>1, <2>3
    <3>1. ~u[x]
      BY <2>3, <3>0 DEF UpStep
    <3>2. ASSUME NEW q \in 1..g, g = x * q PROVE FALSE
      <4>1. x * q >= x
        BY <2>1
      <4> QED
        BY <1>0, <1>1, <2>1, <2>3, <3>2, <4>1
    <3> QED
      BY <3>1, <3>2
  <2> QED
    BY <2>2, <2>3
<1>2. 0 \in Z
  <2>1. ASSUME NEW x \in Pos, g - x <= 0 PROVE x >= g
    BY <1>0, <2>1 DEF Pos
  <2> HIDE DEF Same
  <2> QED
    BY <1>1, <2>1
<1>3. ASSUME NEW m \in Nat, m \in Z PROVE m + 1 \in Z
  <2> SUFFICES ASSUME NEW x \in Pos, g - x <= m + 1, ~(x >= g) PROVE Same(x)
    <3> HIDE DEF Same
    <3> QED
      BY <1>1
  <2>1. x \in Nat /\ x >= 1 /\ x < g /\ x # g
    BY <1>0 DEF Pos
  <2> DEFINE y == x * p
  <2>2. y \in Pos /\ g - y <= m
    BY <1>0, <2>1 DEF Pos
  <2>3. u[x] <=> u[y]
    BY <2>1 DEF UpStep
  <2>4. u[y] <=> \E q \in 1..g : g = y * q /\ d[q]
    BY <1>3, <2>2
  <2>5. ASSUME NEW q \in 1..g, g = y * q, d[q] PROVE \E r \in 1..g : g = x * r /\ d[r]
    <3> DEFINE r == p * q
    <3>1. g = x * r /\ r \in Nat /\ r >= 1
      BY <1>0, <2>1, <2>5
    <3>2. r % p = 0 /\ r \div p = q
      BY <1>0, DivIs
    <3> HIDE DEF r
    <3>3. x * r >= r
      BY <2>1, <3>1
    <3>4. r \in 1..g
      BY <1>0, <3>1, <3>3
    <3>5. d[r]
      BY <2>5, <3>2, <3>4 DEF DownStep
    <3> QED
      BY <3>1, <3>4, <3>5
  <2>6. ASSUME NEW q \in 1..g, g = x * q, d[q] PROVE \E r \in 1..g : g = y * r /\ d[r]
    <3>1. q # 1
      BY <2>1, <2>6
    <3>2. q % p = 0 /\ d[q \div p]
      BY <2>6, <3>1 DEF DownStep
    <3> DEFINE r == q \div p
    <3>3. r \in 1..g /\ q = p * r
      BY <1>0, <3>1, <3>2, Smaller
    <3> HIDE DEF r
    <3>4. x * (p * r) = x * p * r
      BY <1>0, <2>1, <3>3
    <3> QED
      BY <2>6, <3>2, <3>3, <3>4 DEF r
  <2> QED
    BY <2>3, <2>4, <2>5, <2>6
<1> HIDE DEF Z
<1>4. ASSUME NEW x \in Pos PROVE Same(x)
  <2>1. g \in Z /\ g - x <= g
    BY <1>0, <1>2, <1>3, SetInduction DEF Pos
  <2> QED
    BY <2>1 DEF Z
<1> QED
  BY <1>4

LEMMA PowerIsPower ==
  ASSUME NEW g \in Nat, g > 1, NEW p \in {3, 5, 7}
  PROVE  is_power(g, p) <=> Power(g, p)
<1> DEFINE u == CHOOSE u : Ups(g, p, u)
           d == CHOOSE d : Downs(g, p, d)
<1>1. Ups(g, p, u) /\ Downs(g, p, d)
  BY UpExists, DownExists
<1>2. is_power(g, p) = u[p]
  BY DEF is_power, Ups, UpStep, Pos
<1>3. Power(g, p) = d[g]
  BY DEF Power, Downs, DownStep
<1> HIDE DEF u, d
<1>4. g \in Pos /\ p \in Pos /\ p \in Nat \ {0} /\ g \in 1..g
  BY DEF Pos
<1>5. (\A x \in Pos : u[x] = UpStep(g, p, u, x)) /\ (\A x \in 1..g : d[x] = DownStep(p, d, x))
  BY <1>1 DEF Ups, Downs
<1>6. u[p] <=> \E q \in 1..g : g = p * q /\ d[q]
  BY <1>4, <1>5, UpIsDown
<1>7. d[g] <=> g % p = 0 /\ d[g \div p]
  <2>1. g # 1
    OBVIOUS
  <2>2. d[g] = DownStep(p, d, g)
    BY <1>4, <1>5
  <2> QED
    BY <2>1, <2>2 DEF DownStep
<1>8. ASSUME NEW q \in 1..g, g = p * q PROVE g % p = 0 /\ g \div p = q
  BY <1>4, <1>8, DivIs
<1>9. g % p = 0 => g \div p \in 1..g /\ g = p * (g \div p)
  BY <1>4, Smaller
<1> QED
  BY <1>2, <1>3, <1>6, <1>7, <1>8, <1>9

-----------------------------------------------------------------------------
(* The geometry of an ext4 volume                                          *)

\* what the geometry of a volume that is not refused keeps to
SoundE4(gm) ==
  /\ gm.bs \in Nat /\ gm.bs > 1 /\ gm.isz \in Nat \ {0} /\ gm.total \in Nat
  /\ gm.bpg = 8 * gm.bs /\ gm.groups \in Nat \ {0} /\ gm.gdt \in Nat \ {0}
  /\ gm.ipg \in 12..(8 * gm.bs) /\ gm.it \in Nat \ {0}
  /\ gm.ipg * gm.isz <= gm.it * gm.bs
  /\ \A g \in Groups(gm) : Group(gm, g).free >= 0

LEMMA CeilIs ==
  ASSUME NEW n \in Nat \ {0}, NEW b \in Nat \ {0}
  PROVE  ceil(n, b) \in Nat \ {0} /\ n <= b * ceil(n, b)
BY CeilHolds DEF ceil, ceil_div

LEMMA E4SizesAreNatural ==
  ASSUME NEW d \in Devices
  PROVE  SizeOf(d) \in Nat
  BY SizesAreNatural, Ext4Assumption

\* whole blocks of a volume lie in it
LEMMA BlocksFit ==
  ASSUME NEW bytes \in Nat, NEW bs \in Nat \ {0}
  PROVE  total_blocks(bytes, bs) \in Nat /\ total_blocks(bytes, bs) * bs <= bytes
<1> DEFINE n == (bytes \div Sector) * Sector
<1>1. bytes \div Sector \in Nat /\ Sector * (bytes \div Sector) <= bytes
  BY DivOfNat, DeviceAssumption
<1>2. Sector * (bytes \div Sector) = n /\ n \in Nat
  BY <1>1, DeviceAssumption
<1> HIDE DEF n
<1>3. n \div bs \in Nat /\ bs * (n \div bs) <= n
  BY <1>2, DivOfNat
<1>4. bs * (n \div bs) = (n \div bs) * bs /\ bs * (n \div bs) \in Nat
  BY <1>3
<1>5. total_blocks(bytes, bs) = n \div bs
  BY DEF total_blocks, n
<1> QED
  BY <1>1, <1>2, <1>3, <1>4, <1>5

LEMMA E4GeometryIsSound ==
  ASSUME NEW bytes \in Nat, NEW o \in E4Options,
         total_blocks(bytes, o.block_size) >= MinBlocks
  PROVE  LET gm == Geometry(bytes, o.block_size, o.inode_size)
         IN  /\ (\A g \in Groups(gm) : Group(gm, g).free >= 0) => SoundE4(gm)
             /\ gm.total * gm.bs <= bytes
<1> DEFINE bs     == o.block_size
           isz    == o.inode_size
           total4 == total_blocks(bytes, bs)
           bpg    == 8 * bs
           groups == ceil(total4, bpg)
           want   == larger((bytes \div BytesPerInode) + 1, 16)
           even   == ceil(ceil(want, groups), 8) * 8
           ipg    == smaller(larger(even, 12), bs * 8)
           gm     == Geometry(bytes, bs, isz)
<1>0. /\ bs \in Nat /\ bs > 1 /\ isz \in Nat \ {0} /\ MinBlocks \in Nat \ {0}
      /\ BytesPerInode \in Nat \ {0} /\ DescSize \in Nat \ {0}
  BY Ext4Assumption
<1>1. total4 \in Nat \ {0} /\ total4 * bs <= bytes
  BY <1>0, BlocksFit
<1>2. bpg \in Nat \ {0}
  BY <1>0
<1> HIDE DEF total4, bpg
<1>3. groups \in Nat \ {0}
  BY <1>1, <1>2, CeilIs
<1> HIDE DEF groups
<1>4. want \in Nat \ {0}
  <2>1. bytes \div BytesPerInode \in Int
    BY <1>0, Euclid
  <2> QED
    BY <2>1 DEF larger
<1> HIDE DEF want
<1>5. ceil(want, groups) \in Nat \ {0}
  BY <1>3, <1>4, CeilIs
<1>6. even \in Nat
  <2> DEFINE q == ceil(ceil(want, groups), 8)
  <2>1. q \in Nat \ {0}
    BY <1>5, CeilIs
  <2> HIDE DEF q
  <2>2. q * 8 \in Nat
    BY <2>1
  <2> QED
    BY <2>2 DEF q
<1> HIDE DEF even
<1>7. ipg \in 12..(8 * bs)
  BY <1>0, <1>6 DEF larger, smaller
<1> HIDE DEF ipg
<1>8. ipg * isz \in Nat \ {0}
  <2>1. ipg \in Nat \ {0}
    BY <1>0, <1>7
  <2> QED
    BY <1>0, <2>1
<1>9. ceil(ipg * isz, bs) \in Nat \ {0} /\ ipg * isz <= bs * ceil(ipg * isz, bs)
  <2> DEFINE n == ipg * isz
  <2>1. n \in Nat \ {0} /\ bs \in Nat \ {0}
    BY <1>0, <1>8
  <2> HIDE DEF n, bs
  <2>2. ceil(n, bs) \in Nat \ {0} /\ n <= bs * ceil(n, bs)
    BY <2>1, CeilIs
  <2> QED
    BY <2>2 DEF n
<1>10. ceil(groups * DescSize, bs) \in Nat \ {0}
  <2>1. groups * DescSize \in Nat \ {0}
    BY <1>0, <1>3
  <2> QED
    BY <1>0, <2>1, CeilIs
<1>11. gm = [bs |-> bs, isz |-> isz, total |-> total4, bpg |-> bpg, groups |-> groups,
             gdt |-> ceil(groups * DescSize, bs), ipg |-> ipg, it |-> ceil(ipg * isz, bs)]
  BY DEF Geometry, total4, bpg, groups, want, even, ipg
<1>12. bs * ceil(ipg * isz, bs) = ceil(ipg * isz, bs) * bs
  BY <1>0, <1>9
<1>13. bpg = 8 * bs
  BY DEF bpg
<1> HIDE DEF gm
<1>14. /\ gm.bs = bs /\ gm.isz = isz /\ gm.total = total4 /\ gm.bpg = bpg /\ gm.groups = groups
       /\ gm.gdt = ceil(groups * DescSize, bs) /\ gm.ipg = ipg /\ gm.it = ceil(ipg * isz, bs)
  BY <1>11
<1>15. (\A g \in Groups(gm) : Group(gm, g).free >= 0) => SoundE4(gm)
  BY <1>0, <1>1, <1>3, <1>7, <1>9, <1>10, <1>12, <1>13, <1>14 DEF SoundE4
<1>16. gm.total * gm.bs <= bytes
  BY <1>1, <1>14
<1> QED
  BY <1>15, <1>16 DEF gm

\* a block is in one group only
LEMMA OneGroup ==
  ASSUME NEW b \in Nat \ {0}, NEW g \in Nat, NEW h \in Nat,
         NEW i \in 0..(b - 1), NEW j \in 0..(b - 1), g * b + i = h * b + j
  PROVE  g = h /\ i = j
<1>1. g * b = b * g /\ h * b = b * h /\ b * g \in Int /\ b * h \in Int
  OBVIOUS
<1>2. b * g < b * h + b /\ b * h < b * g + b
  BY <1>1
<1>3. g <= h /\ h <= g
  BY <1>2, Times
<1>4. g = h
  BY <1>3
<1> QED
  BY <1>1, <1>4

\* the parts of a group: the copy of the superblock, bitmaps, inode table and
\* directories lie in front of the end of the group and of the volume
LEMMA GroupIs ==
  ASSUME NEW gm, SoundE4(gm), NEW g \in Groups(gm)
  PROVE  LET p == Group(gm, g)
         IN  /\ g \in Nat /\ gm.bpg \in Nat \ {0} /\ p.base = g * gm.bpg /\ p.base \in Nat
             /\ p.copy \in Nat /\ p.copy = (IF is_sparse_group(g) THEN 1 + gm.gdt ELSE 0)
             /\ g = 0 => is_sparse_group(g) /\ p.copy > 1 /\ p.base = 0
             /\ p.bb = p.base + p.copy /\ p.ibm = p.base + p.copy + 1
             /\ p.itbl = p.base + p.copy + 2
             /\ p.meta = p.copy + 2 + gm.it /\ p.dirs = (IF g = 0 THEN 2 ELSE 0)
             /\ p.real \in Nat /\ p.real <= gm.bpg
             /\ p.free = p.real - p.meta - p.dirs /\ p.free \in Nat
             /\ \A i \in 0..(gm.bpg - 1) : p.base + i >= gm.total <=> i >= p.real
             /\ p.used = (IF g = 0 THEN 11 ELSE 0)
<1>0. /\ gm.bpg \in Nat \ {0} /\ gm.gdt \in Nat \ {0} /\ gm.it \in Nat \ {0} /\ gm.total \in Nat
      /\ Group(gm, g).free >= 0
  BY DEF SoundE4
<1>1. g \in Nat /\ g * gm.bpg \in Nat /\ (g = 0 => g * gm.bpg = 0)
  BY <1>0 DEF Groups, SoundE4
<1>2. g = 0 => is_sparse_group(g)
  BY DEF is_sparse_group
<1> DEFINE base == g * gm.bpg
           c    == IF is_sparse_group(g) THEN 1 + gm.gdt ELSE 0
           meta == c + 2 + gm.it
           dirs == IF g = 0 THEN 2 ELSE 0
           real == smaller(gm.bpg, gm.total - base)
           p    == Group(gm, g)
<1>3. p = [base |-> base, real |-> real, copy |-> c, bb |-> base + c, ibm |-> base + c + 1,
           itbl |-> base + c + 2, meta |-> meta, dirs |-> dirs,
           used |-> IF g = 0 THEN E4_INODE_LOSTFOUND ELSE 0,
           free |-> real - meta - dirs]
  BY DEF Group
<1>4. c \in Nat /\ (is_sparse_group(g) => c > 1)
  BY <1>0
<1>5. real \in Int /\ real <= gm.bpg /\ \A i \in 0..(gm.bpg - 1) : base + i >= gm.total <=> i >= real
  BY <1>0, <1>1 DEF smaller
<1>6. p.free = real - meta - dirs /\ real - meta - dirs >= 0
  BY <1>0, <1>3
<1>7. meta \in Nat /\ dirs \in Nat
  BY <1>0, <1>4
<1>8. real \in Nat /\ real - meta - dirs \in Nat
  <2> HIDE DEF real, meta, dirs
  <2> QED
    BY <1>5, <1>6, <1>7
<1> HIDE DEF p
<1>9. /\ p.base = base /\ p.real = real /\ p.copy = c /\ p.bb = base + c /\ p.ibm = base + c + 1
      /\ p.itbl = base + c + 2 /\ p.meta = meta /\ p.dirs = dirs
      /\ p.used = (IF g = 0 THEN 11 ELSE 0) /\ p.free = real - meta - dirs
  BY <1>3 DEF E4_INODE_LOSTFOUND
<1> HIDE DEF real
<1> QED
  BY <1>0, <1>1, <1>2, <1>4, <1>5, <1>8, <1>9 DEF p

-----------------------------------------------------------------------------
(* The writes of mkfs.ext4 and the blocks they are of                      *)

\* write i of group g in a loop, which blocks of the group it is of, and all
\* of them on the device
Slot(gm, ph, g, i) ==
  /\ ph \in Phases /\ g \in Groups(gm) /\ (ph = "super" => g = 0)
  /\ i \in Nat /\ 1 <= i /\ i <= Count(ph, g)
Lo(gm, ph, g, i) ==
  IF ph = "super" THEN 0
  ELSE IF ph = "copies" THEN (IF i = 1 THEN 1 ELSE 0)
  ELSE IF i < 4 THEN Group(gm, g).copy + i - 1
  ELSE IF i = 4 THEN Group(gm, g).copy + 2 ELSE Group(gm, g).meta + i - 5
Ln(gm, ph, i) ==
  IF ph = "groups" /\ i = 3 THEN gm.it ELSE IF ph = "copies" /\ i = 1 THEN gm.gdt ELSE 1
Blocks(gm, ph, g, i) ==
  LET w == Write(gm, ph, g, i) IN w.at..(w.at + w.n - 1)

\* the loops a slot can be in, and its number
LEMMA SlotCases ==
  ASSUME NEW gm, SoundE4(gm), NEW ph, NEW g, NEW i, Slot(gm, ph, g, i)
  PROVE  \/ ph = "groups" /\ i \in 1..3
         \/ ph = "groups" /\ i \in 4..6 /\ g = 0
         \/ ph = "super" /\ g = 0 /\ i = 1
         \/ ph = "copies" /\ i = 1 /\ is_sparse_group(g)
         \/ ph = "copies" /\ i = 2 /\ is_sparse_group(g) /\ g # 0
<1>1. CASE ph = "groups"
  <2>1. Count(ph, g) = IF g = 0 THEN 6 ELSE 3
    BY <1>1 DEF Count
  <2> QED
    BY <1>1, <2>1 DEF Slot
<1>2. CASE ph = "super"
  <2>1. Count(ph, g) = 1
    BY <1>2 DEF Count
  <2> QED
    BY <1>2, <2>1 DEF Slot
<1>3. CASE ph = "copies"
  <2>1. Count(ph, g) = IF ~is_sparse_group(g) THEN 0 ELSE IF g = 0 THEN 1 ELSE 2
    BY <1>3 DEF Count
  <2>2. CASE ~is_sparse_group(g)
    BY <2>1, <2>2 DEF Slot
  <2>3. CASE is_sparse_group(g)
    BY <1>3, <2>1, <2>3 DEF Slot
  <2> QED
    BY <2>2, <2>3
<1> QED
  BY <1>1, <1>2, <1>3 DEF Slot, Phases

LEMMA WriteIs ==
  ASSUME NEW gm, SoundE4(gm), NEW ph, NEW g, NEW i, Slot(gm, ph, g, i)
  PROVE  /\ Write(gm, ph, g, i).at = Group(gm, g).base + Lo(gm, ph, g, i)
         /\ Write(gm, ph, g, i).n = Ln(gm, ph, i)
<1> DEFINE p == Group(gm, g)
<1>0. g \in Groups(gm)
  BY DEF Slot
<1>1. /\ p.base \in Nat /\ p.copy \in Nat /\ p.meta \in Nat /\ gm.it \in Nat
      /\ p.bb = p.base + p.copy /\ p.ibm = p.base + p.copy + 1 /\ p.itbl = p.base + p.copy + 2
      /\ (g = 0 => p.base = 0)
  BY <1>0, GroupIs DEF SoundE4
<1> HIDE DEF p
<1>2. CASE ph = "groups"
  <2>1. Write(gm, ph, g, i) = group_write(gm, g, i)
    BY <1>2 DEF Write
  <2>2. i \in {1, 2, 3, 4, 5, 6}
    BY <1>2, SlotCases
  <2>3. CASE i = 1
    BY <1>1, <1>2, <2>1, <2>3 DEF group_write, W, Lo, Ln, p
  <2>4. CASE i = 2
    BY <1>1, <1>2, <2>1, <2>4 DEF group_write, W, Lo, Ln, p
  <2>5. CASE i = 3
    BY <1>1, <1>2, <2>1, <2>5 DEF group_write, W, Lo, Ln, p
  <2>6. CASE i = 4
    BY <1>1, <1>2, <2>1, <2>6 DEF group_write, W, Lo, Ln, p
  <2>7. CASE i = 5
    BY <1>1, <1>2, <2>1, <2>7 DEF group_write, W, Lo, Ln, p
  <2>8. CASE i = 6
    BY <1>1, <1>2, <2>1, <2>8 DEF group_write, W, Lo, Ln, p
  <2> QED
    BY <2>2, <2>3, <2>4, <2>5, <2>6, <2>7, <2>8
<1>3. CASE ph = "super"
  <2>1. g = 0
    BY <1>3 DEF Slot
  <2> QED
    BY <1>1, <1>3, <2>1 DEF Write, W, Lo, Ln, p
<1>4. CASE ph = "copies"
  <2>1. Write(gm, ph, g, i) = copy_write(gm, g, i)
    BY <1>4 DEF Write
  <2> QED
    BY <1>1, <1>4, <2>1 DEF copy_write, W, Lo, Ln, p
<1> QED
  BY <1>2, <1>3, <1>4 DEF Slot, Phases

\* a write stays in front of its group's end; those of the first loop lie
\* behind the copies
LEMMA SlotInside ==
  ASSUME NEW gm, SoundE4(gm), NEW ph, NEW g, NEW i, Slot(gm, ph, g, i)
  PROVE  LET p == Group(gm, g)
         IN  /\ Lo(gm, ph, g, i) \in Nat /\ Ln(gm, ph, i) \in Nat \ {0}
             /\ Lo(gm, ph, g, i) + Ln(gm, ph, i) <= p.meta + p.dirs
             /\ IF ph = "groups" THEN p.copy <= Lo(gm, ph, g, i)
                ELSE Lo(gm, ph, g, i) + Ln(gm, ph, i) <= p.copy
<1> DEFINE p == Group(gm, g)
<1>0. g \in Groups(gm)
  BY DEF Slot
<1>1. /\ p.copy \in Nat /\ p.meta = p.copy + 2 + gm.it /\ gm.it \in Nat \ {0}
      /\ gm.gdt \in Nat \ {0} /\ p.copy = (IF is_sparse_group(g) THEN 1 + gm.gdt ELSE 0)
      /\ p.dirs = (IF g = 0 THEN 2 ELSE 0) /\ (g = 0 => p.copy > 1)
  BY <1>0, GroupIs DEF SoundE4
<1>2. \/ ph = "groups" /\ i \in 1..3
      \/ ph = "groups" /\ i \in 4..6 /\ g = 0
      \/ ph = "super" /\ g = 0 /\ i = 1
      \/ ph = "copies" /\ i = 1 /\ is_sparse_group(g)
      \/ ph = "copies" /\ i = 2 /\ is_sparse_group(g) /\ g # 0
  BY SlotCases
<1> HIDE DEF p
<1>3. CASE ph = "groups" /\ i \in 1..3
  BY <1>1, <1>3 DEF Lo, Ln, p
<1>4. CASE ph = "groups" /\ i \in 4..6 /\ g = 0
  BY <1>1, <1>4 DEF Lo, Ln, p
<1>5. CASE ph = "super" /\ g = 0 /\ i = 1
  BY <1>1, <1>5 DEF Lo, Ln, p
<1>6. CASE ph = "copies" /\ i = 1 /\ is_sparse_group(g)
  BY <1>1, <1>6 DEF Lo, Ln, p
<1>7. CASE ph = "copies" /\ i = 2 /\ is_sparse_group(g) /\ g # 0
  BY <1>1, <1>7 DEF Lo, Ln, p
<1> QED
  BY <1>2, <1>3, <1>4, <1>5, <1>6, <1>7

\* the only block written twice is the first of the inode table of group 0
Twice(ph, g, i, qh, h, j) ==
  ph = "groups" /\ qh = "groups" /\ g = 0 /\ h = 0 /\ {i, j} = {3, 4}
LEMMA SlotsApartInGroup ==
  ASSUME NEW gm, SoundE4(gm), NEW g,
         NEW ph, NEW i, Slot(gm, ph, g, i), NEW qh, NEW j, Slot(gm, qh, g, j),
         NEW x \in Nat, Lo(gm, ph, g, i) <= x, x < Lo(gm, ph, g, i) + Ln(gm, ph, i),
         Lo(gm, qh, g, j) <= x, x < Lo(gm, qh, g, j) + Ln(gm, qh, j)
  PROVE  (ph = qh /\ i = j) \/ (Twice(ph, g, i, qh, g, j) /\ x = Group(gm, g).copy + 2)
<1> DEFINE p == Group(gm, g)
<1>0. g \in Groups(gm)
  BY DEF Slot
<1>1. /\ p.copy \in Nat /\ p.meta = p.copy + 2 + gm.it /\ gm.it \in Nat \ {0}
      /\ gm.gdt \in Nat \ {0} /\ (g = 0 => p.copy > 1)
  BY <1>0, GroupIs DEF SoundE4
<1>2. ph = "groups" <=> qh = "groups"
  BY <1>1, SlotInside
<1>3. CASE ph = "groups"
  <2>1. qh = "groups" /\ i \in 1..6 /\ j \in 1..6 /\ (i > 3 \/ j > 3 => g = 0)
    BY <1>2, <1>3, SlotCases
  <2>2. ASSUME NEW k \in 1..6
        PROVE  /\ Lo(gm, "groups", g, k) =
                    IF k < 4 THEN p.copy + k - 1 ELSE IF k = 4 THEN p.copy + 2 ELSE p.meta + k - 5
               /\ Ln(gm, "groups", k) = IF k = 3 THEN gm.it ELSE 1
    BY DEF Lo, Ln
  <2> HIDE DEF p
  <2>3. i = j \/ ({i, j} = {3, 4} /\ x = p.copy + 2)
    <3>1. i # j => i \in {3, 4} /\ j \in {3, 4} /\ x = p.copy + 2
      BY <1>1, <1>3, <2>1, <2>2
    <3> QED
      BY <3>1
  <2> QED
    BY <1>3, <2>1, <2>3 DEF Twice, p
<1>4. CASE ph # "groups"
  <2>1. /\ \/ ph = "super" /\ g = 0 /\ i = 1
           \/ ph = "copies" /\ i = 1
           \/ ph = "copies" /\ i = 2 /\ g # 0
        /\ \/ qh = "super" /\ g = 0 /\ j = 1
           \/ qh = "copies" /\ j = 1
           \/ qh = "copies" /\ j = 2 /\ g # 0
    BY <1>2, <1>4, SlotCases
  <2> QED
    BY <1>1, <2>1 DEF Lo, Ln
<1> QED
  BY <1>3, <1>4

\* the blocks of a write are in its group
LEMMA BlocksAre ==
  ASSUME NEW gm, SoundE4(gm), NEW ph, NEW g, NEW i, Slot(gm, ph, g, i)
  PROVE  LET p == Group(gm, g)
         IN  /\ \A b \in Blocks(gm, ph, g, i) :
                  \E x \in 0..(gm.bpg - 1) :
                    /\ b = p.base + x /\ x < p.meta + p.dirs
                    /\ Lo(gm, ph, g, i) <= x /\ x < Lo(gm, ph, g, i) + Ln(gm, ph, i)
             /\ \A x \in Nat :
                  Lo(gm, ph, g, i) <= x /\ x < Lo(gm, ph, g, i) + Ln(gm, ph, i)
                  => p.base + x \in Blocks(gm, ph, g, i)
<1> DEFINE p == Group(gm, g)
           lo == Lo(gm, ph, g, i)
           n  == Ln(gm, ph, i)
<1>0. g \in Groups(gm)
  BY DEF Slot
<1>1. p.base \in Nat /\ gm.bpg \in Nat /\ p.real <= gm.bpg /\ p.meta + p.dirs <= p.real
      /\ p.meta \in Nat /\ p.dirs \in Nat /\ p.real \in Nat
  <2>1. /\ p.base \in Nat /\ gm.bpg \in Nat /\ p.real <= gm.bpg /\ p.real \in Nat
        /\ p.free = p.real - p.meta - p.dirs /\ p.free \in Nat
        /\ p.dirs = (IF g = 0 THEN 2 ELSE 0) /\ p.copy \in Nat /\ p.meta = p.copy + 2 + gm.it
    BY <1>0, GroupIs
  <2>2. gm.it \in Nat
    BY DEF SoundE4
  <2> HIDE DEF p
  <2> QED
    BY <2>1, <2>2
<1>2. lo \in Nat /\ n \in Nat \ {0} /\ lo + n <= p.meta + p.dirs
  BY SlotInside
<1>3. Blocks(gm, ph, g, i) = (p.base + lo)..(p.base + lo + n - 1)
  BY WriteIs DEF Blocks
<1> HIDE DEF p, lo, n
<1>4. ASSUME NEW b \in Blocks(gm, ph, g, i)
      PROVE  \E x \in 0..(gm.bpg - 1) : b = p.base + x /\ x < p.meta + p.dirs /\ lo <= x /\ x < lo + n
  <2> DEFINE x == b - p.base
  <2>1. b \in (p.base + lo)..(p.base + lo + n - 1)
    BY <1>3, <1>4
  <2>2. lo <= x /\ x < lo + n /\ x \in Int /\ b = p.base + x
    BY <1>1, <1>2, <2>1
  <2> HIDE DEF x
  <2>3. x < p.meta + p.dirs /\ x \in 0..(gm.bpg - 1)
    BY <1>1, <1>2, <2>2
  <2> QED
    BY <2>2, <2>3
<1>5. \A x \in Nat : lo <= x /\ x < lo + n => p.base + x \in Blocks(gm, ph, g, i)
  BY <1>1, <1>2, <1>3
<1> QED
  BY <1>4, <1>5 DEF p, lo, n

LEMMA SlotsApart ==
  ASSUME NEW gm, SoundE4(gm),
         NEW ph, NEW g, NEW i, Slot(gm, ph, g, i),
         NEW qh, NEW h, NEW j, Slot(gm, qh, h, j),
         NEW b \in Blocks(gm, ph, g, i), b \in Blocks(gm, qh, h, j)
  PROVE  \/ ph = qh /\ g = h /\ i = j
         \/ Twice(ph, g, i, qh, h, j) /\ b = Group(gm, 0).itbl
<1>0. g \in Groups(gm) /\ h \in Groups(gm)
  BY DEF Slot
<1>1. /\ g \in Nat /\ h \in Nat /\ gm.bpg \in Nat \ {0}
      /\ Group(gm, g).base = g * gm.bpg /\ Group(gm, h).base = h * gm.bpg
  BY <1>0, GroupIs
<1>2. PICK x \in 0..(gm.bpg - 1) :
        /\ b = Group(gm, g).base + x
        /\ Lo(gm, ph, g, i) <= x /\ x < Lo(gm, ph, g, i) + Ln(gm, ph, i)
  BY BlocksAre
<1>3. PICK y \in 0..(gm.bpg - 1) :
        /\ b = Group(gm, h).base + y
        /\ Lo(gm, qh, h, j) <= y /\ y < Lo(gm, qh, h, j) + Ln(gm, qh, j)
  BY BlocksAre
<1>4. g = h /\ x = y
  <2> DEFINE bpg == gm.bpg
  <2>1. g * bpg + x = h * bpg + y /\ x \in 0..(bpg - 1) /\ y \in 0..(bpg - 1)
    BY <1>1, <1>2, <1>3
  <2>2. bpg \in Nat \ {0} /\ g \in Nat /\ h \in Nat
    BY <1>1
  <2> HIDE DEF bpg
  <2> QED
    BY <2>1, <2>2, OneGroup
<1>5. x \in Nat
  BY <1>1
<1>6. (ph = qh /\ i = j) \/ (Twice(ph, g, i, qh, g, j) /\ x = Group(gm, g).copy + 2)
  BY <1>2, <1>3, <1>4, <1>5, SlotsApartInGroup
<1>7. CASE Twice(ph, g, i, qh, g, j) /\ x = Group(gm, g).copy + 2
  <2>1. g = 0
    BY <1>7 DEF Twice
  <2>2. b = Group(gm, 0).itbl
    BY <1>0, <1>2, <1>7, <2>1, GroupIs
  <2> QED
    BY <1>4, <1>7, <2>2
<1> QED
  BY <1>4, <1>6, <1>7

-----------------------------------------------------------------------------
(* The invariant: what is done is on the disk, each write where it belongs *)

\* the writes that are done: those of earlier loops, and of this one those of
\* earlier groups and the first made of this group
Rank(m) == IF m = "groups" THEN 0 ELSE IF m = "super" THEN 1 ELSE IF m = "copies" THEN 2 ELSE 3
Done4(ph, g, i) ==
  \/ Rank(ph) < Rank(mkfs4)
  \/ ph = mkfs4 /\ (g < grp \/ (g = grp /\ i <= made))

\* the disk holds what was written, and nothing else
Held(ph, g, i, b) ==
  \/ disk[b] = Write(geo, ph, g, i).what
  \/ ph = "groups" /\ g = 0 /\ i = 3 /\ b = Group(geo, 0).itbl /\ Done4("groups", 0, 4)
Laid4 ==
  /\ \A b \in DOMAIN disk :
       \E ph \in Phases, g \in Groups(geo), i \in 1..6 :
         Slot(geo, ph, g, i) /\ Done4(ph, g, i) /\ b \in Blocks(geo, ph, g, i)
  /\ \A ph \in Phases, g \in Groups(geo), i \in 1..6 :
       Slot(geo, ph, g, i) /\ Done4(ph, g, i) =>
         \A b \in Blocks(geo, ph, g, i) : b \in DOMAIN disk /\ Held(ph, g, i, b)

\* the superblock comes after the bitmaps and the inode table of every group
SuperLast ==
  0 \in DOMAIN disk =>
    \A g \in Groups(geo), i \in 1..3 : Blocks(geo, "groups", g, i) \subseteq DOMAIN disk

Inv4 ==
  /\ dev \in Devices /\ opts4 \in E4Options
  /\ mkfs4 \in Phases \cup {"open", "refused", "failed", "broken", "done"}
  /\ mkfs4 \in {"open", "refused"} => disk = <<>>
  /\ mkfs4 = "open" => grp = 0 /\ made = 0
  /\ mkfs4 \notin {"open", "refused"} => SoundE4(geo) /\ geo.total * geo.bs <= SizeOf(dev)
  /\ mkfs4 \in Phases =>
       /\ grp \in Groups(geo) /\ (mkfs4 = "super" => grp = 0)
       /\ made \in Nat /\ made <= Count(mkfs4, grp)
  /\ mkfs4 \in Phases \cup {"done"} => Laid4
  /\ SuperLast

LEMMA FormatLays4 == ASSUME Inv4, e4_format PROVE Inv4'
<1>1. /\ mkfs4 = "open" /\ disk = <<>> /\ grp = 0 /\ made = 0 /\ dev \in Devices
      /\ opts4 \in E4Options /\ dev' = dev /\ opts4' = opts4 /\ grp' = 0 /\ made' = 0
      /\ disk' = <<>>
  BY DEF Inv4, e4_format
<1>2. DOMAIN disk' = {}
  BY <1>1
<1>3. SuperLast'
  BY <1>2 DEF SuperLast
<1>4. CASE mkfs4' = "refused"
  BY <1>1, <1>3, <1>4 DEF Inv4, Phases
<1>5. CASE mkfs4' # "refused"
  <2> DEFINE bytes == SizeOf(dev)
             gm    == Geometry(bytes, opts4.block_size, opts4.inode_size)
  <2>1. /\ geo' = gm /\ mkfs4' = "groups"
        /\ total_blocks(bytes, opts4.block_size) >= MinBlocks
        /\ \A g \in Groups(gm) : Group(gm, g).free >= 0
    BY <1>5 DEF e4_format
  <2>2. bytes \in Nat
    BY <1>1, E4SizesAreNatural
  <2>3. SoundE4(gm) /\ gm.total * gm.bs <= bytes
    <3> HIDE DEF bytes
    <3> QED
      BY <1>1, <2>1, <2>2, E4GeometryIsSound
  <2> HIDE DEF gm
  <2>4. SoundE4(geo') /\ geo'.total * geo'.bs <= SizeOf(dev')
    BY <1>1, <2>1, <2>3
  <2>5. grp' \in Groups(geo')
    BY <1>1, <2>4 DEF Groups, SoundE4
  <2>6. made' \in Nat /\ made' <= Count(mkfs4', grp')
    BY <1>1, <2>1 DEF Count
  <2>7. ASSUME NEW ph, NEW g, NEW i, Slot(geo', ph, g, i) PROVE ~ Done4(ph, g, i)'
    <3>1. g \in Nat /\ i \in Nat /\ i >= 1 /\ ph \in Phases
      BY <2>4, <2>7 DEF Slot, Groups, SoundE4
    <3> QED
      BY <1>1, <2>1, <3>1 DEF Done4, Rank, Phases
  <2>8. Laid4'
    BY <1>2, <2>7 DEF Laid4
  <2> QED
    BY <1>1, <1>3, <2>1, <2>4, <2>5, <2>6, <2>8 DEF Inv4, Phases
<1> QED
  BY <1>4, <1>5

\* once the loop over the groups has ended, what it writes is on the disk
LEMMA GroupsAreWritten ==
  ASSUME Inv4, mkfs4 \in {"super", "copies", "done"}, NEW g \in Groups(geo), NEW i \in 1..3
  PROVE  Blocks(geo, "groups", g, i) \subseteq DOMAIN disk
<1>1. Slot(geo, "groups", g, i)
  BY DEF Slot, Phases, Count
<1>2. Done4("groups", g, i)
  BY DEF Done4, Rank
<1>3. Laid4
  BY DEF Inv4, Phases
<1>4. i \in 1..6 /\ "groups" \in Phases
  BY DEF Phases
<1> QED
  BY <1>1, <1>2, <1>3, <1>4 DEF Laid4

LEMMA WriteLays4 == ASSUME Inv4, wr_block PROVE Inv4'
<1> DEFINE n   == made + 1
           all == Blocks(geo, mkfs4, grp, n)
<1>1. /\ mkfs4 \in Phases /\ grp \in Groups(geo) /\ (mkfs4 = "super" => grp = 0)
      /\ made \in Nat /\ made < Count(mkfs4, grp) /\ SoundE4(geo) /\ Laid4 /\ SuperLast
      /\ geo.total * geo.bs <= SizeOf(dev)
      /\ dev \in Devices /\ opts4 \in E4Options
      /\ dev' = dev /\ opts4' = opts4 /\ geo' = geo /\ grp' = grp
  BY DEF Inv4, wr_block, Phases
<1>2. Slot(geo, mkfs4, grp, n)
  <2>1. Count(mkfs4, grp) \in Nat
    BY <1>1 DEF Count, Phases
  <2> QED
    BY <1>1, <2>1 DEF Slot
<1>3. n \in 1..6
  BY <1>1, <1>2, SlotCases
<1>4. PICK done \in SUBSET all :
        /\ disk' = [b \in DOMAIN disk \cup done |->
                      IF b \in done THEN Write(geo, mkfs4, grp, n).what ELSE disk[b]]
        /\ IF done = all THEN made' = made + 1 /\ mkfs4' = mkfs4
           ELSE mkfs4' = "failed" /\ made' = made
  <2> DEFINE w       == Write(geo, mkfs4, grp, made + 1)
             spb     == geo.bs \div Sector
             goes(b) == \A s \in (b * spb)..(b * spb + spb - 1) : wr512(dev, s)
             done    == {b \in w.at..(w.at + w.n - 1) : \A x \in w.at..b : goes(x)}
  <2>1. done \in SUBSET all /\ all = w.at..(w.at + w.n - 1)
    BY DEF Blocks
  <2>2. /\ disk' = [b \in DOMAIN disk \cup done |-> IF b \in done THEN w.what ELSE disk[b]]
        /\ IF done = w.at..(w.at + w.n - 1) THEN made' = made + 1 /\ mkfs4' = mkfs4
           ELSE mkfs4' = "failed" /\ made' = made
    BY DEF wr_block
  <2> HIDE DEF done
  <2> QED
    BY <2>1, <2>2
<1>5. DOMAIN disk' = DOMAIN disk \cup done
  BY <1>4
<1>6. 0 \in done => mkfs4 # "groups"
  <2> SUFFICES ASSUME 0 \in all, mkfs4 = "groups" PROVE FALSE
    BY <1>4
  <2>1. PICK x \in 0..(geo.bpg - 1) : 0 = Group(geo, grp).base + x /\ Lo(geo, mkfs4, grp, n) <= x
    BY <1>1, <1>2, BlocksAre
  <2>2. /\ grp \in Nat /\ geo.bpg \in Nat \ {0} /\ Group(geo, grp).base = grp * geo.bpg
        /\ Group(geo, grp).base \in Nat /\ (grp = 0 => Group(geo, grp).copy > 1)
        /\ Group(geo, grp).copy \in Nat
    BY <1>1, GroupIs
  <2>3. x = 0 /\ Group(geo, grp).base = 0
    BY <2>1, <2>2
  <2>4. grp = 0
    BY <2>2, <2>3
  <2>5. Group(geo, grp).copy <= Lo(geo, mkfs4, grp, n) /\ Lo(geo, mkfs4, grp, n) \in Nat
    BY <1>1, <1>2, SlotInside
  <2> QED
    BY <2>1, <2>2, <2>3, <2>4, <2>5
<1>7. SuperLast'
  <2>1. CASE 0 \in DOMAIN disk
    BY <1>1, <1>5, <2>1 DEF SuperLast
  <2>2. CASE 0 \in done
    <3>1. mkfs4 \in {"super", "copies", "done"}
      BY <1>1, <1>6, <2>2 DEF Phases
    <3> QED
      BY <1>1, <1>5, <3>1, GroupsAreWritten DEF SuperLast
  <2> QED
    BY <1>5, <2>1, <2>2 DEF SuperLast
<1>8. CASE done # all
  BY <1>1, <1>4, <1>7, <1>8 DEF Inv4, Phases
<1>9. CASE done = all
  <2>1. made' = n /\ mkfs4' = mkfs4
    BY <1>4, <1>9
  <2>2. ASSUME NEW ph, NEW g, NEW i, Slot(geo, ph, g, i)
        PROVE  Done4(ph, g, i)' <=> Done4(ph, g, i) \/ (ph = mkfs4 /\ g = grp /\ i = n)
    <3>1. i \in Nat
      BY <2>2 DEF Slot
    <3>2. i <= n <=> i <= made \/ i = n
      BY <1>1, <3>1
    <3> HIDE DEF n
    <3> QED
      BY <1>1, <2>1, <3>2 DEF Done4
  <2>3. ~ Done4(mkfs4, grp, n)
    BY <1>1 DEF Done4, Rank, Groups, SoundE4, Phases
  <2>4. Slot(geo, "groups", 0, 4)
    BY <1>1 DEF Slot, Groups, SoundE4, Phases, Count
  <2> HIDE DEF n, all
  <2>5. ASSUME NEW b \in DOMAIN disk'
        PROVE  \E ph \in Phases, g \in Groups(geo), i \in 1..6 :
                 Slot(geo, ph, g, i) /\ Done4(ph, g, i)' /\ b \in Blocks(geo, ph, g, i)
    <3>1. CASE b \in done
      BY <1>1, <1>2, <1>3, <1>9, <2>2, <3>1 DEF all
    <3>2. CASE b \in DOMAIN disk
      <4>1. PICK ph \in Phases, g \in Groups(geo), i \in 1..6 :
              Slot(geo, ph, g, i) /\ Done4(ph, g, i) /\ b \in Blocks(geo, ph, g, i)
        BY <1>1, <3>2 DEF Laid4
      <4> QED
        BY <2>2, <4>1
    <3> QED
      BY <1>5, <3>1, <3>2
  <2>6. ASSUME NEW ph \in Phases, NEW g \in Groups(geo), NEW i \in 1..6,
               Slot(geo, ph, g, i), Done4(ph, g, i)', NEW b \in Blocks(geo, ph, g, i)
        PROVE  b \in DOMAIN disk' /\ Held(ph, g, i, b)'
    <3>1. CASE ph = mkfs4 /\ g = grp /\ i = n
      <4>1. b \in done
        BY <1>9, <2>6, <3>1 DEF all
      <4>2. disk'[b] = Write(geo, ph, g, i).what
        BY <1>4, <3>1, <4>1
      <4> QED
        BY <1>1, <1>5, <4>1, <4>2 DEF Held
    <3>2. CASE ~(ph = mkfs4 /\ g = grp /\ i = n)
      <4>1. Done4(ph, g, i)
        BY <2>2, <2>6, <3>2
      <4>2. b \in DOMAIN disk /\ Held(ph, g, i, b)
        BY <1>1, <2>6, <4>1 DEF Laid4
      <4>3. CASE b \notin done
        <5>1. disk'[b] = disk[b]
          BY <1>4, <4>2, <4>3
        <5>2. Done4("groups", 0, 4) => Done4("groups", 0, 4)'
          BY <2>2, <2>4
        <5> QED
          BY <1>1, <1>5, <4>2, <5>1, <5>2 DEF Held
      <4>4. CASE b \in done
        <5>1. b \in Blocks(geo, mkfs4, grp, n)
          BY <1>9, <4>4 DEF all
        <5>2. Twice(ph, g, i, mkfs4, grp, n) /\ b = Group(geo, 0).itbl
          BY <1>1, <1>2, <2>6, <3>2, <5>1, SlotsApart
        <5>3. ph = "groups" /\ mkfs4 = "groups" /\ g = 0 /\ grp = 0 /\ {i, n} = {3, 4}
          BY <5>2 DEF Twice
        <5>4. i = 3 /\ n = 4
          <6>1. (i = 3 /\ n = 4) \/ (i = 4 /\ n = 3)
            BY <5>3
          <6>2. i # 4 \/ n # 3
            <7>1. i <= made
              BY <4>1, <5>3 DEF Done4, Rank
            <7> QED
              BY <1>1, <7>1 DEF n
          <6> QED
            BY <6>1, <6>2
        <5>5. Done4("groups", 0, 4)'
          BY <2>2, <2>4, <5>3, <5>4
        <5> QED
          BY <1>1, <1>5, <4>2, <5>2, <5>3, <5>4, <5>5 DEF Held
      <4> QED
        BY <4>3, <4>4
    <3> QED
      BY <3>1, <3>2
  <2>7. Laid4'
    BY <1>1, <2>5, <2>6 DEF Laid4
  <2>8. made' \in Nat /\ made' <= Count(mkfs4', grp')
    <3>1. n \in Nat /\ n <= Count(mkfs4, grp)
      BY <1>2 DEF Slot
    <3> QED
      BY <1>1, <2>1, <3>1
  <2> QED
    BY <1>1, <1>7, <2>1, <2>7, <2>8 DEF Inv4, Phases
<1> QED
  BY <1>8, <1>9

LEMMA OverrunLays4 == ASSUME Inv4, inode_overrun PROVE Inv4'
<1>1. /\ mkfs4 = "groups" /\ mkfs4' = "broken" /\ dev' = dev /\ opts4' = opts4
      /\ geo' = geo /\ disk' = disk
  BY DEF inode_overrun
<1>2. SuperLast'
  BY <1>1 DEF Inv4, SuperLast
<1> QED
  BY <1>1, <1>2 DEF Inv4, Phases

LEMMA NextLays4 == ASSUME Inv4, next_group PROVE Inv4'
<1>1. /\ mkfs4 \in Phases /\ grp \in Groups(geo) /\ (mkfs4 = "super" => grp = 0)
      /\ made \in Nat /\ made = Count(mkfs4, grp) /\ SoundE4(geo) /\ Laid4 /\ SuperLast
      /\ geo.total * geo.bs <= SizeOf(dev)
      /\ dev \in Devices /\ opts4 \in E4Options /\ made' = 0
      /\ dev' = dev /\ opts4' = opts4 /\ geo' = geo /\ disk' = disk
  BY DEF Inv4, next_group, Phases
<1>2. geo.groups \in Nat \ {0} /\ grp \in 0..(geo.groups - 1)
  BY <1>1 DEF SoundE4, Groups
<1>3. SuperLast'
  BY <1>1 DEF SuperLast
<1>4. ASSUME \A ph, g, i : Slot(geo, ph, g, i) => (Done4(ph, g, i)' <=> Done4(ph, g, i))
      PROVE  Laid4'
  <2>1. Slot(geo, "groups", 0, 4)
    BY <1>1 DEF Slot, Groups, SoundE4, Phases, Count
  <2>2. \A ph, g, i, b : Held(ph, g, i, b)' <=> Held(ph, g, i, b)
    BY <1>1, <1>4, <2>1 DEF Held
  <2> QED
    BY <1>1, <1>4, <2>2 DEF Laid4
<1>5. CASE mkfs4 # "super" /\ grp + 1 < geo.groups
  <2>1. grp' = grp + 1 /\ mkfs4' = mkfs4
    BY <1>5 DEF next_group
  <2>2. ASSUME NEW ph, NEW g, NEW i, Slot(geo, ph, g, i)
        PROVE  Done4(ph, g, i)' <=> Done4(ph, g, i)
    <3>1. /\ g \in Nat /\ i \in Nat /\ i >= 1 /\ grp \in Nat
          /\ (ph = mkfs4 /\ g = grp => i <= made)
      BY <1>1, <1>2, <2>2 DEF Slot, Groups
    <3>2. g < grp + 1 \/ (g = grp + 1 /\ i <= 0) <=> g < grp \/ g = grp
      BY <3>1
    <3> QED
      BY <1>1, <2>1, <3>1, <3>2 DEF Done4
  <2>3. grp' \in Groups(geo') /\ made' \in Nat /\ made' <= Count(mkfs4', grp')
    <3>1. grp + 1 \in Groups(geo)
      BY <1>2, <1>5 DEF Groups
    <3>2. Count(mkfs4, grp + 1) >= 0
      BY <1>1 DEF Count, Phases
    <3> QED
      BY <1>1, <2>1, <3>1, <3>2
  <2> QED
    BY <1>1, <1>3, <1>4, <1>5, <2>1, <2>2, <2>3 DEF Inv4, Phases
<1>6. CASE ~(mkfs4 # "super" /\ grp + 1 < geo.groups)
  <2>1. /\ grp' = 0
        /\ mkfs4' = CASE mkfs4 = "groups" -> "super"
                      [] mkfs4 = "super"  -> "copies"
                      [] mkfs4 = "copies" -> "done"
    BY <1>6 DEF next_group
  <2>2. /\ mkfs4' \in {"super", "copies", "done"}
        /\ \A ph \in Phases : /\ Rank(ph) < Rank(mkfs4') <=> Rank(ph) < Rank(mkfs4) \/ ph = mkfs4
                              /\ ph = mkfs4' => ~(Rank(ph) < Rank(mkfs4)) /\ ph # mkfs4
    BY <1>1, <2>1 DEF Rank, Phases
  <2>3. ASSUME NEW ph, NEW g, NEW i, Slot(geo, ph, g, i)
        PROVE  Done4(ph, g, i)' <=> Done4(ph, g, i)
    <3>1. /\ ph \in Phases /\ g \in 0..(geo.groups - 1) /\ i \in Nat /\ i >= 1
          /\ (ph = mkfs4 /\ g = grp => i <= made) /\ (ph = "super" => g = 0)
      BY <1>1, <2>3 DEF Slot, Groups
    <3>2. ph = mkfs4 => g < grp \/ (g = grp /\ i <= made)
      BY <1>1, <1>2, <1>6, <3>1
    <3>3. ~(g < 0 \/ (g = 0 /\ i <= 0))
      BY <1>2, <3>1
    <3> QED
      BY <1>1, <2>1, <2>2, <3>1, <3>2, <3>3 DEF Done4
  <2>4. 0 \in Groups(geo) /\ \A m \in Phases : Count(m, 0) \in Nat
    BY <1>2 DEF Groups, Count, Phases
  <2>5. Laid4'
    BY <1>4, <2>3
  <2>6. mkfs4' \in Phases =>
          grp' \in Groups(geo') /\ (mkfs4' = "super" => grp' = 0)
          /\ made' \in Nat /\ made' <= Count(mkfs4', grp')
    <3>1. mkfs4' \in Phases => Count(mkfs4', 0) \in Nat /\ Count(mkfs4', 0) >= 0
      BY <2>4
    <3>2. grp' = 0 /\ grp' \in Groups(geo') /\ made' = 0
      BY <1>1, <2>1, <2>4
    <3> QED
      BY <3>1, <3>2
  <2> QED
    BY <1>1, <1>3, <2>2, <2>5, <2>6 DEF Inv4, Phases
<1> QED
  BY <1>5, <1>6

LEMMA Inv4Holds == Ext4Spec => []Inv4
<1>1. Ext4Init => Inv4
  <2> SUFFICES ASSUME Ext4Init PROVE Inv4
    OBVIOUS
  <2>1. disk = <<>> /\ DOMAIN disk = {}
    BY DEF Ext4Init
  <2> QED
    BY <2>1 DEF Ext4Init, Inv4, SuperLast, Phases
<1>2. Inv4 /\ [Ext4Next]_ext4Vars => Inv4'
  <2> SUFFICES ASSUME Inv4, [Ext4Next]_ext4Vars PROVE Inv4'
    OBVIOUS
  <2>1. CASE UNCHANGED ext4Vars
    BY <2>1 DEF ext4Vars, Inv4, SuperLast, Laid4, Held, Done4
  <2> QED
    BY <2>1, FormatLays4, WriteLays4, OverrunLays4, NextLays4 DEF Ext4Next
<1> QED
  BY <1>1, <1>2, PTL DEF Ext4Spec

-----------------------------------------------------------------------------
(* What a group holds in the end                                           *)

\* what is used of a group is what lies in front of its free blocks, and what
\* lies past the end of the volume
LEMMA UsedIs ==
  ASSUME NEW gm, SoundE4(gm), NEW g \in Groups(gm)
  PROVE  LET p == Group(gm, g)
         IN  /\ block_bitmap(gm, g) = 0..(p.meta + p.dirs - 1) \cup p.real..(gm.bpg - 1)
             /\ Free(block_bitmap(gm, g), gm.bpg) = p.free
<1> DEFINE p    == Group(gm, g)
           edge == p.meta + p.dirs
<1>0. edge = p.meta + p.dirs
  OBVIOUS
<1>1. /\ p.copy \in Nat /\ gm.it \in Nat \ {0} /\ p.meta = p.copy + 2 + gm.it
      /\ p.dirs \in Nat /\ p.real \in Nat /\ p.real <= gm.bpg /\ gm.bpg \in Nat
      /\ p.free = p.real - p.meta - p.dirs /\ p.free \in Nat
  BY GroupIs DEF SoundE4
<1>2. block_bitmap(gm, g) = {i \in 0..(p.copy - 1) : i < p.real}
                            \cup {i \in p.copy..(p.copy + gm.it + 1) : i < p.real}
                            \cup {i \in p.meta..(p.meta + p.dirs - 1) : i < p.real}
                            \cup p.real..(gm.bpg - 1)
  BY DEF block_bitmap
<1> HIDE DEF p, edge
<1>3. edge \in Nat /\ edge <= p.real /\ p.free = p.real - edge
  BY <1>0, <1>1
<1>4. \A i \in Int : i \in block_bitmap(gm, g) <=> i \in 0..(edge - 1) \/ i \in p.real..(gm.bpg - 1)
  BY <1>0, <1>1, <1>2
<1>5. block_bitmap(gm, g) \subseteq Int
  BY <1>1, <1>2
<1>6. block_bitmap(gm, g) = 0..(edge - 1) \cup p.real..(gm.bpg - 1)
  BY <1>4, <1>5
<1>7. (0..(gm.bpg - 1)) \ block_bitmap(gm, g) = edge..(p.real - 1)
  BY <1>1, <1>3, <1>6
<1>8. Cardinality(edge..(p.real - 1)) = p.real - edge
  <2>1. edge \in Int /\ p.real - 1 \in Int
    BY <1>1, <1>3
  <2>2. Cardinality(edge..(p.real - 1)) = IF edge > p.real - 1 THEN 0 ELSE p.real - 1 - edge + 1
    BY <2>1, FS_Interval
  <2> QED
    BY <1>1, <1>3, <2>2
<1>9. Free(block_bitmap(gm, g), gm.bpg) = p.free
  BY <1>3, <1>7, <1>8 DEF Free
<1>10. block_bitmap(gm, g) = 0..(p.meta + p.dirs - 1) \cup p.real..(gm.bpg - 1)
  <2>1. edge - 1 = p.meta + p.dirs - 1
    BY <1>0, <1>1
  <2> QED
    BY <1>6, <2>1
<1> QED
  BY <1>9, <1>10 DEF p

LEMMA FreeInodesAre ==
  ASSUME NEW gm, SoundE4(gm), NEW g \in Groups(gm)
  PROVE  Free(inode_bitmap(gm, g), 8 * gm.bs) = gm.ipg - Group(gm, g).used
<1> DEFINE u == Group(gm, g).used
           n == 8 * gm.bs
<1>1. u \in {0, 11} /\ gm.ipg \in 12..n /\ n \in Nat
  BY GroupIs DEF SoundE4
<1>2. inode_bitmap(gm, g) = (0..(n - 1)) \ (u..(gm.ipg - 1))
  BY DEF inode_bitmap
<1> HIDE DEF u, n
<1>3. (0..(n - 1)) \ inode_bitmap(gm, g) = u..(gm.ipg - 1)
  BY <1>1, <1>2
<1>4. Cardinality(u..(gm.ipg - 1)) = IF u > gm.ipg - 1 THEN 0 ELSE gm.ipg - 1 - u + 1
  <2>1. u \in Int /\ gm.ipg - 1 \in Int
    BY <1>1
  <2> QED
    BY <2>1, FS_Interval
<1>5. Cardinality(u..(gm.ipg - 1)) = gm.ipg - u
  BY <1>1, <1>4
<1> QED
  BY <1>3, <1>5 DEF Free, u, n

\* the groups with a copy of the superblock are 0, 1 and the powers of 3, 5 and 7
LEMMA SparseIs ==
  ASSUME SoundE4(geo), NEW g \in Groups(geo)
  PROVE  g \in Sparse <=> is_sparse_group(g)
<1>1. g \in Nat
  BY DEF Groups, SoundE4
<1>2. CASE g \in {0, 1}
  BY <1>2 DEF Sparse, is_sparse_group
<1>3. CASE g \notin {0, 1}
  <2>1. g > 1
    BY <1>1, <1>3
  <2>2. \A p \in {3, 5, 7} : is_power(g, p) <=> Power(g, p)
    BY <1>1, <2>1, PowerIsPower
  <2> QED
    BY <1>3, <2>2 DEF Sparse, is_sparse_group
<1> QED
  BY <1>2, <1>3

-----------------------------------------------------------------------------
(* What is on the disk when the tool has ended well                        *)

LEMMA OnDisk ==
  ASSUME Inv4, mkfs4 = "done", NEW ph, NEW g, NEW i, Slot(geo, ph, g, i),
         NEW b \in Blocks(geo, ph, g, i)
  PROVE  /\ b \in DOMAIN disk
         /\ \/ disk[b] = Write(geo, ph, g, i).what
            \/ ph = "groups" /\ g = 0 /\ i = 3 /\ b = Group(geo, 0).itbl
<1>1. SoundE4(geo) /\ Laid4
  BY DEF Inv4, Phases
<1>2. ph \in Phases /\ g \in Groups(geo) /\ i \in 1..6
  BY <1>1, SlotCases DEF Slot
<1>3. Done4(ph, g, i)
  BY <1>2 DEF Done4, Rank, Phases
<1>4. b \in DOMAIN disk /\ Held(ph, g, i, b)
  BY <1>1, <1>2, <1>3 DEF Laid4
<1> QED
  BY <1>4 DEF Held

LEMMA OneBlock ==
  ASSUME Inv4, mkfs4 = "done", NEW ph, NEW g, NEW i, Slot(geo, ph, g, i),
         ~(ph = "groups" /\ i = 3), NEW b,
         b = Group(geo, g).base + Lo(geo, ph, g, i)
  PROVE  b \in DOMAIN disk /\ disk[b] = Write(geo, ph, g, i).what
<1>1. SoundE4(geo)
  BY DEF Inv4, Phases
<1>2. Lo(geo, ph, g, i) \in Nat /\ Ln(geo, ph, i) \in Nat \ {0}
  BY <1>1, SlotInside
<1>3. b \in Blocks(geo, ph, g, i)
  BY <1>1, <1>2, BlocksAre
<1> QED
  BY <1>3, OnDisk

LEMMA SuperIsAt0 ==
  ASSUME Inv4, mkfs4 = "done" PROVE disk[0] = superblock(geo)
<1>1. SoundE4(geo)
  BY DEF Inv4, Phases
<1>2. 0 \in Groups(geo)
  BY <1>1 DEF SoundE4, Groups
<1>3. Slot(geo, "super", 0, 1)
  BY <1>2 DEF Slot, Phases, Count
<1>4. 0 = Group(geo, 0).base + Lo(geo, "super", 0, 1)
  BY <1>1, <1>2, GroupIs DEF Lo
<1>5. disk[0] = Write(geo, "super", 0, 1).what
  BY <1>3, <1>4, OneBlock
<1> QED
  BY <1>5 DEF Write, W

LEMMA TableIsAt1 ==
  ASSUME Inv4, mkfs4 = "done" PROVE disk[1] = descriptors(geo)
<1>1. SoundE4(geo)
  BY DEF Inv4, Phases
<1>2. 0 \in Groups(geo) /\ is_sparse_group(0)
  BY <1>1 DEF SoundE4, Groups, is_sparse_group
<1>3. Slot(geo, "copies", 0, 1)
  BY <1>2 DEF Slot, Phases, Count
<1>4. 1 = Group(geo, 0).base + Lo(geo, "copies", 0, 1)
  BY <1>1, <1>2, GroupIs DEF Lo
<1>5. disk[1] = Write(geo, "copies", 0, 1).what
  BY <1>3, <1>4, OneBlock
<1> QED
  BY <1>5 DEF Write, copy_write, W

LEMMA GroupHas ==
  ASSUME Inv4, mkfs4 = "done", NEW g \in Groups(geo)
  PROVE  LET p == Group(geo, g)
         IN  /\ disk[p.bb] = [kind |-> "bitmap", used |-> block_bitmap(geo, g)]
             /\ disk[p.ibm] = [kind |-> "bitmap", used |-> inode_bitmap(geo, g)]
             /\ \A b \in p.itbl..(p.itbl + geo.it - 1) :
                  disk[b] = [kind |-> "zero"] \/ b = Group(geo, 0).itbl
<1> DEFINE p == Group(geo, g)
<1>1. SoundE4(geo)
  BY DEF Inv4, Phases
<1>2. \A i \in 1..3 : Slot(geo, "groups", g, i)
  BY DEF Slot, Phases, Count
<1>3. /\ p.base \in Nat /\ p.copy \in Nat /\ geo.it \in Nat
      /\ p.bb = p.base + p.copy /\ p.ibm = p.base + p.copy + 1 /\ p.itbl = p.base + p.copy + 2
  BY <1>1, GroupIs DEF SoundE4
<1>4. /\ Lo(geo, "groups", g, 1) = p.copy /\ Lo(geo, "groups", g, 2) = p.copy + 1
      /\ Lo(geo, "groups", g, 3) = p.copy + 2 /\ Ln(geo, "groups", 3) = geo.it
  BY <1>3 DEF Lo, Ln
<1>5. disk[p.bb] = [kind |-> "bitmap", used |-> block_bitmap(geo, g)]
  <2>1. disk[p.bb] = Write(geo, "groups", g, 1).what
    BY <1>2, <1>3, <1>4, OneBlock
  <2> QED
    BY <2>1 DEF Write, group_write, W
<1>6. disk[p.ibm] = [kind |-> "bitmap", used |-> inode_bitmap(geo, g)]
  <2>1. disk[p.ibm] = Write(geo, "groups", g, 2).what
    <3>1. p.ibm = Group(geo, g).base + Lo(geo, "groups", g, 2) /\ Slot(geo, "groups", g, 2)
      BY <1>2, <1>3, <1>4
    <3> QED
      BY <3>1, OneBlock
  <2> QED
    BY <2>1 DEF Write, group_write, W
<1>7. ASSUME NEW b \in p.itbl..(p.itbl + geo.it - 1)
      PROVE  disk[b] = [kind |-> "zero"] \/ b = Group(geo, 0).itbl
  <2>1. Slot(geo, "groups", g, 3)
    BY <1>2
  <2> DEFINE x == b - p.base
  <2>2. x \in Nat /\ p.copy + 2 <= x /\ x < p.copy + 2 + geo.it /\ b = p.base + x
    BY <1>3
  <2> HIDE DEF x
  <2>3. b \in Blocks(geo, "groups", g, 3)
    BY <1>1, <1>4, <2>1, <2>2, BlocksAre
  <2>4. disk[b] = Write(geo, "groups", g, 3).what \/ b = Group(geo, 0).itbl
    BY <2>1, <2>3, OnDisk
  <2>5. Write(geo, "groups", g, 3).what = [kind |-> "zero"]
    BY DEF Write, group_write, W
  <2> QED
    BY <2>4, <2>5
<1> QED
  BY <1>5, <1>6, <1>7

LEMMA RootHas ==
  ASSUME Inv4, mkfs4 = "done"
  PROVE  LET root == Group(geo, 0).meta
         IN  /\ disk[Group(geo, 0).itbl] =
                  [kind |-> "inodes",
                   inodes |-> planted(geo,
                                {dir_inode(geo, E4_INODE_ROOT, root, 3),
                                 dir_inode(geo, E4_INODE_LOSTFOUND, root + 1, 2)})]
             /\ disk[root].entries = make_dir_block(geo, E4_INODE_ROOT, <<E4_INODE_LOSTFOUND>>)
             /\ disk[root + 1].entries = make_dir_block(geo, E4_INODE_LOSTFOUND, <<>>)
<1> DEFINE p == Group(geo, 0)
<1>1. SoundE4(geo)
  BY DEF Inv4, Phases
<1>2. 0 \in Groups(geo)
  BY <1>1 DEF SoundE4, Groups
<1>3. \A i \in 1..6 : Slot(geo, "groups", 0, i)
  BY <1>2 DEF Slot, Phases, Count
<1>4. /\ p.base = 0 /\ p.copy \in Nat /\ p.meta \in Nat /\ p.itbl = p.copy + 2
  <2>1. p.base = 0 /\ p.copy \in Nat /\ p.itbl = p.base + p.copy + 2 /\ p.meta = p.copy + 2 + geo.it
    BY <1>1, <1>2, GroupIs
  <2> QED
    BY <1>1, <2>1 DEF SoundE4
<1>5. /\ Lo(geo, "groups", 0, 4) = p.copy + 2
      /\ Lo(geo, "groups", 0, 5) = p.meta /\ Lo(geo, "groups", 0, 6) = p.meta + 1
  BY <1>4 DEF Lo
<1>6. /\ disk[p.itbl] = Write(geo, "groups", 0, 4).what
      /\ disk[p.meta] = Write(geo, "groups", 0, 5).what
      /\ disk[p.meta + 1] = Write(geo, "groups", 0, 6).what
  <2>1. Slot(geo, "groups", 0, 4) /\ p.itbl = Group(geo, 0).base + Lo(geo, "groups", 0, 4)
    BY <1>3, <1>4, <1>5
  <2>2. Slot(geo, "groups", 0, 5) /\ p.meta = Group(geo, 0).base + Lo(geo, "groups", 0, 5)
    BY <1>3, <1>4, <1>5
  <2>3. Slot(geo, "groups", 0, 6) /\ p.meta + 1 = Group(geo, 0).base + Lo(geo, "groups", 0, 6)
    BY <1>3, <1>4, <1>5
  <2> QED
    BY <2>1, <2>2, <2>3, OneBlock
<1>7. p.base + p.meta = p.meta
  BY <1>4
<1> HIDE DEF p
<1>8. Write(geo, "groups", 0, 4).what =
        [kind |-> "inodes",
         inodes |-> planted(geo, {dir_inode(geo, E4_INODE_ROOT, p.meta, 3),
                                  dir_inode(geo, E4_INODE_LOSTFOUND, p.meta + 1, 2)})]
  <2>1. group_write(geo, 0, 4) =
          W(p.itbl, 1, [kind |-> "inodes",
            inodes |-> planted(geo, {dir_inode(geo, E4_INODE_ROOT, p.meta, 3),
                                     dir_inode(geo, E4_INODE_LOSTFOUND, p.meta + 1, 2)})])
    BY <1>7 DEF group_write, p
  <2> QED
    BY <2>1 DEF Write, W
<1>9. Write(geo, "groups", 0, 5).what.entries =
        make_dir_block(geo, E4_INODE_ROOT, <<E4_INODE_LOSTFOUND>>)
  <2>1. group_write(geo, 0, 5) =
          W(p.base + p.meta, 1, [kind |-> "dir", entries |->
            make_dir_block(geo, E4_INODE_ROOT, <<E4_INODE_LOSTFOUND>>)])
    BY DEF group_write, p
  <2> QED
    BY <2>1 DEF Write, W
<1>10. Write(geo, "groups", 0, 6).what.entries = make_dir_block(geo, E4_INODE_LOSTFOUND, <<>>)
  <2>1. group_write(geo, 0, 6) =
          W(p.base + p.meta + 1, 1, [kind |-> "dir", entries |->
            make_dir_block(geo, E4_INODE_LOSTFOUND, <<>>)])
    BY DEF group_write, p
  <2> QED
    BY <2>1 DEF Write, W
<1> QED
  BY <1>6, <1>8, <1>9, <1>10 DEF p

\* a block of a group is written if and only if it lies in front of the free ones
LEMMA WrittenIs ==
  ASSUME Inv4, mkfs4 = "done", NEW g \in Groups(geo), NEW x \in 0..(geo.bpg - 1)
  PROVE  LET p == Group(geo, g)
         IN  p.base + x \in DOMAIN disk <=> x < p.meta + p.dirs
<1> DEFINE p == Group(geo, g)
<1>1. SoundE4(geo) /\ Laid4
  BY DEF Inv4, Phases
<1>2. /\ p.base \in Nat /\ p.base = g * geo.bpg /\ p.copy \in Nat /\ geo.it \in Nat \ {0}
      /\ p.copy = (IF is_sparse_group(g) THEN 1 + geo.gdt ELSE 0) /\ geo.gdt \in Nat \ {0}
      /\ p.meta = p.copy + 2 + geo.it /\ p.dirs = (IF g = 0 THEN 2 ELSE 0)
      /\ g \in Nat /\ geo.bpg \in Nat \ {0}
  BY <1>1, GroupIs DEF SoundE4
<1>3. ASSUME p.base + x \in DOMAIN disk PROVE x < p.meta + p.dirs
  <2>1. PICK ph \in Phases, h \in Groups(geo), i \in 1..6 :
          Slot(geo, ph, h, i) /\ p.base + x \in Blocks(geo, ph, h, i)
    BY <1>1, <1>3 DEF Laid4
  <2>2. PICK y \in 0..(geo.bpg - 1) :
          /\ p.base + x = Group(geo, h).base + y
          /\ y < Group(geo, h).meta + Group(geo, h).dirs
    BY <1>1, <2>1, BlocksAre
  <2>3. h \in Nat /\ Group(geo, h).base = h * geo.bpg
    BY <1>1, GroupIs
  <2>4. g = h /\ x = y
    <3> DEFINE bpg == geo.bpg
    <3>1. /\ g * bpg + x = h * bpg + y /\ x \in 0..(bpg - 1) /\ y \in 0..(bpg - 1)
          /\ bpg \in Nat \ {0} /\ g \in Nat /\ h \in Nat
      BY <1>2, <2>2, <2>3
    <3> HIDE DEF bpg
    <3> QED
      BY <3>1, OneGroup
  <2> QED
    BY <2>2, <2>4
<1>4. ASSUME x < p.meta + p.dirs PROVE p.base + x \in DOMAIN disk
  <2>1. SUFFICES \E ph \in Phases, i \in 1..6 :
                   /\ Slot(geo, ph, g, i)
                   /\ Lo(geo, ph, g, i) <= x /\ x < Lo(geo, ph, g, i) + Ln(geo, ph, i)
    <3>1. PICK ph \in Phases, i \in 1..6 :
                   /\ Slot(geo, ph, g, i)
                   /\ Lo(geo, ph, g, i) <= x /\ x < Lo(geo, ph, g, i) + Ln(geo, ph, i)
      BY <2>1
    <3>2. x \in Nat
      BY <1>2
    <3>3. p.base + x \in Blocks(geo, ph, g, i)
      BY <1>1, <3>1, <3>2, BlocksAre
    <3> QED
      BY <3>1, <3>3, OnDisk
  <2>2. ASSUME NEW i \in 1..3 PROVE Slot(geo, "groups", g, i)
    BY DEF Slot, Phases, Count
  <2>3. ASSUME NEW i \in 4..6, g = 0 PROVE Slot(geo, "groups", g, i)
    BY <2>3 DEF Slot, Phases, Count
  <2> HIDE DEF p
  <2>4. CASE p.copy <= x /\ x < p.meta
    <3>1. /\ Lo(geo, "groups", g, 1) = p.copy /\ Lo(geo, "groups", g, 2) = p.copy + 1
          /\ Lo(geo, "groups", g, 3) = p.copy + 2 /\ Ln(geo, "groups", 3) = geo.it
          /\ Ln(geo, "groups", 1) = 1 /\ Ln(geo, "groups", 2) = 1
      BY <1>2 DEF Lo, Ln, p
    <3>2. x = p.copy \/ x = p.copy + 1 \/ (p.copy + 2 <= x /\ x < p.copy + 2 + geo.it)
      BY <1>2, <2>4
    <3>3. 1 \in 1..6 /\ 2 \in 1..6 /\ 3 \in 1..6 /\ "groups" \in Phases
      BY DEF Phases
    <3>4. CASE x = p.copy
      BY <1>2, <2>2, <3>1, <3>3, <3>4
    <3>5. CASE x = p.copy + 1
      BY <1>2, <2>2, <3>1, <3>3, <3>5
    <3>6. CASE p.copy + 2 <= x /\ x < p.copy + 2 + geo.it
      BY <1>2, <2>2, <3>1, <3>3, <3>6
    <3> QED
      BY <3>2, <3>4, <3>5, <3>6
  <2>5. CASE p.meta <= x
    <3>1. g = 0 /\ (x = p.meta \/ x = p.meta + 1)
      BY <1>2, <1>4, <2>5
    <3>2. /\ Lo(geo, "groups", g, 5) = p.meta /\ Lo(geo, "groups", g, 6) = p.meta + 1
          /\ Ln(geo, "groups", 5) = 1 /\ Ln(geo, "groups", 6) = 1
      BY <1>2 DEF Lo, Ln, p
    <3>3. 5 \in 1..6 /\ 6 \in 1..6 /\ "groups" \in Phases
      BY DEF Phases
    <3>4. CASE x = p.meta
      BY <1>2, <2>3, <3>1, <3>2, <3>3, <3>4
    <3>5. CASE x = p.meta + 1
      BY <1>2, <2>3, <3>1, <3>2, <3>3, <3>5
    <3> QED
      BY <3>1, <3>4, <3>5
  <2>6. CASE x < p.copy
    <3>1. is_sparse_group(g) /\ x <= geo.gdt
      BY <1>2, <2>6
    <3>2. CASE x = 0 /\ g = 0
      <4>1. Slot(geo, "super", g, 1)
        BY <3>2 DEF Slot, Phases, Count
      <4>2. Lo(geo, "super", g, 1) = 0 /\ Ln(geo, "super", 1) = 1 /\ "super" \in Phases
        BY DEF Lo, Ln, Phases
      <4> QED
        BY <3>2, <4>1, <4>2
    <3>3. CASE x = 0 /\ g # 0
      <4>1. Slot(geo, "copies", g, 2)
        BY <3>1, <3>3 DEF Slot, Phases, Count
      <4>2. Lo(geo, "copies", g, 2) = 0 /\ Ln(geo, "copies", 2) = 1 /\ "copies" \in Phases
        BY DEF Lo, Ln, Phases
      <4> QED
        BY <3>3, <4>1, <4>2
    <3>4. CASE x # 0
      <4>1. Slot(geo, "copies", g, 1)
        BY <3>1 DEF Slot, Phases, Count
      <4>2. Lo(geo, "copies", g, 1) = 1 /\ Ln(geo, "copies", 1) = geo.gdt /\ "copies" \in Phases
        BY DEF Lo, Ln, Phases
      <4>3. 1 <= x /\ x < 1 + geo.gdt
        BY <1>2, <3>1, <3>4
      <4> QED
        BY <4>1, <4>2, <4>3
    <3> QED
      BY <3>2, <3>3, <3>4
  <2>7. p.copy \in Int /\ p.meta \in Int /\ x \in Int
    BY <1>2
  <2> QED
    BY <2>4, <2>5, <2>6, <2>7
<1> QED
  BY <1>3, <1>4

-----------------------------------------------------------------------------
(* The parts agree                                                         *)

\* what the descriptors say of a group
LEMMA RowIs ==
  ASSUME Inv4, mkfs4 = "done", NEW g \in Groups(geo)
  PROVE  LET p == Group(geo, g)
         IN  disk[1].row[g] = [bb |-> p.bb, ibm |-> p.ibm, itbl |-> p.itbl, free |-> p.free,
                               free_inodes |-> geo.ipg - p.used]
BY TableIsAt1 DEF descriptors

LEMMA RowFields ==
  ASSUME Inv4, mkfs4 = "done", NEW g \in Groups(geo)
  PROVE  LET p   == Group(geo, g)
             row == disk[1].row[g]
         IN  /\ row.bb = p.bb /\ row.ibm = p.ibm /\ row.itbl = p.itbl /\ row.free = p.free
             /\ row.free_inodes = geo.ipg - p.used
<1> DEFINE p   == Group(geo, g)
           row == disk[1].row[g]
<1>1. row = [bb |-> p.bb, ibm |-> p.ibm, itbl |-> p.itbl, free |-> p.free,
             free_inodes |-> geo.ipg - p.used]
  BY RowIs
<1> HIDE DEF row, p
<1>2. /\ row.bb = p.bb /\ row.ibm = p.ibm /\ row.itbl = p.itbl /\ row.free = p.free
      /\ row.free_inodes = geo.ipg - p.used
  BY <1>1
<1> QED
  BY <1>2 DEF row, p

LEMMA BitmapsTellHolds == ASSUME Inv4, mkfs4 = "done" PROVE BitmapsTell
<1>1. SoundE4(geo)
  BY DEF Inv4, Phases
<1> SUFFICES ASSUME NEW g \in Groups(geo)
             PROVE  LET row == disk[1].row[g]
                        base == g * geo.bpg
                    IN  /\ \A i \in 0..(geo.bpg - 1) :
                             i \in disk[row.bb].used
                             <=> base + i \in DOMAIN disk \/ base + i >= geo.total
                        /\ row.free = Free(disk[row.bb].used, geo.bpg)
                        /\ row.free_inodes = Free(disk[row.ibm].used, 8 * geo.bs)
                        /\ \A b \in row.itbl..(row.itbl + geo.it - 1) :
                             disk[b].kind = IF b = Group(geo, 0).itbl THEN "inodes" ELSE "zero"
                        /\ geo.ipg * geo.isz <= geo.it * geo.bs
  BY DEF BitmapsTell
<1> DEFINE p    == Group(geo, g)
           row  == disk[1].row[g]
           base == g * geo.bpg
<1>2. /\ row.bb = p.bb /\ row.ibm = p.ibm /\ row.itbl = p.itbl /\ row.free = p.free
      /\ row.free_inodes = geo.ipg - p.used
  BY RowFields
<1>3. disk[p.bb].used = block_bitmap(geo, g) /\ disk[p.ibm].used = inode_bitmap(geo, g)
  <2>1. /\ disk[p.bb] = [kind |-> "bitmap", used |-> block_bitmap(geo, g)]
        /\ disk[p.ibm] = [kind |-> "bitmap", used |-> inode_bitmap(geo, g)]
    BY GroupHas
  <2> QED
    BY <2>1
<1>4. /\ base = p.base /\ p.real \in Nat /\ geo.bpg \in Nat
      /\ \A i \in 0..(geo.bpg - 1) : base + i >= geo.total <=> i >= p.real
  BY <1>1, GroupIs
<1>5. ASSUME NEW i \in 0..(geo.bpg - 1)
      PROVE  i \in disk[row.bb].used <=> base + i \in DOMAIN disk \/ base + i >= geo.total
  <2>1. block_bitmap(geo, g) = 0..(p.meta + p.dirs - 1) \cup p.real..(geo.bpg - 1)
    BY <1>1, UsedIs
  <2>2. base + i \in DOMAIN disk <=> i < p.meta + p.dirs
    BY <1>4, WrittenIs
  <2>3. base + i >= geo.total <=> i >= p.real
    BY <1>4
  <2>4. p.meta \in Nat /\ p.dirs \in Nat
    <3>1. p.copy \in Nat /\ p.meta = p.copy + 2 + geo.it /\ p.dirs = (IF g = 0 THEN 2 ELSE 0)
      BY <1>1, GroupIs
    <3>2. geo.it \in Nat
      BY <1>1 DEF SoundE4
    <3> HIDE DEF p
    <3> QED
      BY <3>1, <3>2
  <2>5. i \in block_bitmap(geo, g) <=> i < p.meta + p.dirs \/ i >= p.real
    <3> HIDE DEF p
    <3> QED
      BY <1>4, <2>1, <2>4
  <2> HIDE DEF p, row, base
  <2> QED
    BY <1>2, <1>3, <2>2, <2>3, <2>5
<1>6. row.free = Free(disk[row.bb].used, geo.bpg)
  BY <1>1, <1>2, <1>3, UsedIs
<1>7. row.free_inodes = Free(disk[row.ibm].used, 8 * geo.bs)
  BY <1>1, <1>2, <1>3, FreeInodesAre
<1>8. ASSUME NEW b \in row.itbl..(row.itbl + geo.it - 1)
      PROVE  disk[b].kind = IF b = Group(geo, 0).itbl THEN "inodes" ELSE "zero"
  <2>1. b \in p.itbl..(p.itbl + geo.it - 1)
    BY <1>2, <1>8
  <2>2. disk[b] = [kind |-> "zero"] \/ b = Group(geo, 0).itbl
    BY <2>1, GroupHas
  <2>3. disk[Group(geo, 0).itbl].kind = "inodes"
    BY RootHas
  <2> QED
    BY <2>2, <2>3
<1>9. geo.ipg * geo.isz <= geo.it * geo.bs
  BY <1>1 DEF SoundE4
<1> QED
  BY <1>5, <1>6, <1>7, <1>8, <1>9

LEMMA TotalsAgreeHolds == ASSUME Inv4, mkfs4 = "done" PROVE TotalsAgree
<1> DEFINE n == geo.groups
<1>1. SoundE4(geo) /\ geo.total * geo.bs <= SizeOf(dev)
  BY DEF Inv4, Phases
<1>2. n \in Nat \ {0} /\ Groups(geo) = 0..(n - 1)
  BY <1>1 DEF SoundE4, Groups
<1>3. disk[0] = superblock(geo)
  BY SuperIsAt0
<1>4. disk[0].free = total([g \in Groups(geo) |-> disk[1].row[g].free], n)
  <2>1. ASSUME NEW g \in Groups(geo) PROVE Group(geo, g).free = disk[1].row[g].free
    BY RowFields
  <2>2. [g \in Groups(geo) |-> Group(geo, g).free] = [g \in Groups(geo) |-> disk[1].row[g].free]
    BY <2>1
  <2> QED
    BY <1>3, <2>2 DEF superblock
<1>5. disk[0].free_inodes = total([g \in Groups(geo) |-> disk[1].row[g].free_inodes], n)
  <2> DEFINE f == [g \in Groups(geo) |-> disk[1].row[g].free_inodes]
  <2>1. geo.ipg \in Int
    BY <1>1 DEF SoundE4
  <2>2. ASSUME NEW k \in 0..(n - 1) PROVE f[k] = IF k = 0 THEN geo.ipg - 11 ELSE geo.ipg
    <3>1. k \in Groups(geo)
      BY <1>2
    <3>2. f[k] = geo.ipg - Group(geo, k).used
      BY <3>1, RowFields
    <3>3. Group(geo, k).used = IF k = 0 THEN 11 ELSE 0
      BY <1>1, <3>1, GroupIs
    <3> QED
      BY <2>1, <3>2, <3>3
  <2> HIDE DEF f, n
  <2>3. total(f, n) = n * geo.ipg - 11
    <3>1. 11 \in Int
      OBVIOUS
    <3> QED
      BY <1>2, <2>1, <2>2, <3>1, TotalOfAlmostEqual
  <2>4. disk[0].free_inodes = n * geo.ipg - 11
    BY <1>3 DEF superblock, E4_INODE_LOSTFOUND, n
  <2> QED
    BY <2>3, <2>4 DEF f
<1>6. disk[0].blocks * geo.bs <= SizeOf(dev)
  BY <1>1, <1>3 DEF superblock
<1> QED
  BY <1>4, <1>5, <1>6 DEF TotalsAgree

LEMMA CopiesAgreeHolds == ASSUME Inv4, mkfs4 = "done" PROVE CopiesAgree
<1>1. SoundE4(geo)
  BY DEF Inv4, Phases
<1> SUFFICES ASSUME NEW g \in Groups(geo) \ {0}
             PROVE  LET base == g * geo.bpg
                    IN  IF g \in Sparse
                        THEN disk[base] = disk[0] /\ \A i \in 1..geo.gdt : disk[base + i] = disk[1]
                        ELSE \A b \in {base, base + 1} \cap DOMAIN disk :
                               disk[b].kind \notin {"super", "gdt"}
  BY DEF CopiesAgree
<1> DEFINE p    == Group(geo, g)
           base == g * geo.bpg
<1>2. /\ base = p.base /\ p.base \in Nat /\ p.bb = p.base + p.copy /\ p.ibm = p.base + p.copy + 1
      /\ p.copy = (IF is_sparse_group(g) THEN 1 + geo.gdt ELSE 0) /\ geo.gdt \in Nat
  BY <1>1, GroupIs DEF SoundE4
<1>3. g \in Sparse <=> is_sparse_group(g)
  BY <1>1, SparseIs
<1>4. ASSUME is_sparse_group(g)
      PROVE  disk[base] = disk[0] /\ \A i \in 1..geo.gdt : disk[base + i] = disk[1]
  <2>1. Slot(geo, "copies", g, 1) /\ Slot(geo, "copies", g, 2)
    BY <1>4 DEF Slot, Phases, Count
  <2>2. /\ Lo(geo, "copies", g, 1) = 1 /\ Ln(geo, "copies", 1) = geo.gdt
        /\ Lo(geo, "copies", g, 2) = 0
    BY DEF Lo, Ln
  <2>3. disk[base] = Write(geo, "copies", g, 2).what
    <3>1. base = Group(geo, g).base + Lo(geo, "copies", g, 2)
      BY <1>2, <2>2
    <3> QED
      BY <2>1, <3>1, OneBlock
  <2>4. ASSUME NEW i \in 1..geo.gdt PROVE disk[base + i] = Write(geo, "copies", g, 1).what
    <3>1. i \in Nat /\ 1 <= i /\ i < 1 + geo.gdt
      BY <1>2
    <3>2. base + i \in Blocks(geo, "copies", g, 1)
      BY <1>1, <1>2, <2>1, <2>2, <3>1, BlocksAre
    <3> QED
      BY <2>1, <3>2, OnDisk
  <2>5. /\ Write(geo, "copies", g, 2).what = superblock(geo)
        /\ Write(geo, "copies", g, 1).what = descriptors(geo)
    BY DEF Write, copy_write, W
  <2> QED
    BY <2>3, <2>4, <2>5, SuperIsAt0, TableIsAt1
<1>5. ASSUME ~is_sparse_group(g)
      PROVE  \A b \in {base, base + 1} \cap DOMAIN disk : disk[b].kind \notin {"super", "gdt"}
  <2>1. p.bb = base /\ p.ibm = base + 1
    BY <1>2, <1>5
  <2>2. disk[p.bb].kind = "bitmap" /\ disk[p.ibm].kind = "bitmap"
    <3>1. /\ disk[p.bb] = [kind |-> "bitmap", used |-> block_bitmap(geo, g)]
          /\ disk[p.ibm] = [kind |-> "bitmap", used |-> inode_bitmap(geo, g)]
      BY GroupHas
    <3> QED
      BY <3>1
  <2> QED
    BY <2>1, <2>2
<1> QED
  BY <1>3, <1>4, <1>5

LEMMA DirsHoldHolds == ASSUME Inv4, mkfs4 = "done" PROVE DirsHold
<1> DEFINE root == Group(geo, 0).meta
           ino1 == dir_inode(geo, E4_INODE_ROOT, root, 3)
           ino2 == dir_inode(geo, E4_INODE_LOSTFOUND, root + 1, 2)
           inodes == disk[Group(geo, 0).itbl].inodes
           Fills(es) == total([i \in 0..(Len(es) - 1) |-> es[i + 1].len], Len(es)) = geo.bs
           Known(es) == \A k \in 1..Len(es) : es[k].ino \in {E4_INODE_ROOT, E4_INODE_LOSTFOUND}
<1>1. SoundE4(geo)
  BY DEF Inv4, Phases
<1>2. geo.bs \in Nat /\ geo.isz \in Nat /\ EntryLen \in Nat
  BY <1>1, Ext4Assumption DEF SoundE4
<1>3. /\ inodes = planted(geo, {ino1, ino2})
      /\ disk[root].entries = make_dir_block(geo, E4_INODE_ROOT, <<E4_INODE_LOSTFOUND>>)
      /\ disk[root + 1].entries = make_dir_block(geo, E4_INODE_LOSTFOUND, <<>>)
  <2>1. /\ disk[Group(geo, 0).itbl] = [kind |-> "inodes", inodes |-> planted(geo, {ino1, ino2})]
        /\ disk[root].entries = make_dir_block(geo, E4_INODE_ROOT, <<E4_INODE_LOSTFOUND>>)
        /\ disk[root + 1].entries = make_dir_block(geo, E4_INODE_LOSTFOUND, <<>>)
    BY RootHas
  <2> HIDE DEF ino1, ino2, root
  <2> QED
    BY <2>1
<1> HIDE DEF root
<1>4. /\ Fills(disk[root].entries) /\ disk[root].entries[1].ino = E4_INODE_ROOT
      /\ Known(disk[root].entries)
  <2> DEFINE es == <<dir_entry(E4_INODE_ROOT, EntryLen, "."),
                     dir_entry(E4_INODE_ROOT, EntryLen, ".."),
                     dir_entry(E4_INODE_LOSTFOUND, geo.bs - 2 * EntryLen, "lost+found")>>
             f  == [i \in 0..(Len(es) - 1) |-> es[i + 1].len]
  <2>1. disk[root].entries = es
    <3>1. <<E4_INODE_LOSTFOUND>> # <<>> /\ <<E4_INODE_LOSTFOUND>>[1] = E4_INODE_LOSTFOUND
      OBVIOUS
    <3> QED
      BY <1>3, <3>1 DEF make_dir_block
  <2>2. /\ Len(es) = 3 /\ es[1].ino = E4_INODE_ROOT
        /\ es[2].ino = E4_INODE_ROOT /\ es[3].ino = E4_INODE_LOSTFOUND
    BY DEF dir_entry
  <2>3. es[1].len = EntryLen /\ es[2].len = EntryLen /\ es[3].len = geo.bs - 2 * EntryLen
    BY DEF dir_entry
  <2> HIDE DEF es
  <2>4. f[0] = EntryLen /\ f[1] = EntryLen /\ f[2] = geo.bs - 2 * EntryLen
    BY <2>2, <2>3
  <2> HIDE DEF f
  <2>5. total(f, 3) = f[0] + f[1] + f[2]
    BY <1>2, <2>4, TotalOfThree
  <2>6. total(f, Len(es)) = geo.bs
    BY <1>2, <2>2, <2>4, <2>5
  <2>7. \A k \in 1..Len(es) : es[k].ino \in {E4_INODE_ROOT, E4_INODE_LOSTFOUND}
    BY <2>2
  <2> QED
    BY <2>1, <2>2, <2>6, <2>7 DEF f
<1>5. /\ Fills(disk[root + 1].entries) /\ disk[root + 1].entries[1].ino = E4_INODE_LOSTFOUND
      /\ Known(disk[root + 1].entries)
  <2> DEFINE es == <<dir_entry(E4_INODE_LOSTFOUND, EntryLen, "."),
                     dir_entry(E4_INODE_ROOT, geo.bs - EntryLen, "..")>>
             f  == [i \in 0..(Len(es) - 1) |-> es[i + 1].len]
  <2>1. disk[root + 1].entries = es
    BY <1>3 DEF make_dir_block
  <2>2. Len(es) = 2 /\ es[1].ino = E4_INODE_LOSTFOUND /\ es[2].ino = E4_INODE_ROOT
    BY DEF dir_entry
  <2>3. es[1].len = EntryLen /\ es[2].len = geo.bs - EntryLen
    BY DEF dir_entry
  <2> HIDE DEF es
  <2>4. f[0] = EntryLen /\ f[1] = geo.bs - EntryLen
    BY <2>2, <2>3
  <2> HIDE DEF f
  <2>5. total(f, 2) = f[0] + f[1]
    BY <1>2, <2>4, TotalOfTwo
  <2>6. total(f, Len(es)) = geo.bs
    BY <1>2, <2>2, <2>4, <2>5
  <2>7. \A k \in 1..Len(es) : es[k].ino \in {E4_INODE_ROOT, E4_INODE_LOSTFOUND}
    BY <2>2
  <2> QED
    BY <2>1, <2>2, <2>6, <2>7 DEF f
<1>6. /\ ino1.ino = E4_INODE_ROOT /\ ino1.blk = root /\ ino1.at = (E4_INODE_ROOT - 1) * geo.isz
      /\ ino2.ino = E4_INODE_LOSTFOUND /\ ino2.blk = root + 1
      /\ ino2.at = (E4_INODE_LOSTFOUND - 1) * geo.isz
  BY DEF dir_inode
<1> HIDE DEF ino1, ino2, inodes
<1>7. ~Overruns(geo) => ino1 \in inodes /\ ino2 \in inodes
  <2> SUFFICES ASSUME ~Overruns(geo) PROVE ino1.at + geo.isz <= geo.bs /\ ino2.at + geo.isz <= geo.bs
    BY <1>3 DEF planted
  <2> QED
    BY <1>2, <1>6 DEF Overruns, E4_INODE_ROOT, E4_INODE_LOSTFOUND
<1> HIDE DEF Fills, Known
<1>8. ASSUME NEW inode \in inodes
      PROVE  /\ Fills(disk[inode.blk].entries) /\ Known(disk[inode.blk].entries)
             /\ disk[inode.blk].entries[1].ino = inode.ino
             /\ inode.at + geo.isz <= geo.bs
  <2>1. inode \in {ino1, ino2} /\ inode.at + geo.isz <= geo.bs
    BY <1>3, <1>8 DEF planted
  <2>2. CASE inode = ino1
    BY <1>4, <1>6, <2>1, <2>2
  <2>3. CASE inode = ino2
    BY <1>5, <1>6, <2>1, <2>3
  <2> QED
    BY <2>1, <2>2, <2>3
<1>9. ASSUME NEW ino \in {E4_INODE_ROOT, E4_INODE_LOSTFOUND}
      PROVE  Overruns(geo) \/ \E n \in inodes : n.ino = ino
  BY <1>6, <1>7
<1>10. ASSUME NEW inode \in inodes, NEW k \in 1..Len(disk[inode.blk].entries)
       PROVE  Overruns(geo) \/ \E n \in inodes : n.ino = disk[inode.blk].entries[k].ino
  BY <1>8, <1>9 DEF Known
<1> QED
  BY <1>8, <1>9, <1>10 DEF DirsHold, Fills, inodes

LEMMA Inv4Fits == ASSUME Inv4 PROVE Ext4Fits
<1>1. mkfs4 = "done" => BitmapsTell /\ TotalsAgree /\ CopiesAgree /\ DirsHold
  BY BitmapsTellHolds, TotalsAgreeHolds, CopiesAgreeHolds, DirsHoldHolds
<1>2. ASSUME 0 \in DOMAIN disk, NEW g \in Groups(geo)
      PROVE  LET p == Group(geo, g)
             IN  p.bb..(p.bb + 1 + geo.it) \subseteq DOMAIN disk
  <2> DEFINE p == Group(geo, g)
  <2>1. SoundE4(geo)
    <3>1. mkfs4 \notin {"open", "refused"}
      BY <1>2 DEF Inv4
    <3> QED
      BY <3>1 DEF Inv4
  <2>2. /\ p.base \in Nat /\ p.copy \in Nat /\ p.bb = p.base + p.copy /\ geo.it \in Nat
    BY <2>1, GroupIs DEF SoundE4
  <2>3. \A i \in 1..3 : Slot(geo, "groups", g, i)
    BY DEF Slot, Phases, Count
  <2>4. \A i \in 1..3 : Blocks(geo, "groups", g, i) \subseteq DOMAIN disk
    BY <1>2 DEF Inv4, SuperLast
  <2>5. /\ Lo(geo, "groups", g, 1) = p.copy /\ Lo(geo, "groups", g, 2) = p.copy + 1
        /\ Lo(geo, "groups", g, 3) = p.copy + 2 /\ Ln(geo, "groups", 3) = geo.it
        /\ Ln(geo, "groups", 1) = 1 /\ Ln(geo, "groups", 2) = 1
    BY <2>2 DEF Lo, Ln
  <2>6. ASSUME NEW b \in p.bb..(p.bb + 1 + geo.it) PROVE b \in DOMAIN disk
    <3> DEFINE x == b - p.base
    <3>1. /\ x \in Nat /\ b = p.base + x
          /\ x = p.copy \/ x = p.copy + 1 \/ (p.copy + 2 <= x /\ x < p.copy + 2 + geo.it)
      BY <2>2
    <3> HIDE DEF x
    <3>2. PICK i \in 1..3 :
            /\ Lo(geo, "groups", g, i) <= x
            /\ x < Lo(geo, "groups", g, i) + Ln(geo, "groups", i)
      <4>1. CASE x = p.copy
        BY <2>2, <2>5, <4>1
      <4>2. CASE x = p.copy + 1
        BY <2>2, <2>5, <4>2
      <4>3. CASE p.copy + 2 <= x /\ x < p.copy + 2 + geo.it
        BY <2>2, <2>5, <4>3
      <4> QED
        BY <3>1, <4>1, <4>2, <4>3
    <3>3. b \in Blocks(geo, "groups", g, i)
      BY <2>1, <2>3, <3>1, <3>2, BlocksAre
    <3> QED
      BY <2>4, <3>3
  <2> QED
    BY <2>6
<1> QED
  BY <1>1, <1>2 DEF Ext4Fits

(* mkfs.ext4 that ends well leaves bitmaps, counts, copies and directories *)
(* that agree with what it wrote, but for the inode of lost+found where    *)
(* eleven inodes do not fit a block, and it writes the superblock last     *)
(* (ext4_fmt.c:452, 513, 532).                                             *)
THEOREM Ext4FitsHolds == Ext4Spec => []Ext4Fits
BY Inv4Holds, Inv4Fits, PTL

(* Whatever the device and the options, what the makers of file systems    *)
(* leave when they end well is whole, but for that inode, and they have    *)
(* found the end of the device (ext4_fmt.c:294, 513, fat32_fmt.c:146,      *)
(* main.c:50).                                                             *)
THEOREM LayoutsFitHolds == Ext4Spec /\ Fat32Spec => []LayoutsFit
<1>1. Inv4 => Ext4Fits /\ ProbeIsExact(dev)
  <2>1. Inv4 => dev \in [reported : Nat, sectors : Nat]
    BY Ext4Assumption DEF Inv4
  <2> QED
    BY <2>1, Inv4Fits, ProbeFindsTheEnd
<1>2. Ext4Fits /\ ProbeIsExact(dev) /\ Fat32Fits => LayoutsFit
  BY DEF LayoutsFit
<1> QED
  BY <1>1, <1>2, Inv4Holds, Fat32FitsHolds, PTL
=============================================================================
