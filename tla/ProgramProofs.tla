--------------------------- MODULE ProgramProofs ---------------------------
(***************************************************************************)
(* What eleven of the programs do for every value of the constants: the    *)
(* relay of nc keeps every unit and its order and dd copies the piece of   *)
(* its input that was asked for, whatever pieces the reads and writes come *)
(* in and however many of them fail; killall finds every process that      *)
(* lives through its walk; ip commands one after the other add up; what    *)
(* firmextr was asked for is written whole or its status tells; what wget  *)
(* leaves is the whole body, or a beginning of it and a status that tells, *)
(* whatever pieces the response comes in; xargs hands each item of its     *)
(* input to one command; the shell gets each request of its tools once and *)
(* whole; timeout signals and reports on its own command only; and wljoin  *)
(* joins with the keys both sides derived.                                 *)
(***************************************************************************)
EXTENDS Timeout, Netcat, Dd, Killall, IpConfig, Firmextr, Wget, Xargs,
        Channel, Wljoin, FiniteSetTheorems, SequenceTheorems, WellFoundedInduction, TLAPS

-----------------------------------------------------------------------------
(* The relay of nc                                                         *)

Texts == Seq(Unit)

\* Concatenation, under a name the provers take as a mere symbol: its laws are
\* all that is used of it.
Cat(s, t) == s \o t

NcTypeOK ==
  /\ stdin \in Texts /\ toPeer \in Texts /\ inbuf \in Texts
  /\ peerGot \in Texts /\ stdin0 \in Texts
  /\ stdout \in Texts /\ fromPeer \in Texts /\ outbuf \in Texts
  /\ peerLeft \in Texts /\ text0 \in Texts
  /\ peerOpen \in BOOLEAN /\ patient \in BOOLEAN /\ shut \in BOOLEAN
  /\ ncFaults \in Nat /\ rcn \in {0, 1}
  /\ childAt \in {"fork", "read", "write", "done"}
  /\ parentAt \in {"fork", "read", "write", "kill", "done"}

\* what was to be sent is got, on its way, in the buffer or not yet read
SentConserved == Cat(peerGot, Cat(toPeer, Cat(inbuf, stdin))) = stdin0
ReceivedConserved == Cat(stdout, Cat(outbuf, Cat(fromPeer, peerLeft))) = text0

\* a buffer is empty where a read fills it
Buffers ==
  /\ childAt \in {"fork", "read"} => inbuf = <<>>
  /\ parentAt \in {"fork", "read"} => outbuf = <<>>

Stages ==
  /\ parentAt = "fork" => ~shut /\ childAt = "fork"
  /\ childAt = "fork" => parentAt = "fork"
  /\ shut => childAt = "done"
  /\ ncFaults = 0 => rcn = 0
  /\ parentAt \in {"kill", "done"} /\ rcn = 0 =>
       ~peerOpen /\ fromPeer = <<>> /\ outbuf = <<>>

\* no more is sent once all is; and then the patient peer closes
Finished ==
  ncFaults = 0 =>
    /\ shut /\ peerOpen => stdin = <<>> /\ inbuf = <<>>
    /\ patient /\ ~peerOpen =>
         shut /\ stdin = <<>> /\ inbuf = <<>> /\ toPeer = <<>> /\ peerLeft = <<>>

NcInv == NcTypeOK /\ SentConserved /\ ReceivedConserved /\ Buffers /\ Stages /\ Finished

-----------------------------------------------------------------------------
(* Sequences                                                               *)

(* The library's fact on \o, in a form the provers instantiate.            *)
LEMMA Joined ==
  \A S : \A a, b \in Seq(S) :
    /\ a \o b \in Seq(S)
    /\ Len(a \o b) = Len(a) + Len(b)
    /\ \A i \in 1..(Len(a) + Len(b)) :
         (a \o b)[i] = IF i <= Len(a) THEN a[i] ELSE b[i - Len(a)]
  BY ConcatProperties

(* A read or write takes a piece from the front and leaves the rest.       *)
LEMMA SplitJoins ==
  ASSUME NEW S, NEW s \in Seq(S), NEW x \in Split(s)
  PROVE  \E a \in Seq(S), b \in Seq(S) : x[1] = a /\ x[2] = b /\ a \o b = s
<1>1. PICK n \in 1..Len(s) : x = <<SubSeq(s, 1, n), SubSeq(s, n + 1, Len(s))>>
  BY DEF Split
<1> DEFINE a == SubSeq(s, 1, n)
           b == SubSeq(s, n + 1, Len(s))
<1>2. Len(s) \in Nat /\ \A i \in 1..Len(s) : s[i] \in S
  BY LenProperties, ElementOfSeq
<1>3. a \in Seq(S) /\ Len(a) = n /\ \A i \in 1..n : a[i] = s[i]
  <2>1. \A i \in 1..n : s[i] \in S
    BY <1>2
  <2> QED
    BY <1>2, <2>1, SubSeqProperties
<1>4. /\ b \in Seq(S) /\ Len(b) = Len(s) - n
      /\ \A i \in 1..(Len(s) - n) : b[i] = s[n + i]
  <2>1. \A i \in n + 1 .. Len(s) : s[i] \in S
    BY <1>2
  <2> QED
    BY <1>2, <2>1, SubSeqProperties
<1>5. x[1] = a /\ x[2] = b
  BY <1>1
<1> HIDE DEF a, b
<1>6. /\ n \in Nat /\ Len(s) - n \in Nat /\ n + (Len(s) - n) = Len(s)
  BY <1>2
<1>7. a \o b = s
  <2>1. /\ a \o b \in Seq(S)
        /\ Len(a \o b) = Len(s)
        /\ \A i \in 1..Len(s) : (a \o b)[i] = IF i <= n THEN a[i] ELSE b[i - n]
    <3>1. /\ a \o b \in Seq(S)
          /\ Len(a \o b) = Len(a) + Len(b)
          /\ \A i \in 1..(Len(a) + Len(b)) :
               (a \o b)[i] = IF i <= Len(a) THEN a[i] ELSE b[i - Len(a)]
      BY <1>3, <1>4, Joined, Zenon
    <3>2. Len(a) = n /\ Len(b) = Len(s) - n
      BY <1>3, <1>4
    <3>3. Len(a) + Len(b) = Len(s)
      BY <3>2, <1>6
    <3> QED
      BY <3>1, <3>2, <3>3, Zenon
  <2>2. \A i \in 1..Len(s) : (a \o b)[i] = s[i]
    <3> SUFFICES ASSUME NEW i \in 1..Len(s) PROVE (a \o b)[i] = s[i]
      OBVIOUS
    <3>1. CASE i <= n
      <4>1. i \in 1..n
        BY <3>1, <1>2
      <4> QED
        BY <1>3, <2>1, <3>1, <4>1
    <3>2. CASE i > n
      <4>1. i - n \in 1..(Len(s) - n) /\ n + (i - n) = i
        BY <3>2, <1>2
      <4> QED
        BY <1>4, <2>1, <3>2, <4>1
    <3>3. i <= n \/ i > n
      BY <1>2
    <3> QED
      BY <3>1, <3>2, <3>3, Zenon
  <2> QED
    BY <2>1, <2>2, SeqEqual
<1> QED
  BY <1>3, <1>4, <1>5, <1>7

(* What comes first in a text is a prefix of it.                           *)
LEMMA FrontIsPrefix ==
  ASSUME NEW S, NEW s \in Seq(S), NEW t \in Seq(S)
  PROVE  IsPrefix(s, s \o t)
<1>1. /\ s \o t \in Seq(S) /\ Len(s) \in Nat /\ Len(t) \in Nat
      /\ Len(s \o t) = Len(s) + Len(t)
      /\ \A i \in 1..Len(s) : (s \o t)[i] = s[i] /\ s[i] \in S
  BY ConcatProperties, LenProperties, ElementOfSeq
<1>2. /\ SubSeq(s, 1, Len(s)) \in Seq(S) /\ SubSeq(s \o t, 1, Len(s)) \in Seq(S)
      /\ Len(SubSeq(s, 1, Len(s))) = Len(s) /\ Len(SubSeq(s \o t, 1, Len(s))) = Len(s)
      /\ \A i \in 1..Len(s) : SubSeq(s, 1, Len(s))[i] = s[i]
                              /\ SubSeq(s \o t, 1, Len(s))[i] = (s \o t)[i]
  BY <1>1, SubSeqProperties
<1>3. SubSeq(s, 1, Len(s)) = SubSeq(s \o t, 1, Len(s))
  BY <1>1, <1>2, SeqEqual
<1> QED
  BY <1>1, <1>3 DEF IsPrefix

(* Texts with Cat and the empty text.                                      *)
LEMMA CatLaws ==
  /\ <<>> \in Texts
  /\ \A s, t \in Texts : Cat(s, t) \in Texts
  /\ \A s, t, u \in Texts : Cat(Cat(s, t), u) = Cat(s, Cat(t, u))
  /\ \A s \in Texts : Cat(<<>>, s) = s /\ Cat(s, <<>>) = s
<1>1. <<>> \in Texts
  BY DEF Texts
<1>2. \A s, t \in Texts : Cat(s, t) \in Texts
  BY Joined DEF Texts, Cat
<1>3. \A s, t, u \in Texts : Cat(Cat(s, t), u) = Cat(s, Cat(t, u))
  BY ConcatAssociative DEF Texts, Cat
<1>4. \A s \in Texts : Cat(<<>>, s) = s /\ Cat(s, <<>>) = s
  BY ConcatEmptySeq DEF Texts, Cat
<1> QED
  BY <1>1, <1>2, <1>3, <1>4

(* A piece moves from the front of one text to the end of another.         *)
LEMMA PieceMoves ==
  \A a, b, got, rest \in Texts :
    /\ Cat(Cat(got, a), Cat(b, rest)) = Cat(got, Cat(Cat(a, b), rest))
    /\ Cat(Cat(got, a), b) = Cat(got, Cat(a, b))
    /\ Cat(a, Cat(b, rest)) = Cat(Cat(a, b), rest)
  BY CatLaws

(* What a read, a write and a receipt of one unit take apart.              *)
LEMMA SplitParts ==
  \A s \in Texts : \A x \in Split(s) :
    \E a, b \in Texts : x[1] = a /\ x[2] = b /\ Cat(a, b) = s
  BY SplitJoins DEF Texts, Cat

LEMMA HeadParts ==
  \A s, got \in Texts : s # <<>> =>
    \E a, b \in Texts : Append(got, Head(s)) = Cat(got, a) /\ Tail(s) = b /\ Cat(a, b) = s
<1> TAKE s, got \in Texts
<1> HAVE s # <<>>
<1>1. Head(s) \in Unit /\ Tail(s) \in Seq(Unit) /\ <<Head(s)>> \in Seq(Unit)
  BY HeadTailProperties DEF Texts
<1>2. <<Head(s)>> \o Tail(s) = s
  BY <1>1 DEF Texts
<1>3. Append(got, Head(s)) = got \o <<Head(s)>>
  BY <1>1 DEF Texts
<1> QED
  BY <1>1, <1>2, <1>3 DEF Texts, Cat

(* What comes first in a text is a prefix of it.                           *)
LEMMA CatPrefix == \A s, t \in Texts : IsPrefix(s, Cat(s, t))
  BY FrontIsPrefix DEF Texts, Cat

-----------------------------------------------------------------------------
(* The invariant                                                           *)

LEMMA NcInitInv == NcInit => NcInv
<1> SUFFICES ASSUME NcInit PROVE NcInv
  OBVIOUS
<1>1. stdin \in Texts /\ peerLeft \in Texts /\ <<>> \in Texts
  BY NetcatAssumption DEF NcInit, Texts
<1>2. NcTypeOK
  BY <1>1 DEF NcInit, NcTypeOK
<1>3. SentConserved /\ ReceivedConserved
  BY <1>1, CatLaws DEF NcInit, SentConserved, ReceivedConserved
<1>4. Buffers /\ Stages /\ Finished
  BY DEF NcInit, Buffers, Stages, Finished
<1> QED
  BY <1>2, <1>3, <1>4 DEF NcInv

LEMMA NcForkKeeps ==
  ASSUME NcInv, NcFork PROVE NcInv'
<1>1. NcTypeOK'
  BY DEF NcFork, NcInv, NcTypeOK, NcFault, Runs, ParentIdle, ChildIdle, PeerIdle
<1>2. SentConserved'
  BY DEF SentConserved, NcFork, NcInv, NcTypeOK, Buffers, Runs, ParentIdle, ChildIdle, PeerIdle
<1>3. ReceivedConserved'
  BY DEF ReceivedConserved, NcFork, NcInv, NcTypeOK, Buffers, Runs, ParentIdle, ChildIdle, PeerIdle
<1>4. (Buffers /\ Stages /\ Finished)'
  BY DEF NcFork, NcInv, NcTypeOK, Buffers, Stages, Finished, NcFault, Runs, ParentIdle, ChildIdle, PeerIdle
<1> QED
  BY <1>1, <1>2, <1>3, <1>4 DEF NcInv

LEMMA KillSenderKeeps ==
  ASSUME NcInv, KillSender PROVE NcInv'
<1>1. NcTypeOK'
  BY DEF KillSender, NcInv, NcTypeOK, NcFault, Runs, ParentIdle, ChildIdle, PeerIdle
<1>2. SentConserved'
  BY DEF SentConserved, KillSender, NcInv, NcTypeOK, Buffers, Runs, ParentIdle, ChildIdle, PeerIdle
<1>3. ReceivedConserved'
  BY DEF ReceivedConserved, KillSender, NcInv, NcTypeOK, Buffers, Runs, ParentIdle, ChildIdle, PeerIdle
<1>4. (Buffers /\ Stages /\ Finished)'
  BY DEF KillSender, NcInv, NcTypeOK, Buffers, Stages, Finished, NcFault, Runs, ParentIdle, ChildIdle, PeerIdle
<1> QED
  BY <1>1, <1>2, <1>3, <1>4 DEF NcInv

LEMMA PeerClosesKeeps ==
  ASSUME NcInv, PeerCloses PROVE NcInv'
<1>1. NcTypeOK'
  BY DEF PeerCloses, NcInv, NcTypeOK, NcFault, Runs, ParentIdle, ChildIdle, PeerIdle
<1>2. SentConserved'
  BY DEF SentConserved, PeerCloses, NcInv, NcTypeOK, Buffers, Runs, ParentIdle, ChildIdle, PeerIdle
<1>3. ReceivedConserved'
  BY DEF ReceivedConserved, PeerCloses, NcInv, NcTypeOK, Buffers, Runs, ParentIdle, ChildIdle, PeerIdle
<1>4. (Buffers /\ Stages /\ Finished)'
  BY DEF PeerCloses, NcInv, NcTypeOK, Buffers, Stages, Finished, NcFault, Runs, ParentIdle, ChildIdle, PeerIdle
<1> QED
  BY <1>1, <1>2, <1>3, <1>4 DEF NcInv

LEMMA ChildReadKeeps ==
  ASSUME NcInv, ChildRead PROVE NcInv'
<1>a. inbuf = <<>>
  BY DEF ChildRead, NcInv, Buffers
<1>b. /\ inbuf' \in Texts /\ stdin' \in Texts
      /\ Cat(inbuf', stdin') = Cat(inbuf, stdin)
  <2>0. inbuf \in Texts /\ stdin \in Texts
    BY DEF NcInv, NcTypeOK
  <2>1. CASE inbuf' = inbuf /\ stdin' = stdin
    BY <2>0, <2>1 DEF ChildRead
  <2>2. ASSUME NEW x \in Split(stdin), inbuf' = x[1], stdin' = x[2]
        PROVE  /\ inbuf' \in Texts /\ stdin' \in Texts
               /\ Cat(inbuf', stdin') = Cat(inbuf, stdin)
    <3>1. PICK a \in Texts, b \in Texts : x[1] = a /\ x[2] = b /\ Cat(a, b) = stdin
      BY <2>0, SplitParts
    <3>2. Cat(a, b) = Cat(<<>>, stdin)
      BY <2>0, <3>1, CatLaws
    <3> QED
      BY <1>a, <2>2, <3>1, <3>2
  <2> QED
    BY <2>1, <2>2 DEF ChildRead
<1>1. NcTypeOK'
  <2>1. childAt' \in {"write", "done"} /\ shut' \in BOOLEAN /\ ncFaults' \in Nat
    <3>1. ncFaults \in Nat /\ shut \in BOOLEAN
      BY DEF NcInv, NcTypeOK
    <3>2. childAt' \in {"write", "done"} /\ ncFaults' \in Nat
      BY <3>1 DEF ChildRead, NcFault
    <3>3. shut' \in BOOLEAN
      BY <3>1, Zenon DEF ChildRead
    <3> QED
      BY <3>2, <3>3
  <2> QED
    BY <1>b, <2>1 DEF ChildRead, NcInv, NcTypeOK, Runs, ParentIdle, PeerIdle
<1>2. SentConserved'
  BY <1>b DEF ChildRead, NcInv, SentConserved, Runs, ParentIdle, PeerIdle
<1>3. ReceivedConserved'
  BY DEF ReceivedConserved, ChildRead, NcInv, NcTypeOK, Buffers, Runs, ParentIdle, ChildIdle, PeerIdle
<1>4. (Buffers /\ Stages /\ Finished)'
  BY DEF ChildRead, NcInv, NcTypeOK, Buffers, Stages, Finished, NcFault, Runs, ParentIdle, ChildIdle, PeerIdle
<1> QED
  BY <1>1, <1>2, <1>3, <1>4 DEF NcInv

LEMMA ChildWriteKeeps ==
  ASSUME NcInv, ChildWrite PROVE NcInv'
<1>b. /\ toPeer' \in Texts /\ inbuf' \in Texts
      /\ Cat(toPeer', Cat(inbuf', stdin)) = Cat(toPeer, Cat(inbuf, stdin))
  <2>0. inbuf \in Texts /\ toPeer \in Texts /\ stdin \in Texts
    BY CatLaws DEF NcInv, NcTypeOK
  <2>1. CASE inbuf' = inbuf /\ toPeer' = toPeer
    BY <2>0, <2>1
  <2>2. ASSUME NEW x \in Split(inbuf), toPeer' = toPeer \o x[1], inbuf' = x[2]
        PROVE  /\ toPeer' \in Texts /\ inbuf' \in Texts
               /\ Cat(toPeer', Cat(inbuf', stdin)) = Cat(toPeer, Cat(inbuf, stdin))
    <3>1. PICK a \in Texts, b \in Texts : x[1] = a /\ x[2] = b /\ Cat(a, b) = inbuf
      BY <2>0, SplitParts
    <3>2. toPeer' = Cat(toPeer, a) /\ inbuf' = b
      BY <2>2, <3>1 DEF Cat
    <3>3. Cat(Cat(toPeer, a), Cat(b, stdin)) = Cat(toPeer, Cat(Cat(a, b), stdin))
      BY <2>0, <3>1, PieceMoves
    <3>4. Cat(toPeer, a) \in Texts
      BY <2>0, <3>1, CatLaws
    <3> QED
      BY <3>1, <3>2, <3>3, <3>4
  <2> QED
    BY <2>1, <2>2 DEF ChildWrite
<1>1. NcTypeOK'
  <2>1. childAt' \in {"read", "write", "done"} /\ shut' \in BOOLEAN /\ ncFaults' \in Nat
    <3>1. ncFaults \in Nat /\ shut \in BOOLEAN
      BY DEF NcInv, NcTypeOK
    <3>2. childAt' \in {"read", "write", "done"} /\ ncFaults' \in Nat
      BY <3>1 DEF ChildWrite, NcFault
    <3>3. shut' \in BOOLEAN
      BY <3>1, Zenon DEF ChildWrite
    <3> QED
      BY <3>2, <3>3
  <2> QED
    BY <1>b, <2>1 DEF ChildWrite, NcInv, NcTypeOK, Runs, ParentIdle, PeerIdle
<1>2. SentConserved'
  BY <1>b DEF ChildWrite, NcInv, SentConserved, Runs, ParentIdle, PeerIdle
<1>3. ReceivedConserved'
  BY DEF ReceivedConserved, ChildWrite, NcInv, NcTypeOK, Buffers, Runs, ParentIdle, ChildIdle, PeerIdle
<1>4. (Buffers /\ Stages /\ Finished)'
  <2>1. \/ /\ shut' = shut /\ ncFaults' = ncFaults
           /\ childAt' \in {"read", "write"} /\ (childAt' = "read" => inbuf' = <<>>)
        \/ ncFaults' = ncFaults + 1 /\ shut' = TRUE /\ childAt' = "done"
    BY DEF ChildWrite, NcFault
  <2>2. childAt = "write" /\ ncFaults \in Nat
    BY DEF ChildWrite, NcInv, NcTypeOK
  <2> QED
    BY <2>1, <2>2 DEF ChildWrite, NcInv, Buffers, Stages, Finished, Runs, ParentIdle, PeerIdle
<1> QED
  BY <1>1, <1>2, <1>3, <1>4 DEF NcInv

LEMMA ParentReadKeeps ==
  ASSUME NcInv, ParentRead PROVE NcInv'
<1>a. outbuf = <<>>
  BY DEF ParentRead, NcInv, Buffers
<1>b. /\ outbuf' \in Texts /\ fromPeer' \in Texts
      /\ Cat(outbuf', Cat(fromPeer', peerLeft)) = Cat(outbuf, Cat(fromPeer, peerLeft))
  <2>0. outbuf \in Texts /\ fromPeer \in Texts /\ peerLeft \in Texts
    BY DEF NcInv, NcTypeOK
  <2>1. CASE outbuf' = outbuf /\ fromPeer' = fromPeer
    BY <2>0, <2>1 DEF ParentRead
  <2>2. ASSUME NEW x \in Split(fromPeer), outbuf' = x[1], fromPeer' = x[2]
        PROVE  /\ outbuf' \in Texts /\ fromPeer' \in Texts
               /\ Cat(outbuf', Cat(fromPeer', peerLeft)) = Cat(outbuf, Cat(fromPeer, peerLeft))
    <3>1. PICK a \in Texts, b \in Texts : x[1] = a /\ x[2] = b /\ Cat(a, b) = fromPeer
      BY <2>0, SplitParts
    <3>2. Cat(a, Cat(b, peerLeft)) = Cat(<<>>, Cat(fromPeer, peerLeft))
      BY <2>0, <3>1, CatLaws
    <3> QED
      BY <1>a, <2>2, <3>1, <3>2
  <2> QED
    BY <2>1, <2>2 DEF ParentRead
<1>1. NcTypeOK'
  <2>1. parentAt' \in {"write", "kill"} /\ rcn' \in {0, 1} /\ ncFaults' \in Nat
    <3>1. ncFaults \in Nat /\ rcn \in {0, 1}
      BY DEF NcInv, NcTypeOK
    <3> QED
      BY <3>1 DEF ParentRead, NcFault
  <2> QED
    BY <1>b, <2>1 DEF ParentRead, NcInv, NcTypeOK, Runs, ChildIdle, PeerIdle
<1>2. SentConserved'
  BY DEF SentConserved, ParentRead, NcInv, NcTypeOK, Buffers, Runs, ParentIdle, ChildIdle, PeerIdle
<1>3. ReceivedConserved'
  BY <1>b DEF ParentRead, NcInv, ReceivedConserved, Runs, ChildIdle, PeerIdle
<1>4. (Buffers /\ Stages /\ Finished)'
  BY DEF ParentRead, NcInv, NcTypeOK, Buffers, Stages, Finished, NcFault, Runs, ParentIdle, ChildIdle, PeerIdle
<1> QED
  BY <1>1, <1>2, <1>3, <1>4 DEF NcInv

LEMMA ParentWriteKeeps ==
  ASSUME NcInv, ParentWrite PROVE NcInv'
<1>b. /\ stdout' \in Texts /\ outbuf' \in Texts
      /\ Cat(stdout', Cat(outbuf', Cat(fromPeer, peerLeft))) = Cat(stdout, Cat(outbuf, Cat(fromPeer, peerLeft)))
  <2>0. outbuf \in Texts /\ stdout \in Texts /\ Cat(fromPeer, peerLeft) \in Texts
    BY CatLaws DEF NcInv, NcTypeOK
  <2>1. CASE outbuf' = outbuf /\ stdout' = stdout
    BY <2>0, <2>1
  <2>2. ASSUME NEW x \in Split(outbuf), stdout' = stdout \o x[1], outbuf' = x[2]
        PROVE  /\ stdout' \in Texts /\ outbuf' \in Texts
               /\ Cat(stdout', Cat(outbuf', Cat(fromPeer, peerLeft))) = Cat(stdout, Cat(outbuf, Cat(fromPeer, peerLeft)))
    <3>1. PICK a \in Texts, b \in Texts : x[1] = a /\ x[2] = b /\ Cat(a, b) = outbuf
      BY <2>0, SplitParts
    <3>2. stdout' = Cat(stdout, a) /\ outbuf' = b
      BY <2>2, <3>1 DEF Cat
    <3>3. Cat(Cat(stdout, a), Cat(b, Cat(fromPeer, peerLeft))) = Cat(stdout, Cat(Cat(a, b), Cat(fromPeer, peerLeft)))
      BY <2>0, <3>1, PieceMoves
    <3>4. Cat(stdout, a) \in Texts
      BY <2>0, <3>1, CatLaws
    <3> QED
      BY <3>1, <3>2, <3>3, <3>4
  <2> QED
    BY <2>1, <2>2 DEF ParentWrite
<1>1. NcTypeOK'
  <2>1. parentAt' \in {"read", "write", "kill"} /\ rcn' \in {0, 1} /\ ncFaults' \in Nat
    <3>1. ncFaults \in Nat /\ rcn \in {0, 1}
      BY DEF NcInv, NcTypeOK
    <3> QED
      BY <3>1 DEF ParentWrite, NcFault
  <2> QED
    BY <1>b, <2>1 DEF ParentWrite, NcInv, NcTypeOK, Runs, ChildIdle, PeerIdle
<1>2. SentConserved'
  BY DEF SentConserved, ParentWrite, NcInv, NcTypeOK, Buffers, Runs, ParentIdle, ChildIdle, PeerIdle
<1>3. ReceivedConserved'
  BY <1>b DEF ParentWrite, NcInv, ReceivedConserved, Runs, ChildIdle, PeerIdle
<1>4. (Buffers /\ Stages /\ Finished)'
  <2>1. \/ /\ rcn' = rcn /\ ncFaults' = ncFaults
           /\ parentAt' \in {"read", "write"} /\ (parentAt' = "read" => outbuf' = <<>>)
        \/ ncFaults' = ncFaults + 1 /\ rcn' = 1 /\ parentAt' = "kill"
    BY DEF ParentWrite, NcFault
  <2>2. parentAt = "write" /\ ncFaults \in Nat
    BY DEF ParentWrite, NcInv, NcTypeOK
  <2> QED
    BY <2>1, <2>2 DEF ParentWrite, NcInv, Buffers, Stages, Finished, Runs, ChildIdle, PeerIdle
<1> QED
  BY <1>1, <1>2, <1>3, <1>4 DEF NcInv

LEMMA PeerReceivesKeeps ==
  ASSUME NcInv, PeerReceives PROVE NcInv'
<1>b. /\ peerGot' \in Texts /\ toPeer' \in Texts
      /\ Cat(peerGot', Cat(toPeer', Cat(inbuf, stdin))) = Cat(peerGot, Cat(toPeer, Cat(inbuf, stdin)))
  <2>0. toPeer \in Texts /\ peerGot \in Texts /\ Cat(inbuf, stdin) \in Texts
    BY CatLaws DEF NcInv, NcTypeOK
  <2>1. toPeer # <<>> /\ peerGot' = Append(peerGot, Head(toPeer)) /\ toPeer' = Tail(toPeer)
    BY DEF PeerReceives
  <2>2. PICK a \in Texts, b \in Texts :
          peerGot' = Cat(peerGot, a) /\ toPeer' = b /\ Cat(a, b) = toPeer
    <3>1. \E a, b \in Texts :
            Append(peerGot, Head(toPeer)) = Cat(peerGot, a) /\ Tail(toPeer) = b /\ Cat(a, b) = toPeer
      BY <2>0, <2>1, HeadParts, Zenon
    <3> QED
      BY <2>1, <3>1, Zenon
  <2>3. Cat(Cat(peerGot, a), Cat(b, Cat(inbuf, stdin))) = Cat(peerGot, Cat(Cat(a, b), Cat(inbuf, stdin)))
    BY <2>0, <2>2, PieceMoves
  <2>4. Cat(peerGot, a) \in Texts
    BY <2>0, <2>2, CatLaws
  <2> QED
    BY <2>2, <2>3, <2>4
<1>1. NcTypeOK'
  BY <1>b DEF PeerReceives, NcInv, NcTypeOK, Runs, ParentIdle
<1>2. SentConserved'
  BY <1>b DEF PeerReceives, NcInv, SentConserved, Runs, ParentIdle
<1>3. ReceivedConserved'
  BY DEF ReceivedConserved, PeerReceives, NcInv, NcTypeOK, Buffers, Runs, ParentIdle, ChildIdle, PeerIdle
<1>4. (Buffers /\ Stages /\ Finished)'
  BY DEF PeerReceives, NcInv, NcTypeOK, Buffers, Stages, Finished, NcFault, Runs, ParentIdle, ChildIdle, PeerIdle
<1> QED
  BY <1>1, <1>2, <1>3, <1>4 DEF NcInv

LEMMA PeerSendsKeeps ==
  ASSUME NcInv, PeerSends PROVE NcInv'
<1>b. /\ fromPeer' \in Texts /\ peerLeft' \in Texts
      /\ Cat(fromPeer', peerLeft') = Cat(fromPeer, peerLeft)
  <2>0. peerLeft \in Texts /\ fromPeer \in Texts
    BY CatLaws DEF NcInv, NcTypeOK
  <2>1. peerLeft # <<>> /\ fromPeer' = Append(fromPeer, Head(peerLeft)) /\ peerLeft' = Tail(peerLeft)
    BY DEF PeerSends
  <2>2. PICK a \in Texts, b \in Texts :
          fromPeer' = Cat(fromPeer, a) /\ peerLeft' = b /\ Cat(a, b) = peerLeft
    <3>1. \E a, b \in Texts :
            Append(fromPeer, Head(peerLeft)) = Cat(fromPeer, a) /\ Tail(peerLeft) = b /\ Cat(a, b) = peerLeft
      BY <2>0, <2>1, HeadParts, Zenon
    <3> QED
      BY <2>1, <3>1, Zenon
  <2>3. Cat(Cat(fromPeer, a), b) = Cat(fromPeer, Cat(a, b))
    BY <2>0, <2>2, PieceMoves
  <2>4. Cat(fromPeer, a) \in Texts
    BY <2>0, <2>2, CatLaws
  <2> QED
    BY <2>2, <2>3, <2>4
<1>1. NcTypeOK'
  BY <1>b DEF PeerSends, NcInv, NcTypeOK, Runs, ChildIdle
<1>2. SentConserved'
  BY DEF SentConserved, PeerSends, NcInv, NcTypeOK, Buffers, Runs, ParentIdle, ChildIdle, PeerIdle
<1>3. ReceivedConserved'
  BY <1>b DEF PeerSends, NcInv, ReceivedConserved, Runs, ChildIdle
<1>4. (Buffers /\ Stages /\ Finished)'
  BY DEF PeerSends, NcInv, NcTypeOK, Buffers, Stages, Finished, NcFault, Runs, ParentIdle, ChildIdle, PeerIdle
<1> QED
  BY <1>1, <1>2, <1>3, <1>4 DEF NcInv

LEMMA NcStepInv == NcInv /\ [NcNext]_ncVars => NcInv'
<1> SUFFICES ASSUME NcInv, [NcNext]_ncVars PROVE NcInv'
  OBVIOUS
<1>1. CASE NcFork
  BY <1>1, NcForkKeeps
<1>2. CASE ChildRead
  BY <1>2, ChildReadKeeps
<1>3. CASE ChildWrite
  BY <1>3, ChildWriteKeeps
<1>4. CASE ParentRead
  BY <1>4, ParentReadKeeps
<1>5. CASE ParentWrite
  BY <1>5, ParentWriteKeeps
<1>6. CASE KillSender
  BY <1>6, KillSenderKeeps
<1>7. CASE PeerReceives
  BY <1>7, PeerReceivesKeeps
<1>8. CASE PeerSends
  BY <1>8, PeerSendsKeeps
<1>9. CASE PeerCloses
  BY <1>9, PeerClosesKeeps
<1>10. CASE UNCHANGED ncVars
  BY <1>10 DEF ncVars, NcInv, NcTypeOK, SentConserved, ReceivedConserved, Buffers, Stages, Finished
<1> QED
  BY <1>1, <1>2, <1>3, <1>4, <1>5, <1>6, <1>7, <1>8, <1>9, <1>10 DEF NcNext, nc_relay

(* The invariant holds of every run of the relay.                          *)
THEOREM NcInvariance == NcSpec => []NcInv
<1>1. NcInit => NcInv
  BY NcInitInv
<1>2. NcInv /\ [NcNext]_ncVars => NcInv'
  BY NcStepInv
<1> QED
  BY <1>1, <1>2, PTL DEF NcSpec

(* No unit is lost, repeated or moved in either direction; with status 0   *)
(* what the peer has sent is written, and a peer that waits for the end of *)
(* what nc sends has all of standard input (nc_relay, ex_net.c:1317).      *)
THEOREM RelayKeepsBytesHolds == NcSpec => []RelayKeepsBytes
<1>1. NcInv => RelayKeepsBytes
  <2> SUFFICES ASSUME NcInv PROVE RelayKeepsBytes
    OBVIOUS
  <2>1. NcTypeOK /\ SentConserved /\ ReceivedConserved
    BY DEF NcInv
  <2>2. /\ Cat(toPeer, Cat(inbuf, stdin)) \in Texts
        /\ Cat(outbuf, Cat(fromPeer, peerLeft)) \in Texts
    BY <2>1, CatLaws DEF NcTypeOK
  <2>3. IsPrefix(stdout, text0) /\ IsPrefix(peerGot, stdin0)
    <3>1. stdout \in Texts /\ peerGot \in Texts
      BY <2>1 DEF NcTypeOK
    <3> QED
      BY <2>1, <2>2, <3>1, CatPrefix DEF SentConserved, ReceivedConserved
  <2>4. ASSUME parentAt = "done", rcn = 0
        PROVE  /\ stdout \o peerLeft = text0
               /\ Cat(stdout, peerLeft) = text0
    <3>1. fromPeer = <<>> /\ outbuf = <<>>
      BY <2>4 DEF NcInv, Stages
    <3>2. Cat(<<>>, Cat(<<>>, peerLeft)) = peerLeft
      BY <2>1, CatLaws DEF NcTypeOK
    <3>3. Cat(stdout, peerLeft) = text0
      BY <2>1, <3>1, <3>2 DEF ReceivedConserved
    <3> QED
      BY <3>3 DEF Cat
  <2>5. ASSUME parentAt = "done", rcn = 0, patient, ncFaults = 0
        PROVE  peerGot = stdin0 /\ stdout = text0
    <3>1. stdin = <<>> /\ inbuf = <<>> /\ toPeer = <<>> /\ peerLeft = <<>>
      BY <2>5 DEF NcInv, Stages, Finished
    <3>2. /\ Cat(peerGot, Cat(<<>>, Cat(<<>>, <<>>))) = peerGot
          /\ Cat(stdout, <<>>) = stdout
      BY <2>1, CatLaws DEF NcTypeOK
    <3> QED
      BY <2>1, <2>4, <2>5, <3>1, <3>2 DEF SentConserved
  <2> QED
    BY <2>3, <2>4, <2>5 DEF RelayKeepsBytes
<1> QED
  BY <1>1, NcInvariance, PTL

-----------------------------------------------------------------------------
(* dd: files and pieces of them                                            *)

Files == Seq(DdUnit)

-----------------------------------------------------------------------------
(* Writing into a file                                                     *)

OverLen(f, n, us) ==
  IF us = <<>> \/ n + Len(us) < Len(f) THEN Len(f) ELSE n + Len(us)

\* unit i of a file after a write
OverAt(f, n, us, i) ==
  IF i > n /\ i <= n + Len(us) THEN us[i - n]
  ELSE IF i <= Len(f) THEN f[i] ELSE "zero"

LEMMA OverIs ==
  ASSUME NEW f \in Files, NEW n \in Nat, NEW us \in Files
  PROVE  /\ Over(f, n, us) \in Files
         /\ Len(Over(f, n, us)) = OverLen(f, n, us) /\ OverLen(f, n, us) \in Nat
         /\ \A i \in 1..OverLen(f, n, us) : Over(f, n, us)[i] = OverAt(f, n, us, i)
<1> DEFINE len == OverLen(f, n, us)
           at(i) == OverAt(f, n, us, i)
<1>1. len \in Nat /\ Len(f) \in Nat /\ Len(us) \in Nat
  BY DEF OverLen, Files
<1>2. Over(f, n, us) = [i \in 1..len |-> at(i)]
  BY DEF Over, OverLen, OverAt
<1>3. ASSUME NEW i \in 1..len PROVE at(i) \in DdUnit
  <2>1. "zero" \in DdUnit
    BY DEF DdUnit
  <2>2. CASE i > n /\ i <= n + Len(us)
    <3>1. i - n \in 1..Len(us)
      BY <1>1, <2>2
    <3>2. us[i - n] \in DdUnit
      BY <3>1, ElementOfSeq DEF Files
    <3> QED
      BY <2>2, <3>2 DEF OverAt
  <2>3. CASE ~(i > n /\ i <= n + Len(us)) /\ i <= Len(f)
    <3>1. f[i] \in DdUnit
      BY <1>1, <2>3, ElementOfSeq DEF Files
    <3> QED
      BY <2>3, <3>1 DEF OverAt
  <2>4. CASE ~(i > n /\ i <= n + Len(us)) /\ ~(i <= Len(f))
    BY <2>1, <2>4 DEF OverAt
  <2> QED
    BY <2>2, <2>3, <2>4
<1> HIDE DEF len, at
<1>4. Over(f, n, us) \in Files /\ Len(Over(f, n, us)) = len
  BY <1>1, <1>2, <1>3, IsASeq DEF Files
<1>5. \A i \in 1..len : Over(f, n, us)[i] = at(i)
  BY <1>2
<1> QED
  BY <1>1, <1>4, <1>5 DEF len, at

LEMMA OverLaws ==
  \A f \in Files : \A n \in Nat : \A us \in Files :
    /\ Over(f, n, us) \in Files
    /\ Len(Over(f, n, us)) = OverLen(f, n, us) /\ OverLen(f, n, us) \in Nat
    /\ \A i \in 1..OverLen(f, n, us) : Over(f, n, us)[i] = OverAt(f, n, us, i)
  BY OverIs

LEMMA FilesEqual ==
  \A f, g \in Files : Len(f) = Len(g) /\ (\A i \in 1..Len(f) : f[i] = g[i]) => f = g
  BY SeqEqual DEF Files

LEMMA OverNothing == ASSUME NEW f \in Files, NEW n \in Nat PROVE Over(f, n, <<>>) = f
<1>1. <<>> \in Files /\ Len(<<>>) = 0 /\ Len(f) \in Nat
  BY EmptySeq DEF Files
<1>2. OverLen(f, n, <<>>) = Len(f)
  BY DEF OverLen
<1>3. ASSUME NEW i \in 1..Len(f) PROVE Over(f, n, <<>>)[i] = f[i]
  <2>1. Over(f, n, <<>>)[i] = OverAt(f, n, <<>>, i)
    <3>1. i \in 1..OverLen(f, n, <<>>)
      BY <1>2
    <3> QED
      BY <1>1, <3>1, OverLaws, Zenon
  <2>2. ~(i > n /\ i <= n + Len(<<>>)) /\ i <= Len(f)
    BY <1>1
  <2> QED
    BY <2>1, <2>2 DEF OverAt
<1>4. Over(f, n, <<>>) \in Files /\ Len(Over(f, n, <<>>)) = Len(f)
  BY <1>1, <1>2, OverLaws, Zenon
<1> QED
  BY <1>3, <1>4, FilesEqual

\* Two writes one after the other are one write of both pieces.
Chained(u, v, uv) ==
  /\ Len(uv) = Len(u) + Len(v)
  /\ \A j \in 1..Len(u) : uv[j] = u[j]
  /\ \A j \in 1..Len(v) : uv[Len(u) + j] = v[j]

LEMMA OverTwice ==
  ASSUME NEW f \in Files, NEW n \in Nat, NEW u \in Files, NEW v \in Files, v # <<>>,
         NEW uv \in Files, Chained(u, v, uv), NEW m \in Nat, m = n + Len(u)
  PROVE  Over(Over(f, n, u), m, v) = Over(f, n, uv)
<1>0. /\ Len(uv) = Len(u) + Len(v)
      /\ \A j \in 1..Len(u) : uv[j] = u[j]
      /\ \A j \in 1..Len(v) : uv[Len(u) + j] = v[j]
  BY DEF Chained
<1>1. PICK g : g = Over(f, n, u)
  OBVIOUS
<1>2. PICK h : h = Over(g, m, v)
  OBVIOUS
<1>3. PICK k : k = Over(f, n, uv)
  OBVIOUS
<1>4. /\ Len(f) \in Nat /\ Len(u) \in Nat /\ Len(v) \in Nat \ {0} /\ Len(uv) \in Nat \ {0}
      /\ uv # <<>> /\ (u = <<>> <=> Len(u) = 0)
  BY <1>0, EmptySeq DEF Files
<1>5. /\ g \in Files /\ Len(g) = OverLen(f, n, u) /\ OverLen(f, n, u) \in Nat
      /\ \A i \in 1..OverLen(f, n, u) : g[i] = OverAt(f, n, u, i)
  BY <1>1, OverLaws, Zenon
<1>6. /\ h \in Files /\ Len(h) = OverLen(g, m, v)
      /\ \A i \in 1..OverLen(g, m, v) : h[i] = OverAt(g, m, v, i)
  <2>1. g \in Files
    BY <1>5
  <2> QED
    BY <1>2, <2>1, OverLaws, Zenon
<1>7. /\ k \in Files /\ Len(k) = OverLen(f, n, uv)
      /\ \A i \in 1..OverLen(f, n, uv) : k[i] = OverAt(f, n, uv, i)
      /\ OverLen(f, n, uv) \in Nat
  BY <1>3, OverLaws, Zenon
<1>8. OverLen(g, m, v) = OverLen(f, n, uv)
  BY <1>0, <1>4, <1>5 DEF OverLen
<1>9. ASSUME NEW i \in 1..OverLen(f, n, uv) PROVE OverAt(g, m, v, i) = OverAt(f, n, uv, i)
  <2>0. i \in Nat \ {0}
    BY <1>7
  <2>3. i <= Len(g) => g[i] = OverAt(f, n, u, i)
    BY <1>5, <2>0
  <2>4. CASE i > m /\ i <= m + Len(v)
    <3>1. i - m \in 1..Len(v) /\ Len(u) + (i - m) = i - n
          /\ i > n /\ i <= n + Len(uv)
      BY <1>0, <1>4, <2>0, <2>4
    <3>2. uv[i - n] = v[i - m]
      BY <1>0, <3>1
    <3> QED
      BY <2>4, <3>1, <3>2 DEF OverAt
  <2>5. CASE i > n /\ i <= m
    <3>1. i - n \in 1..Len(u) /\ i <= n + Len(uv) /\ ~(i > m) /\ i <= n + Len(u)
      BY <1>0, <1>4, <2>0, <2>5
    <3>2. i <= Len(g)
      BY <1>4, <1>5, <2>0, <2>5 DEF OverLen
    <3>3. g[i] = u[i - n] /\ uv[i - n] = u[i - n]
      BY <1>0, <2>3, <2>5, <3>1, <3>2 DEF OverAt
    <3> QED
      BY <2>5, <3>1, <3>2, <3>3 DEF OverAt
  <2>6. CASE i <= n \/ i > m + Len(v)
    <3>1. /\ ~(i > n /\ i <= n + Len(uv)) /\ ~(i > n /\ i <= n + Len(u))
          /\ ~(i > m /\ i <= m + Len(v))
      BY <1>0, <1>4, <2>0, <2>6
    <3>2. i <= Len(f) => i <= Len(g)
      BY <1>4, <1>5, <2>0 DEF OverLen
    <3>3. OverAt(f, n, uv, i) = IF i <= Len(f) THEN f[i] ELSE "zero"
      BY <3>1 DEF OverAt
    <3>4. OverAt(f, n, u, i) = IF i <= Len(f) THEN f[i] ELSE "zero"
      BY <3>1 DEF OverAt
    <3>5. OverAt(g, m, v, i) = IF i <= Len(g) THEN g[i] ELSE "zero"
      BY <3>1 DEF OverAt
    <3> QED
      BY <2>3, <3>2, <3>3, <3>4, <3>5
  <2> QED
    BY <1>0, <1>4, <2>0, <2>4, <2>5, <2>6
<1>10. h = k
  BY <1>6, <1>7, <1>8, <1>9, FilesEqual
<1> QED
  BY <1>1, <1>2, <1>3, <1>10

-----------------------------------------------------------------------------
(* The copy                                                                *)

Base == IF dd.notrunc THEN before ELSE <<>>
Where == dd.seek * dd.obs
ReadTo == Lowest(inPos, Len(input))
Taken == ReadTo - Skipped

DdTypeOK ==
  /\ dd \in DdOperands
  /\ input \in Files /\ before \in Files /\ output \in Files /\ buf \in Files
  /\ {inPos, outPos, left, records, failures} \subseteq Nat /\ rcdd \in {0, 1}
  /\ ddAt \in {"skip", "seek", "read", "write", "done"}
  /\ short \in BOOLEAN /\ zeroed \in BOOLEAN

\* nothing is known of a copy that a failed read made start too early
Clean == failures = 0 \/ left = 0

Starting ==
  /\ ddAt = "skip" => inPos + left = dd.skip * dd.ibs /\ (dd.seekable \/ inPos <= Len(input))
  /\ ddAt \in {"skip", "seek"} =>
       /\ output = Base /\ outPos = 0 /\ buf = <<>> /\ records = 0
       /\ rcdd = 0 /\ zeroed = FALSE
  /\ ddAt = "seek" /\ Clean => ReadTo = Skipped

\* what was taken from the input is in the output, but for what the buffer holds
Copied ==
  /\ Len(buf) <= Taken /\ Taken <= Wanted
  /\ output = Result(Taken - Len(buf))
  /\ \A j \in 1..Len(buf) : buf[j] = input[Skipped + (Taken - Len(buf)) + j]
  /\ ddAt # "done" => outPos = Where + (Taken - Len(buf))

Counted ==
  /\ ddAt = "read" => buf = <<>>
  /\ dd.count # NoCount =>
       /\ records <= dd.count
       /\ ddAt = "write" => records < dd.count
  /\ ddAt = "read" => /\ Taken <= records * dd.ibs
                      /\ short \/ Taken = records * dd.ibs \/ ReadTo = Len(input)
  /\ ddAt = "write" => /\ Taken <= (records + 1) * dd.ibs
                       /\ short \/ Taken = (records + 1) * dd.ibs \/ ReadTo = Len(input)
  /\ ddAt = "done" /\ rcdd = 0 =>
       /\ buf = <<>>
       /\ \/ ReadTo = Len(input)
          \/ dd.count # NoCount /\ (short \/ Taken = dd.count * dd.ibs)

DdInv ==
  /\ DdTypeOK /\ Starting
  /\ ddAt \in {"read", "write", "done"} /\ Clean /\ ~zeroed => Copied /\ Counted

LEMMA Products ==
  \A b, r, c \in Nat : /\ r * b \in Nat /\ (r + 1) * b = r * b + b
                       /\ r <= c => r * b <= c * b
  OBVIOUS

LEMMA LowestIs ==
  \A m, n \in Nat : /\ Lowest(m, n) \in Nat /\ Lowest(m, n) <= m /\ Lowest(m, n) <= n
                    /\ Lowest(m, n) = m \/ Lowest(m, n) = n
  BY DEF Lowest

\* The numbers of a copy.
LEMMA Numbers ==
  ASSUME DdTypeOK
  PROVE  /\ Len(input) \in Nat /\ Len(buf) \in Nat /\ inPos \in Nat /\ outPos \in Nat
         /\ records \in Nat /\ failures \in Nat /\ left \in Nat
         /\ dd.ibs \in Nat \ {0} /\ dd.skip \in Nat /\ dd.skip * dd.ibs \in Nat
         /\ dd.count \in Nat \cup {NoCount} /\ (dd.count # NoCount => dd.count * dd.ibs \in Nat)
         /\ Where \in Nat /\ Skipped \in 0..Len(input) /\ Skipped <= dd.skip * dd.ibs
         /\ ReadTo \in 0..Len(input) /\ ReadTo <= inPos /\ Base \in Files
<1>1. /\ dd.ibs \in Nat \ {0} /\ dd.obs \in Nat \ {0} /\ dd.skip \in Nat /\ dd.seek \in Nat
      /\ dd.count \in Nat \cup {NoCount}
  BY DdAssumption DEF DdTypeOK
<1>2. /\ Len(input) \in Nat /\ Len(buf) \in Nat /\ inPos \in Nat /\ outPos \in Nat
      /\ records \in Nat /\ failures \in Nat /\ left \in Nat
  BY DEF DdTypeOK, Files
<1>3. /\ dd.skip * dd.ibs \in Nat /\ Where \in Nat
      /\ dd.count # NoCount => dd.count * dd.ibs \in Nat
  BY <1>1, Products DEF Where, NoCount
<1>4. Skipped \in 0..Len(input) /\ Skipped <= dd.skip * dd.ibs
  BY <1>2, <1>3, LowestIs DEF Skipped
<1>5. ReadTo \in 0..Len(input) /\ ReadTo <= inPos
  <2>1. inPos \in Nat /\ Len(input) \in Nat
    BY <1>2
  <2>2. /\ ReadTo \in Nat /\ ReadTo <= inPos /\ ReadTo <= Len(input)
    BY <2>1, LowestIs, Zenon DEF ReadTo
  <2> QED
    BY <2>1, <2>2
<1>6. Base \in Files
  BY EmptySeq DEF Base, DdTypeOK, Files
<1> QED
  BY <1>1, <1>2, <1>3, <1>4, <1>5, <1>6

LEMMA WantedIs ==
  ASSUME DdTypeOK
  PROVE  /\ Wanted \in 0..(Len(input) - Skipped)
         /\ dd.count = NoCount => Wanted = Len(input) - Skipped
         /\ dd.count # NoCount => /\ Wanted <= dd.count * dd.ibs
                                  /\ \/ Wanted = dd.count * dd.ibs
                                     \/ Wanted = Len(input) - Skipped
<1>1. /\ Len(input) - Skipped \in Nat
      /\ dd.count # NoCount => dd.count * dd.ibs \in Nat
  BY Numbers
<1>2. CASE dd.count = NoCount
  BY <1>1, <1>2 DEF Wanted
<1>3. CASE dd.count # NoCount
  <2>1. Wanted = Lowest(dd.count * dd.ibs, Len(input) - Skipped)
    BY <1>3 DEF Wanted
  <2>2. PICK c : c = dd.count * dd.ibs
    OBVIOUS
  <2>3. PICK r : r = Len(input) - Skipped
    OBVIOUS
  <2>4. c \in Nat /\ r \in Nat /\ Wanted = Lowest(c, r)
    BY <1>1, <1>3, <2>1, <2>2, <2>3
  <2>5. /\ Wanted \in Nat /\ Wanted <= c /\ Wanted <= r
        /\ Wanted = c \/ Wanted = r
    BY <2>4, LowestIs, Zenon
  <2>6. Wanted \in 0..r
    BY <2>4, <2>5
  <2> QED
    BY <1>3, <2>2, <2>3, <2>5, <2>6
<1> QED
  BY <1>2, <1>3

LEMMA PieceIs ==
  \A f \in Files : \A s, n \in Nat :
    s + n <= Len(f) => /\ SubSeq(f, s + 1, s + n) \in Files
                       /\ Len(SubSeq(f, s + 1, s + n)) = n
                       /\ \A j \in 1..n : SubSeq(f, s + 1, s + n)[j] = f[s + j]
<1> SUFFICES ASSUME NEW f \in Files, NEW s \in Nat, NEW n \in Nat, s + n <= Len(f)
             PROVE  /\ SubSeq(f, s + 1, s + n) \in Files
                    /\ Len(SubSeq(f, s + 1, s + n)) = n
                    /\ \A j \in 1..n : SubSeq(f, s + 1, s + n)[j] = f[s + j]
  OBVIOUS
<1> DEFINE a == s + 1
           b == s + n
           sub == SubSeq(f, a, b)
<1>1. f \in Seq(DdUnit) /\ a \in 1..Len(f) + 1 /\ b \in a - 1..Len(f)
  BY DEF Files
<1>2. /\ sub \in Seq(DdUnit) /\ Len(sub) = b - a + 1
      /\ \A j \in 1..b - a + 1 : sub[j] = f[a + j - 1]
  <2> HIDE DEF a, b
  <2> QED
    BY <1>1, SubSeqProperties
<1>3. b - a + 1 = n /\ \A j \in 1..n : a + j - 1 = s + j
  OBVIOUS
<1> HIDE DEF sub
<1>4. sub \in Files /\ Len(sub) = n /\ \A j \in 1..n : sub[j] = f[s + j]
  BY <1>2, <1>3 DEF Files
<1> QED
  BY <1>4 DEF sub

\* A piece that continues the copy makes a longer one.
LEMMA ResultGrows ==
  ASSUME DdTypeOK, NEW n \in Nat, NEW w \in Nat \ {0}, Skipped + n + w <= Len(input),
         NEW chunk \in Files, Len(chunk) = w,
         \A j \in 1..w : chunk[j] = input[Skipped + n + j]
  PROVE  Over(Result(n), Where + n, chunk) = Result(n + w)
<1>1. PICK s \in Nat : s = Skipped /\ s <= Len(input) /\ Len(input) \in Nat /\ Where \in Nat
  BY Numbers
<1>2. PICK u : u = SubSeq(input, s + 1, s + n)
  OBVIOUS
<1>3. PICK q : q = n + w
  OBVIOUS
<1>4. PICK uv : uv = SubSeq(input, s + 1, s + q)
  OBVIOUS
<1>5. input \in Files /\ Base \in Files
  BY Numbers DEF DdTypeOK
<1>6. s + n <= Len(input) /\ s + q <= Len(input) /\ q \in Nat
  BY <1>1, <1>3
<1>7. u \in Files /\ Len(u) = n /\ \A j \in 1..n : u[j] = input[s + j]
  <2>1. input \in Files
    BY <1>5
  <2>2. s + n <= Len(input)
    BY <1>6
  <2> QED
    BY <1>2, <2>1, <2>2, PieceIs, Zenon
<1>8. uv \in Files /\ Len(uv) = q /\ \A j \in 1..q : uv[j] = input[s + j]
  <2>1. input \in Files
    BY <1>5
  <2>2. s + q <= Len(input) /\ q \in Nat
    BY <1>6
  <2> QED
    BY <1>4, <2>1, <2>2, PieceIs, Zenon
<1>9. Result(n) = Over(Base, Where, u) /\ Result(n + w) = Over(Base, Where, uv)
  BY <1>1, <1>2, <1>3, <1>4 DEF Result, Base, Where
<1>10. \A j \in 1..Len(u) : uv[j] = u[j]
  <2> SUFFICES ASSUME NEW j \in 1..n PROVE uv[j] = u[j]
    BY <1>7
  <2>1. j \in 1..q
    BY <1>3
  <2> QED
    BY <1>7, <1>8, <2>1
<1>11. \A j \in 1..Len(chunk) : uv[Len(u) + j] = chunk[j]
  <2> SUFFICES ASSUME NEW j \in 1..w PROVE uv[n + j] = chunk[j]
    BY <1>7
  <2>1. n + j \in 1..q /\ s + (n + j) = s + n + j
    BY <1>3
  <2>2. uv[n + j] = input[s + (n + j)]
    BY <1>8, <2>1
  <2> QED
    BY <1>1, <2>1, <2>2
<1>12. PICK m : m = Where + n
  OBVIOUS
<1>13. PICK base : base = Base
  OBVIOUS
<1>14. PICK place \in Nat : place = Where
  BY <1>1
<1>15. chunk # <<>> /\ m \in Nat /\ m = place + Len(u) /\ Len(uv) = Len(u) + Len(chunk)
  BY <1>3, <1>7, <1>8, <1>12, <1>14, EmptySeq
<1>16. Over(Over(base, place, u), m, chunk) = Over(base, place, uv)
  <2>1. base \in Files
    BY <1>5, <1>13
  <2>2. u \in Files /\ uv \in Files
    BY <1>7, <1>8
  <2>3. Chained(u, chunk, uv)
    BY <1>10, <1>11, <1>15 DEF Chained
  <2> QED
    <3>1. chunk # <<>> /\ Chained(u, chunk, uv) /\ m = place + Len(u) /\ m \in Nat
      BY <1>15, <2>3
    <3> QED
      BY <2>1, <2>2, <3>1, OverTwice
<1> QED
  BY <1>9, <1>12, <1>13, <1>14, <1>16

\* A buffer falls into what is written and what is left.
LEMMA Parted ==
  \A f \in Files : \A w \in 1..Len(f) :
    /\ SubSeq(f, 1, w) \in Files /\ Len(SubSeq(f, 1, w)) = w
    /\ \A j \in 1..w : SubSeq(f, 1, w)[j] = f[j]
    /\ SubSeq(f, w + 1, Len(f)) \in Files /\ Len(SubSeq(f, w + 1, Len(f))) = Len(f) - w
    /\ \A j \in 1..(Len(f) - w) : SubSeq(f, w + 1, Len(f))[j] = f[w + j]
<1> SUFFICES ASSUME NEW f \in Files, NEW w \in 1..Len(f)
             PROVE  /\ SubSeq(f, 1, w) \in Files /\ Len(SubSeq(f, 1, w)) = w
                    /\ \A j \in 1..w : SubSeq(f, 1, w)[j] = f[j]
                    /\ SubSeq(f, w + 1, Len(f)) \in Files
                    /\ Len(SubSeq(f, w + 1, Len(f))) = Len(f) - w
                    /\ \A j \in 1..(Len(f) - w) : SubSeq(f, w + 1, Len(f))[j] = f[w + j]
  OBVIOUS
<1>1. Len(f) \in Nat /\ w \in Nat /\ w <= Len(f)
  BY DEF Files
<1>2. PICK r \in Nat : r = Len(f) - w
  BY <1>1
<1>3. 0 + 1 = 1 /\ 0 + w = w /\ w + r = Len(f) /\ 0 + w <= Len(f) /\ w + r <= Len(f)
  BY <1>1, <1>2
<1>4. /\ SubSeq(f, 0 + 1, 0 + w) \in Files /\ Len(SubSeq(f, 0 + 1, 0 + w)) = w
      /\ \A j \in 1..w : SubSeq(f, 0 + 1, 0 + w)[j] = f[0 + j]
  <2>1. 0 \in Nat /\ w \in Nat /\ 0 + w <= Len(f)
    BY <1>1, <1>3
  <2> QED
    BY <2>1, PieceIs, Zenon
<1>5. /\ SubSeq(f, w + 1, w + r) \in Files /\ Len(SubSeq(f, w + 1, w + r)) = r
      /\ \A j \in 1..r : SubSeq(f, w + 1, w + r)[j] = f[w + j]
  <2>1. w \in Nat /\ w + r <= Len(f)
    BY <1>1, <1>3
  <2> QED
    BY <2>1, PieceIs, Zenon
<1>6. /\ SubSeq(f, 1, w) \in Files /\ Len(SubSeq(f, 1, w)) = w
      /\ \A j \in 1..w : SubSeq(f, 1, w)[j] = f[j]
  <2>1. PICK sub : sub = SubSeq(f, 1, w)
    OBVIOUS
  <2>2. sub \in Files /\ Len(sub) = w /\ \A j \in 1..w : sub[j] = f[0 + j]
    BY <1>3, <1>4, <2>1
  <2>3. \A j \in 1..w : sub[j] = f[j]
    BY <2>2
  <2> QED
    BY <2>1, <2>2, <2>3
<1> QED
  BY <1>2, <1>3, <1>5, <1>6

\* What the call is about does not change.
LEMMA Constants ==
  ASSUME AtOnce
  PROVE  /\ dd' = dd /\ input' = input /\ before' = before
         /\ Skipped' = Skipped /\ Wanted' = Wanted /\ Where' = Where /\ Base' = Base
         /\ \A n : Result(n)' = Result(n)
<1>1. dd' = dd /\ input' = input /\ before' = before
  BY DEF AtOnce
<1>2. Skipped' = Skipped /\ Where' = Where /\ Base' = Base
  BY <1>1 DEF Skipped, Where, Base
<1>3. Wanted' = Wanted
  BY <1>1, <1>2 DEF Wanted
<1>4. \A n : Result(n)' = Result(n)
  BY <1>1, <1>2 DEF Result
<1> QED
  BY <1>1, <1>2, <1>3, <1>4

LEMMA FailureCounts == ASSUME DdTypeOK, MayFail PROVE failures' \in Nat /\ failures' # 0
  BY DEF MayFail, DdTypeOK

LEMMA DdTypeStep == ASSUME DdTypeOK, DdNext PROVE DdTypeOK'
<1>1. AtOnce
  BY DEF DdNext, DdSkip, DdSeek, DdRead, DdWrite, DdNextBlock, DdCounted
<1>2. dd' \in DdOperands /\ input' \in Files /\ before' \in Files
  BY <1>1, Constants DEF DdTypeOK
<1>3. /\ inPos \in Nat /\ outPos \in Nat /\ left \in Nat /\ records \in Nat /\ failures \in Nat
      /\ Len(input) \in Nat /\ Len(buf) \in Nat /\ input \in Files /\ buf \in Files
      /\ output \in Files
  BY DEF DdTypeOK, Files
<1>4. failures' \in Nat
  BY <1>3 DEF DdNext, DdSkip, DdSeek, DdRead, DdWrite, DdNextBlock, DdCounted, MayFail
<1>5. CASE DdSkip
  <2>1. inPos' \in Nat /\ left' \in Nat
    BY <1>3, <1>5 DEF DdSkip
  <2>2. ddAt' \in {"skip", "seek"}
    BY <1>5 DEF DdSkip
  <2> QED
    BY <1>2, <1>4, <1>5, <2>1, <2>2 DEF DdSkip, DdTypeOK
<1>6. CASE DdSeek
  <2>1. outPos' \in Nat
    BY <1>3, <1>6, Numbers DEF DdSeek, Where
  <2>2. ddAt' \in {"read", "done"} /\ rcdd' \in {0, 1}
    BY <1>6 DEF DdSeek, DdTypeOK
  <2> QED
    BY <1>2, <1>4, <1>6, <2>1, <2>2 DEF DdSeek, DdTypeOK
<1>7. CASE DdRead
  <2>1. buf' \in Files /\ inPos' \in Nat /\ short' \in BOOLEAN /\ ddAt' \in {"write", "done"}
        /\ rcdd' \in {0, 1}
    <3>1. CASE inPos < Len(input) /\ ddAt' = "write" /\ UNCHANGED <<rcdd, failures>>
      <4>1. PICK n \in 1..dd.ibs :
               /\ n <= Len(input) - inPos
               /\ buf' = SubSeq(input, inPos + 1, inPos + n)
               /\ inPos' = inPos + n
               /\ short' = (short \/ (n < dd.ibs /\ n < Len(input) - inPos))
        BY <1>3, <1>7, <3>1 DEF DdRead
      <4>2. n \in Nat /\ inPos + n <= Len(input)
        BY <1>3, <4>1, Numbers
      <4>3. SubSeq(input, inPos + 1, inPos + n) \in Files
        BY <1>3, <4>2, PieceIs, Zenon
      <4> QED
        BY <1>3, <3>1, <4>1, <4>2, <4>3 DEF DdTypeOK
    <3>2. CASE UNCHANGED <<buf, inPos, short>> /\ ddAt' = "done" /\ rcdd' \in {0, 1}
      BY <1>3, <3>2 DEF DdTypeOK
    <3> QED
      BY <1>7, <3>1, <3>2 DEF DdRead, DdTypeOK
  <2> QED
    BY <1>2, <1>4, <1>7, <2>1 DEF DdRead, DdTypeOK
<1>8. CASE DdWrite
  <2>1. output' \in Files /\ outPos' \in Nat /\ buf' \in Files
    <3>1. ASSUME NEW w \in 1..Len(buf),
                 output' = Over(output, outPos, SubSeq(buf, 1, w)),
                 outPos' = outPos + w /\ buf' = SubSeq(buf, w + 1, Len(buf))
          PROVE  output' \in Files /\ outPos' \in Nat /\ buf' \in Files
      <4>1. SubSeq(buf, 1, w) \in Files /\ SubSeq(buf, w + 1, Len(buf)) \in Files
        BY <1>3, Parted, Zenon
      <4>2. Over(output, outPos, SubSeq(buf, 1, w)) \in Files
        BY <1>3, <4>1, OverLaws, Zenon
      <4> QED
        BY <1>3, <3>1, <4>1, <4>2
    <3>2. <<>> \in Files
      BY EmptySeq DEF Files
    <3> QED
      BY <1>3, <1>8, <3>1, <3>2 DEF DdWrite
  <2>2. ddAt' \in {"write", "done"} /\ rcdd' \in {0, 1} /\ zeroed' \in BOOLEAN
    BY <1>8 DEF DdWrite, DdTypeOK
  <2> QED
    BY <1>2, <1>4, <1>8, <2>1, <2>2 DEF DdWrite, DdTypeOK
<1>9. CASE DdNextBlock
  <2>1. records' \in Nat /\ ddAt' \in {"done", "read"}
    BY <1>3, <1>9 DEF DdNextBlock
  <2> QED
    BY <1>2, <1>9, <2>1 DEF DdNextBlock, DdTypeOK
<1>10. CASE DdCounted
  BY <1>2, <1>10 DEF DdCounted, DdTypeOK
<1> QED
  BY <1>5, <1>6, <1>7, <1>8, <1>9, <1>10 DEF DdNext

LEMMA SkipStep == ASSUME DdInv, DdTypeOK', DdSkip PROVE DdInv'
<1>1. DdTypeOK /\ Starting /\ ddAt = "skip" /\ AtOnce
  BY DEF DdInv, DdSkip
<1>2. /\ Len(input) \in Nat /\ inPos \in Nat /\ left \in Nat /\ dd.ibs \in Nat \ {0}
      /\ dd.skip * dd.ibs \in Nat
  BY <1>1, Numbers
<1>3. inPos + left = dd.skip * dd.ibs /\ (dd.seekable \/ inPos <= Len(input))
  BY <1>1 DEF Starting
<1>4. /\ output' = Base' /\ outPos' = 0 /\ buf' = <<>> /\ records' = 0
      /\ rcdd' = 0 /\ zeroed' = FALSE /\ dd' = dd /\ input' = input /\ Skipped' = Skipped
  BY <1>1, Constants DEF Starting, DdSkip
<1>5. CASE inPos' = inPos + left /\ left' = 0 /\ ddAt' = "seek"
  <2>1. ReadTo' = Skipped'
    BY <1>3, <1>4, <1>5 DEF ReadTo, Skipped
  <2> QED
    BY <1>1, <1>4, <1>5, <2>1 DEF DdInv, Starting
<1>6. ASSUME NEW n \in 1..dd.ibs, n <= left, n <= Len(input) - inPos, ~dd.seekable,
             inPos' = inPos + n, left' = left - n, ddAt' = ddAt
      PROVE  DdInv'
  <2>1. inPos' + left' = dd.skip * dd.ibs /\ inPos' <= Len(input)
    BY <1>2, <1>3, <1>6
  <2> QED
    BY <1>1, <1>4, <1>6, <2>1 DEF DdInv, Starting
<1>7. CASE /\ left > 0 /\ ~dd.seekable /\ ddAt' = "seek" /\ UNCHANGED <<inPos, left>>
           /\ inPos = Len(input) \/ MayFail
  <2>1. Clean' => ReadTo' = Skipped'
    <3>1. CASE inPos = Len(input)
      <4>1. ReadTo' = Len(input)
        BY <1>2, <1>4, <1>7, <3>1 DEF ReadTo, Lowest
      <4>2. Skipped = Len(input)
        BY <1>2, <1>3, <1>7, <3>1 DEF Skipped, Lowest
      <4> QED
        BY <1>4, <4>1, <4>2
    <3>2. CASE MayFail
      BY <1>1, <1>2, <1>7, <3>2, FailureCounts DEF Clean
    <3> QED
      BY <1>7, <3>1, <3>2
  <2> QED
    BY <1>1, <1>4, <1>7, <2>1 DEF DdInv, Starting
<1> QED
  BY <1>5, <1>6, <1>7 DEF DdSkip

LEMMA NothingYet == ASSUME DdTypeOK PROVE Result(0) = Base
<1>1. /\ Where \in Nat /\ Base \in Files /\ Skipped \in Nat /\ Skipped + 0 <= Len(input)
      /\ input \in Files
  BY Numbers DEF DdTypeOK
<1>2. PICK u : u = SubSeq(input, Skipped + 1, Skipped + 0)
  OBVIOUS
<1>3. u \in Files /\ Len(u) = 0
  BY <1>1, <1>2, PieceIs, Zenon
<1>4. u = <<>>
  BY <1>3, EmptySeq DEF Files
<1>5. Result(0) = Over(Base, Where, <<>>)
  BY <1>2, <1>4 DEF Result, Base, Where
<1> QED
  BY <1>1, <1>5, OverNothing

LEMMA SeekStep == ASSUME DdInv, DdTypeOK', DdSeek PROVE DdInv'
<1>1. DdTypeOK /\ Starting /\ ddAt = "seek" /\ AtOnce
  BY DEF DdInv, DdSeek
<1>2. /\ output = Base /\ outPos = 0 /\ buf = <<>> /\ records = 0 /\ rcdd = 0
      /\ Clean => ReadTo = Skipped
  BY <1>1 DEF Starting
<1>3. /\ dd' = dd /\ input' = input /\ Skipped' = Skipped /\ Wanted' = Wanted /\ Where' = Where
      /\ Result(0)' = Result(0)
  BY <1>1, Constants
<1>4. /\ inPos' = inPos /\ output' = output /\ buf' = buf /\ left' = left
      /\ records' = records /\ short' = short /\ ddAt' \in {"read", "done"}
  BY DEF DdSeek
<1>5. Starting'
  BY <1>4 DEF Starting
<1>6. SUFFICES ASSUME Clean' PROVE Copied' /\ Counted'
  BY <1>5 DEF DdInv
<1>7. Clean
  <2>1. failures' = failures \/ MayFail
    BY DEF DdSeek
  <2> QED
    BY <1>1, <1>4, <1>6, <2>1, FailureCounts DEF Clean
<1>8. ReadTo' = Skipped /\ Taken' = 0 /\ Len(buf') = 0
  <2>1. ReadTo' = ReadTo
    BY <1>3, <1>4 DEF ReadTo
  <2>2. Skipped \in Nat
    BY <1>1, Numbers
  <2>3. Taken' = ReadTo' - Skipped'
    BY DEF Taken
  <2> QED
    BY <1>2, <1>3, <1>4, <1>7, <2>1, <2>2, <2>3, EmptySeq
<1>9. output' = Result(0)'
  BY <1>1, <1>2, <1>3, <1>4, NothingYet
<1>10. Where \in Nat /\ Wanted \in Nat /\ Where + 0 = Where
  BY <1>1, Numbers, WantedIs
<1>11. (Taken - Len(buf))' = 0
  BY <1>8
<1>12. ddAt' # "done" => outPos' = Where'
  BY <1>3 DEF DdSeek, Where
<1>13. Copied'
  BY <1>3, <1>8, <1>9, <1>10, <1>11, <1>12 DEF Copied
<1>14. records' * dd'.ibs = 0 /\ (dd'.count # NoCount => 0 <= dd'.count)
  BY <1>1, <1>2, <1>3, <1>4, Numbers
<1>15. ddAt' = "done" => rcdd' = 1
  BY DEF DdSeek
<1>16. Counted'
  BY <1>2, <1>4, <1>8, <1>14, <1>15 DEF Counted
<1> QED
  BY <1>13, <1>16

\* The copy goes on from what was true of it.
LEMMA StillClean ==
  ASSUME DdInv, ddAt \in {"read", "write"}, Clean', ~zeroed', left' = left,
         failures' = failures \/ MayFail, zeroed' = zeroed
  PROVE  Copied /\ Counted
<1>1. Clean /\ ~zeroed
  BY FailureCounts DEF DdInv, Clean
<1> QED
  BY <1>1 DEF DdInv

LEMMA ReadStep == ASSUME DdInv, DdTypeOK', DdRead PROVE DdInv'
<1>1. DdTypeOK /\ ddAt = "read" /\ AtOnce /\ ddAt' \in {"write", "done"}
  BY DEF DdInv, DdRead
<1>2. Starting'
  BY <1>1 DEF Starting
<1>3. SUFFICES ASSUME Clean', ~zeroed' PROVE Copied' /\ Counted'
  BY <1>2 DEF DdInv
<1>4. Copied /\ Counted
  <2>1. left' = left /\ zeroed' = zeroed /\ (failures' = failures \/ MayFail)
    BY DEF DdRead
  <2> QED
    BY <1>1, <1>3, <2>1, StillClean
<1>5. /\ dd' = dd /\ input' = input /\ Skipped' = Skipped /\ Wanted' = Wanted /\ Where' = Where
      /\ \A n : Result(n)' = Result(n)
  BY <1>1, Constants
<1>6. buf = <<>> /\ Len(buf) = 0
  BY <1>1, <1>4, EmptySeq DEF Counted
<1>7. PICK s, t, e \in Nat : s = Skipped /\ t = Taken /\ e = ReadTo /\ t = e - s
  <2>1. Skipped \in Nat /\ ReadTo \in Nat /\ Taken = ReadTo - Skipped
    BY <1>1, Numbers DEF Taken
  <2>2. Len(buf) <= Taken
    BY <1>4 DEF Copied
  <2>3. Taken \in Nat
    BY <1>6, <2>1, <2>2
  <2> QED
    BY <2>1, <2>3
<1>8. /\ Len(input) \in Nat /\ inPos \in Nat /\ dd.ibs \in Nat /\ records \in Nat
      /\ dd.count \in Nat \cup {NoCount} /\ (dd.count # NoCount => dd.count * dd.ibs \in Nat)
      /\ s <= Len(input) /\ e <= inPos /\ Where \in Nat
  BY <1>1, <1>7, Numbers
<1>9. /\ output = Result(t) /\ outPos = Where + t /\ t <= Wanted
  <2>1. Taken - Len(buf) = t
    BY <1>6, <1>7
  <2> QED
    BY <1>1, <1>4, <1>7, <2>1 DEF Copied
<1>10. output' = output /\ outPos' = outPos /\ records' = records
  BY DEF DdRead
<1>11. CASE inPos < Len(input) /\ ddAt' = "write" /\ UNCHANGED <<rcdd, failures>>
  <2>1. PICK n \in 1..dd.ibs :
           /\ n <= Len(input) - inPos
           /\ buf' = SubSeq(input, inPos + 1, inPos + n)
           /\ inPos' = inPos + n
           /\ short' = (short \/ (n < dd.ibs /\ n < Len(input) - inPos))
    BY <1>8, <1>11 DEF DdRead
  <2>2. n \in Nat /\ inPos + n <= Len(input) /\ n <= dd.ibs
    BY <1>8, <2>1
  <2>3. e = inPos
    BY <1>7, <1>11 DEF ReadTo, Lowest
  <2>4. ReadTo' = inPos + n
    BY <1>5, <2>1, <1>8, <2>2 DEF ReadTo, Lowest
  <2>5. Taken' = t + n
    <3>1. Taken' = ReadTo' - Skipped'
      BY DEF Taken
    <3> QED
      BY <1>5, <1>7, <1>8, <2>2, <2>3, <2>4, <3>1
  <2>6. Len(buf') = n /\ \A j \in 1..n : buf'[j] = input[inPos + j]
    <3>1. input \in Files /\ inPos \in Nat /\ n \in Nat /\ inPos + n <= Len(input)
      BY <1>1, <1>8, <2>2 DEF DdTypeOK
    <3>2. PICK chunk : chunk = SubSeq(input, inPos + 1, inPos + n)
      OBVIOUS
    <3>3. Len(chunk) = n /\ \A j \in 1..n : chunk[j] = input[inPos + j]
      BY <3>1, <3>2, PieceIs, Zenon
    <3>4. buf' = chunk
      BY <2>1, <3>2
    <3> QED
      BY <3>3, <3>4
  <2>7. Taken' - Len(buf') = t
    BY <2>2, <2>5, <2>6
  <2>8. \A j \in 1..Len(buf') : buf'[j] = input'[Skipped' + (Taken' - Len(buf')) + j]
    <3> SUFFICES ASSUME NEW j \in 1..n PROVE buf'[j] = input[s + t + j]
      BY <1>5, <1>7, <2>6, <2>7
    <3>1. s + t = inPos
      BY <1>7, <2>3
    <3> QED
      BY <2>6, <3>1
  <2>9. dd.count # NoCount => records < dd.count
    <3>1. records < dd.count \/ dd.count = NoCount
      BY <1>1 DEF DdRead
    <3> QED
      BY <3>1
  <2>10. PICK r \in Nat : r = records * dd.ibs
    BY <1>8, Products
  <2>11. (records + 1) * dd.ibs = r + dd.ibs
    BY <1>8, <2>10, Products
  <2>12. t <= r /\ (short \/ t = r \/ e = Len(input))
    BY <1>1, <1>4, <1>7, <2>10 DEF Counted
  <2>13. t + n <= r + dd.ibs /\ (short' \/ t + n = r + dd.ibs \/ inPos + n = Len(input))
    <3>1. n \in Nat /\ n <= dd.ibs /\ dd.ibs \in Nat /\ Len(input) \in Nat /\ inPos \in Nat
      BY <1>8, <2>2
    <3>2. t + n <= r + dd.ibs
      BY <2>12, <3>1
    <3>3. CASE short
      BY <2>1, <3>2, <3>3
    <3>4. CASE ~short /\ t = r
      <4>1. CASE n = dd.ibs
        BY <3>2, <3>4, <4>1
      <4>2. CASE n < dd.ibs /\ n < Len(input) - inPos
        BY <2>1, <3>2, <4>2
      <4>3. CASE n = Len(input) - inPos
        <5>1. inPos + n = Len(input)
          BY <3>1, <4>3
        <5> QED
          BY <3>2, <5>1
      <4>4. n <= Len(input) - inPos
        BY <2>1
      <4> QED
        BY <3>1, <4>1, <4>2, <4>3, <4>4
    <3>5. e < Len(input)
      BY <1>11, <2>3
    <3> QED
      BY <2>12, <3>1, <3>3, <3>4, <3>5
  <2>14. t + n <= Wanted
    <3>1. t + n <= Len(input) - Skipped
      BY <1>7, <1>8, <2>2, <2>3
    <3>2. dd.count # NoCount => t + n <= dd.count * dd.ibs
      <4>1. SUFFICES ASSUME dd.count # NoCount PROVE t + n <= dd.count * dd.ibs
        OBVIOUS
      <4>2. dd.count \in Nat /\ records + 1 \in Nat /\ records + 1 <= dd.count
        BY <1>8, <2>9, <4>1
      <4>3. (records + 1) * dd.ibs <= dd.count * dd.ibs
        BY <1>8, <4>2, Products
      <4> QED
        BY <1>8, <2>2, <2>10, <2>11, <2>13, <4>1, <4>3
    <3> QED
      BY <1>1, <3>1, <3>2, WantedIs
  <2>15. Copied'
    BY <1>5, <1>9, <1>10, <2>2, <2>5, <2>6, <2>7, <2>8, <2>14 DEF Copied
  <2>16. Counted'
    BY <1>5, <1>8, <1>10, <1>11, <2>4, <2>5, <2>9, <2>11, <2>13 DEF Counted
  <2> QED
    BY <2>15, <2>16
<1>12. CASE /\ ddAt' = "done" /\ UNCHANGED <<buf, inPos, short>>
            /\ \/ inPos >= Len(input) /\ UNCHANGED rcdd
               \/ rcdd' = 1
  <2>1. ReadTo' = e /\ Taken' = t /\ Len(buf') = 0 /\ buf' = <<>> /\ Taken' - Len(buf') = t
    <3>1. ReadTo' = e
      BY <1>5, <1>7, <1>12 DEF ReadTo
    <3>2. Taken' = t
      BY <1>5, <1>7, <3>1 DEF Taken
    <3> QED
      BY <1>6, <1>12, <3>1, <3>2
  <2>2. Copied'
    BY <1>5, <1>9, <1>10, <1>12, <2>1 DEF Copied
  <2>3. rcdd' = 0 => ReadTo' = Len(input')
    <3>1. inPos >= Len(input) => e = Len(input)
      BY <1>7, <1>8 DEF ReadTo, Lowest
    <3> QED
      BY <1>5, <1>12, <2>1, <3>1
  <2>4. dd.count # NoCount => records <= dd.count
    BY <1>4 DEF Counted
  <2>5. Counted'
    BY <1>5, <1>10, <1>12, <2>1, <2>3, <2>4 DEF Counted
  <2> QED
    BY <2>2, <2>5
<1> QED
  BY <1>11, <1>12 DEF DdRead

LEMMA WriteStep == ASSUME DdInv, DdTypeOK', DdWrite PROVE DdInv'
<1>1. DdTypeOK /\ ddAt = "write" /\ AtOnce /\ ddAt' \in {"write", "done"}
  BY DEF DdInv, DdWrite
<1>2. Starting'
  BY <1>1 DEF Starting
<1>3. SUFFICES ASSUME Clean', ~zeroed' PROVE Copied' /\ Counted'
  BY <1>2 DEF DdInv
<1>4. /\ UNCHANGED zeroed /\ inPos' = inPos /\ left' = left /\ records' = records
      /\ short' = short /\ (failures' = failures \/ MayFail)
  BY <1>1, <1>3 DEF DdWrite, DdTypeOK
<1>5. Copied /\ Counted
  BY <1>1, <1>3, <1>4, StillClean
<1>6. /\ dd' = dd /\ input' = input /\ Skipped' = Skipped /\ Wanted' = Wanted /\ Where' = Where
      /\ \A n : Result(n)' = Result(n)
  BY <1>1, Constants
<1>7. ReadTo' = ReadTo /\ Taken' = Taken
  <2>1. ReadTo' = ReadTo
    BY <1>4, <1>6 DEF ReadTo
  <2> QED
    BY <1>6, <2>1 DEF Taken
<1>8. PICK s, t, n \in Nat : /\ s = Skipped /\ t = Taken /\ n = Taken - Len(buf)
                             /\ n + Len(buf) = t /\ s + t <= Len(input)
  <2>1. Skipped \in Nat /\ ReadTo \in Nat /\ Taken = ReadTo - Skipped /\ Len(buf) \in Nat
        /\ ReadTo <= Len(input) /\ Len(input) \in Nat
    BY <1>1, Numbers DEF Taken
  <2>2. Len(buf) <= Taken
    BY <1>5 DEF Copied
  <2>3. Taken \in Nat /\ Taken - Len(buf) \in Nat
    BY <2>1, <2>2
  <2>4. Taken - Len(buf) + Len(buf) = Taken /\ Skipped + Taken <= Len(input)
    <3>1. PICK a \in Nat : a = Skipped
      BY <2>1
    <3>2. PICK b \in Nat : b = ReadTo
      BY <2>1
    <3>3. PICK c \in Nat : c = Len(buf)
      BY <2>1
    <3>4. Taken = b - a /\ b <= Len(input) /\ Len(input) \in Nat
      BY <2>1, <3>1, <3>2
    <3> QED
      BY <3>1, <3>3, <3>4
  <2> QED
    BY <2>1, <2>3, <2>4
<1>9. /\ output = Result(n) /\ outPos = Where + n /\ t <= Wanted
      /\ \A j \in 1..Len(buf) : buf[j] = input[s + n + j]
  BY <1>1, <1>5, <1>8 DEF Copied
<1>10. buf \in Files /\ Len(buf) \in Nat /\ Where \in Nat
  BY <1>1, Numbers DEF DdTypeOK
<1>11. ASSUME NEW w \in 1..Len(buf), output' = Over(output, outPos, SubSeq(buf, 1, w)),
              outPos' = outPos + w, buf' = SubSeq(buf, w + 1, Len(buf)), UNCHANGED <<ddAt, rcdd>>
       PROVE  Copied' /\ Counted'
  <2>1. PICK chunk : chunk = SubSeq(buf, 1, w)
    OBVIOUS
  <2>2. /\ chunk \in Files /\ Len(chunk) = w /\ \A j \in 1..w : chunk[j] = buf[j]
        /\ Len(buf') = Len(buf) - w /\ \A j \in 1..(Len(buf) - w) : buf'[j] = buf[w + j]
    BY <1>10, <1>11, <2>1, Parted
  <2>3. w \in Nat \ {0} /\ s + n + w <= Len(input)
    BY <1>8, <1>10
  <2>4. \A j \in 1..w : chunk[j] = input[s + n + j]
    <3> SUFFICES ASSUME NEW j \in 1..w PROVE chunk[j] = input[s + n + j]
      OBVIOUS
    <3>1. j \in 1..Len(buf)
      BY <1>10
    <3> QED
      BY <1>9, <2>2, <3>1
  <2>5. Over(Result(n), Where + n, chunk) = Result(n + w)
    BY <1>1, <1>8, <2>2, <2>3, <2>4, ResultGrows
  <2>6. output' = Result(n + w) /\ outPos' = Where + (n + w)
    BY <1>9, <1>10, <1>11, <2>1, <2>3, <2>5
  <2>7. Taken' - Len(buf') = n + w /\ Len(buf') <= Taken'
    BY <1>7, <1>8, <1>10, <2>2, <2>3
  <2>8. \A j \in 1..Len(buf') : buf'[j] = input[s + (n + w) + j]
    <3> SUFFICES ASSUME NEW j \in 1..(Len(buf) - w) PROVE buf'[j] = input[s + (n + w) + j]
      BY <2>2
    <3>1. w + j \in 1..Len(buf) /\ s + n + (w + j) = s + (n + w) + j
      BY <1>10, <2>3
    <3> QED
      BY <1>9, <2>2, <3>1
  <2>9. Copied'
    BY <1>6, <1>7, <1>8, <1>9, <2>6, <2>7, <2>8 DEF Copied
  <2>10. Counted'
    BY <1>1, <1>4, <1>5, <1>6, <1>7, <1>11 DEF Counted
  <2> QED
    BY <2>9, <2>10
<1>12. CASE rcdd' = 1 /\ ddAt' = "done" /\ UNCHANGED <<output, outPos, buf>>
  <2>1. Copied'
    BY <1>5, <1>6, <1>7, <1>12 DEF Copied
  <2>2. Counted'
    BY <1>1, <1>4, <1>5, <1>6, <1>7, <1>12 DEF Counted
  <2> QED
    BY <2>1, <2>2
<1> QED
  BY <1>3, <1>11, <1>12 DEF DdWrite

LEMMA NextBlockStep == ASSUME DdInv, DdTypeOK', DdNextBlock PROVE DdInv'
<1>1. DdTypeOK /\ ddAt = "write" /\ AtOnce /\ ddAt' \in {"read", "done"} /\ buf = <<>>
  BY DEF DdInv, DdNextBlock
<1>2. Starting'
  BY <1>1 DEF Starting
<1>3. SUFFICES ASSUME Clean', ~zeroed' PROVE Copied' /\ Counted'
  BY <1>2 DEF DdInv
<1>4. /\ UNCHANGED <<inPos, output, outPos, buf, left, rcdd, short, zeroed, failures>>
      /\ records' = records + 1
  BY DEF DdNextBlock
<1>5. Copied /\ Counted
  BY <1>1, <1>3, <1>4, StillClean
<1>6. /\ dd' = dd /\ input' = input /\ Skipped' = Skipped /\ Wanted' = Wanted /\ Where' = Where
      /\ \A n : Result(n)' = Result(n)
  BY <1>1, Constants
<1>7. ReadTo' = ReadTo /\ Taken' = Taken
  <2>1. ReadTo' = ReadTo
    BY <1>4, <1>6 DEF ReadTo
  <2> QED
    BY <1>6, <2>1 DEF Taken
<1>8. Copied'
  BY <1>1, <1>4, <1>5, <1>6, <1>7 DEF Copied
<1>9. records \in Nat /\ dd.count \in Nat \cup {NoCount}
  BY <1>1, Numbers
<1>10. /\ dd.count # NoCount => records < dd.count
       /\ Taken <= (records + 1) * dd.ibs
       /\ short \/ Taken = (records + 1) * dd.ibs \/ ReadTo = Len(input)
  BY <1>1, <1>5 DEF Counted
<1>11. /\ ddAt' = "done" => dd.count # NoCount /\ records + 1 >= dd.count
       /\ ddAt' = "read" => dd.count = NoCount \/ ~(records + 1 >= dd.count)
  BY <1>4, <1>6 DEF DdNextBlock
<1>12. dd.count # NoCount => records + 1 <= dd.count
  BY <1>9, <1>10
<1>13. CASE ddAt' = "read"
  BY <1>1, <1>4, <1>6, <1>7, <1>8, <1>10, <1>12, <1>13 DEF Counted
<1>14. CASE ddAt' = "done"
  <2>1. dd.count # NoCount /\ records + 1 = dd.count
    BY <1>9, <1>11, <1>12, <1>14
  <2>2. short \/ Taken = dd.count * dd.ibs \/ ReadTo = Len(input)
    BY <1>10, <2>1
  <2> QED
    BY <1>1, <1>4, <1>6, <1>7, <1>8, <1>12, <1>14, <2>1, <2>2 DEF Counted
<1> QED
  BY <1>1, <1>8, <1>13, <1>14

LEMMA CountedStep == ASSUME DdInv, DdTypeOK', DdCounted PROVE DdInv'
<1>1. DdTypeOK /\ ddAt = "read" /\ AtOnce /\ ddAt' = "done"
  BY DEF DdInv, DdCounted
<1>2. Starting'
  BY <1>1 DEF Starting
<1>3. SUFFICES ASSUME Clean', ~zeroed' PROVE Copied' /\ Counted'
  BY <1>2 DEF DdInv
<1>4. /\ UNCHANGED <<inPos, output, outPos, buf, left, records, rcdd, short, zeroed, failures>>
      /\ dd.count # NoCount /\ records >= dd.count
  BY DEF DdCounted
<1>5. Copied /\ Counted
  BY <1>1, <1>3, <1>4, StillClean
<1>6. /\ dd' = dd /\ input' = input /\ Skipped' = Skipped /\ Wanted' = Wanted /\ Where' = Where
      /\ \A n : Result(n)' = Result(n)
  BY <1>1, Constants
<1>7. ReadTo' = ReadTo /\ Taken' = Taken
  <2>1. ReadTo' = ReadTo
    BY <1>4, <1>6 DEF ReadTo
  <2> QED
    BY <1>6, <2>1 DEF Taken
<1>8. Copied'
  BY <1>1, <1>4, <1>5, <1>6, <1>7 DEF Copied
<1>9. records = dd.count
  <2>1. records \in Nat /\ dd.count \in Nat \cup {NoCount}
    BY <1>1, Numbers
  <2>2. records <= dd.count
    BY <1>4, <1>5 DEF Counted
  <2> QED
    BY <1>4, <2>1, <2>2 DEF NoCount
<1>10. buf = <<>> /\ (short \/ Taken = dd.count * dd.ibs \/ ReadTo = Len(input))
  BY <1>1, <1>5, <1>9 DEF Counted
<1>11. records <= dd.count
  BY <1>4, <1>5 DEF Counted
<1>12. Counted'
  BY <1>1, <1>4, <1>6, <1>7, <1>10, <1>11 DEF Counted
<1> QED
  BY <1>8, <1>12

LEMMA DdStarts == ASSUME DdOpen PROVE DdInv
<1>1. DdTypeOK
  <2>1. input \in Files /\ before \in Files /\ <<>> \in Files /\ dd \in DdOperands
    BY DdAssumption, EmptySeq DEF DdOpen, Files
  <2>2. left \in Nat
    <3>1. dd.skip \in Nat /\ dd.ibs \in Nat /\ left = dd.skip * dd.ibs
      BY <2>1, DdAssumption DEF DdOpen
    <3> QED
      BY <3>1, Products
  <2>3. output \in Files /\ buf \in Files
    BY <2>1 DEF DdOpen
  <2>4. /\ inPos = 0 /\ outPos = 0 /\ records = 0 /\ rcdd = 0 /\ ddAt = "skip"
        /\ short = FALSE /\ zeroed = FALSE /\ failures = 0
    BY DEF DdOpen
  <2>5. short \in BOOLEAN /\ zeroed \in BOOLEAN
    BY <2>4, Zenon
  <2>6. {inPos, outPos, left, records, failures} \subseteq Nat /\ rcdd \in {0, 1}
    BY <2>2, <2>4
  <2>7. ddAt \in {"skip", "seek", "read", "write", "done"}
    BY <2>4
  <2> QED
    BY <2>1, <2>3, <2>5, <2>6, <2>7, Zenon DEF DdTypeOK
<1>2. left \in Nat /\ left = dd.skip * dd.ibs /\ inPos = 0 /\ ddAt = "skip"
  BY <1>1 DEF DdOpen, DdTypeOK
<1>3. 0 <= Len(input) /\ 0 + left = left
  BY <1>1, <1>2, Numbers
<1>4. Starting
  BY <1>2, <1>3 DEF DdOpen, Starting, Base
<1> QED
  BY <1>1, <1>2, <1>4 DEF DdInv

LEMMA DdStays == ASSUME DdInv, UNCHANGED ddVars PROVE DdInv'
<1>1. /\ Skipped' = Skipped /\ Wanted' = Wanted /\ Where' = Where /\ Base' = Base
      /\ \A n : Result(n)' = Result(n)
  BY Constants DEF ddVars, AtOnce
<1>2. ReadTo' = ReadTo
  BY DEF ddVars, ReadTo
<1>3. Taken' = Taken
  BY <1>1, <1>2 DEF Taken
<1>4. DdTypeOK' = DdTypeOK /\ Clean' = Clean /\ Starting' = Starting
  BY <1>1, <1>2 DEF ddVars, DdTypeOK, Clean, Starting
<1>5. Copied' = Copied /\ Counted' = Counted
  BY <1>1, <1>2, <1>3 DEF ddVars, Copied, Counted
<1> QED
  BY <1>4, <1>5 DEF DdInv, ddVars

LEMMA DdKeepsTheRange == ASSUME DdInv PROVE DdCopiesTheRange
<1>1. SUFFICES ASSUME ~zeroed, Clean, ddAt # "skip"
               PROVE  /\ \E n \in 0..Wanted : output = Result(n)
                      /\ ddAt = "done" /\ rcdd = 0 /\ (short => dd.count = NoCount)
                           => output = Result(Wanted)
  BY DEF DdCopiesTheRange, Clean
<1>2. DdTypeOK /\ Starting /\ Wanted \in Nat
  BY WantedIs DEF DdInv
<1>3. CASE ddAt = "seek"
  <2>1. output = Result(0)
    BY <1>2, <1>3, NothingYet DEF Starting
  <2>2. 0 \in 0..Wanted
    BY <1>2
  <2> QED
    BY <1>3, <2>1, <2>2
<1>4. CASE ddAt \in {"read", "write", "done"}
  <2>1. Copied /\ Counted
    BY <1>1, <1>4 DEF DdInv
  <2>2. PICK e, s \in Nat : e = ReadTo /\ s = Skipped /\ Taken = e - s
    BY <1>2, Numbers DEF Taken
  <2>3. PICK k \in Nat : k = Len(buf)
    BY <1>2, Numbers
  <2>4. Taken - Len(buf) \in 0..Wanted
    BY <1>2, <2>1, <2>2, <2>3 DEF Copied
  <2>5. output = Result(Taken - Len(buf))
    BY <2>1 DEF Copied
  <2>6. ASSUME ddAt = "done", rcdd = 0, short => dd.count = NoCount
        PROVE  Taken - Len(buf) = Wanted
    <3>1. /\ buf = <<>>
          /\ \/ ReadTo = Len(input)
             \/ dd.count # NoCount /\ (short \/ Taken = dd.count * dd.ibs)
      BY <2>1, <2>6 DEF Counted
    <3>2. Len(buf) = 0 /\ Taken <= Wanted
      BY <2>1, <3>1, EmptySeq DEF Copied
    <3>3. Taken = Len(input) - Skipped \/ (dd.count # NoCount /\ Taken = dd.count * dd.ibs)
      BY <2>2, <2>6, <3>1
    <3>4. /\ Wanted <= Len(input) - Skipped
          /\ dd.count # NoCount => Wanted <= dd.count * dd.ibs
      <4>1. Len(input) \in Nat /\ Skipped \in Nat /\ Wanted \in 0..(Len(input) - Skipped)
        BY <1>2, WantedIs, Numbers
      <4>2. Wanted <= Len(input) - Skipped
        BY <4>1
      <4> QED
        BY <1>2, <4>2, WantedIs
    <3>5. Taken >= Wanted
      BY <3>3, <3>4
    <3> QED
      BY <1>2, <2>2, <3>2, <3>5
  <2> QED
    BY <2>4, <2>5, <2>6
<1> QED
  BY <1>1, <1>2, <1>3, <1>4 DEF DdTypeOK

(* What dd writes is an unbroken chunk of the input, from skip on, at seek,  *)
(* after any run of short reads, short writes and failed calls, for every    *)
(* input, block size, count, skip and seek (cmd_dd, ex_dd.c).                *)
THEOREM DdCopiesTheRangeHolds == DdSpec => []DdCopiesTheRange
<1>1. DdOpen => DdInv
  BY DdStarts
<1>2. DdInv /\ [DdNext]_ddVars => DdInv'
  <2> SUFFICES ASSUME DdInv, [DdNext]_ddVars PROVE DdInv'
    OBVIOUS
  <2>1. CASE UNCHANGED ddVars
    BY <2>1, DdStays
  <2>2. CASE DdNext
    <3>1. DdTypeOK'
      BY <2>2, DdTypeStep DEF DdInv
    <3> QED
      BY <2>2, <3>1, SkipStep, SeekStep, ReadStep, WriteStep, NextBlockStep, CountedStep
         DEF DdNext
  <2> QED
    BY <2>1, <2>2
<1>3. DdInv => DdCopiesTheRange
  BY DdKeepsTheRange
<1> QED
  BY <1>1, <1>2, <1>3, PTL DEF DdSpec

-----------------------------------------------------------------------------
(* killall and pidof                                                       *)

LEMMA FirstIs ==
  \A S \in SUBSET Nat : S # {} => FirstOf(S) \in S /\ \A q \in S : FirstOf(S) <= q
<1> SUFFICES ASSUME NEW S \in SUBSET Nat, S # {}
             PROVE  FirstOf(S) \in S /\ \A q \in S : FirstOf(S) <= q
  OBVIOUS
<1>1. PICK x \in S : \A y \in S : ~ (<<y, x>> \in OpToRel(<, Nat))
  BY NatLessThanWellFounded, WFMin
<1>2. \A y \in S : ~ (y < x)
  BY <1>1 DEF OpToRel
<1>3. \A y \in S : x <= y
  BY <1>2
<1> QED
  BY <1>3 DEF FirstOf

\* The last of a finite set is the one fewest come after.
LEMMA LastIs ==
  \A S \in SUBSET Nat :
    S # {} /\ IsFiniteSet(S) => LastOf(S) \in S /\ \A q \in S : q <= LastOf(S)
<1> SUFFICES ASSUME NEW S \in SUBSET Nat, S # {}, IsFiniteSet(S)
             PROVE  LastOf(S) \in S /\ \A q \in S : q <= LastOf(S)
  OBVIOUS
<1> DEFINE Above(p) == {q \in S : q > p}
           counts == {Cardinality(Above(p)) : p \in S}
<1>1. \A p \in S : IsFiniteSet(Above(p)) /\ Cardinality(Above(p)) \in Nat
  <2> SUFFICES ASSUME NEW p \in S PROVE IsFiniteSet(Above(p)) /\ Cardinality(Above(p)) \in Nat
    OBVIOUS
  <2>1. Above(p) \in SUBSET S
    OBVIOUS
  <2>2. IsFiniteSet(Above(p))
    BY <2>1, FS_Subset
  <2> QED
    BY <2>2, FS_CardinalityType
<1>2. counts \in SUBSET Nat /\ counts # {}
  BY <1>1
<1>3. PICK c \in counts : \A d \in counts : c <= d
  BY <1>2, FirstIs
<1>4. PICK x \in S : c = Cardinality(Above(x))
  OBVIOUS
<1>5. ASSUME NEW y \in S, y > x PROVE FALSE
  <2>1. Above(y) \in SUBSET Above(x) /\ y \in Above(x) /\ y \notin Above(y)
    <3>1. x \in Nat /\ y \in Nat /\ y > x /\ ~(y > y)
      BY <1>5
    <3>2. ASSUME NEW q \in S, q > y PROVE q > x
      <4>1. q \in Nat
        OBVIOUS
      <4> QED
        BY <3>1, <3>2, <4>1
    <3> QED
      BY <3>1, <3>2
  <2>2. Cardinality(Above(y)) <= Cardinality(Above(x))
    BY <1>1, <2>1, FS_Subset
  <2>3. Cardinality(Above(x)) # Cardinality(Above(y))
    BY <1>1, <2>1, FS_Subset
  <2>4. c <= Cardinality(Above(y))
    BY <1>3
  <2> QED
    BY <1>1, <1>4, <2>2, <2>3, <2>4
<1>6. \A y \in S : y <= x
  BY <1>5
<1> QED
  BY <1>6 DEF LastOf

\* getdents gives the first few of those ahead, and at least one.
LEMMA ListedIs ==
  ASSUME Ahead # {}
  PROVE  /\ Listed \in SUBSET Ahead /\ Ahead \in SUBSET Pids
         /\ LastOf(Listed) \in Listed /\ \A p \in Listed : p <= LastOf(Listed)
         /\ \A p \in Ahead : p <= LastOf(Listed) => p \in Listed
<1> DEFINE Before(p) == {q \in Ahead : q < p}
<1>1. Ahead \in SUBSET Pids /\ Ahead \in SUBSET Nat /\ IsFiniteSet(Ahead)
  <2>1. Ahead \in SUBSET Pids
    BY DEF Ahead
  <2> QED
    BY <2>1, KillallAssumption, FS_Subset
<1>2. Listed = {p \in Ahead : Cardinality(Before(p)) < Piece}
  BY DEF Listed
<1>3. \A p \in Ahead : IsFiniteSet(Before(p)) /\ Cardinality(Before(p)) \in Nat
  <2> SUFFICES ASSUME NEW p \in Ahead
               PROVE  IsFiniteSet(Before(p)) /\ Cardinality(Before(p)) \in Nat
    OBVIOUS
  <2>1. Before(p) \in SUBSET Ahead
    OBVIOUS
  <2>2. IsFiniteSet(Before(p))
    BY <1>1, <2>1, FS_Subset
  <2> QED
    BY <2>2, FS_CardinalityType
<1>4. Listed # {}
  <2>1. PICK f \in Ahead : \A q \in Ahead : f <= q
    BY <1>1, FirstIs
  <2>2. Before(f) = {}
    <3> SUFFICES ASSUME NEW q \in Ahead, q < f PROVE FALSE
      OBVIOUS
    <3>1. q \in Nat /\ f \in Nat /\ f <= q
      BY <1>1, <2>1
    <3> QED
      BY <3>1
  <2>3. Cardinality(Before(f)) = 0
    BY <2>2, FS_EmptySet
  <2> QED
    BY <1>2, <2>3, KillallAssumption
<1>5. Listed \in SUBSET Ahead /\ IsFiniteSet(Listed)
  <2>1. Listed \in SUBSET Ahead
    BY <1>2
  <2> QED
    BY <1>1, <2>1, FS_Subset
<1>6. LastOf(Listed) \in Listed /\ \A p \in Listed : p <= LastOf(Listed)
  <2>1. Listed \in SUBSET Nat
    BY <1>1, <1>5
  <2> QED
    BY <1>4, <1>5, <2>1, LastIs
<1>7. PICK l \in Listed : l = LastOf(Listed)
  BY <1>6
<1>8. ASSUME NEW p \in Ahead, p <= l PROVE p \in Listed
  <2>1. l \in Ahead /\ Cardinality(Before(l)) < Piece
    BY <1>2
  <2>2. Before(p) \in SUBSET Before(l)
    <3> SUFFICES ASSUME NEW q \in Ahead, q < p PROVE q < l
      OBVIOUS
    <3>1. q \in Nat /\ p \in Nat /\ l \in Nat
      BY <1>1, <2>1
    <3> QED
      BY <1>8, <3>1
  <2>3. Cardinality(Before(p)) <= Cardinality(Before(l))
    BY <1>3, <2>1, <2>2, FS_Subset
  <2>4. PICK m, n \in Nat : m = Cardinality(Before(p)) /\ n = Cardinality(Before(l))
    BY <1>3, <2>1
  <2>5. m < Piece
    BY <2>1, <2>3, <2>4, KillallAssumption
  <2> QED
    BY <1>2, <2>4, <2>5
<1> QED
  BY <1>1, <1>5, <1>6, <1>7, <1>8

KaTypeOK ==
  /\ tool \in {"killall", "pidof"} /\ table \in [Pids -> Names \cup {NoName}]
  /\ piece \in SUBSET Pids /\ lived \in SUBSET Pids /\ upTo \in Nat /\ hit \in Seq(Pids)
  /\ kpc \in {"getdents", "read", "found", "done"} /\ rck \in {0, 1}
  /\ spared \in SUBSET Pids /\ listing \in {"whole", "cut"}

Noted(p) == \E i \in 1..Len(hit) : hit[i] = p

\* the pids noted go up and lie before those still to be read
Upward ==
  /\ \A p \in piece : p <= upTo
  /\ \A i \in 1..Len(hit) : hit[i] <= upTo /\ \A p \in piece : hit[i] < p
  /\ \A i, j \in 1..Len(hit) : i < j => hit[i] < hit[j]

Places ==
  /\ kpc = "found" => piece # {}
  /\ kpc \in {"getdents", "done"} => piece = {}
  /\ kpc = "done" => (Ahead = {} \/ listing = "cut") /\ (rck = 0 <=> hit # <<>>)

\* no process of a name asked for was passed over while it lived
Accounted ==
  /\ \A p \in lived : table[p] # NoName
  /\ \/ tool = "pidof" /\ Len(hit) = MaxFound
     \/ \A p \in lived \ spared : table[p] \in Asked /\ p <= upTo => p \in piece \/ Noted(p)
  /\ tool = "pidof" => Len(hit) <= MaxFound

\* those spared were come to, and are neither noted nor still to be read
SparedApart == \A p \in spared : p <= upTo /\ p \notin piece /\ ~Noted(p)

KaInv == KaTypeOK /\ Upward /\ Places /\ Accounted /\ SparedApart

LEMMA KaStarts == ASSUME KillallInit PROVE KaInv
<1>1. <<>> \in Seq(Pids) /\ Len(<<>>) = 0 /\ MaxFound \in Nat
  BY EmptySeq, KillallAssumption
<1>2. KaTypeOK
  BY <1>1 DEF KillallInit, KaTypeOK
<1>3. \A p \in lived : p \in Nat /\ ~(p <= upTo)
  BY KillallAssumption DEF KillallInit
<1>4. Accounted
  BY <1>1, <1>3 DEF KillallInit, Accounted
<1>5. Upward /\ Places /\ SparedApart
  BY <1>1 DEF KillallInit, Upward, Places, SparedApart
<1> QED
  BY <1>2, <1>4, <1>5 DEF KaInv

LEMMA GetDentsStep == ASSUME KaInv, GetDents PROVE KaInv'
<1>1. /\ KaTypeOK /\ Upward /\ Places /\ Accounted /\ SparedApart
      /\ kpc = "getdents" /\ piece = {}
  BY DEF KaInv, GetDents, Places
<1>2. PICK l \in Listed : l = LastOf(Listed) /\ \A p \in Listed : p <= l
  BY ListedIs DEF GetDents
<1>3. /\ Listed \in SUBSET Ahead /\ Ahead \in SUBSET Pids
      /\ \A p \in Ahead : p <= l => p \in Listed
  BY <1>2, ListedIs DEF GetDents
<1>4. /\ piece' = Listed /\ upTo' = l /\ kpc' = "read" /\ tool' = tool /\ hit' = hit
      /\ rck' = rck /\ table' = table /\ lived' = lived
      /\ spared' = spared /\ listing' = listing
  BY <1>2 DEF GetDents, Processes, Heard
<1>5. l \in Nat /\ upTo \in Nat /\ upTo < l /\ Pids \subseteq Nat
      /\ \A p \in Listed : p \in Nat /\ upTo < p
  BY <1>1, <1>3, KillallAssumption DEF Ahead, KaTypeOK
<1>6. KaTypeOK'
  BY <1>1, <1>3, <1>4, <1>5 DEF KaTypeOK
<1>7. Upward'
  <2>1. \A i \in 1..Len(hit) : hit[i] \in Nat /\ hit[i] <= upTo
    BY <1>1, <1>5, ElementOfSeq DEF KaTypeOK, Upward
  <2>2. \A i \in 1..Len(hit) : hit[i] <= l /\ \A p \in Listed : hit[i] < p
    BY <1>5, <2>1
  <2> QED
    BY <1>1, <1>2, <1>4, <2>2 DEF Upward
<1>8. Accounted'
  <2>1. ASSUME NEW p \in lived, table[p] \in Asked, p <= l,
               \A q \in lived \ spared :
                 table[q] \in Asked /\ q <= upTo => q \in piece \/ Noted(q)
        PROVE  p \in spared \/ p \in Listed \/ Noted(p)
    <3>1. p \in Pids /\ p \in Nat /\ table[p] # NoName
      BY <1>1, <1>5 DEF KaTypeOK, Accounted
    <3>2. CASE p <= upTo
      BY <1>1, <2>1, <3>2
    <3>3. CASE p > upTo
      BY <1>3, <2>1, <3>1, <3>3 DEF Ahead
    <3> QED
      BY <1>5, <3>1, <3>2, <3>3
  <2>2. \A p : Noted(p)' = Noted(p)
    BY <1>4 DEF Noted
  <2> QED
    BY <1>1, <1>4, <2>1, <2>2 DEF Accounted
<1>9. SparedApart'
  <2>1. ASSUME NEW p \in spared PROVE p <= l /\ p \notin Listed /\ ~Noted(p)
    <3>1. p \in Nat /\ p <= upTo /\ ~Noted(p)
      BY <1>1, <1>5 DEF KaTypeOK, SparedApart
    <3>2. p \notin Listed
      BY <1>5, <3>1
    <3> QED
      BY <1>5, <3>1, <3>2
  <2> QED
    BY <1>4, <2>1 DEF SparedApart, Noted
<1> QED
  BY <1>4, <1>6, <1>7, <1>8, <1>9 DEF KaInv, Places

\* The pid at hand is left behind, noted or not.
LEMMA OneIsDone ==
  ASSUME KaInv, piece # {}, kpc \in {"read", "found"}, kpc' = "read",
         NEW f, f = FirstOf(piece), piece' = piece \ {f},
         UNCHANGED <<tool, table, lived, upTo, rck, listing>>,
         \/ /\ hit' = Append(hit, f) /\ spared' = spared
            /\ tool = "pidof" => Len(hit) < MaxFound
         \/ /\ hit' = hit /\ spared' = spared
            /\ \/ tool = "pidof" /\ Len(hit) = MaxFound
               \/ table[f] \notin Asked
               \/ table[f] = NoName
         \/ hit' = hit /\ spared' = spared \cup {f}
  PROVE  KaInv'
<1>1. KaTypeOK /\ Upward /\ Places /\ Accounted /\ SparedApart
  BY DEF KaInv
<1>2. /\ piece \in SUBSET Nat /\ f \in piece /\ f \in Pids /\ f \in Nat /\ upTo \in Nat
      /\ \A q \in piece : q \in Nat /\ f <= q
  <2>1. piece \in SUBSET Nat /\ piece \in SUBSET Pids /\ upTo \in Nat
    BY <1>1, KillallAssumption DEF KaTypeOK
  <2>2. f \in piece /\ \A q \in piece : f <= q
    BY <2>1, FirstIs
  <2> QED
    BY <2>1, <2>2
<1>3. hit \in Seq(Pids) /\ Len(hit) \in Nat /\ MaxFound \in Nat
      /\ \A i \in 1..Len(hit) : hit[i] \in Nat /\ hit[i] < f
  <2>1. hit \in Seq(Pids) /\ Len(hit) \in Nat /\ MaxFound \in Nat
    BY <1>1, KillallAssumption DEF KaTypeOK
  <2>2. \A i \in 1..Len(hit) : hit[i] \in Pids
    BY <2>1, ElementOfSeq
  <2> QED
    BY <1>1, <1>2, <2>1, <2>2, KillallAssumption DEF Upward
<1>4. CASE /\ hit' = Append(hit, f) /\ spared' = spared
           /\ tool = "pidof" => Len(hit) < MaxFound
  <2>1. PICK h : h = hit'
    OBVIOUS
  <2>2. /\ h \in Seq(Pids) /\ Len(h) = Len(hit) + 1 /\ h[Len(hit) + 1] = f
        /\ \A i \in 1..Len(hit) : h[i] = hit[i]
    BY <1>2, <1>3, <1>4, <2>1, AppendProperties
  <2>3. KaTypeOK'
    BY <1>1, <1>4, <2>1, <2>2 DEF KaTypeOK
  <2>4. ASSUME NEW i \in 1..Len(h)
        PROVE  (i \in 1..Len(hit) /\ h[i] = hit[i]) \/ (i = Len(hit) + 1 /\ h[i] = f)
    BY <1>3, <2>2
  <2>5. \A i \in 1..Len(h) : h[i] <= upTo /\ \A p \in piece' : h[i] < p
    BY <1>1, <1>2, <1>3, <2>4 DEF Upward
  <2>6. \A i, j \in 1..Len(h) : i < j => h[i] < h[j]
    <3> SUFFICES ASSUME NEW i \in 1..Len(h), NEW j \in 1..Len(h), i < j PROVE h[i] < h[j]
      OBVIOUS
    <3>1. i \in 1..Len(hit) /\ h[i] = hit[i]
      BY <1>3, <2>2, <2>4
    <3> QED
      BY <1>1, <1>3, <2>4, <3>1 DEF Upward
  <2>7. Upward'
    BY <1>1, <2>1, <2>5, <2>6 DEF Upward
  <2>8. \A p : p = f \/ Noted(p) => Noted(p)'
    <3>1. ASSUME NEW p, p = f \/ Noted(p) PROVE \E i \in 1..Len(h) : h[i] = p
      BY <1>3, <2>2, <3>1 DEF Noted
    <3> QED
      BY <2>1, <3>1 DEF Noted
  <2>9. Accounted'
    <3>1. tool' = "pidof" => Len(hit') <= MaxFound
      BY <1>3, <1>4, <2>1, <2>2
    <3>2. tool = "pidof" => Len(hit) # MaxFound
      BY <1>3, <1>4
    <3> QED
      BY <1>1, <1>4, <2>8, <3>1, <3>2 DEF Accounted
  <2>10. SparedApart'
    <3>1. ASSUME NEW p \in spared, NEW i \in 1..Len(h) PROVE h[i] # p
      BY <1>1, <1>2, <2>4, <3>1 DEF SparedApart, Noted
    <3> QED
      BY <1>1, <1>4, <2>1, <3>1 DEF SparedApart, Noted
  <2> QED
    BY <2>3, <2>7, <2>9, <2>10 DEF KaInv, Places
<1>5. CASE /\ hit' = hit /\ spared' = spared
           /\ \/ tool = "pidof" /\ Len(hit) = MaxFound
              \/ table[f] \notin Asked
              \/ table[f] = NoName
  <2>1. KaTypeOK' /\ Upward'
    BY <1>1, <1>5 DEF KaTypeOK, Upward
  <2>2. \A p : Noted(p)' = Noted(p)
    BY <1>5 DEF Noted
  <2>3. Accounted' /\ SparedApart'
    BY <1>1, <1>5, <2>2, KillallAssumption DEF Accounted, SparedApart
  <2> QED
    BY <2>1, <2>3 DEF KaInv, Places
<1>6. CASE hit' = hit /\ spared' = spared \cup {f}
  <2>1. KaTypeOK' /\ Upward'
    BY <1>1, <1>2, <1>6 DEF KaTypeOK, Upward
  <2>2. \A p : Noted(p)' = Noted(p)
    BY <1>6 DEF Noted
  <2>3. f <= upTo /\ ~Noted(f)
    <3>1. \A i \in 1..Len(hit) : hit[i] # f
      BY <1>2, <1>3
    <3> QED
      BY <1>1, <1>2, <3>1 DEF Upward, Noted
  <2>4. Accounted' /\ SparedApart'
    BY <1>1, <1>6, <2>2, <2>3 DEF Accounted, SparedApart
  <2> QED
    BY <2>1, <2>4 DEF KaInv, Places
<1> QED
  BY <1>4, <1>5, <1>6

LEMMA ReadCommStep == ASSUME KaInv, ReadComm PROVE KaInv'
<1>1. PICK f : f = FirstOf(piece)
  OBVIOUS
<1>2. CASE table[f] \in Asked
  <2>1. KaTypeOK' /\ Upward' /\ Accounted' /\ SparedApart'
    BY <1>1, <1>2 DEF ReadComm, Processes, Heard, KaInv, KaTypeOK, Upward, Accounted, Noted,
       SparedApart
  <2> QED
    BY <1>1, <1>2, <2>1 DEF ReadComm, KaInv, Places
<1>3. CASE table[f] \notin Asked
  <2>1. /\ piece # {} /\ kpc = "read" /\ kpc' = "read" /\ piece' = piece \ {f} /\ hit' = hit
        /\ UNCHANGED <<tool, table, lived, upTo, rck, listing, spared>>
    BY <1>1, <1>3 DEF ReadComm, Processes, Heard
  <2> QED
    BY <1>1, <1>3, <2>1, OneIsDone
<1> QED
  BY <1>2, <1>3

LEMMA CommFailsStep == ASSUME KaInv, CommFails PROVE KaInv'
<1>1. PICK f : f = FirstOf(piece)
  OBVIOUS
<1>2. /\ piece # {} /\ kpc = "read" /\ kpc' = "read" /\ piece' = piece \ {f} /\ hit' = hit
      /\ spared' = spared \cup {f} /\ UNCHANGED <<tool, table, lived, upTo, rck, listing>>
  BY <1>1 DEF CommFails, Processes
<1> QED
  BY <1>1, <1>2, OneIsDone

LEMMA FoundStep == ASSUME KaInv, killall_cb \/ pidof_collect PROVE KaInv'
<1>1. PICK f : f = FirstOf(piece)
  OBVIOUS
<1>2. /\ kpc = "found" /\ piece # {} /\ kpc' = "read" /\ piece' = piece \ {f}
      /\ UNCHANGED <<tool, table, lived, upTo, rck, listing>>
  BY <1>1 DEF killall_cb, pidof_collect, Processes, Heard, KaInv, Places
<1>3. \/ /\ hit' = Append(hit, f) /\ spared' = spared
         /\ tool = "pidof" => Len(hit) < MaxFound
      \/ /\ hit' = hit /\ spared' = spared
         /\ table[f] = NoName \/ (tool = "pidof" /\ Len(hit) = MaxFound)
      \/ hit' = hit /\ spared' = spared \cup {f}
  <2>1. CASE killall_cb
    BY <1>1, <2>1 DEF killall_cb
  <2>2. CASE pidof_collect
    <3>1. Len(hit) \in Nat /\ MaxFound \in Nat /\ tool = "pidof" /\ Len(hit) <= MaxFound
      BY <2>2, KillallAssumption DEF KaInv, KaTypeOK, Accounted, pidof_collect
    <3> QED
      BY <1>1, <2>2, <3>1 DEF pidof_collect, Heard
  <2> QED
    BY <2>1, <2>2
<1> QED
  BY <1>1, <1>2, <1>3, OneIsDone

LEMMA KaStepInv == ASSUME KaInv, [KillallNext]_killallVars PROVE KaInv'
<1>1. KaTypeOK /\ Upward /\ Places /\ Accounted /\ SparedApart
  BY DEF KaInv
<1>2. CASE PieceDone
  BY <1>1, <1>2 DEF PieceDone, Processes, Heard, KaInv, KaTypeOK, Upward, Places, Accounted,
     SparedApart, Noted
<1>3. CASE WalkDone \/ ListingFails
  <2>1. KaTypeOK' /\ Upward' /\ Accounted' /\ SparedApart'
    BY <1>1, <1>3 DEF WalkDone, ListingFails, Processes, Heard, KaTypeOK, Upward, Accounted,
       SparedApart, Noted
  <2>2. Places'
    BY <1>1, <1>3 DEF WalkDone, ListingFails, Processes, Places, Ahead
  <2> QED
    BY <2>1, <2>2 DEF KaInv
<1>4. CASE ProcessStarts
  <2>1. PICK p \in Pids, n \in Names : table[p] = NoName /\ table' = [table EXCEPT ![p] = n]
    BY <1>4 DEF ProcessStarts
  <2>2. /\ UNCHANGED <<tool, piece, upTo, hit, kpc, rck, lived, spared, listing>>
        /\ kpc \in {"getdents", "read", "found"}
    BY <1>4 DEF ProcessStarts, Heard
  <2>3. table' \in [Pids -> Names \cup {NoName}]
    BY <1>1, <2>1 DEF KaTypeOK
  <2>4. KaTypeOK' /\ Upward' /\ Places'
    BY <1>1, <2>2, <2>3 DEF KaTypeOK, Upward, Places
  <2>5. \A q \in lived : table'[q] = table[q] /\ q # p
    BY <1>1, <2>1 DEF KaTypeOK, Accounted
  <2>6. Accounted' /\ SparedApart'
    BY <1>1, <2>2, <2>5 DEF Accounted, SparedApart, Noted
  <2> QED
    BY <2>4, <2>6 DEF KaInv
<1>5. CASE ProcessEnds
  <2>1. PICK p \in Pids : table' = [table EXCEPT ![p] = NoName] /\ lived' = lived \ {p}
    BY <1>5 DEF ProcessEnds
  <2>2. /\ UNCHANGED <<tool, piece, upTo, hit, kpc, rck, spared, listing>>
        /\ kpc \in {"getdents", "read", "found"}
    BY <1>5 DEF ProcessEnds, Heard
  <2>3. table' \in [Pids -> Names \cup {NoName}] /\ lived' \in SUBSET Pids
    BY <1>1, <2>1 DEF KaTypeOK
  <2>4. KaTypeOK' /\ Upward' /\ Places'
    BY <1>1, <2>2, <2>3 DEF KaTypeOK, Upward, Places
  <2>5. \A q \in lived' : table'[q] = table[q] /\ q \in lived
    BY <1>1, <2>1 DEF KaTypeOK
  <2>6. Accounted' /\ SparedApart'
    BY <1>1, <2>2, <2>5 DEF Accounted, SparedApart, Noted
  <2> QED
    BY <2>4, <2>6 DEF KaInv
<1>6. CASE UNCHANGED killallVars
  BY <1>1, <1>6 DEF killallVars, KaInv, KaTypeOK, Upward, Places, Accounted, SparedApart, Noted,
     Ahead
<1> QED
  BY <1>2, <1>3, <1>4, <1>5, <1>6, GetDentsStep, ReadCommStep, CommFailsStep, FoundStep
     DEF KillallNext

LEMMA KaFinds == ASSUME KaInv PROVE NamedAreFound
<1> DEFINE Owed == {p \in lived \ spared :
                     table[p] \in Asked /\ (listing = "cut" => p <= upTo)}
<1> SUFFICES ASSUME kpc = "done"
             PROVE  /\ IsInjective(hit) /\ ToSet(hit) \cap spared = {}
                    /\ Owed \subseteq ToSet(hit) \/ (tool = "pidof" /\ Len(hit) = MaxFound)
                    /\ rck = 0 <=> hit # <<>>
                    /\ Owed # {} => rck = 0
  BY DEF NamedAreFound
<1>1. KaTypeOK /\ Upward /\ Places /\ Accounted /\ SparedApart
  BY DEF KaInv
<1>2. piece = {} /\ (Ahead = {} \/ listing = "cut") /\ (rck = 0 <=> hit # <<>>)
  BY <1>1 DEF Places
<1>3. hit \in Seq(Pids) /\ Len(hit) \in Nat /\ DOMAIN hit = 1..Len(hit)
      /\ \A i \in 1..Len(hit) : hit[i] \in Nat
  <2>1. hit \in Seq(Pids) /\ Len(hit) \in Nat /\ DOMAIN hit = 1..Len(hit)
    BY <1>1, LenProperties DEF KaTypeOK
  <2> QED
    BY <2>1, ElementOfSeq, KillallAssumption
<1>4. IsInjective(hit)
  <2>1. ASSUME NEW a \in 1..Len(hit), NEW b \in 1..Len(hit), hit[a] = hit[b] PROVE a = b
    <3>1. ~(a < b) /\ ~(b < a)
      BY <1>1, <1>3, <2>1 DEF Upward
    <3> QED
      BY <3>1
  <2> QED
    BY <1>3, <2>1 DEF IsInjective
<1>5. ASSUME NEW p \in Owed PROVE p <= upTo
  BY <1>1, <1>2, KillallAssumption DEF KaTypeOK, Accounted, Ahead
<1>6. \/ \A p \in Owed : Noted(p)
      \/ tool = "pidof" /\ Len(hit) = MaxFound
  BY <1>1, <1>2, <1>5 DEF Accounted
<1>7. \A p : Noted(p) => p \in ToSet(hit) /\ hit # <<>>
  BY <1>3, EmptySeq DEF Noted, ToSet
<1>8. Len(hit) = MaxFound => hit # <<>>
  BY EmptySeq, KillallAssumption
<1>9. ToSet(hit) \cap spared = {}
  <2>1. ASSUME NEW p \in ToSet(hit) PROVE Noted(p)
    BY <1>3 DEF Noted, ToSet
  <2> QED
    BY <1>1, <2>1 DEF SparedApart
<1> QED
  BY <1>2, <1>4, <1>6, <1>7, <1>8, <1>9

(* A process of a name asked for that lives through the walk is signalled, or *)
(* noted, once, in whatever pieces /proc is read and whatever starts and ends *)
(* meanwhile, if the walk came to it, its name was read and its signal was    *)
(* not refused, unless pidof is full (proc_each, killall_cb, pidof_collect).  *)
THEOREM NamedAreFoundHolds == KillallSpec => []NamedAreFound
<1>1. KillallInit => KaInv
  BY KaStarts
<1>2. KaInv /\ [KillallNext]_killallVars => KaInv'
  BY KaStepInv
<1>3. KaInv => NamedAreFound
  BY KaFinds
<1> QED
  BY <1>1, <1>2, <1>3, PTL DEF KillallSpec
-----------------------------------------------------------------------------
(* The configuration of the interface                                      *)

IpTypeOK ==
  /\ config \in Configs /\ added \in Configs
  /\ ipCmd \in [Clients -> IpCommands]
  /\ ipAt \in [Clients -> {"start", "set", "done"}]
  /\ seen \in [Clients -> Configs] /\ rci \in [Clients -> {0, 1}]
  /\ overlap \in BOOLEAN /\ ipFaults \in Nat

\* as long as no two were at work at a time, one at most has read, and what it
\* has read is still what there is
OneReader ==
  ~overlap => /\ config = added
              /\ \A c \in Clients : ipAt[c] = "set" => seen[c] = config
              /\ \A c, d \in Clients : ipAt[c] = "set" /\ ipAt[d] = "set" => c = d

IpInv == IpTypeOK /\ OneReader

LEMMA MineIsAConfig ==
  ASSUME NEW cmd \in IpCommands, NEW g \in Configs
  PROVE  Mine(cmd, g) \in Configs
<1>1. cmd.op \in AddrOps \cup RouteOps /\ cmd.addr \in Nat /\ cmd.gw \in Nat
  BY IpAssumption
<1>2. [g EXCEPT !.addr = cmd.addr] \in Configs /\ [g EXCEPT !.gw = cmd.gw] \in Configs
  BY <1>1 DEF Configs
<1>3. /\ [g EXCEPT !.addr = Unset] \in Configs /\ [g EXCEPT !.gw = Unset] \in Configs
      /\ [addr |-> Unset, gw |-> Unset, dns |-> Unset] \in Configs
  BY DEF Configs, Unset
<1> QED
  BY <1>1, <1>2, <1>3 DEF Mine, AddrOps, RouteOps

LEMMA IpStartsSound == IpInit => IpInv
<1> SUFFICES ASSUME IpInit PROVE IpInv
  OBVIOUS
<1>1. config \in Configs
  BY IpAssumption DEF IpInit
<1> QED
  BY <1>1 DEF IpInit, IpInv, IpTypeOK, OneReader

LEMMA RefuseKeeps ==
  ASSUME IpInv, NEW c \in Clients, IpRefuse(c)
  PROVE  IpInv'
<1>1. IpTypeOK'
  BY DEF IpInv, IpTypeOK, IpRefuse, IpFails, Step
<1>2. \A d \in Clients : ipAt'[d] = "set" => ipAt[d] = "set"
  BY DEF IpInv, IpTypeOK, IpRefuse, IpFails, Step
<1>3. OneReader'
  BY <1>2 DEF IpInv, OneReader, IpRefuse
<1> QED
  BY <1>1, <1>3 DEF IpInv

LEMMA GetKeeps ==
  ASSUME IpInv, NEW c \in Clients, ip_get_cfg(c)
  PROVE  IpInv'
<1>0. IpTypeOK /\ OneReader
  BY DEF IpInv
<1>1. /\ config' = config /\ added' = added /\ ipCmd' = ipCmd
      /\ overlap' = (overlap \/ \E d \in Clients : ipAt[d] = "set")
  BY DEF ip_get_cfg
<1>2. overlap' \in BOOLEAN
  BY <1>1
<1>3. CASE Step(c, "set") /\ seen' = [seen EXCEPT ![c] = config] /\ UNCHANGED <<rci, ipFaults>>
  <2>1. IpTypeOK'
    BY <1>0, <1>1, <1>2, <1>3 DEF IpTypeOK, Step
  <2>2. /\ \A d \in Clients : d # c => ipAt'[d] = ipAt[d] /\ seen'[d] = seen[d]
        /\ seen'[c] = config
    BY <1>0, <1>3 DEF IpTypeOK, Step
  <2>3. ~overlap' => ~overlap /\ \A d \in Clients : ipAt[d] # "set"
    BY <1>1
  <2>4. OneReader'
    BY <1>0, <1>1, <2>2, <2>3 DEF OneReader
  <2> QED
    BY <2>1, <2>4 DEF IpInv
<1>4. CASE MayFailIp /\ ipCmd[c].op # "flush" /\ IpFails(c) /\ UNCHANGED seen
  <2>1. IpTypeOK'
    BY <1>0, <1>1, <1>2, <1>4 DEF IpTypeOK, MayFailIp, IpFails, Step
  <2>2. \A d \in Clients : ipAt'[d] = "set" => ipAt[d] = "set"
    BY <1>0, <1>4 DEF IpTypeOK, IpFails, Step
  <2>3. OneReader'
    BY <1>0, <1>1, <1>4, <2>2 DEF OneReader
  <2> QED
    BY <2>1, <2>3 DEF IpInv
<1> QED
  BY <1>3, <1>4 DEF ip_get_cfg

LEMMA SetKeeps ==
  ASSUME IpInv, NEW c \in Clients, ip_set_cfg(c)
  PROVE  IpInv'
<1>0. IpTypeOK /\ OneReader
  BY DEF IpInv
<1>1. ipAt[c] = "set" /\ ipCmd' = ipCmd /\ seen' = seen /\ overlap' = overlap
  BY DEF ip_set_cfg
<1>2. CASE /\ Step(c, "done") /\ config' = Mine(ipCmd[c], seen[c])
           /\ added' = Mine(ipCmd[c], added) /\ UNCHANGED <<rci, ipFaults>>
  <2>1. config' \in Configs /\ added' \in Configs
    BY <1>0, <1>2, MineIsAConfig DEF IpTypeOK
  <2>2. IpTypeOK'
    BY <1>0, <1>1, <1>2, <2>1 DEF IpTypeOK, Step
  <2>3. \A d \in Clients : ipAt'[d] = "set" => ipAt[d] = "set" /\ d # c
    BY <1>0, <1>2 DEF IpTypeOK, Step
  <2>4. ~overlap => \A d \in Clients : ipAt'[d] # "set"
    BY <1>0, <1>1, <2>3 DEF OneReader
  <2>5. ~overlap => config' = added'
    BY <1>0, <1>1, <1>2 DEF OneReader
  <2>6. OneReader'
    BY <1>1, <2>4, <2>5 DEF OneReader
  <2> QED
    BY <2>2, <2>6 DEF IpInv
<1>3. CASE MayFailIp /\ IpFails(c) /\ UNCHANGED <<config, added>>
  <2>1. IpTypeOK'
    BY <1>0, <1>1, <1>3 DEF IpTypeOK, MayFailIp, IpFails, Step
  <2>2. \A d \in Clients : ipAt'[d] = "set" => ipAt[d] = "set"
    BY <1>0, <1>3 DEF IpTypeOK, IpFails, Step
  <2>3. OneReader'
    BY <1>0, <1>1, <1>3, <2>2 DEF OneReader
  <2> QED
    BY <2>1, <2>3 DEF IpInv
<1> QED
  BY <1>2, <1>3 DEF ip_set_cfg

\* ip commands of which none read while another had read and not yet written
\* leave what each of them alone would make of it; one that failed, or was
\* refused, changes nothing (ip_get_cfg, ip_set_cfg).
THEOREM CommandsAddUpHolds == IpSpec => []CommandsAddUp
<1>1. IpInit => IpInv
  BY IpStartsSound
<1>2. IpInv /\ [IpNext]_ipVars => IpInv'
  <2> SUFFICES ASSUME IpInv, [IpNext]_ipVars PROVE IpInv'
    OBVIOUS
  <2>1. CASE UNCHANGED ipVars
    BY <2>1 DEF ipVars, IpInv, IpTypeOK, OneReader
  <2>2. CASE IpNext
    BY <2>2, RefuseKeeps, GetKeeps, SetKeeps DEF IpNext
  <2> QED
    BY <2>1, <2>2
<1>3. IpInv => CommandsAddUp
  BY DEF IpInv, OneReader, CommandsAddUp
<1> QED
  BY <1>1, <1>2, <1>3, PTL DEF IpSpec
-----------------------------------------------------------------------------
(* The firmware extractor                                                  *)

LEMMA PadNat == ASSUME NEW n \in Nat PROVE PadOf(n) \in Nat
<1>1. n % FwBlock \in 0..FwBlock - 1
  BY FwAssumption
<1>2. FwBlock - (n % FwBlock) \in Nat
  BY <1>1, FwAssumption
<1>3. \A k \in Nat : k % FwBlock \in 0..FwBlock - 1
  BY FwAssumption
<1> QED
  BY <1>2, <1>3 DEF PadOf

\* where the members of an archive lie, one after the other
Layout(ms) ==
  /\ Len(ms) \in Nat /\ DOMAIN ms = 1..Len(ms)
  /\ \A i \in 1..Len(ms) :
       /\ ms[i].size \in Nat /\ ms[i].at \in Nat /\ PadOf(ms[i].size) \in Nat
       /\ DataOf(ms[i]) = ms[i].at + FwBlock
       /\ After(ms[i]) = ms[i].at + FwBlock + ms[i].size + PadOf(ms[i].size)
       /\ Begins(ms, i) = ms[i].at /\ Begins(ms, i + 1) = After(ms[i])
       /\ \A j \in 1..Len(ms) : /\ i < j => After(ms[i]) <= ms[j].at
                                /\ BothNames(ms[i]) \cap BothNames(ms[j]) # {} => i = j
  /\ Begins(ms, 1) = 0
  /\ \A i \in 0..Len(ms) : /\ Begins(ms, i + 1) \in Nat
                           /\ Begins(ms, i + 1) <= Begins(ms, Len(ms) + 1)
  /\ Whole(ms) = Begins(ms, Len(ms) + 1) + 2 * FwBlock

LEMMA LaidOut == ASSUME NEW ms \in FwArchives PROVE Layout(ms)
<1> DEFINE n == Len(ms)
           EndOf(i) == ms[i].at + FwBlock + ms[i].size + PadOf(ms[i].size)
<1>1. /\ n \in Nat /\ DOMAIN ms = 1..n
      /\ \A i \in 1..n : /\ ms[i].size \in Nat
                         /\ ms[i].at = IF i = 1 THEN 0 ELSE After(ms[i - 1])
                         /\ \A j \in 1..n :
                              BothNames(ms[i]) \cap BothNames(ms[j]) # {} => i = j
  BY FwAssumption
<1>2. \A i \in 1..n : PadOf(ms[i].size) \in Nat
  BY <1>1, PadNat
<1>3. \A i \in 1..n : After(ms[i]) = EndOf(i) /\ DataOf(ms[i]) = ms[i].at + FwBlock
  BY DEF After, DataOf
\* the least member whose place is not a number, or not behind one before it
<1> DEFINE Bad == {j \in 1..n : ~(/\ ms[j].at \in Nat
                                  /\ \A i \in 1..n : i < j => EndOf(i) <= ms[j].at)}
<1>4. Bad = {}
  <2>1. SUFFICES ASSUME Bad # {} PROVE FALSE
    OBVIOUS
  <2>2. Bad \in SUBSET Nat
    BY <1>1
  <2> HIDE DEF Bad
  <2>3. PICK j \in Bad : \A q \in Bad : j <= q
    BY <2>1, <2>2, FirstIs
  <2> USE DEF Bad
  <2>4. j \in 1..n
    BY <2>3
  <2>5. CASE j = 1
    BY <1>1, <2>3, <2>4, <2>5
  <2>6. CASE j # 1
    <3>1. j - 1 \in 1..n /\ j - 1 \notin Bad
      BY <1>1, <2>3, <2>4, <2>6
    <3>2. /\ ms[j - 1].at \in Nat
          /\ \A i \in 1..n : i < j - 1 => EndOf(i) <= ms[j - 1].at
      BY <3>1
    <3>3. ms[j].at = EndOf(j - 1)
      BY <1>1, <1>3, <2>4, <2>6, <3>1
    <3>4. ms[j].at \in Nat /\ ms[j - 1].at <= ms[j].at
      <4>1. ms[j - 1].size \in Nat /\ PadOf(ms[j - 1].size) \in Nat
        BY <1>1, <1>2, <3>1
      <4> QED
        BY <3>2, <3>3, <4>1, FwAssumption
    <3>5. ASSUME NEW i \in 1..n, i < j PROVE EndOf(i) <= ms[j].at
      <4>1. i = j - 1 \/ i < j - 1
        <5>1. i \in Nat /\ j \in Nat /\ i < j
          BY <1>1, <2>4, <3>5
        <5> QED
          BY <5>1
      <4>2. CASE i = j - 1
        BY <3>3, <3>4, <4>2
      <4>3. CASE i < j - 1
        <5>1. i \notin Bad
          <6>1. i < j /\ i \in Nat /\ j \in Nat
            BY <1>1, <2>4, <3>5
          <6> HIDE DEF Bad
          <6> QED
            BY <2>3, <6>1
        <5>2. ms[i].at \in Nat
          BY <5>1
        <5>3. EndOf(i) \in Nat
          <6>1. FwBlock \in Nat /\ ms[i].size \in Nat /\ PadOf(ms[i].size) \in Nat
            BY <1>1, <1>2, FwAssumption
          <6> QED
            BY <5>2, <6>1
        <5> QED
          BY <3>2, <3>4, <4>3, <5>3
      <4> QED
        BY <4>1, <4>2, <4>3
    <3> QED
      BY <2>3, <3>4, <3>5
  <2> QED
    BY <2>5, <2>6
<1>5. \A j \in 1..n : ms[j].at \in Nat /\ \A i \in 1..n : i < j => EndOf(i) <= ms[j].at
  BY <1>4
<1> HIDE DEF Bad
<1>6. \A i \in 1..n : EndOf(i) \in Nat
  BY <1>1, <1>2, <1>5, FwAssumption
<1>7. Begins(ms, n + 1) = IF n = 0 THEN 0 ELSE EndOf(n)
  <2>1. n + 1 \notin DOMAIN ms
    BY <1>1
  <2>2. ms = <<>> <=> n = 0
    BY <1>1
  <2> QED
    BY <1>1, <1>3, <2>1, <2>2 DEF Begins
<1>8. \A i \in 1..n : Begins(ms, i) = ms[i].at
  BY <1>1 DEF Begins
<1>9. \A i \in 1..n : Begins(ms, i + 1) = EndOf(i)
  <2> SUFFICES ASSUME NEW i \in 1..n PROVE Begins(ms, i + 1) = EndOf(i)
    OBVIOUS
  <2>1. CASE i = n
    BY <1>1, <1>7, <2>1
  <2>2. CASE i # n
    <3>1. i + 1 \in 1..n /\ i + 1 # 1 /\ (i + 1) - 1 = i
      <4>1. n \in Nat
        BY <1>1
      <4> HIDE DEF n
      <4>2. i \in Nat /\ 1 <= i /\ i < n
        BY <2>2, <4>1
      <4> QED
        BY <4>1, <4>2
    <3>2. Begins(ms, i + 1) = ms[i + 1].at /\ ms[i + 1].at = After(ms[i])
      BY <1>1, <1>8, <3>1
    <3> QED
      BY <1>3, <3>2
  <2> QED
    BY <2>1, <2>2
<1>10. Begins(ms, 1) = 0
  <2>1. CASE n = 0
    BY <1>7, <2>1
  <2>2. CASE n # 0
    BY <1>1, <1>8, <2>2
  <2> QED
    BY <2>1, <2>2
<1>11. ASSUME NEW i \in 0..n
       PROVE  Begins(ms, i + 1) \in Nat /\ Begins(ms, i + 1) <= Begins(ms, n + 1)
  <2>1. CASE i = 0
    <3>1. Begins(ms, n + 1) \in Nat
      BY <1>1, <1>6, <1>7
    <3> QED
      BY <1>10, <2>1, <3>1
  <2>2. CASE i # 0
    <3>1. i \in 1..n /\ n \in 1..n /\ n # 0
      BY <1>1, <2>2
    <3>2. Begins(ms, i + 1) = EndOf(i) /\ Begins(ms, n + 1) = EndOf(n)
      BY <1>7, <1>9, <3>1
    <3>3. i = n \/ EndOf(i) <= ms[n].at
      <4> HIDE DEF EndOf
      <4>1. i = n \/ i < n
        <5>1. n \in Nat /\ i \in 0..n
          BY <1>1
        <5> HIDE DEF n
        <5> QED
          BY <5>1
      <4> QED
        BY <1>5, <3>1, <4>1
    <3>4. ms[n].at <= EndOf(n)
      BY <1>1, <1>2, <1>5, <3>1, FwAssumption
    <3>5. EndOf(i) \in Nat /\ EndOf(n) \in Nat /\ ms[n].at \in Nat
      BY <1>5, <1>6, <3>1
    <3> HIDE DEF EndOf
    <3> QED
      BY <3>2, <3>3, <3>4, <3>5
  <2> QED
    BY <2>1, <2>2
<1> HIDE DEF EndOf
<1>12. \A i \in 1..n : After(ms[i]) = ms[i].at + FwBlock + ms[i].size + PadOf(ms[i].size)
  BY <1>3 DEF EndOf
<1>13. \A i, j \in 1..n : i < j => After(ms[i]) <= ms[j].at
  BY <1>3, <1>5
<1> QED
  BY <1>1, <1>2, <1>3, <1>5, <1>8, <1>9, <1>10, <1>11, <1>12, <1>13 DEF Layout, Whole

Start(i, n) == [k \in 1..n |-> Byte(i, k)]
FoundBy(n) == UNION {Matching(tar_name(members[i])) : i \in 1..n}

\* the reader is n units in, or the stream ended before
Reached(n) == fwPos = n \/ (fwPos = fwLen /\ fwLen <= n)

FwTypeOK ==
  /\ members \in FwArchives /\ list \in BOOLEAN
  /\ fwLen \in 0..Whole(members) /\ fwPos \in 0..fwLen
  /\ fwAt \in {"header", "pass", "create", "write", "pad", "lost", "end"}
  /\ member \in 0..Len(members) /\ toGo \in Nat /\ skip \in Nat
  /\ satisfied \subseteq DOMAIN pats /\ DOMAIN fwOut \subseteq DOMAIN members
  /\ fwRc \in {0, 1} /\ fwFaults \in Nat

\* what was written is the beginning of a member that was asked for
Written ==
  \A i \in DOMAIN fwOut :
    Wants(members[i]) /\ \E n \in 0..members[i].size : fwOut[i] = Start(i, n)

\* within a member the reader is where its header says
Inside ==
  /\ fwAt \in {"pass", "create", "write", "pad"} =>
       member \in 1..Len(members) /\ skip = PadOf(members[member].size)
  /\ fwAt \in {"pass", "create"} =>
       toGo = members[member].size /\ fwPos = DataOf(members[member])
  /\ fwAt \in {"create", "write"} => Wants(members[member])
  /\ fwAt = "write" =>
       /\ toGo \in 0..members[member].size /\ member \in DOMAIN fwOut
       /\ fwPos = DataOf(members[member]) + members[member].size - toGo
       /\ fwOut[member] = Start(member, members[member].size - toGo)

\* Without a failure the members are met in their order, and the pass ends
\* only where a broken stream or the archive does, or with everything found.
InStep ==
  fwRc = 0 =>
    /\ fwAt # "lost"
    /\ fwAt = "header" => Reached(Begins(members, member + 1))
    /\ fwAt = "pad" => Reached(DataOf(members[member]) + members[member].size)
    /\ fwAt = "end" => /\ Cut \/ ~unbounded \/ member = Len(members)
                       /\ ~list => satisfied = DOMAIN pats

\* and each of those that was wanted is whole
Passed == IF fwAt \in {"create", "write"} THEN member - 1 ELSE member
IsOut(i) == i \in DOMAIN fwOut /\ fwOut[i] = Content(members, i)
Seen ==
  fwRc = 0 =>
    /\ satisfied = FoundBy(member)
    /\ \A i \in 1..Passed : Wants(members[i]) => IsOut(i)

FwInv == FwTypeOK /\ Written /\ Inside /\ InStep /\ Seen

LEMMA FwStarts == FwInit => FwInv
<1> SUFFICES ASSUME FwInit PROVE FwInv
  OBVIOUS
<1>1. Layout(members)
  BY LaidOut DEF FwInit
<1>2. Whole(members) \in Nat /\ Len(members) \in Nat /\ Begins(members, 1) = 0
  BY <1>1, FwAssumption DEF Layout
<1>3. DOMAIN fwOut = {}
  BY EmptySeq DEF FwInit
<1>4. FwTypeOK
  BY <1>2, <1>3 DEF FwInit, FwTypeOK
<1>5. Inside /\ Written
  BY <1>3 DEF FwInit, Inside, Written
<1>6. InStep
  BY <1>2 DEF FwInit, InStep, Reached
<1>7. Seen
  BY <1>2 DEF FwInit, Seen, Passed, FoundBy
<1> QED
  BY <1>4, <1>5, <1>6, <1>7 DEF FwInv

\* the stream, and what is asked for, stay
LEMMA SameRunKeeps ==
  ASSUME SameRun
  PROVE  /\ members' = members /\ pats' = pats /\ list' = list /\ fwLen' = fwLen
         /\ \A m : Wants(m)' = Wants(m) /\ Matching(m)' = Matching(m)
         /\ unbounded' = unbounded /\ Cut' = Cut
         /\ \A n : FoundBy(n)' = FoundBy(n)
<1>1. members' = members /\ pats' = pats /\ list' = list /\ fwLen' = fwLen
  BY DEF SameRun
<1>2. \A m : Matching(m)' = Matching(m)
  BY <1>1 DEF Matching
<1>3. \A m : Wants(m)' = Wants(m)
  BY <1>1, <1>2 DEF Wants
<1>4. unbounded' = unbounded
  BY <1>1 DEF unbounded
<1>5. Cut' = Cut
  BY <1>1 DEF Cut
<1>6. \A n : FoundBy(n)' = FoundBy(n)
  <2>1. SUFFICES ASSUME NEW n PROVE FoundBy(n)' = FoundBy(n)
    OBVIOUS
  <2>2. \A i : Matching(tar_name(members[i]))' = Matching(tar_name(members[i]))
    BY <1>1 DEF Matching, tar_name
  <2> QED
    BY <2>2 DEF FoundBy
<1> QED
  BY <1>1, <1>2, <1>3, <1>4, <1>5, <1>6

LEMMA HeaderFound ==
  ASSUME FwInv, fwAt = "header", fwRc = 0, Ready >= FwBlock
  PROVE  /\ fwPos = Begins(members, member + 1)
         /\ \A i \in HeaderAt(fwPos) : i = member + 1
         /\ IsZero => member = Len(members)
         /\ HeaderAt(fwPos) = {} => IsZero
<1> DEFINE len == Len(members)
           m == member
           p == fwPos
<1>1. /\ Layout(members) /\ len \in Nat /\ m \in 0..len /\ p \in Nat /\ fwLen \in Nat
      /\ DOMAIN members = 1..len
  <2>1. Layout(members)
    BY LaidOut DEF FwInv, FwTypeOK
  <2>2. Whole(members) \in Nat
    BY <2>1, FwAssumption DEF Layout
  <2> QED
    BY <2>1, <2>2 DEF FwInv, FwTypeOK, Layout
<1>2. fwLen - p >= FwBlock /\ FwBlock \in Nat /\ FwBlock > 0
  BY FwAssumption DEF Ready
<1>3. p = Begins(members, m + 1)
  <2>1. Reached(Begins(members, m + 1))
    BY DEF FwInv, InStep
  <2> QED
    BY <1>1, <1>2, <2>1 DEF Reached
<1>4. \A i \in 1..len : /\ members[i].at \in Nat /\ members[i].at < After(members[i])
                        /\ DataOf(members[i]) \in Nat
                        /\ DataOf(members[i]) + members[i].size <= After(members[i])
                        /\ After(members[i]) \in Nat /\ members[i].size \in Nat
  <2> SUFFICES ASSUME NEW i \in 1..len
               PROVE  /\ members[i].at \in Nat /\ members[i].at < After(members[i])
                      /\ DataOf(members[i]) \in Nat
                      /\ DataOf(members[i]) + members[i].size <= After(members[i])
                      /\ After(members[i]) \in Nat /\ members[i].size \in Nat
    OBVIOUS
  <2>1. /\ members[i].size \in Nat /\ members[i].at \in Nat
        /\ PadOf(members[i].size) \in Nat /\ DataOf(members[i]) = members[i].at + FwBlock
        /\ After(members[i]) = members[i].at + FwBlock + members[i].size
                                + PadOf(members[i].size)
    BY <1>1 DEF Layout
  <2> QED
    BY <1>2, <2>1
<1>5. \A i, j \in 1..len : i < j => After(members[i]) <= members[j].at
  BY <1>1 DEF Layout
<1>6. \A i \in 1..len : Begins(members, i) = members[i].at
                        /\ Begins(members, i + 1) = After(members[i])
  BY <1>1 DEF Layout
<1> HIDE DEF len, m, p
<1>7. CASE m < len
  <2>1. m + 1 \in 1..len /\ p = members[m + 1].at
    BY <1>1, <1>3, <1>6, <1>7
  <2>2. ASSUME NEW i \in HeaderAt(p) PROVE i = m + 1
    <3>1. i \in 1..len /\ members[i].at = p
      BY <1>1 DEF HeaderAt
    <3>2. ~(i < m + 1)
      BY <1>4, <1>5, <2>1, <3>1
    <3>3. ~(m + 1 < i)
      BY <1>4, <1>5, <2>1, <3>1
    <3> QED
      BY <1>1, <3>1, <3>2, <3>3
  <2>3. m + 1 \in HeaderAt(p)
    BY <1>1, <2>1 DEF HeaderAt
  <2>4. 0 \in 0..FwBlock - 1 /\ p + 0 = p
    BY <1>1, <1>2
  <2>5. ~IsZero
    BY <2>3, <2>4 DEF IsZero, p
  <2> QED
    BY <1>3, <2>2, <2>3, <2>5 DEF len, m, p
<1>8. CASE m = len
  <2>1. ASSUME NEW i \in 1..len PROVE After(members[i]) <= p
    <3>1. len \in 1..len /\ p = After(members[len])
      BY <1>1, <1>3, <1>6, <1>8
    <3>2. i = len \/ i < len
      BY <1>1
    <3>3. members[len].at <= p
      BY <1>4, <3>1
    <3> QED
      BY <1>1, <1>4, <1>5, <3>1, <3>2, <3>3
  <2>2. ASSUME NEW k \in Nat PROVE HeaderAt(p + k) = {} /\ DataAt(p + k) = {}
    <3>1. ASSUME NEW i \in 1..len PROVE members[i].at # p + k
      BY <1>1, <1>4, <2>1
    <3>2. ASSUME NEW i \in 1..len PROVE ~(p + k < DataOf(members[i]) + members[i].size)
      BY <1>1, <1>4, <2>1
    <3> QED
      BY <1>1, <3>1, <3>2 DEF HeaderAt, DataAt
  <2>3. IsZero
    BY <1>2, <2>2 DEF IsZero, p
  <2>4. HeaderAt(p) = {}
    BY <1>1, <2>2
  <2> QED
    BY <1>3, <1>8, <2>3, <2>4 DEF len, m, p
<1>9. m < len \/ m = len
  BY <1>1
<1> USE DEF len, m, p
<1> QED
  BY <1>7, <1>8, <1>9

\* the stream ends within the archive
LEMMA EndsEarly ==
  ASSUME FwTypeOK, NEW i \in 0..Len(members), NEW n \in Nat,
         fwLen < n + FwBlock, n <= Begins(members, i + 1)
  PROVE  Cut
<1>1. /\ Begins(members, i + 1) \in Nat /\ Begins(members, Len(members) + 1) \in Nat
      /\ Begins(members, i + 1) <= Begins(members, Len(members) + 1)
      /\ Whole(members) = Begins(members, Len(members) + 1) + 2 * FwBlock
  <2>1. Layout(members)
    BY LaidOut DEF FwTypeOK
  <2>2. Len(members) \in 0..Len(members)
    BY <2>1 DEF Layout
  <2> QED
    BY <2>1, <2>2 DEF Layout
<1>2. fwLen \in Nat
  BY <1>1, FwAssumption DEF FwTypeOK
<1> QED
  BY <1>1, <1>2, FwAssumption DEF Cut

LEMMA NamesGrow ==
  ASSUME NEW m \in Nat
  PROVE  FoundBy(m + 1) = FoundBy(m) \cup Matching(tar_name(members[m + 1]))
<1>1. \A x, n : x \in FoundBy(n) <=> \E i \in 1..n : x \in Matching(tar_name(members[i]))
  BY DEF FoundBy
<1>2. \A i : i \in 1..(m + 1) <=> i \in 1..m \/ i = m + 1
  OBVIOUS
<1>3. \A x : x \in FoundBy(m + 1) <=>
               x \in FoundBy(m) \/ x \in Matching(tar_name(members[m + 1]))
  BY <1>1, <1>2
<1> QED
  BY <1>3

LEMMA FinishKeeps ==
  ASSUME FwInv, SameRun, finish, fwPos' \in 0..fwLen, fwAt \in {"header", "pad"},
         fwRc = 0 => Cut \/ ~unbounded \/ member = Len(members)
  PROVE  FwInv'
<1>1. /\ members' = members /\ pats' = pats /\ list' = list /\ fwLen' = fwLen
      /\ \A m : Wants(m)' = Wants(m)
      /\ unbounded' = unbounded /\ Cut' = Cut /\ \A n : FoundBy(n)' = FoundBy(n)
  BY SameRunKeeps
<1>2. fwAt' = "end" /\ fwRc' \in {0, 1} /\ UNCHANGED <<member, toGo, skip, satisfied, fwOut, fwFaults>>
      /\ (fwRc' = 0 => fwRc = 0 /\ (~list => satisfied = DOMAIN pats))
  BY DEF FwInv, FwTypeOK, finish
<1>3. FwTypeOK'
  BY <1>1, <1>2 DEF FwInv, FwTypeOK
<1>4. Written'
  BY <1>1, <1>2 DEF FwInv, Written
<1>5. Inside'
  BY <1>2 DEF Inside
<1>6. InStep'
  BY <1>1, <1>2 DEF InStep
<1>7. Seen'
  BY <1>1, <1>2 DEF FwInv, Seen, Passed, IsOut
<1> QED
  BY <1>3, <1>4, <1>5, <1>6, <1>7 DEF FwInv

LEMMA NumbersOf ==
  ASSUME FwTypeOK
  PROVE  /\ Len(members) \in Nat /\ fwLen \in Nat /\ fwPos \in Nat /\ fwPos <= fwLen
         /\ Ready \in Nat /\ Ready = fwLen - fwPos
         /\ DOMAIN members = 1..Len(members)
         /\ \A i \in 1..Len(members) :
              /\ members[i].size \in Nat /\ members[i].at \in Nat
              /\ PadOf(members[i].size) \in Nat /\ DataOf(members[i]) \in Nat
              /\ DataOf(members[i]) = members[i].at + FwBlock
              /\ Begins(members, i) = members[i].at
              /\ Begins(members, i + 1) =
                   DataOf(members[i]) + members[i].size + PadOf(members[i].size)
<1>1. Layout(members)
  BY LaidOut DEF FwTypeOK
<1>2. Whole(members) \in Nat
  <2>1. Len(members) \in 0..Len(members)
    BY <1>1 DEF Layout
  <2> QED
    BY <1>1, <2>1, FwAssumption DEF Layout
<1>3. fwLen \in Nat /\ fwPos \in Nat /\ fwPos <= fwLen
  BY <1>2 DEF FwTypeOK
<1>4. ASSUME NEW i \in 1..Len(members)
      PROVE  /\ members[i].size \in Nat /\ members[i].at \in Nat
             /\ PadOf(members[i].size) \in Nat /\ DataOf(members[i]) \in Nat
             /\ DataOf(members[i]) = members[i].at + FwBlock
             /\ Begins(members, i) = members[i].at
             /\ Begins(members, i + 1) =
                  DataOf(members[i]) + members[i].size + PadOf(members[i].size)
  <2>1. /\ members[i].size \in Nat /\ members[i].at \in Nat
        /\ PadOf(members[i].size) \in Nat /\ DataOf(members[i]) = members[i].at + FwBlock
        /\ After(members[i]) = members[i].at + FwBlock + members[i].size
                                + PadOf(members[i].size)
        /\ Begins(members, i) = members[i].at /\ Begins(members, i + 1) = After(members[i])
    BY <1>1 DEF Layout
  <2> QED
    BY <2>1, FwAssumption
<1> QED
  BY <1>1, <1>3, <1>4 DEF Layout, Ready

LEMMA NextHeaderKeeps == ASSUME FwInv, NextHeader PROVE FwInv'
<1>0. FwTypeOK /\ Written /\ Inside /\ InStep /\ Seen /\ SameRun /\ fwAt = "header"
  BY DEF FwInv, NextHeader
<1>1. /\ Len(members) \in Nat /\ fwLen \in Nat /\ fwPos \in Nat /\ fwPos <= fwLen
      /\ Ready \in Nat /\ Ready = fwLen - fwPos /\ DOMAIN members = 1..Len(members)
      /\ FwBlock \in Nat /\ FwBlock > 0 /\ member \in 0..Len(members)
  BY <1>0, NumbersOf, FwAssumption DEF FwTypeOK
<1>2. /\ members' = members /\ pats' = pats /\ list' = list /\ fwLen' = fwLen
      /\ \A m : Wants(m)' = Wants(m)
      /\ unbounded' = unbounded /\ Cut' = Cut /\ \A n : FoundBy(n)' = FoundBy(n)
  BY <1>0, SameRunKeeps
<1>3. CASE Ready < FwBlock /\ z_read(Ready) /\ finish
  <2>1. fwPos' \in 0..fwLen
    BY <1>1, <1>3 DEF z_read
  <2>2. ASSUME fwRc = 0 PROVE Cut
    <3>1. Reached(Begins(members, member + 1))
      BY <1>0, <2>2 DEF InStep
    <3>2. fwPos <= Begins(members, member + 1) /\ fwLen < fwPos + FwBlock
      <4>1. Begins(members, member + 1) \in Nat
        BY <1>0, LaidOut DEF FwTypeOK, Layout
      <4> QED
        BY <1>1, <1>3, <3>1, <4>1 DEF Reached
    <3> QED
      BY <1>0, <1>1, <3>2, EndsEarly
  <2> QED
    BY <1>0, <1>3, <2>1, <2>2, FinishKeeps
<1>4. CASE Ready >= FwBlock /\ z_read(FwBlock) /\ IsZero /\ finish
  <2>1. fwPos' \in 0..fwLen
    BY <1>1, <1>4 DEF z_read
  <2>2. fwRc = 0 => member = Len(members)
    BY <1>0, <1>4, HeaderFound
  <2> QED
    BY <1>0, <1>4, <2>1, <2>2, FinishKeeps
<1>5. CASE /\ Ready >= FwBlock /\ z_read(FwBlock)
           /\ ~IsZero /\ HeaderAt(fwPos) = {} /\ fwAt' = "lost"
           /\ UNCHANGED <<member, toGo, skip, satisfied, fwOut, fwRc, fwFaults>>
  <2>1. fwRc # 0
    BY <1>0, <1>5, HeaderFound
  <2>2. fwPos' \in 0..fwLen
    BY <1>1, <1>5 DEF z_read
  <2>3. FwTypeOK'
    BY <1>0, <1>2, <1>5, <2>2 DEF FwTypeOK
  <2>4. Written' /\ Inside' /\ InStep' /\ Seen'
    BY <1>0, <1>2, <1>5, <2>1 DEF Written, Inside, InStep, Seen
  <2> QED
    BY <2>3, <2>4 DEF FwInv
<1>6. ASSUME Ready >= FwBlock, z_read(FwBlock), NEW i \in HeaderAt(fwPos), Header(i)
      PROVE  FwInv'
  <2> DEFINE m == members[i]
  <2>1. i \in 1..Len(members) /\ m.at = fwPos
    BY <1>1 DEF HeaderAt
  <2>2. m.size \in Nat /\ PadOf(m.size) \in Nat /\ DataOf(m) = m.at + FwBlock
    BY <1>0, <2>1, NumbersOf
  <2>3. /\ member' = i /\ satisfied' = satisfied \cup Matching(tar_name(m))
        /\ fwAt' = IF Wants(m) /\ tar_name(m) \notin LongNames THEN "create" ELSE "pass"
        /\ fwRc' = IF Wants(m) /\ tar_name(m) \in LongNames THEN 1 ELSE fwRc
        /\ toGo' = m.size /\ skip' = PadOf(m.size) /\ UNCHANGED <<fwOut, fwFaults>>
    BY <1>6 DEF Header
  <2>4. fwPos' = DataOf(m) /\ fwPos' \in 0..fwLen
    BY <1>1, <1>6, <2>1, <2>2 DEF z_read
  <2> HIDE DEF m
  <2>5. Matching(tar_name(m)) \subseteq DOMAIN pats
    BY DEF Matching
  <2>6. FwTypeOK'
    <3>1. satisfied' \subseteq DOMAIN pats /\ member' \in 0..Len(members)
      BY <1>0, <1>1, <2>1, <2>3, <2>5 DEF FwTypeOK
    <3>2. fwAt' \in {"create", "pass"} /\ fwRc' \in {0, 1}
      BY <1>0, <2>3 DEF FwTypeOK
    <3> QED
      BY <1>0, <1>2, <2>2, <2>3, <2>4, <3>1, <3>2 DEF FwTypeOK
  <2>7. Written'
    BY <1>0, <1>2, <2>3 DEF Written
  <2>8. Inside'
    BY <1>2, <2>1, <2>3, <2>4 DEF Inside, m
  <2>9. InStep'
    BY <2>3 DEF InStep
  <2>10. Seen'
    <3> SUFFICES ASSUME fwRc' = 0 PROVE Seen'
      BY DEF Seen
    <3>1. fwRc = 0 /\ (fwAt' = "pass" => ~Wants(m))
          /\ (fwAt' = "pass" \/ fwAt' = "create")
      BY <1>0, <2>3 DEF FwTypeOK
    <3>2. i = member + 1
      BY <1>0, <1>6, <3>1, HeaderFound
    <3>3. satisfied = FoundBy(member)
          /\ \A j \in 1..member : Wants(members[j]) => IsOut(j)
      BY <1>0, <3>1 DEF Seen, Passed
    <3>4. satisfied' = FoundBy(i)
      <4>1. member \in Nat
        BY <1>1
      <4>2. FoundBy(member + 1) = FoundBy(member) \cup Matching(tar_name(members[member + 1]))
        BY <4>1, NamesGrow
      <4> QED
        BY <2>3, <3>2, <3>3, <4>2 DEF m
    <3>5. \A j : IsOut(j)' = IsOut(j)
      BY <1>2, <2>3 DEF IsOut
    <3>6. \A j \in 1..Passed' : Wants(members[j]) => IsOut(j)
      <4>1. CASE fwAt' = "create"
        <5>1. Passed' = member
          BY <1>1, <2>3, <3>2, <4>1 DEF Passed
        <5> QED
          BY <3>3, <5>1
      <4>2. CASE fwAt' = "pass"
        <5>1. Passed' = member + 1
          BY <2>3, <3>2, <4>2 DEF Passed
        <5>2. \A j \in 1..member + 1 : j \in 1..member \/ j = member + 1
          BY <1>1
        <5>3. ~Wants(members[member + 1])
          BY <3>1, <3>2, <4>2 DEF m
        <5> QED
          BY <3>3, <5>1, <5>2, <5>3
      <4> QED
        BY <3>1, <4>1, <4>2
    <3> QED
      BY <1>2, <2>3, <3>4, <3>5, <3>6 DEF Seen
  <2> QED
    BY <2>6, <2>7, <2>8, <2>9, <2>10 DEF FwInv
<1> QED
  BY <1>3, <1>4, <1>5, <1>6 DEF NextHeader

LEMMA PassMemberKeeps == ASSUME FwInv, PassMember PROVE FwInv'
<1>0. FwTypeOK /\ Written /\ Inside /\ InStep /\ Seen /\ SameRun /\ fwAt = "pass"
  BY DEF FwInv, PassMember
<1>1. /\ member \in 1..Len(members) /\ skip = PadOf(members[member].size)
      /\ toGo = members[member].size /\ fwPos = DataOf(members[member])
  BY <1>0 DEF Inside
<1>2. /\ fwLen \in Nat /\ fwPos \in Nat /\ fwPos <= fwLen /\ Ready = fwLen - fwPos
      /\ toGo \in Nat /\ members[member].size \in Nat
  BY <1>0, <1>1, NumbersOf
<1>3. /\ members' = members /\ pats' = pats /\ list' = list /\ fwLen' = fwLen
      /\ \A m : Wants(m)' = Wants(m) /\ \A n : FoundBy(n)' = FoundBy(n)
  BY <1>0, SameRunKeeps
<1>4. /\ fwAt' = "pad" /\ toGo' = 0 /\ z_skip(toGo)
      /\ UNCHANGED <<member, skip, satisfied, fwOut, fwRc, fwFaults>>
  BY DEF PassMember
<1>5. /\ fwPos' \in 0..fwLen
      /\ fwPos' = fwPos + toGo \/ (fwPos' = fwLen /\ fwLen <= fwPos + toGo)
  BY <1>2, <1>4 DEF z_skip, z_read, z_skips
<1>6. FwTypeOK'
  BY <1>0, <1>3, <1>4, <1>5 DEF FwTypeOK
<1>7. Written' /\ Inside'
  BY <1>0, <1>1, <1>3, <1>4 DEF Written, Inside
<1>8. InStep'
  BY <1>1, <1>3, <1>4, <1>5 DEF InStep, Reached
<1>9. Seen'
  BY <1>0, <1>3, <1>4 DEF Seen, Passed, IsOut
<1> QED
  BY <1>6, <1>7, <1>8, <1>9 DEF FwInv

\* a failure, after which nothing is promised but what is written
LEMMA FailedKeeps ==
  ASSUME FwInv, SameRun, Failed, Written', fwPos' \in 0..fwLen, fwFaults' \in Nat,
         DOMAIN fwOut' \subseteq DOMAIN members, fwAt \in {"create", "write"},
         UNCHANGED <<member, skip, satisfied>>
  PROVE  FwInv'
<1>1. /\ members' = members /\ list' = list /\ fwLen' = fwLen /\ pats' = pats
      /\ fwRc' = 1 /\ fwAt' = "pad" /\ toGo' = 0
  BY SameRunKeeps DEF Failed
<1>2. FwTypeOK'
  BY <1>1 DEF FwInv, FwTypeOK
<1>3. Inside'
  BY <1>1 DEF FwInv, Inside
<1>4. InStep' /\ Seen'
  BY <1>1 DEF InStep, Seen
<1> QED
  BY <1>2, <1>3, <1>4 DEF FwInv

LEMMA NoByte == \A i : Start(i, 0) = <<>>
<1> SUFFICES ASSUME NEW i PROVE Start(i, 0) = <<>>
  OBVIOUS
<1>1. 1..0 = {}
  OBVIOUS
<1> QED
  BY <1>1 DEF Start

LEMMA CreateMemberKeeps == ASSUME FwInv, CreateMember PROVE FwInv'
<1>0. FwTypeOK /\ Written /\ Inside /\ InStep /\ Seen /\ SameRun /\ fwAt = "create"
      /\ UNCHANGED <<fwPos, member, skip, satisfied>>
  BY DEF FwInv, CreateMember
<1>1. /\ member \in 1..Len(members) /\ skip = PadOf(members[member].size)
      /\ toGo = members[member].size /\ fwPos = DataOf(members[member])
      /\ Wants(members[member])
  BY <1>0 DEF Inside
<1>2. members[member].size \in Nat /\ DOMAIN members = 1..Len(members)
  BY <1>0, <1>1, NumbersOf
<1>3. /\ members' = members /\ pats' = pats /\ list' = list /\ fwLen' = fwLen
      /\ \A m : Wants(m)' = Wants(m) /\ \A n : FoundBy(n)' = FoundBy(n)
  BY <1>0, SameRunKeeps
<1>4. CASE /\ fwOut' = [i \in DOMAIN fwOut \cup {member} |->
                          IF i = member THEN <<>> ELSE fwOut[i]]
           /\ fwAt' = "write" /\ UNCHANGED <<toGo, fwRc, fwFaults>>
  <2>1. /\ DOMAIN fwOut' = DOMAIN fwOut \cup {member} /\ fwOut'[member] = <<>>
        /\ \A i \in DOMAIN fwOut : i # member => fwOut'[i] = fwOut[i]
    BY <1>4
  <2>2. FwTypeOK'
    BY <1>0, <1>1, <1>2, <1>3, <1>4, <2>1 DEF FwTypeOK
  <2>3. fwOut'[member] = Start(member, 0) /\ 0 \in 0..members[member].size
    BY <1>2, <2>1, NoByte
  <2>4. Written'
    BY <1>0, <1>1, <1>3, <2>1, <2>3 DEF Written
  <2>5. members[member].size - toGo = 0 /\ toGo \in 0..members[member].size
        /\ DataOf(members[member]) + members[member].size - toGo = DataOf(members[member])
    <3>1. DataOf(members[member]) \in Nat
      BY <1>0, <1>1, NumbersOf
    <3> QED
      BY <1>1, <1>2, <3>1
  <2>6. Inside'
    BY <1>0, <1>1, <1>3, <1>4, <2>1, <2>3, <2>5 DEF Inside
  <2>7. InStep'
    BY <1>4 DEF InStep
  <2>8. Seen'
    <3> SUFFICES ASSUME fwRc' = 0 PROVE Seen'
      BY DEF Seen
    <3>1. Passed = member - 1 /\ Passed' = member - 1
      BY <1>0, <1>4 DEF Passed
    <3>2. \A i \in 1..member - 1 : i # member
      BY <1>1
    <3>3. \A i \in 1..member - 1 : IsOut(i) => IsOut(i)'
      BY <1>3, <2>1, <3>2 DEF IsOut
    <3>4. satisfied = FoundBy(member) /\ \A i \in 1..member - 1 : Wants(members[i]) => IsOut(i)
      BY <1>0, <1>4, <3>1 DEF Seen
    <3> QED
      BY <1>0, <1>3, <3>1, <3>3, <3>4 DEF Seen
  <2> QED
    BY <2>2, <2>4, <2>6, <2>7, <2>8 DEF FwInv
<1>5. CASE fault /\ Failed /\ UNCHANGED fwOut
  <2>1. fwPos' \in 0..fwLen /\ fwFaults' \in Nat /\ DOMAIN fwOut' \subseteq DOMAIN members
    BY <1>0, <1>5 DEF FwTypeOK, fault
  <2>2. Written'
    BY <1>0, <1>3, <1>5 DEF Written
  <2> QED
    BY <1>0, <1>5, <2>1, <2>2, FailedKeeps
<1> QED
  BY <1>4, <1>5 DEF CreateMember

Bytes(i) == {Byte(i, k) : k \in Nat}

LEMMA StartIs ==
  ASSUME NEW i, NEW n \in Nat
  PROVE  /\ Start(i, n) \in Seq(Bytes(i)) /\ Len(Start(i, n)) = n
         /\ \A k \in 1..n : Start(i, n)[k] = Byte(i, k)
<1>1. \A k \in 1..n : Byte(i, k) \in Bytes(i)
  BY DEF Bytes
<1>2. Start(i, n) \in [1..n -> Bytes(i)]
  BY <1>1 DEF Start
<1>3. Start(i, n) \in Seq(Bytes(i))
  BY <1>2
<1>4. DOMAIN Start(i, n) = 1..n /\ \A k \in 1..n : Start(i, n)[k] = Byte(i, k)
  BY DEF Start
<1>5. Len(Start(i, n)) = n
  BY <1>3, <1>4, LenProperties
<1> QED
  BY <1>3, <1>4, <1>5

Following(i, a, n) == [k \in 1..n |-> Byte(i, a + k)]

LEMMA FollowingIs ==
  ASSUME NEW i, NEW a \in Nat, NEW n \in Nat
  PROVE  /\ Following(i, a, n) \in Seq(Bytes(i)) /\ Len(Following(i, a, n)) = n
         /\ \A k \in 1..n : Following(i, a, n)[k] = Byte(i, a + k)
<1>1. \A k \in 1..n : Byte(i, a + k) \in Bytes(i)
  BY DEF Bytes
<1>2. Following(i, a, n) \in [1..n -> Bytes(i)]
  BY <1>1 DEF Following
<1>3. Following(i, a, n) \in Seq(Bytes(i))
  BY <1>2
<1>4. DOMAIN Following(i, a, n) = 1..n
      /\ \A k \in 1..n : Following(i, a, n)[k] = Byte(i, a + k)
  BY DEF Following
<1>5. Len(Following(i, a, n)) = n
  BY <1>3, <1>4, LenProperties
<1> QED
  BY <1>3, <1>4, <1>5

LEMMA StartGrows ==
  ASSUME NEW i, NEW a \in Nat, NEW n \in Nat
  PROVE  Start(i, a) \o Following(i, a, n) = Start(i, a + n)
<1>1. PICK us : us = Following(i, a, n)
  OBVIOUS
<1>2. PICK s : s = Start(i, a)
  OBVIOUS
<1>3. us \in Seq(Bytes(i)) /\ Len(us) = n /\ \A k \in 1..n : us[k] = Byte(i, a + k)
  BY <1>1, FollowingIs
<1>4. s \in Seq(Bytes(i)) /\ Len(s) = a /\ \A k \in 1..a : s[k] = Byte(i, k)
  BY <1>2, StartIs
<1>5. a + n \in Nat
  OBVIOUS
<1>6. /\ Start(i, a + n) \in Seq(Bytes(i)) /\ Len(Start(i, a + n)) = a + n
      /\ \A k \in 1..a + n : Start(i, a + n)[k] = Byte(i, k)
  BY <1>5, StartIs
<1>7. /\ s \o us \in Seq(Bytes(i)) /\ Len(s \o us) = a + n
      /\ \A k \in 1..a + n : (s \o us)[k] = IF k <= a THEN s[k] ELSE us[k - a]
  BY <1>3, <1>4, ConcatProperties
<1>8. ASSUME NEW k \in 1..a + n PROVE (s \o us)[k] = Byte(i, k)
  <2>1. CASE k <= a
    <3>1. k \in 1..a
      BY <2>1
    <3> QED
      BY <1>4, <1>7, <2>1, <3>1
  <2>2. CASE ~(k <= a)
    <3>1. k - a \in 1..n /\ a + (k - a) = k
      BY <2>2
    <3> QED
      BY <1>3, <1>7, <2>2, <3>1
  <2> QED
    BY <2>1, <2>2
<1>9. s \o us = Start(i, a + n)
  BY <1>6, <1>7, <1>8, SeqEqual
<1> QED
  BY <1>1, <1>2, <1>9

LEMMA StartIsPrefix ==
  ASSUME NEW i, NEW m \in Nat, NEW n \in 0..m
  PROVE  IsPrefix(Start(i, n), Start(i, m))
<1>1. /\ Start(i, n) \in Seq(Bytes(i)) /\ Len(Start(i, n)) = n
      /\ \A k \in 1..n : Start(i, n)[k] = Byte(i, k)
  BY StartIs
<1>2. /\ Start(i, m) \in Seq(Bytes(i)) /\ Len(Start(i, m)) = m
      /\ \A k \in 1..m : Start(i, m)[k] = Byte(i, k)
  BY StartIs
<1>3. \A k \in 1..n : k \in 1..m
  OBVIOUS
<1>4. SubSeq(Start(i, m), 1, n) = [k \in 1..n |-> Start(i, m)[k]]
  BY <1>2
<1>5. SubSeq(Start(i, n), 1, n) = [k \in 1..n |-> Start(i, n)[k]]
  BY <1>1
<1>6. [k \in 1..n |-> Start(i, m)[k]] = [k \in 1..n |-> Start(i, n)[k]]
  BY <1>1, <1>2, <1>3
<1> QED
  BY <1>1, <1>2, <1>4, <1>5, <1>6 DEF IsPrefix

LEMMA NotBefore ==
  ASSUME NEW p \in Nat, NEW end \in Nat, NEW pad \in Nat, NEW at \in Nat,
         p < end, p >= at + FwBlock
  PROVE  ~(end + pad <= at)
BY FwAssumption

\* the stream holds the bytes of a member behind its header
LEMMA DataIs ==
  ASSUME FwTypeOK, NEW i \in 1..Len(members), NEW k \in 1..members[i].size
  PROVE  UnitAfter(DataOf(members[i]) + k - 1) = Byte(i, k)
<1>1. PICK d, p, size : /\ d = DataOf(members[i]) /\ p = DataOf(members[i]) + k - 1
                        /\ size = members[i].size
  OBVIOUS
<1>2. /\ size \in Nat /\ d \in Nat /\ d = members[i].at + FwBlock /\ members[i].at \in Nat
      /\ PadOf(size) \in Nat
  BY <1>1, NumbersOf
<1>3. p \in Nat /\ p >= d /\ p < d + size
  BY <1>1, <1>2
<1>9. DOMAIN members = 1..Len(members)
  BY NumbersOf
<1>4. i \in DataAt(p)
  BY <1>1, <1>3, <1>9 DEF DataAt
<1>5. ASSUME NEW j \in DataAt(p) PROVE j = i
  <2>1. PICK e, size2 : e = DataOf(members[j]) /\ size2 = members[j].size
    OBVIOUS
  <2>9. j \in 1..Len(members)
    BY <1>9, <1>5 DEF DataAt
  <2>2. p >= e /\ p < e + size2
    BY <1>9, <1>5, <2>1 DEF DataAt
  <2>3. /\ size2 \in Nat /\ members[j].at \in Nat /\ e \in Nat
        /\ e = members[j].at + FwBlock /\ PadOf(size2) \in Nat
    BY <2>1, <2>9, NumbersOf
  <2>4. /\ i < j => d + size + PadOf(size) <= members[j].at
        /\ j < i => e + size2 + PadOf(size2) <= members[i].at
    BY <1>1, <2>1, <2>9, LaidOut DEF FwTypeOK, Layout, After
  <2>5. ~(i < j)
    <3>1. p \in Nat /\ d + size \in Nat /\ PadOf(size) \in Nat /\ members[j].at \in Nat
          /\ p < d + size /\ p >= members[j].at + FwBlock
      <4>1. p \in Nat /\ p < d + size
        BY <1>3
      <4>2. d + size \in Nat
        BY <1>2
      <4>3. PadOf(size) \in Nat
        BY <1>2
      <4>4. members[j].at \in Nat /\ p >= e /\ e = members[j].at + FwBlock
        BY <2>2, <2>3
      <4>5. p >= members[j].at + FwBlock
        BY <4>4
      <4> QED
        BY <4>1, <4>2, <4>3, <4>4, <4>5
    <3>2. ~(d + size + PadOf(size) <= members[j].at)
      BY <3>1, NotBefore
    <3> QED
      BY <2>4, <3>2
  <2>6. ~(j < i)
    <3>1. p \in Nat /\ e + size2 \in Nat /\ PadOf(size2) \in Nat /\ members[i].at \in Nat
          /\ p < e + size2 /\ p >= members[i].at + FwBlock
      <4>1. p \in Nat /\ p < e + size2 /\ p >= d /\ d = members[i].at + FwBlock
        BY <1>2, <1>3, <2>2
      <4>2. e + size2 \in Nat
        BY <2>3
      <4>3. PadOf(size2) \in Nat /\ members[i].at \in Nat
        BY <1>2, <2>3
      <4>4. p >= members[i].at + FwBlock
        BY <4>1
      <4> QED
        BY <4>1, <4>2, <4>3, <4>4
    <3>2. ~(e + size2 + PadOf(size2) <= members[i].at)
      BY <3>1, NotBefore
    <3> QED
      BY <2>4, <3>2
  <2>7. i \in Nat /\ j \in Nat
    BY <2>9, NumbersOf
  <2> QED
    BY <2>5, <2>6, <2>7
<1>6. DataAt(p) = {i}
  BY <1>4, <1>5
<1>7. UnitAfter(p) = Byte(i, p - DataOf(members[i]) + 1)
  BY <1>6 DEF UnitAfter
<1>8. p - d + 1 = k
  BY <1>1, <1>2
<1> QED
  BY <1>1, <1>7, <1>8

\* what is read within a member goes on where the file ends
LEMMA GotIs ==
  ASSUME FwTypeOK, NEW i \in 1..Len(members), NEW a \in Nat, NEW n \in Nat,
         fwPos = DataOf(members[i]) + a, a + n <= members[i].size
  PROVE  Got(n) = Following(i, a, n)
<1>1. members[i].size \in Nat /\ DataOf(members[i]) \in Nat
  BY NumbersOf
<1>2. ASSUME NEW k \in 1..n PROVE UnitAfter(fwPos + k - 1) = Byte(i, a + k)
  <2>1. a + k \in 1..members[i].size
    BY <1>1
  <2>2. UnitAfter(DataOf(members[i]) + (a + k) - 1) = Byte(i, a + k)
    BY <2>1, DataIs
  <2>3. fwPos + k - 1 = DataOf(members[i]) + (a + k) - 1
    BY <1>1
  <2> QED
    BY <2>2, <2>3
<1> QED
  BY <1>2 DEF Got, Following

LEMMA PutIs ==
  ASSUME FwInv, fwAt = "write", NEW n \in Nat, n <= toGo, Put(Got(n))
  PROVE  /\ DOMAIN fwOut' = DOMAIN fwOut
         /\ fwOut'[member] = Start(member, members[member].size - toGo + n)
         /\ members[member].size - toGo + n \in 0..members[member].size
         /\ \A i \in DOMAIN fwOut : i # member => fwOut'[i] = fwOut[i]
<1> DEFINE size == members[member].size
           a == size - toGo
<1>1. /\ FwTypeOK /\ member \in 1..Len(members) /\ member \in DOMAIN fwOut
      /\ toGo \in 0..size
      /\ fwPos = DataOf(members[member]) + size - toGo
      /\ fwOut[member] = Start(member, a)
  BY DEF FwInv, Inside
<1>2. size \in Nat /\ DataOf(members[member]) \in Nat
  BY <1>1, NumbersOf
<1> HIDE DEF size
<1>3. a \in Nat /\ a + n \in 0..size /\ fwPos = DataOf(members[member]) + a /\ a + n <= size
  BY <1>1, <1>2
<1> HIDE DEF a
<1>4. Got(n) = Following(member, a, n)
  BY <1>1, <1>3, GotIs DEF size
<1>5. fwOut[member] \o Got(n) = Start(member, a + n)
  BY <1>1, <1>3, <1>4, StartGrows
<1>6. fwOut' = [fwOut EXCEPT ![member] = fwOut[member] \o Got(n)]
  BY DEF Put
<1> QED
  BY <1>1, <1>3, <1>5, <1>6 DEF a, size

LEMMA WriteMemberKeeps == ASSUME FwInv, WriteMember PROVE FwInv'
<1>0. FwTypeOK /\ Written /\ Inside /\ InStep /\ Seen /\ SameRun /\ fwAt = "write"
      /\ UNCHANGED <<member, skip, satisfied>>
  BY DEF FwInv, WriteMember
<1>1. /\ member \in 1..Len(members) /\ skip = PadOf(members[member].size)
      /\ Wants(members[member])
      /\ toGo \in 0..members[member].size /\ member \in DOMAIN fwOut
      /\ fwPos = DataOf(members[member]) + members[member].size - toGo
      /\ fwOut[member] = Start(member, members[member].size - toGo)
  BY <1>0 DEF Inside
<1>2. /\ members[member].size \in Nat /\ DOMAIN members = 1..Len(members)
      /\ DataOf(members[member]) \in Nat
      /\ fwLen \in Nat /\ fwPos \in Nat /\ fwPos <= fwLen /\ Ready = fwLen - fwPos
  BY <1>0, <1>1, NumbersOf
<1>3. /\ members' = members /\ pats' = pats /\ list' = list /\ fwLen' = fwLen
      /\ \A m : Wants(m)' = Wants(m) /\ \A n : FoundBy(n)' = FoundBy(n)
  BY <1>0, SameRunKeeps
<1>4. PICK n : n = Lesser(Lesser(toGo, CopyBuf), Ready)
  OBVIOUS
<1>5. n \in Nat /\ n <= toGo /\ fwPos + n \in 0..fwLen /\ toGo \in Nat
  <2>1. toGo \in Nat /\ Ready \in Nat /\ CopyBuf \in Nat
    BY <1>1, <1>2, FwAssumption
  <2>2. n \in Nat /\ n <= toGo /\ n <= Ready
    BY <1>4, <2>1 DEF Lesser
  <2> QED
    BY <1>2, <2>1, <2>2
<1>6. CASE toGo = 0 /\ fwAt' = "pad" /\ UNCHANGED <<fwPos, toGo, fwOut, fwRc, fwFaults>>
  <2>1. FwTypeOK'
    BY <1>0, <1>3, <1>6 DEF FwTypeOK
  <2>2. Written' /\ Inside'
    BY <1>0, <1>1, <1>3, <1>6 DEF Written, Inside
  <2>3. fwPos = DataOf(members[member]) + members[member].size
        /\ members[member].size - toGo = members[member].size
    BY <1>1, <1>2, <1>6
  <2>4. InStep'
    BY <1>0, <1>3, <1>6, <2>3 DEF InStep, Reached
  <2>5. Seen'
    <3> SUFFICES ASSUME fwRc' = 0 PROVE Seen'
      BY DEF Seen
    <3>1. Passed = member - 1 /\ Passed' = member
      BY <1>0, <1>6 DEF Passed
    <3>2. IsOut(member)
      BY <1>1, <2>3 DEF IsOut, Content, Start
    <3>3. satisfied = FoundBy(member) /\ \A i \in 1..member - 1 : Wants(members[i]) => IsOut(i)
      BY <1>0, <1>6, <3>1 DEF Seen
    <3>4. \A i \in 1..member : i \in 1..member - 1 \/ i = member
      BY <1>1
    <3>5. \A i : IsOut(i)' = IsOut(i)
      BY <1>3, <1>6 DEF IsOut
    <3> QED
      BY <1>0, <1>3, <3>1, <3>2, <3>3, <3>4, <3>5 DEF Seen
  <2> QED
    BY <2>1, <2>2, <2>4, <2>5 DEF FwInv
<1>7. CASE Failed /\ UNCHANGED <<fwPos, fwOut, fwFaults>>
  <2>1. fwPos' \in 0..fwLen /\ fwFaults' \in Nat /\ DOMAIN fwOut' \subseteq DOMAIN members
    BY <1>0, <1>7 DEF FwTypeOK
  <2>2. Written'
    BY <1>0, <1>3, <1>7 DEF Written
  <2> QED
    BY <1>0, <1>7, <2>1, <2>2, FailedKeeps
<1>8. CASE /\ n > 0 /\ z_read(n) /\ Put(Got(n)) /\ toGo' = toGo - n
           /\ UNCHANGED <<fwAt, fwRc, fwFaults>>
  <2>1. /\ DOMAIN fwOut' = DOMAIN fwOut
        /\ fwOut'[member] = Start(member, members[member].size - toGo + n)
        /\ members[member].size - toGo + n \in 0..members[member].size
        /\ \A i \in DOMAIN fwOut : i # member => fwOut'[i] = fwOut[i]
    BY <1>0, <1>5, <1>8, PutIs
  <2>2. FwTypeOK'
    <3>1. toGo' \in Nat /\ fwPos' \in 0..fwLen
      BY <1>5, <1>8 DEF z_read
    <3> QED
      BY <1>0, <1>3, <1>8, <2>1, <3>1 DEF FwTypeOK
  <2>3. Written'
    BY <1>0, <1>1, <1>3, <2>1 DEF Written
  <2>4. /\ toGo' \in 0..members[member].size
        /\ fwPos' = DataOf(members[member]) + members[member].size - toGo'
        /\ members[member].size - toGo' = members[member].size - toGo + n
    <3>1. PICK size, d : size = members[member].size /\ d = DataOf(members[member])
      OBVIOUS
    <3>2. /\ size \in Nat /\ d \in Nat /\ toGo \in 0..size /\ fwPos = d + size - toGo
          /\ toGo' = toGo - n /\ fwPos' = fwPos + n /\ n \in Nat /\ n <= toGo
      BY <1>1, <1>2, <1>5, <1>8, <3>1 DEF z_read
    <3>3. /\ toGo' \in 0..size /\ fwPos' = d + size - toGo'
          /\ size - toGo' = size - toGo + n
      BY <3>2
    <3> QED
      BY <3>1, <3>3
  <2>5. Inside'
    BY <1>0, <1>1, <1>3, <1>8, <2>1, <2>4 DEF Inside
  <2>6. InStep'
    BY <1>0, <1>8 DEF InStep
  <2>7. Seen'
    <3> SUFFICES ASSUME fwRc' = 0 PROVE Seen'
      BY DEF Seen
    <3>1. Passed = member - 1 /\ Passed' = member - 1
      BY <1>0, <1>8 DEF Passed
    <3>2. \A i \in 1..member - 1 : i # member
      BY <1>1
    <3>3. \A i \in 1..member - 1 : IsOut(i) => IsOut(i)'
      BY <1>3, <2>1, <3>2 DEF IsOut
    <3>4. satisfied = FoundBy(member) /\ \A i \in 1..member - 1 : Wants(members[i]) => IsOut(i)
      BY <1>0, <1>8, <3>1 DEF Seen
    <3> QED
      BY <1>0, <1>3, <3>1, <3>3, <3>4 DEF Seen
  <2> QED
    BY <2>2, <2>3, <2>5, <2>6, <2>7 DEF FwInv
<1>9. ASSUME z_read(n), fault, Failed, NEW k \in 0..(n - 1), Put(Got(k)) PROVE FwInv'
  <2>1. k \in Nat /\ k <= toGo
    BY <1>5
  <2>2. /\ DOMAIN fwOut' = DOMAIN fwOut
        /\ fwOut'[member] = Start(member, members[member].size - toGo + k)
        /\ members[member].size - toGo + k \in 0..members[member].size
        /\ \A i \in DOMAIN fwOut : i # member => fwOut'[i] = fwOut[i]
    BY <1>0, <1>9, <2>1, PutIs
  <2>3. fwPos' \in 0..fwLen /\ fwFaults' \in Nat /\ DOMAIN fwOut' \subseteq DOMAIN members
    BY <1>0, <1>5, <1>9, <2>2 DEF FwTypeOK, fault, z_read
  <2>4. Written'
    BY <1>0, <1>1, <1>3, <2>2 DEF Written
  <2> QED
    BY <1>0, <1>9, <2>3, <2>4, FailedKeeps
<1> QED
  BY <1>4, <1>6, <1>7, <1>8, <1>9 DEF WriteMember

LEMMA SkipPadKeeps == ASSUME FwInv, SkipPad PROVE FwInv'
<1>0. FwTypeOK /\ Written /\ Inside /\ InStep /\ Seen /\ SameRun /\ fwAt = "pad"
      /\ z_skip(skip)
  BY DEF FwInv, SkipPad
<1>1. member \in 1..Len(members) /\ skip = PadOf(members[member].size)
  BY <1>0 DEF Inside
<1> DEFINE data == DataOf(members[member]) + members[member].size
           beyond == Begins(members, member + 1)
<1>2. /\ fwLen \in Nat /\ fwPos \in Nat /\ fwPos <= fwLen /\ Ready = fwLen - fwPos
      /\ data \in Nat /\ skip \in Nat /\ beyond = data + skip /\ member \in 0..Len(members)
  <2>1. /\ members[member].size \in Nat /\ DataOf(members[member]) \in Nat
        /\ PadOf(members[member].size) \in Nat
        /\ Begins(members, member + 1) =
             DataOf(members[member]) + members[member].size + PadOf(members[member].size)
    BY <1>0, <1>1, NumbersOf
  <2> QED
    BY <1>0, <1>1, <2>1, NumbersOf
<1>3. /\ members' = members /\ pats' = pats /\ list' = list /\ fwLen' = fwLen
      /\ \A m : Wants(m)' = Wants(m) /\ \A n : FoundBy(n)' = FoundBy(n)
  BY <1>0, SameRunKeeps
<1>4. fwRc = 0 => Reached(data)
  BY <1>0 DEF InStep
<1> HIDE DEF data, beyond
<1>5. fwPos' \in 0..fwLen /\ (z_skips(skip) => fwPos' = fwPos + skip)
  BY <1>0, <1>2 DEF z_skip, z_read, z_skips
<1>6. CASE (~z_skips(skip) \/ (~list /\ ~unbounded /\ satisfied = DOMAIN pats)) /\ finish
  <2>1. ASSUME fwRc = 0, ~z_skips(skip) PROVE Cut
    <3>1. fwPos <= data /\ fwLen < fwPos + skip
      BY <1>2, <1>4, <2>1 DEF Reached, z_skips
    <3>2. fwLen < beyond + FwBlock /\ beyond \in Nat
      BY <1>2, <3>1, FwAssumption
    <3> QED
      BY <1>0, <1>2, <3>2, EndsEarly DEF beyond
  <2> QED
    BY <1>0, <1>5, <1>6, <2>1, FinishKeeps
<1>7. CASE /\ z_skips(skip) /\ fwAt' = "header"
           /\ UNCHANGED <<member, toGo, skip, satisfied, fwOut, fwRc, fwFaults>>
  <2>1. FwTypeOK'
    BY <1>0, <1>3, <1>5, <1>7 DEF FwTypeOK
  <2>2. Written' /\ Inside'
    BY <1>0, <1>3, <1>7 DEF Written, Inside
  <2>3. fwRc = 0 => fwPos' = beyond \/ (fwPos' = fwLen /\ fwLen <= beyond)
    BY <1>2, <1>4, <1>5, <1>7 DEF Reached, z_skips
  <2>4. InStep'
    BY <1>3, <1>7, <2>3 DEF InStep, Reached, beyond
  <2>5. Seen'
    BY <1>0, <1>3, <1>7 DEF Seen, Passed, IsOut
  <2> QED
    BY <2>1, <2>2, <2>4, <2>5 DEF FwInv
<1> QED
  BY <1>6, <1>7 DEF SkipPad

LEMMA FwWhole == ASSUME FwInv PROVE MembersAreWhole
<1>0. FwTypeOK /\ Written /\ InStep /\ Seen
  BY DEF FwInv
<1>1. DOMAIN members = 1..Len(members) /\ Len(members) \in Nat
  BY <1>0, NumbersOf
<1>2. ASSUME NEW i \in DOMAIN fwOut
      PROVE  /\ IsPrefix(fwOut[i], Content(members, i))
             /\ (\E p \in DOMAIN pats : i \in AskedFor(p)) \/ members[i].name \in FullNames
  <2>1. i \in DOMAIN members /\ members[i].size \in Nat
    BY <1>0, <1>1, NumbersOf DEF FwTypeOK
  <2>2. Content(members, i) = Start(i, members[i].size)
    BY DEF Content, Start
  <2>3. IsPrefix(fwOut[i], Content(members, i))
    BY <1>0, <2>1, <2>2, StartIsPrefix DEF Written
  <2>4. members[i].type = "file" /\ Matching(tar_name(members[i])) # {}
    BY <1>0 DEF Written, Wants
  <2>5. CASE members[i].name \in FullNames
    BY <2>3, <2>5
  <2>6. CASE members[i].name \notin FullNames
    BY <2>1, <2>3, <2>4, <2>6 DEF Matching, AskedFor, tar_name
  <2> QED
    BY <2>5, <2>6
<1>3. fwAt = "lost" => fwRc = 1
  BY <1>0 DEF InStep, FwTypeOK
<1>4. ASSUME fwAt = "end", fwRc = 0, ~list, NEW p \in DOMAIN pats, NEW i \in AskedFor(p)
      PROVE  \/ pats[p].prefix /\ (Cut \/ members[i].name \in FullNames)
             \/ /\ i \in DOMAIN fwOut /\ fwOut[i] = Content(members, i)
                /\ tar_name(members[i]) = members[i].name
  <2>1. /\ i \in 1..Len(members) /\ members[i].type = "file"
        /\ member_matches(members[i].name, pats[p])
    BY <1>1, <1>4 DEF AskedFor
  <2>2. members[i].name \notin FullNames =>
          Wants(members[i]) /\ tar_name(members[i]) = members[i].name
    BY <1>4, <2>1 DEF Wants, Matching, tar_name
  <2>3. /\ satisfied = FoundBy(member) /\ satisfied = DOMAIN pats
        /\ \A j \in 1..member : Wants(members[j]) => IsOut(j)
        /\ Cut \/ ~unbounded \/ member = Len(members)
    BY <1>0, <1>4 DEF Seen, InStep, Passed
  <2>4. CASE member = Len(members) /\ members[i].name \notin FullNames
    BY <2>1, <2>2, <2>3, <2>4 DEF IsOut
  <2>5. CASE pats[p].prefix /\ (Cut \/ members[i].name \in FullNames)
    BY <2>5
  <2>6. CASE ~pats[p].prefix
    <3>1. PICK j \in 1..member : p \in Matching(tar_name(members[j]))
      BY <2>3 DEF FoundBy
    <3>2. j \in 1..Len(members)
      BY <1>0, <1>1, <3>1 DEF FwTypeOK
    <3>3. tar_name(members[j]) = members[i].name
      BY <2>1, <2>6, <3>1 DEF Matching, member_matches
    <3>4. BothNames(members[i]) \cap BothNames(members[j]) # {}
      BY <3>3 DEF BothNames
    <3>5. i = j
      BY <1>0, <2>1, <3>2, <3>4, LaidOut DEF FwTypeOK, Layout
    <3>6. members[i].name \in Seq(STRING)
      BY <1>0, <1>1, <2>1, FwAssumption DEF FwTypeOK
    <3>7. Append(members[i].name, ModeText) # members[i].name
      <4>1. Len(Append(members[i].name, ModeText)) = Len(members[i].name) + 1
        BY <3>6 DEF ModeText
      <4>2. Len(members[i].name) \in Nat
        BY <3>6
      <4> QED
        BY <4>1, <4>2
    <3>8. members[i].name \notin FullNames
      BY <3>3, <3>5, <3>7 DEF tar_name
    <3> QED
      BY <2>2, <2>3, <3>1, <3>5, <3>8 DEF IsOut
  <2>7. pats[p].prefix => unbounded
    BY DEF unbounded
  <2> QED
    BY <2>3, <2>4, <2>5, <2>6, <2>7
<1> QED
  BY <1>2, <1>3, <1>4 DEF MembersAreWhole

\* With status 0 firmextr has put every member it was asked for on disk, whole,
\* as it is in the archive and under its own name, and no other: wherever the
\* stream breaks off, a write fails or a name is too long (firmextr_run,
\* write_member).  Of a subtree, members may be missing where the archive is cut
\* short, and those whose name fills its field have another name (tar_name).
THEOREM MembersAreWholeHolds == FwSpec => []MembersAreWhole
<1>1. FwInit => FwInv
  BY FwStarts
<1>2. FwInv /\ [FwNext]_fwVars => FwInv'
  <2> SUFFICES ASSUME FwInv, [FwNext]_fwVars PROVE FwInv'
    OBVIOUS
  <2>1. CASE UNCHANGED fwVars
    <3>1. UNCHANGED <<members, pats, list, fwLen, fwPos, fwAt, member, toGo, skip,
                      satisfied, fwOut, fwRc, fwFaults>>
      BY <2>1 DEF fwVars
    <3>2. FwTypeOK' /\ Written' /\ Inside'
      BY <3>1 DEF FwInv, FwTypeOK, Written, Inside, Wants, Matching
    <3>3. InStep'
      BY <3>1 DEF FwInv, InStep, Reached, Cut, unbounded
    <3>4. Seen'
      BY <3>1 DEF FwInv, Seen, Passed, IsOut, FoundBy, Matching, Wants
    <3> QED
      BY <3>2, <3>3, <3>4 DEF FwInv
  <2>2. CASE FwNext
    BY <2>2, NextHeaderKeeps, PassMemberKeeps, CreateMemberKeeps, WriteMemberKeeps,
       SkipPadKeeps DEF FwNext
  <2> QED
    BY <2>1, <2>2
<1>3. FwInv => MembersAreWhole
  BY FwWhole
<1> QED
  BY <1>1, <1>2, <1>3, PTL DEF FwSpec

-----------------------------------------------------------------------------
(* wget                                                                    *)

(* Places that follow one another lie in their order.                      *)
LEMMA Climbs ==
  ASSUME NEW n \in Nat, NEW lo, NEW hi,
         \A i \in 1..n : lo[i] \in Nat /\ hi[i] \in Nat /\ lo[i] <= hi[i],
         \A i \in 1..n : i > 1 => lo[i] = hi[i - 1]
  PROVE  \A i, j \in 1..n : i < j => hi[i] <= lo[j]
<1> SUFFICES ASSUME NEW i \in 1..n,
                    {j \in 1..n : i < j /\ ~(hi[i] <= lo[j])} # {}
             PROVE  FALSE
  OBVIOUS
<1> DEFINE Bad == {j \in 1..n : i < j /\ ~(hi[i] <= lo[j])}
<1>1. Bad \in SUBSET Nat /\ Bad # {}
  OBVIOUS
<1>2. \A j : j \in Bad <=> j \in 1..n /\ i < j /\ ~(hi[i] <= lo[j])
  OBVIOUS
<1> HIDE DEF Bad
<1>3. PICK j \in Bad : \A q \in Bad : j <= q
  BY <1>1, FirstIs
<1>4. j \in 1..n /\ i < j /\ ~(hi[i] <= lo[j])
  BY <1>2, <1>3
<1>5. j - 1 \in 1..n /\ j - 1 \notin Bad /\ (i = j - 1 \/ i < j - 1) /\ j > 1
  <2>1. j - 1 \in 1..n /\ (i = j - 1 \/ i < j - 1) /\ j > 1
    BY <1>4
  <2>2. j - 1 \notin Bad
    BY <1>3, <1>4
  <2> QED
    BY <2>1, <2>2
<1>6. lo[j] = hi[j - 1]
  BY <1>4, <1>5
<1>7. CASE i = j - 1
  <2>1. lo[j] = hi[i] /\ hi[i] \in Nat
    BY <1>6, <1>7
  <2> QED
    BY <1>4, <2>1
<1>8. CASE i < j - 1
  <2>1. hi[i] <= lo[j - 1]
    BY <1>2, <1>5, <1>8
  <2>2. lo[j - 1] <= hi[j - 1] /\ lo[j - 1] \in Nat /\ hi[j - 1] \in Nat /\ hi[i] \in Nat
    BY <1>5
  <2> QED
    BY <1>4, <1>6, <2>1, <2>2
<1> QED
  BY <1>5, <1>7, <1>8

\* where the chunks of a response lie, in its tokens and in the body
ChunksLie(cs, headers, size, tokens) ==
  /\ Len(cs) \in Nat \ {0} /\ DOMAIN cs = 1..Len(cs)
  /\ tokens = cs[Len(cs)].at + 1
  /\ \E i \in 1..Len(cs) : cs[i].at = headers + 1 /\ cs[i].from = 0
  /\ \A i \in 1..Len(cs) :
       /\ cs[i].at \in Nat /\ cs[i].from \in Nat /\ cs[i].size \in Nat
       /\ headers < cs[i].at /\ cs[i].at < tokens
       /\ cs[i].from + cs[i].size <= size
       /\ cs[i].size = 0 => cs[i].from = size
       /\ cs[i].size # 0 =>
            /\ cs[i].at + cs[i].size + 2 < tokens
            /\ \E k \in 1..Len(cs) : /\ cs[k].at = cs[i].at + cs[i].size + 2
                                     /\ cs[k].from = cs[i].from + cs[i].size
       /\ \A j \in 1..Len(cs) : i < j => cs[i].at + cs[i].size + 2 <= cs[j].at

ResponseSound(r) ==
  /\ r.code \in {"ok", "redirect", "error"}
  /\ r.framing \in {"chunked", "length", "close"}
  /\ r.headers \in Nat /\ r.size \in Nat
  /\ Tokens(r) \in Nat /\ r.headers < Tokens(r)
  /\ ~IsChunked(r) => Tokens(r) = r.headers + 1 + r.size
  /\ IsChunked(r) => ChunksLie(r.chunks, r.headers, r.size, Tokens(r))

LEMMA ChunksFollow ==
  ASSUME NEW j \in Journeys, NEW h \in DOMAIN j, IsChunked(j[h])
  PROVE  ChunksLie(j[h].chunks, j[h].headers, j[h].size, Tokens(j[h]))
<1>1. PICK cs, hs, sz : cs = j[h].chunks /\ hs = j[h].headers /\ sz = j[h].size
  OBVIOUS
<1>2. PICK n : n = Len(cs)
  OBVIOUS
<1>3. /\ hs \in Nat /\ sz \in Nat /\ n \in Nat \ {0} /\ DOMAIN cs = 1..n
      /\ cs[1].at = hs + 1 /\ cs[1].from = 0 /\ cs[n].from = sz
      /\ \A i \in 1..n :
           /\ cs[i].at \in Nat /\ cs[i].from \in Nat /\ cs[i].size \in Nat
           /\ cs[i].size = 0 <=> i = n
           /\ i > 1 => /\ cs[i].at = cs[i - 1].at + cs[i - 1].size + 2
                       /\ cs[i].from = cs[i - 1].from + cs[i - 1].size
  <2>1. Placed(cs, hs, sz) /\ hs \in Nat /\ sz \in Nat
    BY <1>1, WgetAssumption
  <2> QED
    BY <1>2, <2>1 DEF Placed
<1>4. PICK t : t = cs[n].at + 1
  OBVIOUS
<1>5. Tokens(j[h]) = t
  BY <1>1, <1>2, <1>4 DEF Tokens
<1>6. 1 \in 1..n /\ n \in 1..n
  BY <1>3
<1>7. \A i, k \in 1..n : i < k => cs[i].at + cs[i].size + 2 <= cs[k].at
  <2> DEFINE lo == [i \in 1..n |-> cs[i].at]
             hi == [i \in 1..n |-> cs[i].at + cs[i].size + 2]
  <2>1. \A i \in 1..n : lo[i] = cs[i].at /\ hi[i] = cs[i].at + cs[i].size + 2
    OBVIOUS
  <2> HIDE DEF lo, hi
  <2>2. \A i \in 1..n : lo[i] \in Nat /\ hi[i] \in Nat /\ lo[i] <= hi[i]
    <3> SUFFICES ASSUME NEW i \in 1..n PROVE lo[i] \in Nat /\ hi[i] \in Nat /\ lo[i] <= hi[i]
      OBVIOUS
    <3>1. cs[i].at \in Nat /\ cs[i].from \in Nat /\ cs[i].size \in Nat
      BY <1>3
    <3> QED
      BY <2>1, <3>1
  <2>3. \A i \in 1..n : i > 1 => lo[i] = hi[i - 1]
    <3> SUFFICES ASSUME NEW i \in 1..n, i > 1 PROVE lo[i] = hi[i - 1]
      OBVIOUS
    <3>1. i - 1 \in 1..n
      BY <1>3
    <3> QED
      BY <1>3, <2>1, <3>1
  <2>4. \A i, k \in 1..n : i < k => hi[i] <= lo[k]
    BY <1>3, <2>2, <2>3, Climbs
  <2> QED
    BY <2>1, <2>4
<1>8. \A i, k \in 1..n : i < k => cs[i].from + cs[i].size <= cs[k].from
  <2> DEFINE lo == [i \in 1..n |-> cs[i].from]
             hi == [i \in 1..n |-> cs[i].from + cs[i].size]
  <2>1. \A i \in 1..n : lo[i] = cs[i].from /\ hi[i] = cs[i].from + cs[i].size
    OBVIOUS
  <2> HIDE DEF lo, hi
  <2>2. \A i \in 1..n : lo[i] \in Nat /\ hi[i] \in Nat /\ lo[i] <= hi[i]
    <3> SUFFICES ASSUME NEW i \in 1..n PROVE lo[i] \in Nat /\ hi[i] \in Nat /\ lo[i] <= hi[i]
      OBVIOUS
    <3>1. cs[i].at \in Nat /\ cs[i].from \in Nat /\ cs[i].size \in Nat
      BY <1>3
    <3> QED
      BY <2>1, <3>1
  <2>3. \A i \in 1..n : i > 1 => lo[i] = hi[i - 1]
    <3> SUFFICES ASSUME NEW i \in 1..n, i > 1 PROVE lo[i] = hi[i - 1]
      OBVIOUS
    <3>1. i - 1 \in 1..n
      BY <1>3
    <3> QED
      BY <1>3, <2>1, <3>1
  <2>4. \A i, k \in 1..n : i < k => hi[i] <= lo[k]
    BY <1>3, <2>2, <2>3, Climbs
  <2> QED
    BY <2>1, <2>4
<1>9. ASSUME NEW i \in 1..n
      PROVE  /\ cs[i].at \in Nat /\ cs[i].from \in Nat /\ cs[i].size \in Nat
             /\ hs < cs[i].at /\ cs[i].at < t
             /\ cs[i].from + cs[i].size <= sz
             /\ cs[i].size = 0 => cs[i].from = sz
             /\ cs[i].size # 0 =>
                  /\ cs[i].at + cs[i].size + 2 < t
                  /\ \E k \in 1..n : /\ cs[k].at = cs[i].at + cs[i].size + 2
                                     /\ cs[k].from = cs[i].from + cs[i].size
             /\ \A k \in 1..n : i < k => cs[i].at + cs[i].size + 2 <= cs[k].at
  <2>1. /\ cs[i].at \in Nat /\ cs[i].from \in Nat /\ cs[i].size \in Nat
        /\ cs[1].at \in Nat /\ cs[n].at \in Nat /\ cs[1].size \in Nat
        /\ cs[i].size = 0 <=> i = n
    BY <1>3, <1>6
  <2>2. i = 1 \/ 1 < i
    OBVIOUS
  <2>3. i = n \/ i < n
    BY <1>3
  <2>4. hs < cs[i].at
    <3>1. CASE i = 1
      BY <1>3, <3>1
    <3>2. CASE 1 < i
      <4>1. cs[1].at + cs[1].size + 2 <= cs[i].at
        BY <1>6, <1>7, <3>2
      <4> QED
        BY <1>3, <2>1, <4>1
    <3> QED
      BY <2>2, <3>1, <3>2
  <2>5. i < n => cs[i].at + cs[i].size + 2 < t
    <3> SUFFICES ASSUME i < n PROVE cs[i].at + cs[i].size + 2 < t
      OBVIOUS
    <3>1. cs[i].at + cs[i].size + 2 <= cs[n].at
      BY <1>6, <1>7
    <3> QED
      BY <1>4, <2>1, <3>1
  <2>6. cs[i].at < t
    <3>1. CASE i = n
      BY <1>4, <2>1, <3>1
    <3>2. CASE i < n
      BY <1>4, <2>1, <2>5, <3>2
    <3> QED
      BY <2>3, <3>1, <3>2
  <2>7. cs[i].from + cs[i].size <= sz
    <3>1. CASE i = n
      BY <1>3, <2>1, <3>1
    <3>2. CASE i < n
      BY <1>3, <1>6, <1>8, <3>2
    <3> QED
      BY <2>3, <3>1, <3>2
  <2>8. cs[i].size = 0 => cs[i].from = sz
    BY <1>3, <2>1
  <2>9. cs[i].size # 0 => \E k \in 1..n : /\ cs[k].at = cs[i].at + cs[i].size + 2
                                          /\ cs[k].from = cs[i].from + cs[i].size
    <3> SUFFICES ASSUME cs[i].size # 0
                 PROVE  \E k \in 1..n : /\ cs[k].at = cs[i].at + cs[i].size + 2
                                        /\ cs[k].from = cs[i].from + cs[i].size
      OBVIOUS
    <3>1. i + 1 \in 1..n /\ i + 1 > 1 /\ (i + 1) - 1 = i
      BY <1>3, <2>1, <2>3
    <3>2. /\ cs[i + 1].at = cs[i].at + cs[i].size + 2
          /\ cs[i + 1].from = cs[i].from + cs[i].size
      BY <1>3, <3>1
    <3> QED
      BY <3>1, <3>2
  <2>10. cs[i].size # 0 => i < n
    BY <2>1, <2>3
  <2> QED
    BY <1>7, <2>1, <2>4, <2>5, <2>6, <2>7, <2>8, <2>9, <2>10
<1>10. \E i \in 1..n : cs[i].at = hs + 1 /\ cs[i].from = 0
  BY <1>3, <1>6
<1>11. ChunksLie(cs, hs, sz, t)
  BY <1>2, <1>3, <1>4, <1>9, <1>10 DEF ChunksLie
<1> QED
  BY <1>1, <1>5, <1>11

LEMMA ResponsesSound ==
  ASSUME NEW j \in Journeys, NEW h \in DOMAIN j
  PROVE  ResponseSound(j[h])
<1>1. PICK r : r = j[h]
  OBVIOUS
<1>2. /\ r.code \in {"ok", "redirect", "error"}
      /\ r.framing \in {"chunked", "length", "close"}
      /\ r.headers \in Nat /\ r.size \in Nat
  BY <1>1, WgetAssumption
<1>3. CASE IsChunked(r)
  <2>1. ChunksLie(r.chunks, r.headers, r.size, Tokens(r))
    BY <1>1, <1>3, ChunksFollow
  <2>2. PICK i \in 1..Len(r.chunks) : r.chunks[i].at = r.headers + 1
    BY <2>1 DEF ChunksLie
  <2>3. r.headers < r.chunks[i].at /\ r.chunks[i].at < Tokens(r) /\ r.chunks[i].at \in Nat
    BY <2>1, <2>2 DEF ChunksLie
  <2>4. Tokens(r) \in Nat
    <3>1. PICK m : m = Len(r.chunks)
      OBVIOUS
    <3>2. m \in 1..m /\ Tokens(r) = r.chunks[m].at + 1
      BY <2>1, <3>1 DEF ChunksLie
    <3>3. r.chunks[m].at \in Nat
      BY <2>1, <3>1, <3>2 DEF ChunksLie
    <3> QED
      BY <3>2, <3>3
  <2> QED
    BY <1>1, <1>2, <1>3, <2>1, <2>3, <2>4 DEF ResponseSound
<1>4. CASE ~IsChunked(r)
  <2>1. Tokens(r) = r.headers + 1 + r.size
    BY <1>4 DEF Tokens
  <2>2. Tokens(r) \in Nat /\ r.headers < Tokens(r)
    BY <1>2, <2>1
  <2> QED
    BY <1>1, <1>2, <1>4, <2>1, <2>2 DEF ResponseSound
<1> QED
  BY <1>3, <1>4

\* places of the reader in response r, u tokens taken and f written
PlainAt(r, u, f, c) ==
  \E n \in 0..r.size : /\ u = r.headers + 1 + n /\ f = Upto(n)
                       /\ r.framing = "length" => c = r.size - n
                       /\ r.framing = "close" => c = -1
SizeAt(r, u, f) ==
  \E i \in 1..Len(r.chunks) : u = r.chunks[i].at /\ f = Upto(r.chunks[i].from)
WithinAt(r, u, f, c, h) ==
  \E i \in 1..Len(r.chunks) :
    /\ c \in 1..r.chunks[i].size /\ h \in Nat /\ h < AtMost(c, TmpSize)
    /\ u = r.chunks[i].at + 1 + r.chunks[i].size - c + h
    /\ f = Upto(r.chunks[i].from + r.chunks[i].size - c)
EndAt(r, u, f) ==
  \E i \in 1..Len(r.chunks) :
    /\ r.chunks[i].size # 0
    /\ u = r.chunks[i].at + 1 + r.chunks[i].size
    /\ f = Upto(r.chunks[i].from + r.chunks[i].size)
Begun(r, f) == \E n \in 0..r.size : f = Upto(n)

WgTypeOK ==
  /\ journey \in Journeys /\ hop \in DOMAIN journey /\ hop = attempt + 1
  /\ attempt \in 0..MaxRedirects
  /\ coming \in Nat /\ recvd \in Nat /\ used \in Nat /\ held \in Nat /\ clen \in Int
  /\ wpc \in {"connect", "headers", "body", "chunk", "crlf", "done", "died"}
  /\ rcw \in {0, 1, 139} /\ cut \in BOOLEAN /\ wfaults \in Nat

\* a response comes up to its end, unless the connection was cut
Stream ==
  /\ cut => wfaults # 0
  /\ wpc \in {"headers", "body", "chunk", "crlf"} =>
       /\ attempt < MaxRedirects /\ used <= recvd /\ recvd <= coming
       /\ coming <= Tokens(Response)
       /\ cut \/ coming = Tokens(Response)

\* what was written is the body up to the place of the reader
AtPlace ==
  /\ wpc \in {"connect", "headers"} => file = Old
  /\ wpc = "headers" => used = 0
  /\ wpc \in {"connect", "headers", "body", "crlf"} => held = 0
  /\ wpc \in {"body", "chunk", "crlf"} => Response.code = "ok"
  /\ wpc = "body" => IF Chunked THEN SizeAt(Response, used, file)
                     ELSE PlainAt(Response, used, file, clen)
  /\ wpc = "chunk" => Chunked /\ WithinAt(Response, used, file, clen, held)
  /\ wpc = "crlf" => Chunked /\ EndAt(Response, used, file)

Outcome ==
  /\ wpc \in {"connect", "headers", "body", "chunk", "crlf"} => rcw = 0
  /\ file = Old \/ (Response.code = "ok" /\ Begun(Response, file))
  /\ wpc = "done" /\ rcw = 0 =>
       Response.code = "ok" /\ (file = Body(Response) \/ (cut /\ ~Chunked))
  /\ wpc = "done" /\ rcw = 1 /\ wfaults = 0 =>
       \/ Response.code = "error" \/ attempt = MaxRedirects
       \/ Response.code = "redirect" /\ ~Leads(Response)
       \/ Response.headers >= BufSize

WgInv == WgTypeOK /\ Stream /\ AtPlace /\ Outcome

LEMMA UptoIs ==
  ASSUME NEW n \in Nat
  PROVE  Upto(n) \in Seq(Nat) /\ Len(Upto(n)) = n /\ \A k \in 1..n : Upto(n)[k] = k
<1>1. Upto(n) \in [1..n -> Nat]
  BY DEF Upto
<1>2. Upto(n) \in Seq(Nat)
  BY <1>1
<1>3. DOMAIN Upto(n) = 1..n /\ \A k \in 1..n : Upto(n)[k] = k
  BY DEF Upto
<1>4. Len(Upto(n)) = n
  BY <1>2, <1>3, LenProperties
<1> QED
  BY <1>2, <1>3, <1>4

LEMMA UptoNothing == Upto(0) = <<>>
<1>1. Upto(0) \in Seq(Nat) /\ Len(Upto(0)) = 0
  BY UptoIs
<1> QED
  BY <1>1, EmptySeq

Onward(a, n) == [k \in 1..n |-> a + k]

LEMMA UptoGrows ==
  ASSUME NEW a \in Nat, NEW n \in Nat
  PROVE  Upto(a) \o Onward(a, n) = Upto(a + n)
<1>0. PICK us : us = Onward(a, n)
  OBVIOUS
<1>1. us \in Seq(Nat) /\ Len(us) = n /\ \A k \in 1..n : us[k] = a + k
  <2>1. us \in [1..n -> Nat]
    BY <1>0 DEF Onward
  <2>2. us \in Seq(Nat)
    BY <2>1
  <2>3. DOMAIN us = 1..n /\ \A k \in 1..n : us[k] = a + k
    BY <1>0 DEF Onward
  <2>4. Len(us) = n
    BY <2>2, <2>3, LenProperties
  <2> QED
    BY <2>2, <2>3, <2>4
<1>2. PICK s : s = Upto(a)
  OBVIOUS
<1>3. s \in Seq(Nat) /\ Len(s) = a /\ \A k \in 1..a : s[k] = k
  BY <1>2, UptoIs
<1>4. a + n \in Nat
  OBVIOUS
<1>5. /\ Upto(a + n) \in Seq(Nat) /\ Len(Upto(a + n)) = a + n
      /\ \A k \in 1..a + n : Upto(a + n)[k] = k
  BY <1>4, UptoIs
<1>6. /\ s \o us \in Seq(Nat) /\ Len(s \o us) = a + n
      /\ \A k \in 1..a + n : (s \o us)[k] = IF k <= a THEN s[k] ELSE us[k - a]
  BY <1>1, <1>3, ConcatProperties
<1>7. ASSUME NEW k \in 1..a + n PROVE (s \o us)[k] = k
  <2>1. CASE k <= a
    <3>1. k \in 1..a
      BY <2>1
    <3> QED
      BY <1>3, <1>6, <2>1, <3>1
  <2>2. CASE ~(k <= a)
    <3>1. k - a \in 1..n /\ a + (k - a) = k
      BY <2>2
    <3> QED
      BY <1>1, <1>6, <2>2, <3>1
  <2> QED
    BY <2>1, <2>2
<1> QED
  BY <1>0, <1>2, <1>5, <1>6, <1>7, SeqEqual

LEMMA UptoPrefix ==
  ASSUME NEW m \in Nat, NEW n \in 0..m
  PROVE  IsPrefix(Upto(n), Upto(m))
<1>1. Upto(n) \in Seq(Nat) /\ Len(Upto(n)) = n /\ \A k \in 1..n : Upto(n)[k] = k
  BY UptoIs
<1>2. Upto(m) \in Seq(Nat) /\ Len(Upto(m)) = m /\ \A k \in 1..m : Upto(m)[k] = k
  BY UptoIs
<1>3. \A k \in 1..n : k \in 1..m
  OBVIOUS
<1>4. SubSeq(Upto(m), 1, n) = [k \in 1..n |-> Upto(m)[k]]
  BY <1>2
<1>5. SubSeq(Upto(n), 1, n) = [k \in 1..n |-> Upto(n)[k]]
  BY <1>1
<1>6. [k \in 1..n |-> Upto(m)[k]] = [k \in 1..n |-> Upto(n)[k]]
  BY <1>1, <1>2, <1>3
<1> QED
  BY <1>1, <1>2, <1>4, <1>5, <1>6 DEF IsPrefix

(* What n units are that follow a others.                                  *)
LEMMA ContentsGrow ==
  ASSUME NEW u \in Int, NEW a \in Nat, NEW n \in Nat, file = Upto(a),
         \A k \in 1..n : BodyUnit(u + k - 1) = a + k
  PROVE  \A k \in 0..n : file \o Contents(u, k) = Upto(a + k)
<1> SUFFICES ASSUME NEW k \in 0..n PROVE file \o Contents(u, k) = Upto(a + k)
  OBVIOUS
<1>1. \A q \in 1..k : BodyUnit(u + q - 1) = a + q
  OBVIOUS
<1>2. Contents(u, k) = Onward(a, k)
  BY <1>1 DEF Contents, Onward
<1>3. k \in Nat
  OBVIOUS
<1> QED
  BY <1>2, <1>3, UptoGrows

LEMMA PlainUnits ==
  ASSUME ResponseSound(Response), ~Chunked, PlainAt(Response, used, file, clen),
         NEW n \in Nat, used + n <= Tokens(Response)
  PROVE  \E m \in 0..Response.size :
           /\ m + n <= Response.size
           /\ used = Response.headers + 1 + m /\ file = Upto(m)
           /\ Response.framing = "length" => clen = Response.size - m
           /\ Response.framing = "close" => clen = -1
           /\ \A k \in 0..n : file \o Contents(used, k) = Upto(m + k)
<1>1. PICK m \in 0..Response.size :
        /\ used = Response.headers + 1 + m /\ file = Upto(m)
        /\ Response.framing = "length" => clen = Response.size - m
        /\ Response.framing = "close" => clen = -1
  BY DEF PlainAt
<1>2. /\ Response.headers \in Nat /\ Response.size \in Nat /\ m \in Nat
      /\ Tokens(Response) = Response.headers + 1 + Response.size
  BY DEF ResponseSound, Chunked
<1>3. m + n <= Response.size
  BY <1>1, <1>2
<1>4. \A k \in 1..n : BodyUnit(used + k - 1) = m + k
  BY <1>1, <1>2 DEF BodyUnit
<1>5. \A k \in 0..n : file \o Contents(used, k) = Upto(m + k)
  <2>1. used \in Int
    BY <1>1, <1>2
  <2> QED
    BY <1>1, <1>2, <1>4, <2>1, ContentsGrow
<1> QED
  BY <1>1, <1>3, <1>5

LEMMA ChunkFound ==
  ASSUME ResponseSound(Response), Chunked, NEW i \in 1..Len(Response.chunks), NEW p \in Nat,
         Response.chunks[i].at < p, p <= Response.chunks[i].at + Response.chunks[i].size
  PROVE  BodyUnit(p) = Response.chunks[i].from + p - Response.chunks[i].at
<1>1. PICK cs : cs = Response.chunks
  OBVIOUS
<1>2. /\ DOMAIN cs = 1..Len(cs) /\ Len(cs) \in Nat
      /\ \A k \in 1..Len(cs) :
           /\ cs[k].at \in Nat /\ cs[k].size \in Nat
           /\ \A j \in 1..Len(cs) : k < j => cs[k].at + cs[k].size + 2 <= cs[j].at
  BY <1>1 DEF ResponseSound, Chunked, ChunksLie
<1>3. ASSUME NEW j \in 1..Len(cs), cs[j].at < p, p <= cs[j].at + cs[j].size PROVE j = i
  <2>1. i \in 1..Len(cs) /\ cs[i].at < p /\ p <= cs[i].at + cs[i].size
    BY <1>1
  <2>2. /\ cs[i].at \in Nat /\ cs[i].size \in Nat /\ cs[j].at \in Nat /\ cs[j].size \in Nat
    BY <1>2, <2>1
  <2>3. ~(i < j)
    <3> SUFFICES ASSUME i < j PROVE FALSE
      OBVIOUS
    <3>1. cs[i].at + cs[i].size + 2 <= cs[j].at
      BY <1>2, <2>1
    <3> QED
      BY <1>3, <2>1, <2>2, <3>1
  <2>4. ~(j < i)
    <3> SUFFICES ASSUME j < i PROVE FALSE
      OBVIOUS
    <3>1. cs[j].at + cs[j].size + 2 <= cs[i].at
      BY <1>2, <2>1
    <3> QED
      BY <1>3, <2>1, <2>2, <3>1
  <2> QED
    BY <1>2, <2>1, <2>3, <2>4
<1>4. ChunkOf(p) = {i}
  BY <1>1, <1>2, <1>3 DEF ChunkOf
<1> QED
  BY <1>4 DEF BodyUnit

LEMMA InPlace ==
  ASSUME NEW at \in Nat, NEW from \in Nat, NEW sz \in Nat, NEW c \in 1..sz, NEW k \in 1..c
  PROVE  LET p == at + 1 + sz - c + k - 1
         IN  /\ p \in Nat /\ at < p /\ p <= at + sz
             /\ from + p - at = from + sz - c + k
OBVIOUS

LEMMA ChunkUnits ==
  ASSUME ResponseSound(Response), Chunked, NEW i \in 1..Len(Response.chunks),
         NEW c \in 1..Response.chunks[i].size, NEW n \in Nat, n <= c,
         file = Upto(Response.chunks[i].from + Response.chunks[i].size - c)
  PROVE  \A k \in 0..n :
           file \o Contents(Response.chunks[i].at + 1 + Response.chunks[i].size - c, k)
             = Upto(Response.chunks[i].from + Response.chunks[i].size - c + k)
<1>1. PICK at, from, sz : /\ at = Response.chunks[i].at /\ from = Response.chunks[i].from
                          /\ sz = Response.chunks[i].size
  OBVIOUS
<1>2. /\ at \in Nat /\ from \in Nat /\ sz \in Nat /\ c \in 1..sz
  BY <1>1 DEF ResponseSound, Chunked, ChunksLie
<1>3. PICK a, u : a = from + sz - c /\ u = at + 1 + sz - c
  OBVIOUS
<1>4. a \in Nat /\ u \in Nat
  BY <1>2, <1>3
<1>5. ASSUME NEW k \in 1..n PROVE BodyUnit(u + k - 1) = a + k
  <2>1. PICK p : p = u + k - 1
    OBVIOUS
  <2>2. k \in 1..c
    BY <1>2
  <2>3. p \in Nat /\ at < p /\ p <= at + sz /\ from + p - at = a + k
    BY <1>2, <1>3, <2>1, <2>2, InPlace
  <2>4. BodyUnit(p) = from + p - at
    BY <1>1, <2>3, ChunkFound
  <2> QED
    BY <2>1, <2>3, <2>4
<1>6. u \in Int /\ file = Upto(a)
  BY <1>1, <1>3, <1>4
<1>7. \A k \in 0..n : file \o Contents(u, k) = Upto(a + k)
  BY <1>4, <1>5, <1>6, ContentsGrow
<1> QED
  BY <1>1, <1>3, <1>7

LEMMA WgStarts == WgetInit => WgInv
<1> SUFFICES ASSUME WgetInit PROVE WgInv
  OBVIOUS
<1>1. WgTypeOK
  <2>1. journey \in Journeys /\ hop = 1
    BY DEF WgetInit
  <2>2. hop \in DOMAIN journey /\ 0 \in 0..MaxRedirects
    BY <2>1, WgetAssumption
  <2>3. hop \in DOMAIN journey /\ hop = attempt + 1 /\ attempt \in 0..MaxRedirects
    BY <2>1, <2>2 DEF WgetInit
  <2>4. /\ coming \in Nat /\ recvd \in Nat /\ used \in Nat /\ held \in Nat
        /\ clen \in Int /\ wfaults \in Nat
    BY DEF WgetInit
  <2>5. wpc = "connect" /\ rcw = 0 /\ cut = FALSE
    BY DEF WgetInit
  <2> QED
    BY <2>1, <2>3, <2>4, <2>5 DEF WgTypeOK
<1>2. Stream /\ AtPlace /\ Outcome
  BY DEF WgetInit, Stream, AtPlace, Outcome
<1> QED
  BY <1>1, <1>2 DEF WgInv

LEMMA ResponseIsSound == ASSUME WgTypeOK PROVE ResponseSound(Response)
  BY ResponsesSound DEF WgTypeOK, Response

LEMMA SameResponse ==
  ASSUME Conn PROVE Response' = Response /\ (Chunked' <=> Chunked) /\ (attempt' = attempt)
  BY DEF Conn, Response, Chunked

\* why a run without a failing call ends with status 1
Reason ==
  \/ Response.code = "error" \/ attempt = MaxRedirects
  \/ Response.code = "redirect" /\ ~Leads(Response)
  \/ Response.headers >= BufSize

LEMMA GivesUp ==
  ASSUME WgInv, Conn, GiveUp, cut' = cut,
         coming' \in Nat, recvd' \in Nat, used' \in Nat, held' \in Nat, clen' \in Int,
         wfaults' \in Nat, wfaults # 0 => wfaults' # 0, wfaults' # 0 \/ Reason,
         file' = Old \/ (Response.code = "ok" /\ Begun(Response, file'))
  PROVE  WgInv'
<1>1. Response' = Response /\ attempt' = attempt
  BY SameResponse
<1>2. WgTypeOK'
  BY DEF WgInv, WgTypeOK, Conn, GiveUp
<1>3. Stream' /\ AtPlace'
  BY DEF WgInv, Stream, AtPlace, GiveUp
<1>4. Outcome'
  BY <1>1 DEF Outcome, GiveUp, Reason
<1> QED
  BY <1>2, <1>3, <1>4 DEF WgInv

LEMMA SendRequestKeeps == ASSUME WgInv, SendRequest PROVE WgInv'
<1>1. WgTypeOK /\ ResponseSound(Response)
  BY ResponseIsSound DEF WgInv
<1>2. Conn /\ held = 0 /\ held' = 0 /\ file = Old /\ wpc = "connect" /\ attempt < MaxRedirects
  BY DEF WgInv, AtPlace, SendRequest, Calm
<1>3. Response' = Response /\ attempt' = attempt
  BY <1>2, SameResponse
<1>4. CASE /\ wpc' = "headers" /\ coming' = Tokens(Response) /\ recvd' = 0 /\ used' = 0
           /\ UNCHANGED <<rcw, wfaults, clen, file, cut>>
  <2>1. Tokens(Response) \in Nat
    BY <1>1 DEF ResponseSound
  <2>2. WgTypeOK'
    BY <1>1, <1>2, <1>4, <2>1 DEF WgTypeOK, Conn
  <2>3. Stream'
    BY <1>2, <1>3, <1>4, <2>1 DEF WgInv, Stream
  <2>4. AtPlace'
    BY <1>2, <1>4 DEF AtPlace
  <2>5. Outcome'
    BY <1>2, <1>4 DEF WgInv, Outcome
  <2> QED
    BY <2>2, <2>3, <2>4, <2>5 DEF WgInv
<1>5. CASE Fault /\ GiveUp /\ UNCHANGED <<coming, recvd, used, clen, file, cut>>
  BY <1>1, <1>2, <1>5, GivesUp DEF Fault, WgTypeOK
<1> QED
  BY <1>4, <1>5 DEF SendRequest

LEMMA TooManyKeeps == ASSUME WgInv, TooManyRedirects PROVE WgInv'
<1>1. WgTypeOK /\ Conn /\ held' = held /\ file = Old /\ GiveUp
  BY DEF WgInv, AtPlace, TooManyRedirects, Calm
<1>2. attempt = MaxRedirects
  BY WgetAssumption DEF WgInv, WgTypeOK, TooManyRedirects
<1>3. Reason
  BY <1>2 DEF Reason
<1> QED
  BY <1>1, <1>3, GivesUp DEF TooManyRedirects, WgTypeOK

LEMMA BreakKeeps == ASSUME WgInv, Break PROVE WgInv'
<1>1. /\ WgTypeOK /\ Conn /\ held' = held /\ recvd < coming /\ coming' = recvd /\ cut' = TRUE
      /\ wfaults' = wfaults + 1 /\ UNCHANGED <<recvd, used, clen, wpc, file, rcw>>
      /\ wpc \in {"headers", "body", "chunk", "crlf"}
  BY DEF WgInv, Break, Fault, Calm
<1>2. Response' = Response /\ attempt' = attempt /\ (Chunked' <=> Chunked)
  BY <1>1, SameResponse
<1>3. WgTypeOK'
  BY <1>1 DEF WgTypeOK, Conn
<1>4. Stream'
  <2>1. /\ attempt < MaxRedirects /\ used <= recvd /\ coming <= Tokens(Response)
    BY <1>1 DEF WgInv, Stream
  <2>2. recvd <= Tokens(Response)
    <3>1. Tokens(Response) \in Nat
      BY <1>1, ResponseIsSound DEF ResponseSound
    <3> QED
      BY <1>1, <2>1, <3>1 DEF WgTypeOK
  <2>3. wfaults' # 0 /\ recvd <= recvd
    BY <1>1 DEF WgTypeOK
  <2> QED
    BY <1>1, <1>2, <2>1, <2>2, <2>3 DEF Stream
<1>5. AtPlace'
  BY <1>1, <1>2 DEF WgInv, AtPlace
<1>6. Outcome'
  BY <1>1, <1>2 DEF WgInv, Outcome
<1> QED
  BY <1>3, <1>4, <1>5, <1>6 DEF WgInv

(* What a receive adds changes nothing else.                               *)
LEMMA ReceiveKeeps ==
  ASSUME WgInv, Conn, NEW room \in Int, Receive(room),
         wpc \in {"headers", "body", "chunk", "crlf"},
         UNCHANGED <<coming, used, held, clen, wpc, file, rcw, cut, wfaults>>
  PROVE  WgInv'
<1>1. PICK n \in 1..room : n <= coming - recvd /\ recvd' = recvd + n
  BY DEF Receive
<1>2. Response' = Response /\ attempt' = attempt /\ (Chunked' <=> Chunked)
  BY SameResponse
<1>3. WgTypeOK
  BY DEF WgInv
<1>4. recvd' \in Nat /\ recvd' <= coming /\ recvd <= recvd'
  BY <1>1, <1>3 DEF WgTypeOK
<1>5. WgTypeOK'
  BY <1>3, <1>4 DEF WgTypeOK, Conn
<1>6. Stream'
  <2>1. /\ attempt < MaxRedirects /\ used <= recvd /\ coming <= Tokens(Response)
        /\ (cut \/ coming = Tokens(Response)) /\ (cut => wfaults # 0)
    BY DEF WgInv, Stream
  <2>2. used <= recvd'
    BY <1>3, <1>4, <2>1 DEF WgTypeOK
  <2> QED
    BY <1>2, <1>4, <2>1, <2>2 DEF Stream
<1>7. AtPlace'
  BY <1>2 DEF WgInv, AtPlace
<1>8. Outcome'
  BY <1>2 DEF WgInv, Outcome
<1> QED
  BY <1>5, <1>6, <1>7, <1>8 DEF WgInv

LEMMA MoreHeadersKeeps == ASSUME WgInv, MoreHeaders PROVE WgInv'
<1>1. /\ WgTypeOK /\ Conn /\ held' = held /\ wpc = "headers" /\ ~(recvd > Response.headers)
      /\ UNCHANGED <<coming, used, clen, file, cut>> /\ file = Old /\ used = 0
  BY DEF WgInv, AtPlace, MoreHeaders, HeadersIn, Calm
<1>2. ResponseSound(Response)
  BY <1>1, ResponseIsSound
<1>3. CASE Receive(BufSize - Buffered) /\ UNCHANGED <<wpc, rcw, wfaults>>
  <2>1. BufSize - Buffered \in Int
    BY <1>1, WgetAssumption DEF WgTypeOK, Buffered
  <2> QED
    BY <1>1, <1>3, <2>1, ReceiveKeeps
<1>4. CASE (recvd = coming \/ Buffered >= BufSize) /\ GiveUp /\ UNCHANGED <<recvd, wfaults>>
  <2>1. ASSUME wfaults = 0 PROVE Reason
    <3>1. coming = Tokens(Response)
      BY <1>1, <2>1 DEF WgInv, Stream
    <3>2. /\ Response.headers \in Nat /\ Tokens(Response) \in Nat
          /\ Response.headers < Tokens(Response)
      BY <1>2 DEF ResponseSound
    <3>3. recvd \in Nat /\ BufSize \in Nat /\ Buffered = recvd - 0
      BY <1>1, WgetAssumption DEF WgTypeOK, Buffered
    <3>4. Response.headers >= BufSize
      BY <1>1, <1>4, <3>1, <3>2, <3>3
    <3> QED
      BY <3>4 DEF Reason
  <2>2. wfaults' # 0 \/ Reason
    BY <1>4, <2>1
  <2> QED
    BY <1>1, <1>4, <2>2, GivesUp DEF WgTypeOK
<1>5. CASE Fault /\ GiveUp /\ UNCHANGED recvd
  BY <1>1, <1>5, GivesUp DEF Fault, WgTypeOK
<1> QED
  BY <1>3, <1>4, <1>5 DEF MoreHeaders

LEMMA RedirectKeeps == ASSUME WgInv, Redirect PROVE WgInv'
<1>1. /\ WgTypeOK /\ wpc = "headers" /\ file = Old /\ Response.code = "redirect"
      /\ attempt < MaxRedirects /\ rcw = 0
      /\ UNCHANGED <<journey, coming, recvd, used, held, clen, file, cut, wfaults>>
  BY DEF WgInv, AtPlace, Stream, Outcome, Redirect
<1>2. CASE /\ Leads(Response) /\ hop' = hop + 1 /\ attempt' = attempt + 1
           /\ wpc' = "connect" /\ UNCHANGED rcw
  <2>1. hop <= MaxRedirects /\ attempt' \in 0..MaxRedirects /\ hop' = attempt' + 1
    BY <1>1, <1>2, WgetAssumption DEF WgTypeOK
  <2>2. hop + 1 \in DOMAIN journey
    <3>1. journey \in Journeys /\ hop \in DOMAIN journey
      BY <1>1 DEF WgTypeOK
    <3> QED
      BY <1>2, <2>1, <3>1, WgetAssumption DEF Response
  <2>3. WgTypeOK'
    BY <1>1, <1>2, <2>1, <2>2 DEF WgTypeOK
  <2>4. Stream' /\ AtPlace' /\ Outcome'
    BY <1>1, <1>2 DEF WgInv, Stream, AtPlace, Outcome
  <2> QED
    BY <2>3, <2>4 DEF WgInv
<1>3. CASE ~Leads(Response) /\ GiveUp /\ UNCHANGED <<hop, attempt>>
  <2>1. Reason
    BY <1>1, <1>3 DEF Reason
  <2> QED
    BY <1>1, <1>3, <2>1, GivesUp DEF Conn, WgTypeOK
<1> QED
  BY <1>2, <1>3 DEF Redirect

LEMMA HttpErrorKeeps == ASSUME WgInv, HttpError PROVE WgInv'
<1>1. /\ WgTypeOK /\ Conn /\ held' = held /\ GiveUp /\ file = Old /\ Reason
      /\ UNCHANGED <<coming, recvd, used, clen, file, cut, wfaults>>
  BY DEF WgInv, AtPlace, HttpError, Reason, Calm
<1> QED
  BY <1>1, GivesUp DEF WgTypeOK

LEMMA OpenOutputKeeps == ASSUME WgInv, OpenOutput PROVE WgInv'
<1>1. /\ WgTypeOK /\ Conn /\ held' = held /\ wpc = "headers"
      /\ recvd > Response.headers /\ file = Old
      /\ Response.code = "ok" /\ used' = Response.headers + 1
      /\ UNCHANGED <<coming, recvd, cut>> /\ rcw = 0 /\ held = 0
  BY DEF WgInv, AtPlace, Outcome, OpenOutput, HeadersIn, Calm
<1>2. ResponseSound(Response)
  BY <1>1, ResponseIsSound
<1>3. /\ Response.headers \in Nat /\ Response.size \in Nat
      /\ Response.framing \in {"chunked", "length", "close"}
  BY <1>2 DEF ResponseSound
<1>4. /\ Response.framing = "length" => clen' = Response.size
      /\ Response.framing = "close" => clen' = -1
      /\ clen' \in Int
  BY <1>3 DEF OpenOutput
<1>5. Response' = Response /\ attempt' = attempt /\ (Chunked' <=> Chunked)
  BY <1>1, SameResponse
<1>6. CASE wpc' = "body" /\ file' = <<>> /\ UNCHANGED <<rcw, wfaults>>
  <2>1. WgTypeOK'
    BY <1>1, <1>3, <1>4, <1>6 DEF WgTypeOK, Conn
  <2>2. Stream'
    <3>1. /\ attempt < MaxRedirects /\ recvd <= coming /\ coming <= Tokens(Response)
          /\ (cut \/ coming = Tokens(Response)) /\ (cut => wfaults # 0)
      BY <1>1 DEF WgInv, Stream
    <3>2. used' <= recvd
      BY <1>1, <1>3 DEF WgTypeOK
    <3> QED
      BY <1>1, <1>5, <1>6, <3>1, <3>2 DEF Stream
  <2>3. file' = Upto(0)
    BY <1>6, UptoNothing
  <2>4. AtPlace'
    <3>1. CASE Chunked
      <4>1. PICK i \in 1..Len(Response.chunks) :
              Response.chunks[i].at = Response.headers + 1 /\ Response.chunks[i].from = 0
        BY <1>2, <3>1 DEF ResponseSound, Chunked, ChunksLie
      <4>2. SizeAt(Response, used', file')
        BY <1>1, <2>3, <4>1 DEF SizeAt
      <4> QED
        BY <1>1, <1>5, <1>6, <3>1, <4>2 DEF AtPlace
    <3>2. CASE ~Chunked
      <4>1. 0 \in 0..Response.size /\ used' = Response.headers + 1 + 0 /\ Response.size = Response.size - 0
        BY <1>1, <1>3
      <4>2. PlainAt(Response, used', file', clen')
        BY <1>4, <2>3, <4>1 DEF PlainAt
      <4> QED
        BY <1>1, <1>5, <1>6, <3>2, <4>2 DEF AtPlace
    <3> QED
      BY <3>1, <3>2
  <2>5. Outcome'
    <3>1. 0 \in 0..Response.size
      BY <1>3
    <3>2. Begun(Response, file')
      BY <2>3, <3>1 DEF Begun
    <3> QED
      BY <1>1, <1>5, <1>6, <3>2 DEF Outcome
  <2> QED
    BY <2>1, <2>2, <2>4, <2>5 DEF WgInv
<1>7. CASE Fault /\ GiveUp /\ UNCHANGED file
  <2>1. used' \in Nat
    BY <1>1, <1>3
  <2> QED
    BY <1>1, <1>4, <1>7, <2>1, GivesUp DEF Fault, WgTypeOK
<1> QED
  BY <1>6, <1>7 DEF OpenOutput

(* A step that ends the run with status 0.                                 *)
LEMMA Finishes ==
  ASSUME WgInv, Conn, wpc' = "done", rcw = 0, UNCHANGED <<coming, recvd, rcw, cut, wfaults>>,
         used' \in Nat, held' \in Nat, clen' \in Int, Response.code = "ok", Begun(Response, file'),
         file' = Body(Response) \/ (cut /\ ~Chunked)
  PROVE  WgInv'
<1>1. Response' = Response /\ attempt' = attempt /\ (Chunked' <=> Chunked)
  BY SameResponse
<1>2. WgTypeOK'
  BY DEF WgInv, WgTypeOK, Conn
<1>3. Stream' /\ AtPlace'
  BY DEF WgInv, Stream, AtPlace
<1>4. Outcome'
  BY <1>1 DEF Outcome
<1> QED
  BY <1>2, <1>3, <1>4 DEF WgInv

(* A step to another place of the body.                                    *)
LEMMA Advances ==
  ASSUME WgInv, Conn, wpc \in {"body", "chunk", "crlf"}, wpc' \in {"body", "chunk", "crlf"},
         UNCHANGED <<coming, recvd, rcw, cut, wfaults>>,
         used' \in Nat, used' <= recvd, held' \in Nat, clen' \in Int, Begun(Response, file'),
         wpc' # "chunk" => held' = 0,
         wpc' = "body" => IF Chunked THEN SizeAt(Response, used', file')
                          ELSE PlainAt(Response, used', file', clen'),
         wpc' = "chunk" => Chunked /\ WithinAt(Response, used', file', clen', held'),
         wpc' = "crlf" => Chunked /\ EndAt(Response, used', file')
  PROVE  WgInv'
<1>1. Response' = Response /\ attempt' = attempt /\ (Chunked' <=> Chunked)
  BY SameResponse
<1>2. WgTypeOK'
  BY DEF WgInv, WgTypeOK, Conn
<1>3. Stream'
  BY <1>1 DEF WgInv, Stream
<1>4. Response.code = "ok"
  BY DEF WgInv, AtPlace
<1>5. AtPlace'
  BY <1>1, <1>4 DEF AtPlace
<1>6. Outcome'
  BY <1>1, <1>4 DEF WgInv, Outcome
<1> QED
  BY <1>2, <1>3, <1>5, <1>6 DEF WgInv

(* While a body is chunked there is always more to come.                   *)
LEMMA ChunkedGoesOn ==
  ASSUME WgInv, Chunked, wpc \in {"body", "chunk", "crlf"}
  PROVE  used < Tokens(Response)
<1>1. WgTypeOK /\ ResponseSound(Response)
  BY ResponseIsSound DEF WgInv
<1>2. PICK cs, t : cs = Response.chunks /\ t = Tokens(Response)
  OBVIOUS
<1>3. /\ t \in Nat
      /\ \A i \in 1..Len(cs) :
           /\ cs[i].at \in Nat /\ cs[i].size \in Nat /\ cs[i].at < t
           /\ cs[i].size # 0 => cs[i].at + cs[i].size + 2 < t
  BY <1>1, <1>2 DEF ResponseSound, Chunked, ChunksLie
<1>4. CASE wpc = "body"
  <2>1. PICK i \in 1..Len(cs) : used = cs[i].at
    BY <1>2, <1>4 DEF WgInv, AtPlace, SizeAt
  <2> QED
    BY <1>2, <1>3, <2>1
<1>5. CASE wpc = "chunk"
  <2>1. PICK i \in 1..Len(cs) :
          /\ clen \in 1..cs[i].size /\ held \in Nat /\ held < AtMost(clen, TmpSize)
          /\ used = cs[i].at + 1 + cs[i].size - clen + held
    BY <1>2, <1>5 DEF WgInv, AtPlace, WithinAt
  <2>2. cs[i].at \in Nat /\ cs[i].size \in Nat
    BY <1>3
  <2>3. cs[i].size # 0
    BY <2>1, <2>2
  <2>4. cs[i].at + cs[i].size + 2 < t
    BY <1>3, <2>3
  <2>5. PICK a, z : a = cs[i].at /\ z = cs[i].size
    OBVIOUS
  <2>6. /\ a + z + 2 < t /\ clen \in 1..z /\ used = a + 1 + z - clen + held
        /\ a \in Nat /\ z \in Nat /\ held \in Nat /\ held < clen
    <3>1. held < clen
      BY <2>1, <2>2, WgetAssumption DEF AtMost
    <3> QED
      BY <2>1, <2>2, <2>4, <2>5, <3>1
  <2>7. used < t
    BY <1>3, <2>6
  <2> QED
    BY <1>2, <2>7
<1>6. CASE wpc = "crlf"
  <2>1. PICK i \in 1..Len(cs) : cs[i].size # 0 /\ used = cs[i].at + 1 + cs[i].size
    BY <1>2, <1>6 DEF WgInv, AtPlace, EndAt
  <2>2. cs[i].at \in Nat /\ cs[i].size \in Nat /\ cs[i].at + cs[i].size + 2 < t
    BY <1>3, <2>1
  <2> QED
    BY <1>2, <1>3, <2>1, <2>2
<1> QED
  BY <1>4, <1>5, <1>6

LEMMA FillKeeps == ASSUME WgInv, wbuf_fill PROVE WgInv'
<1>1. /\ WgTypeOK /\ Conn /\ held' = held /\ wpc \in {"body", "chunk", "crlf"} /\ Buffered = 0
      /\ UNCHANGED <<coming, used, clen, file, cut>> /\ rcw = 0
  BY DEF WgInv, Outcome, wbuf_fill, Calm
<1>2. ResponseSound(Response) /\ Response.code = "ok"
  BY <1>1, ResponseIsSound DEF WgInv, AtPlace
<1>3. file = Old \/ (Response.code = "ok" /\ Begun(Response, file))
  BY DEF WgInv, Outcome
<1>4. /\ recvd \in Nat /\ used \in Nat /\ coming \in Nat /\ clen \in Int /\ wfaults \in Nat
      /\ recvd = used /\ held \in Nat
  BY <1>1 DEF WgTypeOK, Buffered
<1>5. CASE Receive(BufSize) /\ UNCHANGED <<wpc, rcw, wfaults>>
  <2>1. BufSize \in Int
    BY WgetAssumption
  <2> QED
    BY <1>1, <1>5, <2>1, ReceiveKeeps
<1>6. CASE recvd = coming /\ UNCHANGED <<recvd, wfaults>> /\ Chunked /\ GiveUp
  <2>1. used < Tokens(Response) /\ Tokens(Response) \in Nat
    BY <1>1, <1>2, <1>6, ChunkedGoesOn DEF ResponseSound
  <2>2. coming # Tokens(Response)
    BY <1>4, <1>6, <2>1
  <2>3. wfaults # 0
    BY <1>1, <2>2 DEF WgInv, Stream
  <2> QED
    BY <1>1, <1>3, <1>4, <1>6, <2>3, GivesUp
<1>7. CASE recvd = coming /\ UNCHANGED <<recvd, wfaults>> /\ ~Chunked /\ wpc' = "done" /\ UNCHANGED rcw
  <2>1. wpc = "body"
    BY <1>1, <1>7 DEF WgInv, AtPlace
  <2>2. PICK n \in 0..Response.size : used = Response.headers + 1 + n /\ file = Upto(n)
    BY <1>7, <2>1 DEF WgInv, AtPlace, PlainAt
  <2>3. Begun(Response, file')
    BY <1>1, <2>2 DEF Begun
  <2>4. ASSUME ~cut PROVE file' = Body(Response)
    <3>1. coming = Tokens(Response)
      BY <1>1, <2>4 DEF WgInv, Stream
    <3>2. Tokens(Response) = Response.headers + 1 + Response.size
      BY <1>2, <1>7 DEF ResponseSound, Chunked
    <3>3. Response.headers \in Nat /\ Response.size \in Nat
      BY <1>2 DEF ResponseSound
    <3>4. used = Response.headers + 1 + Response.size
      BY <1>4, <1>7, <3>1, <3>2
    <3>5. PICK h, z : h = Response.headers /\ z = Response.size
      OBVIOUS
    <3>6. h \in Nat /\ z \in Nat /\ n \in 0..z /\ h + 1 + n = h + 1 + z
      BY <2>2, <3>3, <3>4, <3>5
    <3>7. n = z
      BY <3>6
    <3> QED
      BY <1>1, <2>2, <3>5, <3>7 DEF Body
  <2> QED
    BY <1>1, <1>2, <1>4, <1>7, <2>3, <2>4, Finishes
<1>8. CASE Fault /\ GiveUp /\ UNCHANGED recvd
  <2>1. wfaults' \in Nat /\ wfaults' # 0
    BY <1>4, <1>8 DEF Fault
  <2> QED
    BY <1>1, <1>3, <1>4, <1>8, <2>1, GivesUp
<1> QED
  BY <1>5, <1>6, <1>7, <1>8 DEF wbuf_fill

LEMMA ChunkSizeKeeps == ASSUME WgInv, ChunkSize PROVE WgInv'
<1>1. /\ WgTypeOK /\ Conn /\ held' = held /\ wpc = "body" /\ Chunked /\ Buffered > 0 /\ used' = used + 1
      /\ UNCHANGED <<coming, recvd, file, rcw, cut, wfaults>> /\ rcw = 0
      /\ Response.code = "ok"
  BY DEF WgInv, Outcome, AtPlace, ChunkSize, Calm
<1>2. ResponseSound(Response)
  BY <1>1, ResponseIsSound
<1>3. PICK cs : cs = Response.chunks
  OBVIOUS
<1>4. /\ DOMAIN cs = 1..Len(cs) /\ Len(cs) \in Nat
      /\ \A k \in 1..Len(cs) :
           /\ cs[k].at \in Nat /\ cs[k].size \in Nat /\ cs[k].from \in Nat
           /\ cs[k].from + cs[k].size <= Response.size
           /\ cs[k].size = 0 => cs[k].from = Response.size
           /\ \A j \in 1..Len(cs) : k < j => cs[k].at + cs[k].size + 2 <= cs[j].at
  BY <1>1, <1>2, <1>3 DEF ResponseSound, Chunked, ChunksLie
<1>5. PICK i \in 1..Len(cs) : used = cs[i].at /\ file = Upto(cs[i].from)
  BY <1>1, <1>3 DEF WgInv, AtPlace, SizeAt
<1>6. PICK at, from, sz : at = cs[i].at /\ from = cs[i].from /\ sz = cs[i].size
  OBVIOUS
<1>7. /\ at \in Nat /\ from \in Nat /\ sz \in Nat /\ from + sz <= Response.size
      /\ (sz = 0 => from = Response.size) /\ Response.size \in Nat
  BY <1>2, <1>4, <1>6 DEF ResponseSound
<1>8. ASSUME NEW j \in 1..Len(cs), cs[j].at = used PROVE j = i
  <2>1. /\ cs[j].at \in Nat /\ cs[j].size \in Nat
    BY <1>4
  <2>2. ~(i < j)
    <3> SUFFICES ASSUME i < j PROVE FALSE
      OBVIOUS
    <3>1. at + sz + 2 <= cs[j].at
      BY <1>4, <1>6
    <3> QED
      BY <1>5, <1>6, <1>7, <1>8, <3>1
  <2>3. ~(j < i)
    <3> SUFFICES ASSUME j < i PROVE FALSE
      OBVIOUS
    <3>1. cs[j].at + cs[j].size + 2 <= at
      BY <1>4, <1>6
    <3> QED
      BY <1>5, <1>6, <1>7, <1>8, <2>1, <3>1
  <2> QED
    BY <1>4, <2>2, <2>3
<1>9. ChunkAt(used) = {i}
  BY <1>3, <1>4, <1>5, <1>8 DEF ChunkAt
<1>10. clen' = sz /\ wpc' = IF clen' = 0 THEN "done" ELSE "chunk"
  BY <1>3, <1>6, <1>9 DEF ChunkSize
<1>11. /\ used' \in Nat /\ used' <= recvd /\ clen' \in Int /\ from \in 0..Response.size
  BY <1>1, <1>7, <1>10 DEF WgTypeOK, Buffered
<1>12. file' = Upto(from) /\ Begun(Response, file')
  BY <1>1, <1>5, <1>6, <1>11 DEF Begun
<1>13. CASE sz = 0
  <2>1. file' = Body(Response)
    BY <1>7, <1>12, <1>13 DEF Body
  <2> QED
    BY <1>1, <1>10, <1>11, <1>12, <1>13, <2>1, Finishes DEF WgTypeOK
<1>14. CASE sz # 0
  <2>1. wpc' = "chunk"
    BY <1>10, <1>14
  <2>2. /\ clen' \in 1..sz /\ used' = at + 1 + sz - clen' + held'
        /\ from + sz - clen' = from /\ held' = 0
    <3>1. held' = 0
      BY <1>1 DEF WgInv, AtPlace
    <3> QED
      BY <1>1, <1>5, <1>6, <1>7, <1>10, <1>14, <3>1
  <2>3. held' \in Nat /\ held' < AtMost(clen', TmpSize)
    <3>1. TmpSize \in Nat \ {0} /\ clen' \in Nat \ {0}
      BY <1>7, <2>2, WgetAssumption
    <3> QED
      BY <2>2, <3>1 DEF AtMost
  <2>4. WithinAt(Response, used', file', clen', held')
    BY <1>3, <1>6, <1>12, <2>2, <2>3 DEF WithinAt
  <2> QED
    BY <1>1, <1>11, <1>12, <2>1, <2>3, <2>4, Advances
<1> QED
  BY <1>13, <1>14

(* The first tokens of those that go to the file, if it can be written.    *)
LEMMA WritesPart ==
  ASSUME WgInv, Conn, Fault, GiveUp, UNCHANGED <<coming, recvd, cut>>,
         Response.code = "ok", used' \in Nat, held' \in Nat, clen' \in Int,
         NEW u, NEW a \in Nat, NEW n \in Nat, a + n <= Response.size,
         \A k \in 0..n : file \o Contents(u, k) = Upto(a + k),
         \E k \in 0..(n - 1) : file' = file \o Contents(u, k)
  PROVE  WgInv'
<1>1. WgTypeOK /\ Response.size \in Nat
  BY ResponseIsSound DEF WgInv, ResponseSound
<1>2. PICK k \in 0..(n - 1) : file' = file \o Contents(u, k)
  OBVIOUS
<1>3. a + k \in 0..Response.size /\ k \in 0..n
  BY <1>1
<1>4. file' = Upto(a + k)
  BY <1>2, <1>3
<1>5. Begun(Response, file')
  BY <1>3, <1>4 DEF Begun
<1>6. wfaults' \in Nat /\ wfaults' # 0 /\ coming' \in Nat /\ recvd' \in Nat
  BY <1>1 DEF WgTypeOK, Fault
<1> QED
  BY <1>5, <1>6, GivesUp

LEMMA AtMostIs ==
  ASSUME NEW m \in Int, NEW n \in Int
  PROVE  AtMost(m, n) \in {m, n} /\ AtMost(m, n) <= m /\ AtMost(m, n) <= n
BY DEF AtMost

LEMMA PortionIs ==
  ASSUME clen \in Nat \ {0}
  PROVE  Portion \in Nat /\ Portion > 0 /\ Portion <= clen
<1>1. TmpSize \in Nat \ {0}
  BY WgetAssumption
<1> QED
  BY <1>1, AtMostIs DEF Portion

LEMMA ChunkDataKeeps == ASSUME WgInv, ChunkData PROVE WgInv'
<1>1. /\ WgTypeOK /\ wpc = "chunk" /\ Chunked /\ Response.code = "ok" /\ Conn
      /\ WithinAt(Response, used, file, clen, held) /\ Buffered > 0
      /\ UNCHANGED <<coming, recvd, cut>>
  BY DEF WgInv, AtPlace, ChunkData
<1>2. ResponseSound(Response) /\ Response.size \in Nat
  BY <1>1, ResponseIsSound DEF ResponseSound
<1>3. PICK n : n = AtMost(Portion - held, Buffered)
  OBVIOUS
<1>4. /\ used' = used + n
      /\ \/ /\ held + n < Portion /\ held' = held + n
            /\ UNCHANGED <<clen, wpc, file, rcw, wfaults>>
         \/ /\ held + n = Portion /\ held' = 0 /\ clen' = clen - Portion
            /\ Save(used - held, Portion, IF clen = Portion THEN "crlf" ELSE "chunk")
  BY <1>3 DEF ChunkData
<1>5. PICK i \in 1..Len(Response.chunks) :
        /\ clen \in 1..Response.chunks[i].size /\ held \in Nat /\ held < Portion
        /\ used = Response.chunks[i].at + 1 + Response.chunks[i].size - clen + held
        /\ file = Upto(Response.chunks[i].from + Response.chunks[i].size - clen)
  BY <1>1 DEF WithinAt, Portion
<1>6. PICK at, from, sz : /\ at = Response.chunks[i].at /\ from = Response.chunks[i].from
                          /\ sz = Response.chunks[i].size
  OBVIOUS
<1>7. /\ clen \in 1..sz /\ held \in Nat /\ held < Portion
      /\ used = at + 1 + sz - clen + held /\ file = Upto(from + sz - clen)
  BY <1>5, <1>6
<1>8. /\ at \in Nat /\ from \in Nat /\ sz \in Nat /\ from + sz <= Response.size
  BY <1>1, <1>2, <1>6 DEF ResponseSound, Chunked, ChunksLie
<1>9. PICK p, size : p = Portion /\ size = Response.size
  OBVIOUS
<1>10. p \in Nat /\ p > 0 /\ p <= clen /\ held < p /\ clen \in Nat
  BY <1>7, <1>8, <1>9, PortionIs
<1>11. n \in Nat /\ n > 0 /\ n <= p - held /\ n <= Buffered
  <2>1. Buffered \in Int /\ p - held \in Int
    BY <1>1, <1>7, <1>10 DEF WgTypeOK, Buffered
  <2>2. n \in {p - held, Buffered} /\ n <= p - held /\ n <= Buffered
    BY <1>3, <1>9, <2>1, AtMostIs
  <2> QED
    BY <1>1, <1>7, <1>10, <2>1, <2>2
<1>12. used' \in Nat /\ used' <= recvd
  <2>1. n <= recvd - used
    BY <1>11 DEF Buffered
  <2> QED
    BY <1>1, <1>4, <1>11, <2>1 DEF WgTypeOK
<1>13. PICK a, u : a = from + sz - clen /\ u = at + 1 + sz - clen
  OBVIOUS
<1>14. /\ a \in Nat /\ a + p \in Nat /\ a + p <= size /\ size \in Nat
       /\ u = used - held /\ used = u + held
  <2>1. from + sz <= size /\ size \in Nat
    BY <1>2, <1>8, <1>9
  <2>2. a \in Nat /\ a + p \in Nat /\ a + p <= from + sz
    BY <1>7, <1>8, <1>10, <1>13
  <2>3. a + p <= size
    BY <1>8, <2>1, <2>2
  <2>4. u = used - held /\ used = u + held
    BY <1>7, <1>8, <1>10, <1>13
  <2> QED
    BY <2>1, <2>2, <2>3, <2>4
<1>15. \A k \in 0..p : file \o Contents(u, k) = Upto(a + k)
  <2>1. PICK c : c = clen
    OBVIOUS
  <2>2. c \in 1..sz /\ p \in Nat /\ p <= c /\ file = Upto(from + sz - c)
    BY <1>7, <1>10, <2>1
  <2>3. \A k \in 0..p : file \o Contents(at + 1 + sz - c, k) = Upto(from + sz - c + k)
    BY <1>1, <1>2, <1>5, <1>6, <2>2, ChunkUnits
  <2> QED
    BY <1>13, <2>1, <2>3
<1>16. CASE held + n < Portion /\ held' = held + n /\ UNCHANGED <<clen, wpc, file, rcw, wfaults>>
  <2>1. /\ held' \in Nat /\ held' < p /\ used' = at + 1 + sz - clen + held'
        /\ clen' \in 1..sz /\ clen' = clen
    BY <1>4, <1>7, <1>8, <1>9, <1>10, <1>11, <1>16
  <2>2. WithinAt(Response, used', file', clen', held')
    BY <1>6, <1>7, <1>9, <1>16, <2>1 DEF WithinAt, Portion
  <2>3. Begun(Response, file')
    <3>1. a \in 0..Response.size
      BY <1>9, <1>10, <1>14
    <3> QED
      BY <1>7, <1>13, <1>16, <3>1 DEF Begun
  <2>4. wpc' = "chunk" /\ clen' \in Int
    BY <1>1, <1>8, <1>16, <2>1
  <2> QED
    BY <1>1, <1>12, <1>16, <2>1, <2>2, <2>3, <2>4, Advances
<1>17. CASE /\ held + n = Portion /\ held' = 0 /\ clen' = clen - Portion
            /\ Save(used - held, Portion, IF clen = Portion THEN "crlf" ELSE "chunk")
  <2>1. used' = u + p /\ clen' = clen - p /\ clen' \in Int /\ held' \in Nat
    <3>1. held + n = p
      BY <1>9, <1>17
    <3>2. u \in Int
      BY <1>7, <1>8, <1>13
    <3>3. used' = u + p
      BY <1>4, <1>7, <1>11, <1>14, <3>1, <3>2
    <3> QED
      BY <1>9, <1>10, <1>17, <3>3
  <2>2. Save(u, p, IF clen = p THEN "crlf" ELSE "chunk")
    BY <1>9, <1>14, <1>17
  <2>3. CASE /\ file' = file \o Contents(u, p) /\ UNCHANGED <<rcw, wfaults>>
             /\ wpc' = IF clen = p THEN "crlf" ELSE "chunk"
    <3>1. p \in 0..p
      BY <1>10
    <3>2. file' = Upto(a + p)
      BY <1>15, <2>3, <3>1
    <3>3. a + p \in 0..Response.size
      BY <1>9, <1>14
    <3>4. Begun(Response, file')
      BY <3>2, <3>3 DEF Begun
    <3>5. CASE clen = p
      <4>1. used' = at + 1 + sz /\ a + p = from + sz /\ sz # 0
        BY <1>7, <1>8, <1>10, <1>13, <2>1, <3>5
      <4>2. EndAt(Response, used', file')
        BY <1>6, <3>2, <4>1 DEF EndAt
      <4>3. wpc' = "crlf"
        BY <2>3, <3>5
      <4> QED
        BY <1>1, <1>12, <1>17, <2>1, <2>3, <3>4, <4>2, <4>3, Advances
    <3>6. CASE clen # p
      <4>1. clen' \in 1..sz
        BY <1>7, <1>8, <1>10, <2>1, <3>6
      <4>2. used' = at + 1 + sz - clen' + held' /\ a + p = from + sz - clen'
        <5>1. held' = 0 /\ clen' = clen - p /\ used' = u + p
          BY <1>17, <2>1
        <5>2. u = at + 1 + sz - clen /\ a = from + sz - clen
          BY <1>13
        <5> QED
          BY <1>8, <1>10, <5>1, <5>2
      <4>3. held' < AtMost(clen', TmpSize)
        <5>1. TmpSize \in Nat \ {0} /\ clen' \in Nat \ {0}
          BY <1>8, <4>1, WgetAssumption
        <5> QED
          BY <1>17, <5>1 DEF AtMost
      <4>4. WithinAt(Response, used', file', clen', held')
        BY <1>6, <2>1, <3>2, <4>1, <4>2, <4>3 DEF WithinAt
      <4>5. wpc' = "chunk"
        BY <2>3, <3>6
      <4> QED
        BY <1>1, <1>12, <1>17, <2>1, <2>3, <3>4, <4>4, <4>5, Advances
    <3> QED
      BY <3>5, <3>6
  <2>4. CASE Fault /\ GiveUp /\ \E k \in 0..(p - 1) : file' = file \o Contents(u, k)
    <3>1. a + p <= Response.size
      BY <1>9, <1>14
    <3> QED
      BY <1>1, <1>10, <1>12, <1>14, <1>15, <2>1, <2>4, <3>1, WritesPart
  <2> QED
    BY <2>2, <2>3, <2>4 DEF Save
<1> QED
  BY <1>4, <1>16, <1>17

LEMMA ChunkEndKeeps == ASSUME WgInv, ChunkEnd PROVE WgInv'
<1>1. /\ WgTypeOK /\ Conn /\ held = 0 /\ held' = 0 /\ wpc = "crlf" /\ Chunked
      /\ EndAt(Response, used, file) /\ Buffered > 0 /\ used' = used + 1 /\ wpc' = "body"
      /\ UNCHANGED <<coming, recvd, clen, file, rcw, cut, wfaults>>
  BY DEF WgInv, AtPlace, ChunkEnd, Calm
<1>2. ResponseSound(Response)
  BY <1>1, ResponseIsSound
<1>3. PICK cs : cs = Response.chunks
  OBVIOUS
<1>4. \A i \in 1..Len(cs) :
        /\ cs[i].at \in Nat /\ cs[i].from \in Nat /\ cs[i].size \in Nat
        /\ cs[i].from + cs[i].size <= Response.size
        /\ cs[i].size # 0 =>
             \E k \in 1..Len(cs) : /\ cs[k].at = cs[i].at + cs[i].size + 2
                                   /\ cs[k].from = cs[i].from + cs[i].size
  BY <1>1, <1>2, <1>3 DEF ResponseSound, Chunked, ChunksLie
<1>5. PICK i \in 1..Len(cs) : /\ cs[i].size # 0
                              /\ used = cs[i].at + 1 + cs[i].size
                              /\ file = Upto(cs[i].from + cs[i].size)
  BY <1>1, <1>3 DEF EndAt
<1>6. PICK k \in 1..Len(cs) : /\ cs[k].at = cs[i].at + cs[i].size + 2
                              /\ cs[k].from = cs[i].from + cs[i].size
  BY <1>4, <1>5
<1>7. cs[i].at \in Nat /\ cs[i].size \in Nat /\ cs[i].from \in Nat /\ Response.size \in Nat
  BY <1>2, <1>4 DEF ResponseSound
<1>8. used' = cs[k].at /\ file' = Upto(cs[k].from)
  <2>1. used' = used + 1 /\ file' = file
    BY <1>1
  <2> QED
    BY <1>5, <1>6, <1>7, <2>1
<1>9. SizeAt(Response, used', file')
  BY <1>3, <1>8 DEF SizeAt
<1>10. cs[k].from \in 0..Response.size
  <2>1. PICK f, z, size : f = cs[i].from /\ z = cs[i].size /\ size = Response.size
    OBVIOUS
  <2>2. f \in Nat /\ z \in Nat /\ size \in Nat /\ f + z <= size
    BY <1>4, <1>7, <2>1
  <2>3. f + z \in 0..size
    BY <2>2
  <2> QED
    BY <1>6, <2>1, <2>3
<1>11. Begun(Response, file')
  BY <1>8, <1>10 DEF Begun
<1>12. used' \in Nat /\ used' <= recvd /\ clen' \in Int
  BY <1>1 DEF WgTypeOK, Buffered
<1> QED
  BY <1>1, <1>9, <1>11, <1>12, Advances

LEMMA PlainDataKeeps == ASSUME WgInv, PlainData PROVE WgInv'
<1>1. /\ WgTypeOK /\ Conn /\ held = 0 /\ held' = 0 /\ wpc = "body" /\ ~Chunked /\ Response.code = "ok"
      /\ PlainAt(Response, used, file, clen) /\ Buffered > 0 /\ clen # 0
      /\ UNCHANGED <<coming, recvd, cut>> /\ rcw = 0
  BY DEF WgInv, AtPlace, Outcome, PlainData, Save, Calm
<1>2. ResponseSound(Response) /\ Response.size \in Nat
  BY <1>1, ResponseIsSound DEF ResponseSound
<1>3. PICK n : n = IF clen > 0 THEN AtMost(clen, Buffered) ELSE Buffered
  OBVIOUS
<1>4. \/ /\ clen' = (IF clen > 0 THEN clen - n ELSE clen) /\ used' = used + n
         /\ Save(used, n, IF clen = n THEN "done" ELSE "body")
      \/ /\ n > TmpSize /\ wpc' = "died" /\ rcw' = 139
         /\ UNCHANGED <<used, clen, file, wfaults>>
  BY <1>3 DEF PlainData
<1>5. clen \in Int /\ used \in Nat /\ recvd \in Nat /\ Buffered \in Nat
  BY <1>1 DEF WgTypeOK, Buffered
<1>6. n \in Nat /\ n > 0 /\ n <= Buffered /\ (clen > 0 => n <= clen)
  BY <1>1, <1>3, <1>5, AtMostIs
<1>7. used + n <= recvd
  BY <1>5, <1>6 DEF Buffered
<1>8. used + n <= Tokens(Response)
  <2>1. recvd <= coming /\ coming <= Tokens(Response)
    BY <1>1 DEF WgInv, Stream
  <2>2. coming \in Nat /\ Tokens(Response) \in Nat
    BY <1>1, <1>2 DEF WgTypeOK, ResponseSound
  <2> QED
    BY <1>5, <1>6, <1>7, <2>1, <2>2
<1>9. PICK m \in 0..Response.size :
        /\ m + n <= Response.size
        /\ used = Response.headers + 1 + m /\ file = Upto(m)
        /\ Response.framing = "length" => clen = Response.size - m
        /\ Response.framing = "close" => clen = -1
        /\ \A k \in 0..n : file \o Contents(used, k) = Upto(m + k)
  BY <1>1, <1>2, <1>6, <1>8, PlainUnits
<1>10. Response.framing \in {"length", "close"} /\ Response.headers \in Nat
  BY <1>1, <1>2 DEF ResponseSound, Chunked, IsChunked
<1>11. m \in Nat /\ m + n \in 0..Response.size /\ n \in 0..n
  BY <1>2, <1>6, <1>9
<1>12. CASE /\ clen' = (IF clen > 0 THEN clen - n ELSE clen)
            /\ used' = used + n /\ file' = file \o Contents(used, n)
            /\ wpc' = (IF clen = n THEN "done" ELSE "body") /\ UNCHANGED <<rcw, wfaults>>
  <2>1. file' = Upto(m + n)
    BY <1>9, <1>11, <1>12
  <2>2. Begun(Response, file')
    BY <1>11, <2>1 DEF Begun
  <2>3. used' \in Nat /\ used' <= recvd /\ clen' \in Int /\ used' = Response.headers + 1 + (m + n)
    <3>1. clen' = (IF clen > 0 THEN clen - n ELSE clen) /\ used' = used + n
      BY <1>12
    <3>2. used = Response.headers + 1 + m
      BY <1>9
    <3>3. PICK h : h = Response.headers
      OBVIOUS
    <3>4. used' = h + 1 + (m + n)
      BY <1>6, <1>10, <1>11, <3>1, <3>2, <3>3
    <3> QED
      BY <1>5, <1>6, <1>7, <3>1, <3>3, <3>4
  <2>4. CASE clen = n
    <3>1. Response.framing = "length"
      BY <1>6, <1>9, <1>10, <2>4
    <3>2. m + n = Response.size
      BY <1>2, <1>9, <2>4, <3>1
    <3>3. file' = Body(Response) /\ wpc' = "done"
      BY <1>12, <2>1, <2>4, <3>2 DEF Body
    <3> QED
      BY <1>1, <1>12, <2>2, <2>3, <3>3, Finishes
  <2>5. CASE clen # n
    <3>1. Response.framing = "length" => clen' = Response.size - (m + n)
      <4> SUFFICES ASSUME Response.framing = "length" PROVE clen' = Response.size - (m + n)
        OBVIOUS
      <4>1. clen = Response.size - m /\ clen > 0
        BY <1>1, <1>2, <1>9
      <4> QED
        BY <1>2, <1>6, <1>12, <4>1
    <3>2. Response.framing = "close" => clen' = -1
      BY <1>9, <1>12
    <3>3. PlainAt(Response, used', file', clen')
      BY <1>11, <2>1, <2>3, <3>1, <3>2 DEF PlainAt
    <3>4. wpc' = "body"
      BY <1>12, <2>5
    <3> QED
      BY <1>1, <1>12, <2>2, <2>3, <3>3, <3>4, Advances
  <2> QED
    BY <2>4, <2>5
<1>13. CASE /\ clen' = (IF clen > 0 THEN clen - n ELSE clen) /\ used' = used + n
            /\ Fault /\ GiveUp /\ \E k \in 0..(n - 1) : file' = file \o Contents(used, k)
  <2>1. used' \in Nat /\ clen' \in Int
    BY <1>5, <1>6, <1>13
  <2> QED
    BY <1>1, <1>6, <1>9, <1>11, <1>13, <2>1, WritesPart
<1>14. CASE /\ wpc' = "died" /\ rcw' = 139
            /\ UNCHANGED <<used, clen, file, wfaults>>
  <2>1. Response' = Response /\ attempt' = attempt
    BY <1>1, SameResponse
  <2>2. WgTypeOK'
    BY <1>1, <1>14 DEF WgTypeOK, Conn
  <2>3. Stream' /\ AtPlace'
    BY <1>1, <1>14 DEF WgInv, Stream, AtPlace
  <2>4. Outcome'
    BY <1>14, <2>1 DEF WgInv, Outcome
  <2> QED
    BY <2>2, <2>3, <2>4 DEF WgInv
<1> QED
  BY <1>4, <1>12, <1>13, <1>14 DEF Save

LEMMA EmptyBodyKeeps == ASSUME WgInv, EmptyBody PROVE WgInv'
<1>1. /\ WgTypeOK /\ Conn /\ held = 0 /\ held' = 0 /\ wpc = "body" /\ ~Chunked /\ clen = 0 /\ wpc' = "done"
      /\ UNCHANGED <<coming, recvd, used, clen, file, rcw, cut, wfaults>>
      /\ Response.code = "ok" /\ rcw = 0 /\ PlainAt(Response, used, file, clen)
  BY DEF WgInv, AtPlace, Outcome, EmptyBody, Calm
<1>2. /\ Response.framing \in {"length", "close"} /\ Response.size \in Nat
  BY <1>1, ResponseIsSound DEF ResponseSound, Chunked, IsChunked
<1>3. PICK n \in 0..Response.size :
        /\ file = Upto(n)
        /\ Response.framing = "length" => clen = Response.size - n
        /\ Response.framing = "close" => clen = -1
  BY <1>1 DEF PlainAt
<1>4. n = Response.size
  BY <1>1, <1>2, <1>3
<1>5. file' = Body(Response) /\ Begun(Response, file')
  BY <1>1, <1>3, <1>4 DEF Body, Begun
<1>6. used' \in Nat /\ clen' \in Int
  BY <1>1 DEF WgTypeOK
<1> QED
  BY <1>1, <1>5, <1>6, Finishes

LEMMA WgStutters == ASSUME WgInv, UNCHANGED wgetVars PROVE WgInv'
<1>1. UNCHANGED <<journey, hop, attempt, coming, recvd, used, held, clen, wpc, file, rcw,
                cut, wfaults>>
  BY DEF wgetVars
<1>2. Response' = Response /\ (Chunked' <=> Chunked)
  BY <1>1 DEF Response, Chunked
<1>3. WgTypeOK'
  BY <1>1 DEF WgInv, WgTypeOK
<1>4. Stream' /\ AtPlace' /\ Outcome'
  BY <1>1, <1>2 DEF WgInv, Stream, AtPlace, Outcome
<1> QED
  BY <1>3, <1>4 DEF WgInv

LEMMA WgStepInv == WgInv /\ [WgetNext]_wgetVars => WgInv'
<1> SUFFICES ASSUME WgInv, [WgetNext]_wgetVars PROVE WgInv'
  OBVIOUS
<1>1. CASE SendRequest \/ TooManyRedirects \/ Break
  BY <1>1, SendRequestKeeps, TooManyKeeps, BreakKeeps
<1>2. CASE wget_read_headers
  BY <1>2, MoreHeadersKeeps, RedirectKeeps, HttpErrorKeeps, OpenOutputKeeps
     DEF wget_read_headers
<1>3. CASE wget_save_body
  BY <1>3, FillKeeps, ChunkSizeKeeps, ChunkDataKeeps, ChunkEndKeeps, PlainDataKeeps,
     EmptyBodyKeeps DEF wget_save_body
<1>4. CASE UNCHANGED wgetVars
  BY <1>4, WgStutters
<1> QED
  BY <1>1, <1>2, <1>3, <1>4 DEF WgetNext

(* However the pieces of a response come in, the file is what it was or a  *)
(* beginning of the body; status 0 stands for the whole body, or, where    *)
(* the connection ended early and the body is not chunked, for what had    *)
(* come of it (ex_net.c:1803); no more redirects are followed than         *)
(* allowed; another status without a failing call has one of the reasons   *)
(* the code knows (ex_net.c:1535-1990).                                    *)
THEOREM BodyIsWholeHolds == WgetSpec => []BodyIsWhole
<1>1. WgInv => BodyIsWhole
  <2> SUFFICES ASSUME WgInv PROVE BodyIsWhole
    OBVIOUS
  <2>1. WgTypeOK /\ ResponseSound(Response)
    BY ResponseIsSound DEF WgInv
  <2>2. Response.size \in Nat
    BY <2>1 DEF ResponseSound
  <2>3. ASSUME Begun(Response, file) PROVE IsPrefix(file, Body(Response))
    <3>1. PICK n \in 0..Response.size : file = Upto(n)
      BY <2>3 DEF Begun
    <3> QED
      BY <2>2, <3>1, UptoPrefix DEF Body
  <2>4. wpc # "lost" /\ hop <= MaxRedirects + 1
    BY <2>1, WgetAssumption DEF WgTypeOK
  <2> QED
    BY <2>3, <2>4 DEF WgInv, Outcome, BodyIsWhole
<1> QED
  BY <1>1, WgStarts, WgStepInv, PTL DEF WgetSpec

-----------------------------------------------------------------------------
(* xargs: the input is cut at every separator and nowhere else, and the    *)
(* commands get the items in batches that follow one another.              *)

\* a sequence, of whatever
IsSeq(s) == \E S : s \in Seq(S)

LEMMA AppendAny ==
  ASSUME NEW S, NEW s \in Seq(S), NEW x
  PROVE  /\ IsSeq(Append(s, x))
         /\ Len(Append(s, x)) = Len(s) + 1 /\ Len(s) \in Nat
         /\ \A i \in 1..Len(s) : Append(s, x)[i] = s[i]
         /\ Append(s, x)[Len(s) + 1] = x
<1>1. PICK T : T = S \cup {x}
  OBVIOUS
<1>2. s \in Seq(T) /\ x \in T
  BY <1>1, SeqMonotonic
<1>3. Append(s, x) \in Seq(T)
  BY <1>2, AppendProperties
<1>4. IsSeq(Append(s, x))
  BY <1>3 DEF IsSeq
<1> QED
  BY <1>2, <1>4, AppendProperties

XaTypes ==
  /\ call \in XargsCalls /\ cutAt \in 0..Len(call.input)
  /\ items \in Seq([from : Nat, to : Nat]) /\ next \in Nat \ {0}
  /\ codes \in Seq(XargsCodes \cup {-1}) /\ rcx \in Int
  /\ IsSeq(ran)
  /\ xpc \in {"split", "batch", "failed", "broken", "done"}

\* the items are the words in front of cutAt
CutSoFar ==
  /\ \A i \in 1..Len(items) : IsItem(items[i]) /\ items[i].to <= cutAt
  /\ \A i, j \in 1..Len(items) : i < j => items[i].to < items[j].from
  /\ \A p \in 1..cutAt :
       call.input[p] # Space => \E i \in 1..Len(items) : p \in items[i].from..items[i].to
  /\ cutAt \in 1..Len(call.input) - 1 => call.input[cutAt] = Space
  /\ xpc = "split" => ran = <<>> /\ codes = <<>> /\ next = 1 /\ rcx = 0
  /\ xpc \in {"batch", "done"} => Gap(cutAt + 1, Len(call.input))

NoForkFailed == \A i \in 1..Len(codes) : codes[i] # -1
\* the commands have got the items in front of next
RunSoFar ==
  /\ \A i \in 1..Len(codes) : codes[i] <= rcx
  /\ rcx = 0 \/ \E i \in 1..Len(codes) : rcx = codes[i]
  /\ items = <<>> => next = 1 /\ ran = IF codes = <<>> THEN <<>> ELSE <<call.base>>
  /\ items = <<>> /\ codes # <<>> => call.runEmpty
  /\ items # <<>> =>
       /\ next = Least(Len(ran) * Per, Len(items)) + 1
       /\ Len(ran) = 0 \/ (Len(ran) - 1) * Per < Len(items)
       /\ \A k \in 1..Len(ran) : IsCalledWith(ran[k], (k - 1) * Per + 1, Least(k * Per, Len(items)))
XaInv ==
  /\ XaTypes /\ CutSoFar
  /\ xpc \in {"split", "batch", "done"} /\ NoForkFailed => RunSoFar
  /\ xpc = "done" => ~More
  /\ xpc = "broken" => \E k \in 1..Len(call.base) : Repls(call.base[k]) > 1

LEMMA CallIs ==
  ASSUME call \in XargsCalls
  PROVE  /\ call.input \in Seq(STRING) /\ Len(call.input) \in Nat
         /\ call.base \in Seq(Seq(STRING)) /\ Len(call.base) \in Nat
         /\ Per \in Nat \ {0} /\ call.mode \in {"batch", "replace"}
         /\ call.mode = "replace" => Per = 1
<1>1. call \in [input : Seq(STRING), per : Int, mode : {"batch", "replace"},
                runEmpty : BOOLEAN, base : Seq(Seq(STRING))]
  BY XargsAssumption
<1>2. /\ call.input \in Seq(STRING) /\ call.base \in Seq(Seq(STRING))
      /\ call.per \in Int /\ call.mode \in {"batch", "replace"}
  BY <1>1
<1>3. Len(call.input) \in Nat /\ Len(call.base) \in Nat
  BY <1>2, LenProperties
<1>4. Per \in Nat \ {0} /\ (call.mode = "replace" => Per = 1)
  BY <1>2 DEF Per
<1> QED
  BY <1>2, <1>3, <1>4

LEMMA XaStarts == XargsInit => XaInv
<1>1. SUFFICES ASSUME XargsInit PROVE XaInv
  OBVIOUS
<1>2. /\ call \in XargsCalls /\ cutAt = 0 /\ items = <<>> /\ next = 1
      /\ ran = <<>> /\ codes = <<>> /\ rcx = 0 /\ xpc = "split"
  BY <1>1 DEF XargsInit
<1>3. Len(call.input) \in Nat
  BY <1>2, CallIs
<1>4. XaTypes
  BY <1>2, <1>3 DEF XaTypes, IsSeq
<1>5. Len(items) = 0 /\ Len(codes) = 0
  BY <1>2
<1>6. CutSoFar
  BY <1>2, <1>3, <1>5 DEF CutSoFar
<1>7. RunSoFar
  BY <1>2, <1>5 DEF RunSoFar
<1> QED
  BY <1>2, <1>4, <1>6, <1>7 DEF XaInv

LEMMA CutItemKeeps ==
  ASSUME XaInv, CutItem
  PROVE  XaInv'
<1>1. /\ XaTypes /\ CutSoFar /\ xpc = "split" /\ xpc' = "split"
      /\ call' = call /\ next' = next /\ ran' = ran /\ codes' = codes /\ rcx' = rcx
  BY DEF XaInv, CutItem
<1>2. PICK l : l = Len(call.input)
  OBVIOUS
<1>3. l \in Nat /\ cutAt \in 0..l /\ cutAt \in Nat
  BY <1>1, <1>2, CallIs DEF XaTypes
<1>4. PICK a \in cutAt + 1..l : \E b \in a..l :
        /\ Gap(cutAt + 1, a - 1) /\ Word(a, b)
        /\ b < l => call.input[b + 1] = Space
        /\ items' = Append(items, [from |-> a, to |-> b])
        /\ cutAt' = Least(b + 1, l)
  BY <1>2 DEF CutItem
<1>5. PICK b \in a..l :
        /\ Gap(cutAt + 1, a - 1) /\ Word(a, b)
        /\ b < l => call.input[b + 1] = Space
        /\ items' = Append(items, [from |-> a, to |-> b])
        /\ cutAt' = Least(b + 1, l)
  BY <1>4
<1>6. a \in Nat /\ b \in Nat /\ cutAt < a /\ a <= b /\ b <= l
  BY <1>3, <1>5, <1>4
<1>7. PICK it : it = [from |-> a, to |-> b]
  OBVIOUS
<1>8. it.from = a /\ it.to = b /\ it \in [from : Nat, to : Nat]
  BY <1>6, <1>7
<1>9. PICK n : n = Len(items)
  OBVIOUS
<1>10. /\ items' \in Seq([from : Nat, to : Nat]) /\ Len(items') = n + 1 /\ n \in Nat
      /\ \A i \in 1..n : items'[i] = items[i]
  BY <1>1, <1>5, <1>7, <1>8, <1>9, AppendProperties DEF XaTypes
<1>11. items'[n + 1] = it
  BY <1>1, <1>5, <1>7, <1>8, <1>9, AppendProperties DEF XaTypes
<1>12. cutAt' \in 0..l /\ cutAt' \in Nat /\ b <= cutAt' /\ cutAt < cutAt'
       /\ ((cutAt' = b + 1 /\ b < l) \/ (cutAt' = l /\ b = l))
  <2>1. cutAt' = Least(b + 1, l)
    BY <1>5
  <2> QED
    BY <1>3, <1>6, <2>1 DEF Least
<1>13. XaTypes'
  BY <1>1, <1>2, <1>10, <1>12 DEF XaTypes
<1>14. \A i \in 1..n : IsItem(items[i]) /\ items[i].to <= cutAt /\ items[i].to \in Nat
  <2>1. \A i \in 1..n : items[i] \in [from : Nat, to : Nat]
    BY <1>1, <1>9, ElementOfSeq DEF XaTypes
  <2> QED
    BY <1>1, <1>9, <2>1 DEF CutSoFar
<1>15. IsItem(it)
  <2>1. a > 1 => call.input[a - 1] = Space
    <3>1. CASE a = cutAt + 1
      BY <1>1, <1>2, <1>3, <1>6, <3>1 DEF CutSoFar
    <3>2. CASE a # cutAt + 1
      <4>1. a - 1 \in cutAt + 1..a - 1
        BY <1>3, <1>6, <3>2
      <4> QED
        BY <1>5, <4>1 DEF Gap
    <3> QED
      BY <3>1, <3>2
  <2>2. a \in 1..b /\ b \in 1..l
    BY <1>3, <1>6
  <2> QED
    BY <1>2, <1>5, <1>8, <2>1, <2>2 DEF IsItem
<1>16. ASSUME NEW i \in 1..Len(items') PROVE IsItem(items[i])' /\ items'[i].to <= cutAt'
  <2>1. CASE i \in 1..n
    <3>1. items'[i] = items[i] /\ IsItem(items[i]) /\ items[i].to <= cutAt /\ items[i].to \in Nat
      BY <1>10, <1>14, <2>1
    <3>2. items'[i].to <= cutAt'
      BY <1>3, <1>12, <3>1
    <3> QED
      BY <1>1, <3>1, <3>2 DEF IsItem, Word
  <2>2. CASE i = n + 1
    <3>1. items'[i] = it /\ it.to = b
      <4>1. it.to = b
        BY <1>8
      <4>2. items'[i] = it
        <5>1. items'[n + 1] = it
          BY <1>11
        <5> QED
          BY <2>2, <5>1
      <4> QED
        BY <4>1, <4>2
    <3>2. IsItem(it)'
      BY <1>1, <1>15 DEF IsItem, Word
    <3> QED
      BY <1>12, <3>1, <3>2
  <2> QED
    BY <1>10, <2>1, <2>2
<1>17. ASSUME NEW i \in 1..Len(items'), NEW j \in 1..Len(items'), i < j
       PROVE  items'[i].to < items'[j].from
  <2>1. CASE j \in 1..n
    <3>1. i \in 1..n
      BY <1>10, <1>17, <2>1
    <3> QED
      BY <1>1, <1>9, <1>10, <1>17, <2>1, <3>1 DEF CutSoFar
  <2>2. CASE j = n + 1
    <3>1. i \in 1..n
      BY <1>10, <1>17, <2>2
    <3>2. items'[i].to <= cutAt /\ items'[i].to \in Nat /\ items'[j].from = a
      <4>1. items'[i] = items[i] /\ items[i].to <= cutAt /\ items[i].to \in Nat
        BY <1>10, <1>14, <3>1
      <4>2. items'[j] = it /\ it.from = a
        BY <1>8, <1>11, <2>2
      <4> QED
        BY <4>1, <4>2
    <3> QED
      BY <1>3, <1>6, <3>2
  <2> QED
    BY <1>10, <2>1, <2>2
<1>18. ASSUME NEW p \in 1..cutAt', call.input[p] # Space
       PROVE  \E i \in 1..Len(items') : p \in items'[i].from..items'[i].to
  <2>1. CASE p \in 1..cutAt
    <3>1. PICK i \in 1..n : p \in items[i].from..items[i].to
      BY <1>1, <1>9, <1>18, <2>1 DEF CutSoFar
    <3> QED
      <4>1. i \in 1..Len(items') /\ items'[i] = items[i]
        BY <1>10
      <4> QED
        BY <3>1, <4>1
  <2>2. CASE p \in cutAt + 1..a - 1
    BY <1>5, <1>18, <2>2 DEF Gap
  <2>3. CASE p \in a..b
    <3>1. n + 1 \in 1..Len(items')
      BY <1>10
    <3> QED
      <4>1. items'[n + 1].from = a /\ items'[n + 1].to = b
        <5>1. items'[n + 1] = it
          BY <1>11
        <5>2. it.from = a /\ it.to = b
          BY <1>8
        <5> QED
          BY <5>1, <5>2
      <4> QED
        BY <2>3, <3>1, <4>1
  <2>4. CASE p > b
    <3>1. p = b + 1 /\ b < l
      BY <1>3, <1>6, <1>12, <1>18, <2>4
    <3> QED
      BY <1>5, <1>18, <3>1
  <2> QED
    BY <1>3, <1>6, <1>12, <2>1, <2>2, <2>3, <2>4
<1>19. cutAt' \in 1..l - 1 => call.input[cutAt'] = Space
  BY <1>3, <1>5, <1>6, <1>12
<1>20. ran' = <<>> /\ codes' = <<>> /\ next' = 1 /\ rcx' = 0
  BY <1>1 DEF CutSoFar
<1>21. CutSoFar'
  BY <1>1, <1>2, <1>16, <1>17, <1>18, <1>19, <1>20 DEF CutSoFar
<1>22. RunSoFar'
  <2>1. Len(codes') = 0 /\ Len(ran') = 0
    BY <1>20
  <2>2. items' # <<>>
    BY <1>10
  <2>3. Per' = Per /\ Per \in Nat
    BY <1>1, CallIs DEF Per, XaTypes
  <2>4. Least(0, Len(items')) = 0 /\ 0 * Per = 0
    BY <1>10, <2>3 DEF Least
  <2> QED
    BY <1>20, <2>1, <2>2, <2>3, <2>4 DEF RunSoFar
<1> QED
  BY <1>1, <1>13, <1>21, <1>22 DEF XaInv

LEMMA AllCutKeeps ==
  ASSUME XaInv, AllCut
  PROVE  XaInv'
<1>1. /\ XaTypes /\ CutSoFar /\ xpc = "split" /\ xpc' = "batch"
      /\ Gap(cutAt + 1, Len(call.input))
      /\ UNCHANGED <<call, cutAt, items, next, ran, codes, rcx>>
  BY DEF XaInv, AllCut
<1>2. XaTypes'
  BY <1>1 DEF XaTypes
<1>3. CutSoFar'
  BY <1>1 DEF CutSoFar, IsItem, Word, Gap
<1>4. NoForkFailed' => RunSoFar'
  <2>1. SUFFICES ASSUME NoForkFailed' PROVE RunSoFar'
    OBVIOUS
  <2>2. RunSoFar
    BY <1>1, <2>1 DEF XaInv, NoForkFailed
  <2>3. Per' = Per
    BY <1>1 DEF Per
  <2>4. \A line, a, b : IsCalledWith(line, a, b) => IsCalledWith(line, a, b)'
    BY <1>1 DEF IsCalledWith, Letters, Substituted
  <2> QED
    BY <1>1, <2>2, <2>3, <2>4 DEF RunSoFar
<1> QED
  BY <1>1, <1>2, <1>3, <1>4 DEF XaInv

\* What a command line holds is what the command is to be called with.
LEMMA LineIs ==
  ASSUME XaTypes, items # <<>>, NEW a \in 1..Len(items), NEW b \in a..Len(items),
         call.mode = "replace" => a = b
  PROVE  IsCalledWith(CommandLine(a, b), a, b)
<1>1. /\ call.base \in Seq(Seq(STRING)) /\ Len(call.base) \in Nat
      /\ call.mode \in {"batch", "replace"}
  BY CallIs DEF XaTypes
<1>2. a \in Nat /\ b \in Nat /\ a <= b
  BY DEF XaTypes
<1>3. PICK m, base, n : m = b - a + 1 /\ base = call.base /\ n = Len(base)
  OBVIOUS
<1>4. CASE call.mode = "replace"
  <2>1. PICK line : line = [k \in 1..Len(base) |-> Substituted(base[k], items[a])]
    OBVIOUS
  <2>2. CommandLine(a, b) = line
    BY <1>3, <1>4, <2>1 DEF CommandLine
  <2>3. Len(line) = Len(base)
    <3>1. DOMAIN line = 1..Len(base)
      BY <2>1
    <3>2. PICK S : S = {line[k] : k \in 1..Len(base)}
      OBVIOUS
    <3>3. line \in [1..Len(base) -> S] /\ Len(base) \in Nat
      BY <1>1, <1>3, <2>1, <3>2
    <3>4. line \in Seq(S)
      BY <3>3
    <3> QED
      BY <1>1, <1>3, <3>1, <3>4, LenProperties
  <2>4. \A k \in 1..Len(base) : line[k] = Substituted(base[k], items[a])
    BY <2>1
  <2> QED
    BY <1>3, <1>4, <2>2, <2>3, <2>4 DEF IsCalledWith
<1>5. CASE call.mode = "batch"
  <2>1. PICK rest : rest = [k \in 1..m |-> Letters(items[a + k - 1])]
    OBVIOUS
  <2>2. m \in Nat /\ DOMAIN rest = 1..m /\ \A k \in 1..m : rest[k] = Letters(items[a + k - 1])
    BY <1>2, <1>3, <2>1
  <2>3. PICK S : S = Seq(STRING) \cup {rest[k] : k \in 1..m}
    OBVIOUS
  <2>4. rest \in [1..m -> S]
    BY <2>1, <2>3
  <2>5. rest \in Seq(S)
    BY <2>2, <2>4
  <2>6. Len(rest) = m
    BY <2>2, <2>5, LenProperties
  <2>7. base \in Seq(S)
    BY <1>1, <1>3, <2>3, SeqMonotonic
  <2>8. /\ Len(base \o rest) = Len(base) + m
        /\ \A i \in 1..Len(base) + m :
             (base \o rest)[i] = IF i <= Len(base) THEN base[i] ELSE rest[i - Len(base)]
    BY <2>5, <2>6, <2>7, ConcatProperties
  <2>9. CommandLine(a, b) = base \o rest
    BY <1>3, <1>5, <2>1 DEF CommandLine
  <2>10. PICK line : line = base \o rest
    OBVIOUS
  <2>11. \A k \in 1..Len(base) : line[k] = base[k]
    <3>1. \A k \in 1..n : k \in 1..n + m /\ k <= n
      <4>1. n \in Nat /\ m \in Nat
        BY <1>1, <1>3, <2>2
      <4> QED
        BY <4>1
    <3> QED
      BY <1>3, <2>8, <2>10, <3>1
  <2>12. ASSUME NEW i \in a..b PROVE line[Len(base) + (i - a + 1)] = Letters(items[i])
    <3>1. PICK k, q : k = i - a + 1 /\ q = Len(base) + k
      OBVIOUS
    <3>2. k \in 1..m /\ a + k - 1 = i /\ q \in 1..Len(base) + m /\ ~(q <= Len(base)) /\ q - Len(base) = k
      <4>1. n \in Nat /\ q = n + k /\ m = b - a + 1 /\ m \in Nat
        BY <1>1, <1>3, <2>2, <3>1
      <4>2. k \in 1..m /\ a + k - 1 = i /\ q \in 1..n + m /\ ~(q <= n) /\ q - n = k
        BY <1>2, <2>12, <3>1, <4>1
      <4> QED
        BY <1>3, <4>2
    <3>3. line[q] = rest[k]
      BY <2>8, <2>10, <3>2
    <3> QED
      BY <2>2, <3>1, <3>2, <3>3
  <2>13. Len(line) = Len(base) + (b - a + 1)
    BY <1>3, <2>8, <2>10
  <2> QED
    BY <1>3, <1>5, <2>9, <2>10, <2>11, <2>12, <2>13 DEF IsCalledWith
<1> QED
  BY <1>1, <1>4, <1>5

LEMMA RunKeeps ==
  ASSUME XaInv, xargs_run
  PROVE  XaInv'
<1>1. /\ XaTypes /\ CutSoFar /\ xpc = "batch" /\ xpc' = "batch" /\ More
      /\ call' = call /\ cutAt' = cutAt /\ items' = items
  BY DEF XaInv, xargs_run
<1>2. PICK last, n, r : last = Least(next + Per - 1, Len(items)) /\ n = Len(items) /\ r = Len(ran)
  OBVIOUS
<1>3. /\ n \in Nat /\ r \in Nat /\ next \in Nat \ {0} /\ Per \in Nat \ {0}
      /\ call.mode = "replace" => Per = 1
      /\ rcx \in Int /\ call \in XargsCalls
  BY <1>1, <1>2, CallIs DEF XaTypes
<1>4. \/ \E c \in XargsCodes :
           /\ ran' = Append(ran, CommandLine(next, last)) /\ codes' = Append(codes, c)
           /\ rcx' = IF c > rcx \/ items = <<>> THEN c ELSE rcx
      \/ /\ codes' = Append(codes, -1) /\ UNCHANGED ran
         /\ rcx' = IF items = <<>> THEN -1 ELSE rcx
  BY <1>2 DEF xargs_run
<1>5. next' = last + 1
  BY <1>2 DEF xargs_run
<1>6. items = <<>> \/ (items # <<>> /\ next <= n)
  BY <1>1, <1>2 DEF More
<1>7. last \in Nat
  BY <1>2, <1>3 DEF Least
<1>8. CutSoFar'
  BY <1>1 DEF CutSoFar, IsItem, Word, Gap
<1>9. CASE codes' = Append(codes, -1) /\ UNCHANGED ran /\ rcx' = IF items = <<>> THEN -1 ELSE rcx
  <2>1. codes \in Seq(XargsCodes \cup {-1}) /\ -1 \in XargsCodes \cup {-1}
    BY <1>1 DEF XaTypes
  <2>2. /\ codes' \in Seq(XargsCodes \cup {-1})
        /\ Len(codes') = Len(codes) + 1 /\ codes'[Len(codes) + 1] = -1 /\ Len(codes) \in Nat
    BY <1>9, <2>1, AppendProperties
  <2>3. XaTypes'
    BY <1>1, <1>3, <1>5, <1>7, <1>9, <2>2 DEF XaTypes
  <2>4. ~NoForkFailed'
    <3>1. Len(codes) + 1 \in 1..Len(codes')
      BY <2>2
    <3> QED
      BY <2>2, <3>1 DEF NoForkFailed
  <2> QED
    BY <1>1, <1>8, <2>3, <2>4 DEF XaInv
<1>10. ASSUME NEW c \in XargsCodes,
              ran' = Append(ran, CommandLine(next, last)), codes' = Append(codes, c),
              rcx' = IF c > rcx \/ items = <<>> THEN c ELSE rcx
       PROVE  XaInv'
  <2>1. c \in Nat /\ c \in XargsCodes \cup {-1} /\ codes \in Seq(XargsCodes \cup {-1})
    BY <1>1, XargsAssumption DEF XaTypes
  <2>2. /\ codes' \in Seq(XargsCodes \cup {-1})
        /\ Len(codes') = Len(codes) + 1 /\ codes'[Len(codes) + 1] = c /\ Len(codes) \in Nat
        /\ \A i \in 1..Len(codes) : codes'[i] = codes[i]
    BY <1>10, <2>1, AppendProperties
  <2>3. PICK S : ran \in Seq(S)
    BY <1>1 DEF XaTypes, IsSeq
  <2>4. PICK line : line = CommandLine(next, last)
    OBVIOUS
  <2>5. /\ IsSeq(ran')
        /\ Len(ran') = r + 1
        /\ \A i \in 1..r : ran'[i] = ran[i]
        /\ ran'[r + 1] = line
    <3>1. ran' = Append(ran, line) /\ Len(ran) = r
      BY <1>2, <1>10, <2>4
    <3>2. /\ IsSeq(Append(ran, line))
          /\ Len(Append(ran, line)) = Len(ran) + 1
          /\ \A i \in 1..Len(ran) : Append(ran, line)[i] = ran[i]
          /\ Append(ran, line)[Len(ran) + 1] = line
      BY <2>3, AppendAny
    <3> QED
      BY <3>1, <3>2
  <2>6. rcx' \in Int
    BY <1>3, <1>10, <2>1
  <2>7. XaTypes'
    BY <1>1, <1>5, <1>7, <2>2, <2>5, <2>6 DEF XaTypes
  <2>8. ASSUME NoForkFailed' PROVE RunSoFar'
    <3>1. NoForkFailed
      <4>1. \A i \in 1..Len(codes) : i \in 1..Len(codes')
        BY <2>2
      <4> QED
        BY <2>2, <2>8, <4>1 DEF NoForkFailed
    <3>2. RunSoFar
      BY <1>1, <3>1 DEF XaInv
    <3>3. items = <<>> => codes = <<>> /\ Len(codes) = 0 /\ rcx = 0
      <4>1. items = <<>> => codes = <<>>
        BY <1>1, <1>2, <1>3 DEF More
      <4>2. codes = <<>> => Len(codes) = 0
        OBVIOUS
      <4> QED
        BY <3>2, <4>1, <4>2 DEF RunSoFar
    <3>4. \A i \in 1..Len(codes') : codes'[i] <= rcx'
      <4>1. ASSUME NEW i \in 1..Len(codes') PROVE codes'[i] <= rcx'
        <5>1. CASE i = Len(codes) + 1
          BY <1>3, <1>10, <2>1, <2>2, <5>1
        <5>2. CASE i \in 1..Len(codes)
          <6>1. codes[i] <= rcx /\ codes'[i] = codes[i] /\ items # <<>>
            BY <2>2, <3>2, <3>3, <5>2 DEF RunSoFar
          <6>2. codes[i] \in Int
            <7>1. codes[i] \in XargsCodes \cup {-1}
              BY <2>1, <5>2, ElementOfSeq
            <7>2. XargsCodes \subseteq Nat
              BY XargsAssumption
            <7>3. CASE codes[i] \in XargsCodes
              <8>1. codes[i] \in Nat
                BY <7>2, <7>3
              <8> QED
                BY <8>1
            <7>4. CASE codes[i] = -1
              BY <7>4
            <7> QED
              BY <7>1, <7>3, <7>4
          <6> QED
            BY <1>3, <1>10, <2>1, <6>1, <6>2
        <5> QED
          BY <2>2, <5>1, <5>2
      <4> QED
        BY <4>1
    <3>5. rcx' = 0 \/ \E i \in 1..Len(codes') : rcx' = codes'[i]
      <4>1. CASE rcx' = c
        <5>1. Len(codes) + 1 \in 1..Len(codes')
          BY <2>2
        <5> QED
          BY <2>2, <4>1, <5>1
      <4>2. CASE rcx' = rcx
        <5>1. \A i \in 1..Len(codes) : i \in 1..Len(codes')
          BY <2>2
        <5> QED
          BY <2>2, <3>2, <4>2, <5>1 DEF RunSoFar
      <4> QED
        BY <1>10, <4>1, <4>2
    <3>6. codes' # <<>>
      BY <2>2
    <3>7. CASE items = <<>>
      <4>1. call.runEmpty /\ next = 1 /\ ran = <<>> /\ n = 0
        BY <1>1, <1>2, <3>2, <3>3, <3>7 DEF More, RunSoFar
      <4>2. last = 0 /\ next' = 1
        BY <1>2, <1>3, <1>5, <4>1 DEF Least
      <4>3. line = call.base
        <5>1. call.base \in Seq(Seq(STRING))
          BY <1>3, CallIs
        <5>2. last - next + 1 = 0
          BY <4>1, <4>2
        <5>3. line = call.base \o [k \in 1..0 |-> Letters(items[next + k - 1])]
          BY <2>4, <3>7, <5>2 DEF CommandLine
        <5>4. [k \in 1..0 |-> Letters(items[next + k - 1])] = <<>>
          OBVIOUS
        <5> QED
          BY <5>1, <5>3, <5>4, ConcatEmptySeq
      <4>4. ran' = <<call.base>>
        <5>1. ran' = Append(<<>>, line)
          BY <1>10, <2>4, <4>1
        <5> QED
          BY <4>3, <5>1
      <4> QED
        BY <1>1, <3>4, <3>5, <3>6, <3>7, <4>1, <4>2, <4>4 DEF RunSoFar
    <3>8. CASE items # <<>>
      <4>1. PICK m : m = r * Per
        OBVIOUS
      <4>2. m \in Nat /\ (r + 1) * Per = m + Per /\ (r + 1) - 1 = r
        BY <1>3, <4>1
      <4>3. next = Least(m, n) + 1 /\ next <= n
        BY <1>2, <1>6, <3>2, <3>8, <4>1 DEF RunSoFar
      <4>4. next = m + 1 /\ m < n
        BY <1>3, <4>2, <4>3 DEF Least
      <4>5. last = Least(m + Per, n) /\ next <= last /\ last <= n
        BY <1>2, <1>3, <4>2, <4>4 DEF Least
      <4>6. next' = Least(Len(ran') * Per, n) + 1
        BY <1>5, <2>5, <4>2, <4>5
      <4>7. (Len(ran') - 1) * Per < n
        BY <2>5, <4>1, <4>2, <4>4
      <4>8. IsCalledWith(line, next, last)
        <5>1. next \in 1..Len(items) /\ last \in next..Len(items)
          BY <1>2, <1>3, <1>7, <4>5
        <5>2. call.mode = "replace" => next = last
          BY <1>3, <1>7, <4>2, <4>4, <4>5 DEF Least
        <5> QED
          BY <1>1, <2>4, <3>8, <5>1, <5>2, LineIs
      <4>9. \A x, a, b : IsCalledWith(x, a, b) => IsCalledWith(x, a, b)'
        BY <1>1 DEF IsCalledWith, Letters, Substituted
      <4>10. ASSUME NEW k \in 1..Len(ran')
             PROVE  IsCalledWith(ran[k], (k - 1) * Per + 1, Least(k * Per, n))'
        <5>1. Per' = Per
          BY <1>1 DEF Per
        <5>2. CASE k \in 1..r
          <6>1. ran'[k] = ran[k] /\ IsCalledWith(ran[k], (k - 1) * Per + 1, Least(k * Per, n))
            BY <1>2, <2>5, <3>2, <3>8, <5>2 DEF RunSoFar
          <6>2. PICK x, a, b : x = ran[k] /\ a = (k - 1) * Per + 1 /\ b = Least(k * Per, n)
            OBVIOUS
          <6>3. IsCalledWith(x, a, b)'
            BY <4>9, <6>1, <6>2
          <6>4. x = ran'[k] /\ a = (k - 1) * Per' + 1 /\ b = Least(k * Per', n)
            BY <5>1, <6>1, <6>2
          <6> QED
            BY <6>3, <6>4
        <5>3. CASE k = r + 1
          <6>1. PICK a, b : a = next /\ b = last
            OBVIOUS
          <6>2. IsCalledWith(line, a, b)'
            BY <4>8, <4>9, <6>1
          <6>3. (k - 1) * Per = m /\ k * Per = m + Per
            BY <4>1, <4>2, <5>3
          <6>4. ran'[k] = line /\ a = (k - 1) * Per' + 1 /\ b = Least(k * Per', n)
            BY <2>5, <4>4, <4>5, <5>1, <5>3, <6>1, <6>3
          <6> QED
            BY <6>2, <6>4
        <5> QED
          BY <1>3, <2>5, <5>2, <5>3
      <4>11. Per' = Per /\ Len(items') = n
        BY <1>1, <1>2 DEF Per
      <4> QED
        BY <1>1, <3>4, <3>5, <3>8, <4>6, <4>7, <4>10, <4>11 DEF RunSoFar
    <3> QED
      BY <3>7, <3>8
  <2> QED
    BY <1>1, <1>8, <2>7, <2>8 DEF XaInv
<1> QED
  BY <1>4, <1>9, <1>10

LEMMA NoMemoryKeeps ==
  ASSUME XaInv, XargsNoMemory
  PROVE  XaInv'
<1>1. /\ XaTypes /\ CutSoFar /\ xpc' = "failed" /\ rcx' = 1
      /\ UNCHANGED <<call, cutAt, items, next, ran, codes>>
  BY DEF XaInv, XargsNoMemory
<1>2. XaTypes'
  BY <1>1 DEF XaTypes
<1>3. CutSoFar'
  BY <1>1 DEF CutSoFar, IsItem, Word, Gap
<1> QED
  BY <1>1, <1>2, <1>3 DEF XaInv

LEMMA ReplsNat ==
  ASSUME NEW arg \in Seq(STRING)
  PROVE  Repls(arg) \in Nat
<1> DEFINE S == {i \in 1..Len(arg) : arg[i] = Repl}
<1>1. Len(arg) \in Nat
  BY LenProperties
<1>2. IsFiniteSet(S)
  <2>1. IsFiniteSet(1..Len(arg)) /\ S \subseteq 1..Len(arg)
    BY <1>1, FS_Interval
  <2> QED
    BY <2>1, FS_Subset
<1> QED
  BY <1>2, FS_CardinalityType DEF Repls

\* an argument that holds REPL once at most has room for any item
LEMMA OneReplFits ==
  ASSUME NEW arg \in Seq(STRING), NEW item, Size(item) \in Nat, Repls(arg) <= 1
  PROVE  Fits(arg, item)
<1>1. Len(arg) \in Nat /\ ReplSize \in Nat \ {0}
  BY LenProperties, XargsAssumption
<1>2. Repls(arg) \in Nat
  BY ReplsNat
<1>3. CASE Repls(arg) = 0
  <2>1. Spelled(arg, item) = Len(arg) + 1 /\ Room(arg, item) = 2 * Len(arg) + Size(item) + 1
    BY <1>1, <1>3 DEF Spelled, Room
  <2> QED
    BY <1>1, <2>1 DEF Fits
<1>4. CASE Repls(arg) = 1
  <2>1. /\ Spelled(arg, item) = Len(arg) + Size(item)
        /\ Room(arg, item) = 2 * (Len(arg) + ReplSize - 1) + Size(item) + 1
    BY <1>1, <1>4 DEF Spelled, Room
  <2> QED
    BY <1>1, <2>1 DEF Fits
<1> QED
  BY <1>2, <1>3, <1>4

LEMMA OverflowKeeps ==
  ASSUME XaInv, XargsOverflow
  PROVE  XaInv'
<1>1. /\ XaTypes /\ CutSoFar /\ xpc = "batch" /\ xpc' = "broken" /\ More /\ ~AllFit
      /\ UNCHANGED <<call, cutAt, items, next, ran, codes, rcx>>
  BY DEF XaInv, XargsOverflow
<1>2. XaTypes' /\ CutSoFar'
  BY <1>1 DEF XaTypes, CutSoFar, IsItem, Word, Gap
<1>3. PICK k \in 1..Len(call.base) : items # <<>> /\ ~Fits(call.base[k], items[next])
  BY <1>1 DEF AllFit
<1>4. next \in 1..Len(items)
  <2>1. Len(items) \in Nat /\ next \in Nat \ {0}
    BY <1>1, LenProperties DEF XaTypes
  <2>2. next <= Len(items)
    <3>1. items # <<>> /\ More
      BY <1>1, <1>3
    <3> QED
      BY <3>1, Zenon DEF More
  <2> QED
    BY <2>1, <2>2
<1>5. Size(items[next]) \in Nat
  <2>1. PICK x : x = items[next]
    OBVIOUS
  <2>2. x \in [from : Nat, to : Nat]
    BY <1>1, <1>4, <2>1, ElementOfSeq DEF XaTypes
  <2>3. IsItem(x)
    BY <1>1, <1>4, <2>1 DEF CutSoFar
  <2>4. x.from \in Nat /\ x.to \in Nat /\ x.from \in 1..x.to
    BY <2>2, <2>3 DEF IsItem
  <2> QED
    BY <2>1, <2>4 DEF Size
<1>6. call.base[k] \in Seq(STRING)
  BY <1>1, CallIs DEF XaTypes
<1>7. ~(Repls(call.base[k]) <= 1)
  BY <1>3, <1>5, <1>6, OneReplFits
<1>8. Repls(call.base[k]) \in Nat
  BY <1>6, ReplsNat
<1>9. Repls(call.base[k]) > 1
  BY <1>7, <1>8
<1> QED
  BY <1>1, <1>2, <1>9 DEF XaInv

LEMMA XaSame ==
  ASSUME XaInv, UNCHANGED <<call, cutAt, items, next, ran, codes, rcx>>,
         xpc' = xpc \/ (xpc = "batch" /\ xpc' = "done" /\ ~More)
  PROVE  XaInv'
<1>1. XaTypes /\ CutSoFar
  BY DEF XaInv
<1>2. XaTypes'
  BY <1>1 DEF XaTypes
<1>3. CutSoFar'
  BY <1>1 DEF CutSoFar, IsItem, Word, Gap
<1>4. ASSUME xpc' \in {"split", "batch", "done"}, NoForkFailed' PROVE RunSoFar'
  <2>1. RunSoFar
    BY <1>4 DEF XaInv, NoForkFailed
  <2>2. Per' = Per
    BY DEF Per
  <2>3. \A line, a, b : IsCalledWith(line, a, b) => IsCalledWith(line, a, b)'
    BY DEF IsCalledWith, Letters, Substituted
  <2> QED
    BY <2>1, <2>2, <2>3 DEF RunSoFar
<1>5. xpc' = "done" => ~More'
  BY DEF XaInv, More
<1> QED
  BY <1>2, <1>3, <1>4, <1>5 DEF XaInv

LEMMA XaKeeps ==
  ASSUME XaInv, [XargsNext]_xargsVars
  PROVE  XaInv'
<1>1. CASE CutItem
  BY <1>1, CutItemKeeps
<1>2. CASE AllCut
  BY <1>2, AllCutKeeps
<1>3. CASE xargs_run
  BY <1>3, RunKeeps
<1>4. CASE XargsNoMemory
  BY <1>4, NoMemoryKeeps
<1>5. CASE XargsDone
  BY <1>5, XaSame DEF XargsDone
<1>6. CASE UNCHANGED xargsVars
  BY <1>6, XaSame DEF xargsVars
<1>7. CASE XargsOverflow
  BY <1>7, OverflowKeeps
<1> QED
  BY <1>1, <1>2, <1>3, <1>4, <1>5, <1>6, <1>7 DEF XargsNext

LEMMA XaBatches == XaInv => BatchesRunEachItem
<1>1. SUFFICES ASSUME XaInv PROVE BatchesRunEachItem
  OBVIOUS
<1>2. XaTypes /\ CutSoFar
  BY <1>1 DEF XaInv
<1>3. PICK l : l = Len(call.input)
  OBVIOUS
<1>4. l \in Nat /\ cutAt \in 0..l /\ Len(items) \in Nat /\ Per \in Nat \ {0} /\ next \in Nat
  BY <1>2, <1>3, CallIs DEF XaTypes
<1>5. ASSUME xpc \in {"batch", "done"}, NEW p \in 1..l, call.input[p] # Space
      PROVE  \E i \in 1..Len(items) : p \in items[i].from..items[i].to
  <2>1. p \in 1..cutAt \/ p \in cutAt + 1..l
    BY <1>4
  <2> QED
    BY <1>2, <1>3, <1>5, <2>1 DEF CutSoFar, Gap
<1>6. ASSUME xpc = "done", NoForkFailed
      PROVE  /\ \A i \in 1..Len(codes) : codes[i] <= rcx
             /\ rcx = 0 \/ \E i \in 1..Len(codes) : rcx = codes[i]
             /\ items = <<>> => ran = IF call.runEmpty THEN <<call.base>> ELSE <<>>
             /\ items # <<>> =>
                  /\ (Len(ran) - 1) * Per < Len(items) /\ Len(items) <= Len(ran) * Per
                  /\ \A k \in 1..Len(ran) :
                       IsCalledWith(ran[k], (k - 1) * Per + 1, Least(k * Per, Len(items)))
  <2>1. RunSoFar /\ ~More
    BY <1>1, <1>6 DEF XaInv
  <2>2. items = <<>> => (call.runEmpty <=> codes # <<>>)
    BY <2>1 DEF RunSoFar, More
  <2>3. ASSUME items # <<>>
        PROVE  /\ (Len(ran) - 1) * Per < Len(items) /\ Len(items) <= Len(ran) * Per
               /\ \A k \in 1..Len(ran) :
                    IsCalledWith(ran[k], (k - 1) * Per + 1, Least(k * Per, Len(items)))
    <3>1. PICK r, m, n : r = Len(ran) /\ m = r * Per /\ n = Len(items)
      OBVIOUS
    <3>2. next = Least(m, n) + 1 /\ (r = 0 \/ (r - 1) * Per < n) /\ ~(next <= n)
      BY <2>1, <2>3, <3>1 DEF RunSoFar, More
    <3>3. r \in Nat /\ m \in Nat /\ n \in Nat /\ n > 0
      BY <1>2, <1>4, <2>3, <3>1 DEF XaTypes
    <3>4. n <= m
      BY <3>2, <3>3 DEF Least
    <3>5. r # 0
      BY <1>4, <3>1, <3>3, <3>4
    <3> QED
      BY <2>1, <2>3, <3>1, <3>2, <3>4, <3>5 DEF RunSoFar
  <2> QED
    BY <2>1, <2>2, <2>3 DEF RunSoFar
<1> QED
  BY <1>1, <1>2, <1>3, <1>5, <1>6 DEF BatchesRunEachItem, CutSoFar, NoForkFailed, XaInv

(* Every item of the input reaches exactly one command, whole and in its   *)
(* order, in batches of the size asked for, and the status is the largest  *)
(* of the commands' (ex_admin.c: cact_ub_xargs, xargs_run), unless a fork  *)
(* or an allocation fails or REPL stands twice in one argument and the     *)
(* item is too long for the buffer: of these the last can only be so.      *)
THEOREM BatchesRunEachItemHolds == XargsSpec => []BatchesRunEachItem
<1>1. XargsInit => XaInv
  BY XaStarts
<1>2. XaInv /\ [XargsNext]_xargsVars => XaInv'
  BY XaKeeps
<1>3. XaInv => BatchesRunEachItem
  BY XaBatches
<1> QED
  BY <1>1, <1>2, <1>3, PTL DEF XargsSpec

-----------------------------------------------------------------------------
(* The shell's control channel: every line in the pipe lies there whole,   *)
(* so that the reader, who sees only what the bytes say, cuts it where the *)
(* tools meant it.                                                         *)

PipeByte(t, j, k) == [tool |-> t, req |-> j, pos |-> k]

ChTypes ==
  /\ asked \in [Tools -> Requests]
  /\ turn \in [Tools -> Nat \ {0}] /\ put \in [Tools -> Nat]
  /\ lost \in [Tools -> SUBSET Nat] /\ rcc \in [Tools -> {0, 1}]
  /\ pipe \in Seq([tool : Tools, req : Nat, pos : Nat])
  /\ heard \in Seq([from : Nat, to : Nat]) /\ upto \in 0..Len(pipe)
  /\ ctlpc \in {"send", "done"}

Told ==
  \A t \in Tools : /\ rcc[t] = 0 <=> lost[t] = {}
                   /\ \A j \in lost[t] : j < turn[t]

\* the line of the byte at i is in the pipe from end to end
LineAround(i) ==
  LET t == pipe[i].tool
      j == pipe[i].req
      k == pipe[i].pos
  IN  /\ t \in Tools /\ j \in DOMAIN asked[t] \ lost[t] /\ j < turn[t]
      /\ k \in 1..LineLen(t, j) /\ k <= i /\ i - k + LineLen(t, j) <= Len(pipe)
      /\ \A m \in 1..LineLen(t, j) : pipe[i - k + m] = PipeByte(t, j, m)
PipeLaid == \A i \in 1..Len(pipe) : LineAround(i)

AllLaid ==
  \A t \in Tools : \A j \in DOMAIN asked[t] \ lost[t] :
    j < turn[t] => \E i \in 1..Len(pipe) : pipe[i] = PipeByte(t, j, 1)

InOrder ==
  \A h, i \in 1..Len(pipe) :
    h < i /\ pipe[h].tool = pipe[i].tool =>
      pipe[h].req < pipe[i].req \/ (pipe[h].req = pipe[i].req /\ pipe[h].pos < pipe[i].pos)

\* what was got are the lines in front of upto
LinesGot ==
  /\ upto = 0 \/ Says(pipe[upto]) = Newline
  /\ \A g \in 1..Len(heard) :
       /\ heard[g].from > 0 /\ heard[g].to <= upto
       /\ \E t \in Tools : \E j \in DOMAIN asked[t] : IsLine(heard[g], t, j)
  /\ \A g, h \in 1..Len(heard) : g < h => heard[g].to < heard[h].from
  /\ \A p \in 1..upto : \E g \in 1..Len(heard) : p \in heard[g].from..heard[g].to

NothingPut == \A t \in Tools : put[t] = 0
AllEnded ==
  /\ \A t \in Tools : Ended(t)
  /\ \A i \in upto + 1..Len(pipe) : Says(pipe[i]) # Newline

ChInv ==
  /\ ChTypes /\ Told
  /\ Plain => NothingPut /\ PipeLaid /\ AllLaid /\ InOrder /\ LinesGot
  /\ ctlpc = "done" => AllEnded

LEMMA ByteIs ==
  ASSUME NEW t, NEW j, NEW k
  PROVE  PipeByte(t, j, k).tool = t /\ PipeByte(t, j, k).req = j /\ PipeByte(t, j, k).pos = k
BY DEF PipeByte

LEMMA LineIsLong ==
  ASSUME ChTypes, NEW t \in Tools
  PROVE  /\ Len(asked[t]) \in Nat /\ DOMAIN asked[t] = 1..Len(asked[t])
         /\ \A j \in DOMAIN asked[t] :
              /\ Len(asked[t][j]) \in Nat /\ LineLen(t, j) \in Nat /\ LineLen(t, j) > 0
              /\ LineLen(t, j) = Len(asked[t][j]) + 1
              /\ DOMAIN asked[t][j] = 1..Len(asked[t][j])
<1>1. asked[t] \in Seq(Seq(STRING))
  BY ChannelAssumption DEF ChTypes
<1>2. Len(asked[t]) \in Nat /\ DOMAIN asked[t] = 1..Len(asked[t])
  BY <1>1, LenProperties
<1>3. ASSUME NEW j \in DOMAIN asked[t]
      PROVE  /\ Len(asked[t][j]) \in Nat /\ LineLen(t, j) \in Nat /\ LineLen(t, j) > 0
             /\ LineLen(t, j) = Len(asked[t][j]) + 1
             /\ DOMAIN asked[t][j] = 1..Len(asked[t][j])
  <2>1. asked[t][j] \in Seq(STRING)
    BY <1>1, <1>2, <1>3, ElementOfSeq
  <2>2. Len(asked[t][j]) \in Nat /\ DOMAIN asked[t][j] = 1..Len(asked[t][j])
    BY <2>1, LenProperties
  <2> QED
    BY <2>2 DEF LineLen
<1> QED
  BY <1>2, <1>3

LEMMA NewlinesEnd ==
  ASSUME ChTypes, Plain, NEW i \in 1..Len(pipe), LineAround(i)
  PROVE  Says(pipe[i]) = Newline <=> pipe[i].pos = LineLen(pipe[i].tool, pipe[i].req)
<1>1. PICK t, j, k : t = pipe[i].tool /\ j = pipe[i].req /\ k = pipe[i].pos
  OBVIOUS
<1>2. t \in Tools /\ j \in DOMAIN asked[t] /\ k \in 1..LineLen(t, j)
  BY <1>1 DEF LineAround
<1>3. ASSUME k # LineLen(t, j) PROVE asked[t][j][k] # Newline
  <2>1. k \in DOMAIN asked[t][j]
    BY <1>2, <1>3, LineIsLong
  <2> QED
    BY <1>2, <2>1 DEF Plain
<1> QED
  BY <1>1, <1>3 DEF Says

\* Beyond what was read a whole line begins.
LEMMA NextLine ==
  ASSUME ChInv, Plain, upto < Len(pipe)
  PROVE  \E t \in Tools : \E j \in DOMAIN asked[t] :
           /\ upto + LineLen(t, j) <= Len(pipe)
           /\ \A m \in 1..LineLen(t, j) :
                /\ pipe[upto + m] = PipeByte(t, j, m)
                /\ Says(pipe[upto + m]) = Newline <=> m = LineLen(t, j)
<1>1. ChTypes /\ PipeLaid /\ LinesGot
  BY DEF ChInv
<1>2. PICK s, l : s = upto + 1 /\ l = Len(pipe)
  OBVIOUS
<1>3. l \in Nat /\ upto \in Nat /\ upto < l /\ s \in 1..l
  BY <1>1, <1>2, LenProperties DEF ChTypes
<1>4. PICK t, j, k : t = pipe[s].tool /\ j = pipe[s].req /\ k = pipe[s].pos
  OBVIOUS
<1>5. LineAround(s)
  BY <1>1, <1>2, <1>3 DEF PipeLaid
<1>6. /\ t \in Tools /\ j \in DOMAIN asked[t]
      /\ k \in 1..LineLen(t, j) /\ k <= s /\ s - k + LineLen(t, j) <= l
      /\ \A m \in 1..LineLen(t, j) : pipe[s - k + m] = PipeByte(t, j, m)
  BY <1>2, <1>4, <1>5 DEF LineAround
<1>7. PICK n : n = LineLen(t, j)
  OBVIOUS
<1>8. n \in Nat /\ n > 0 /\ k \in 1..n
  BY <1>1, <1>6, <1>7, LineIsLong
<1>9. k = 1
  <2>1. SUFFICES ASSUME k # 1 PROVE FALSE
    OBVIOUS
  <2>2. k - 1 \in 1..n /\ s - k + (k - 1) = upto /\ upto \in 1..l /\ upto # 0
    BY <1>2, <1>3, <1>6, <1>8, <2>1
  <2>3. pipe[upto] = PipeByte(t, j, k - 1)
    BY <1>6, <1>7, <2>2
  <2>4. Says(pipe[upto]) = Newline
    BY <1>1, <2>2 DEF LinesGot
  <2>5. LineAround(upto)
    BY <1>1, <1>2, <2>2 DEF PipeLaid
  <2>6. k - 1 = n
    BY <1>1, <1>2, <1>7, <2>2, <2>3, <2>4, <2>5, NewlinesEnd, ByteIs
  <2> QED
    BY <1>8, <2>6
<1>10. \A m \in 1..n : pipe[upto + m] = PipeByte(t, j, m) /\ upto + m \in 1..l
  <2>1. SUFFICES ASSUME NEW m \in 1..n
                 PROVE  pipe[upto + m] = PipeByte(t, j, m) /\ upto + m \in 1..l
    OBVIOUS
  <2>2. s - k + m = upto + m /\ upto + m \in 1..l
    BY <1>2, <1>3, <1>6, <1>7, <1>8, <1>9
  <2> QED
    BY <1>6, <1>7, <2>2
<1>11. \A m \in 1..n : Says(pipe[upto + m]) = Newline <=> m = n
  <2>1. SUFFICES ASSUME NEW m \in 1..n PROVE Says(pipe[upto + m]) = Newline <=> m = n
    OBVIOUS
  <2>2. PICK p : p = upto + m
    OBVIOUS
  <2>3. p \in 1..l /\ pipe[p] = PipeByte(t, j, m)
    BY <1>10, <2>2
  <2>4. LineAround(p)
    BY <1>1, <1>2, <2>3 DEF PipeLaid
  <2> QED
    BY <1>1, <1>2, <1>7, <2>2, <2>3, <2>4, NewlinesEnd, ByteIs
<1>12. upto + n <= l
  BY <1>2, <1>3, <1>6, <1>7, <1>8, <1>9
<1> QED
  BY <1>2, <1>6, <1>7, <1>10, <1>11, <1>12

LEMMA ChStarts == ChannelInit => ChInv
<1>1. SUFFICES ASSUME ChannelInit PROVE ChInv
  OBVIOUS
<1>2. /\ asked \in [Tools -> Requests]
      /\ turn = [t \in Tools |-> 1] /\ put = [t \in Tools |-> 0] /\ pipe = <<>>
      /\ lost = [t \in Tools |-> {}] /\ rcc = [t \in Tools |-> 0]
      /\ upto = 0 /\ heard = <<>> /\ ctlpc = "send"
  BY <1>1 DEF ChannelInit
<1>3. Len(pipe) = 0 /\ Len(heard) = 0
  BY <1>2
<1>4. ChTypes
  BY <1>2, <1>3 DEF ChTypes
<1>5. Told
  BY <1>2 DEF Told
<1>6. NothingPut
  BY <1>2 DEF NothingPut
<1>7. PipeLaid /\ InOrder
  BY <1>3 DEF PipeLaid, InOrder
<1>8. AllLaid
  <2>1. \A t \in Tools : \A j \in DOMAIN asked[t] : ~(j < turn[t])
    BY <1>2, <1>4, LineIsLong
  <2> QED
    BY <2>1 DEF AllLaid
<1>9. LinesGot
  BY <1>2, <1>3 DEF LinesGot
<1> QED
  BY <1>2, <1>4, <1>5, <1>6, <1>7, <1>8, <1>9 DEF ChInv

\* ctl_send fails: nothing of the line comes into the pipe.
LEMMA CannotSendKeeps ==
  ASSUME ChInv, NEW t \in Tools, ~Ended(t), CannotSend(t)
  PROVE  ChInv'
<1>1. /\ ChTypes /\ Told /\ ctlpc = "send"
      /\ lost' = [lost EXCEPT ![t] = @ \cup {turn[t]}] /\ rcc' = [rcc EXCEPT ![t] = 1]
      /\ turn' = [turn EXCEPT ![t] = @ + 1] /\ put' = [put EXCEPT ![t] = 0]
      /\ asked' = asked /\ pipe' = pipe /\ upto' = upto /\ heard' = heard /\ ctlpc' = ctlpc
  BY DEF ChInv, CannotSend, AllEnded, ChTypes
<1>2. /\ turn[t] \in Nat \ {0} /\ turn'[t] = turn[t] + 1
      /\ \A u \in Tools : turn[u] \in Nat /\ turn'[u] \in Nat \ {0} /\ turn[u] <= turn'[u]
      /\ \A u \in Tools : u # t => turn'[u] = turn[u]
  BY <1>1 DEF ChTypes
<1>3. /\ lost'[t] = lost[t] \cup {turn[t]} /\ \A u \in Tools : u # t => lost'[u] = lost[u]
      /\ \A u \in Tools : lost[u] \subseteq lost'[u] /\ lost[u] \subseteq Nat /\ lost'[u] \subseteq Nat
  BY <1>1, <1>2 DEF ChTypes
<1>4. rcc'[t] = 1 /\ \A u \in Tools : u # t => rcc'[u] = rcc[u]
  BY <1>1 DEF ChTypes
<1>5. ChTypes'
  BY <1>1, <1>2, <1>3 DEF ChTypes
<1>6. Told'
  <2>1. SUFFICES ASSUME NEW u \in Tools
                 PROVE  /\ rcc'[u] = 0 <=> lost'[u] = {}
                        /\ \A j \in lost'[u] : j < turn'[u]
    BY DEF Told
  <2>2. CASE u # t
    BY <1>1, <1>2, <1>3, <1>4, <2>2 DEF Told
  <2>3. CASE u = t
    <3>1. ASSUME NEW j \in lost'[t] PROVE j < turn'[t]
      <4>1. CASE j = turn[t]
        BY <1>2, <4>1
      <4>2. CASE j \in lost[t]
        <5>1. j < turn[t] /\ j \in Nat
          BY <1>1, <1>3, <4>2 DEF Told
        <5> QED
          BY <1>2, <5>1
      <4> QED
        BY <1>3, <3>1, <4>1, <4>2
    <3> QED
      BY <1>3, <1>4, <2>3, <3>1
  <2> QED
    BY <2>2, <2>3
<1>7. Plain' => NothingPut' /\ PipeLaid' /\ AllLaid' /\ InOrder' /\ LinesGot'
  <2>1. SUFFICES ASSUME Plain' PROVE NothingPut' /\ PipeLaid' /\ AllLaid' /\ InOrder' /\ LinesGot'
    OBVIOUS
  <2>2. Plain
    BY <1>1, <2>1 DEF Plain, LineLen
  <2>3. NothingPut /\ PipeLaid /\ AllLaid /\ InOrder /\ LinesGot
    BY <2>2 DEF ChInv
  <2>4. NothingPut'
    BY <1>1, <2>3 DEF NothingPut, ChTypes
  <2>5. PipeLaid'
    <3>1. SUFFICES ASSUME NEW i \in 1..Len(pipe) PROVE LineAround(i)'
      BY <1>1 DEF PipeLaid
    <3>2. PICK u, j : u = pipe[i].tool /\ j = pipe[i].req
      OBVIOUS
    <3>3. LineAround(i)
      BY <2>3 DEF PipeLaid
    <3>4. u \in Tools /\ j \in DOMAIN asked[u] /\ j \notin lost[u] /\ j < turn[u]
      BY <3>2, <3>3 DEF LineAround
    <3>5. j \in Nat
      BY <1>1, <3>4, LineIsLong
    <3>6. j \notin lost'[u] /\ j < turn'[u]
      BY <1>2, <1>3, <3>4, <3>5
    <3> QED
      BY <1>1, <3>2, <3>3, <3>4, <3>6 DEF LineAround, LineLen
  <2>6. AllLaid'
    <3>1. SUFFICES ASSUME NEW u \in Tools, NEW j \in DOMAIN asked[u], j \notin lost'[u], j < turn'[u]
                   PROVE  \E i \in 1..Len(pipe) : pipe[i] = PipeByte(u, j, 1)
      BY <1>1 DEF AllLaid
    <3>2. j \in Nat
      BY <1>1, LineIsLong
    <3>3. j < turn[u] /\ j \notin lost[u]
      BY <1>2, <1>3, <3>1, <3>2
    <3> QED
      BY <2>3, <3>3 DEF AllLaid
  <2>7. InOrder'
    BY <1>1, <2>3 DEF InOrder
  <2>8. LinesGot'
    BY <1>1, <2>3 DEF LinesGot, IsLine, Says, LineLen
  <2> QED
    BY <2>4, <2>5, <2>6, <2>7, <2>8
<1> QED
  BY <1>1, <1>5, <1>6, <1>7 DEF ChInv

\* n more bytes of a line at the end of the pipe
Appended(t, j, from, n) ==
  /\ Len(pipe') = Len(pipe) + n
  /\ \A i \in 1..Len(pipe) : pipe'[i] = pipe[i]
  /\ \A k \in 1..n : pipe'[Len(pipe) + k] = PipeByte(t, j, from + k)
  /\ pipe' \in Seq([tool : Tools, req : Nat, pos : Nat])

LEMMA WriteAppends ==
  ASSUME ChTypes, NEW t \in Tools, NEW n \in Nat, Write(t, n)
  PROVE  Appended(t, turn[t], put[t], n)
<1>1. PICK S : S = [tool : Tools, req : Nat, pos : Nat]
  OBVIOUS
<1>2. PICK more : more = [k \in 1..n |-> [tool |-> t, req |-> turn[t], pos |-> put[t] + k]]
  OBVIOUS
<1>3. turn[t] \in Nat /\ put[t] \in Nat
  BY DEF ChTypes
<1>4. DOMAIN more = 1..n /\ \A k \in 1..n : more[k] = PipeByte(t, turn[t], put[t] + k)
  BY <1>2 DEF PipeByte
<1>5. \A k \in 1..n : more[k] \in S
  <2>1. \A k \in 1..n : put[t] + k \in Nat
    BY <1>3
  <2> QED
    BY <1>1, <1>3, <1>4, <2>1 DEF PipeByte
<1>6. more \in [1..n -> S]
  BY <1>2, <1>5
<1>7. more \in Seq(S)
  BY <1>6
<1>8. Len(more) = n
  BY <1>4, <1>7, LenProperties
<1>9. pipe \in Seq(S) /\ pipe' = pipe \o more /\ Len(pipe) \in Nat
  BY <1>1, <1>2, LenProperties DEF ChTypes, Write
<1>10. pipe' \in Seq(S) /\ Len(pipe') = Len(pipe) + n
  BY <1>7, <1>8, <1>9, ConcatProperties
<1>11. \A i \in 1..Len(pipe) + n :
         pipe'[i] = IF i <= Len(pipe) THEN pipe[i] ELSE more[i - Len(pipe)]
  BY <1>7, <1>8, <1>9, ConcatProperties
<1>12. PICK l : l = Len(pipe) /\ l \in Nat
  BY <1>9
<1>13. \A i \in 1..l : pipe'[i] = pipe[i]
  <2>1. \A i \in 1..l : i \in 1..l + n /\ i <= l
    BY <1>12
  <2> QED
    BY <1>11, <1>12, <2>1
<1>14. \A k \in 1..n : pipe'[l + k] = more[k]
  <2>1. \A k \in 1..n : l + k \in 1..l + n /\ ~(l + k <= l) /\ l + k - l = k
    BY <1>12
  <2> QED
    BY <1>11, <1>12, <2>1
<1> QED
  BY <1>1, <1>4, <1>10, <1>12, <1>13, <1>14 DEF Appended

\* The pipe only grows: lines read stay where they are.
LEMMA GrownKeepsLines ==
  ASSUME ChTypes, NEW t, NEW j, NEW from, NEW n \in Nat, Appended(t, j, from, n),
         asked' = asked, upto' = upto, heard' = heard, LinesGot
  PROVE  LinesGot'
<1>1. PICK l : l = Len(pipe)
  OBVIOUS
<1>2. /\ l \in Nat /\ upto \in 0..l /\ Len(heard) \in Nat
      /\ \A i \in 1..l : pipe'[i] = pipe[i]
      /\ \A g \in 1..Len(heard) : heard[g].from \in Nat /\ heard[g].to \in Nat
  <2>1. l \in Nat /\ upto \in 0..l /\ Len(heard) \in Nat
    BY <1>1, LenProperties DEF ChTypes
  <2>2. \A i \in 1..l : pipe'[i] = pipe[i]
    BY <1>1 DEF Appended
  <2>3. \A g \in 1..Len(heard) : heard[g] \in [from : Nat, to : Nat]
    BY ElementOfSeq DEF ChTypes
  <2> QED
    BY <2>1, <2>2, <2>3
<1>3. upto = 0 \/ Says(pipe[upto])' = Newline
  <2>1. upto # 0 => upto \in 1..l
    BY <1>2
  <2> QED
    BY <1>2, <2>1 DEF LinesGot, Says, LineLen
<1>4. ASSUME NEW g \in 1..Len(heard), NEW u \in Tools, NEW m \in DOMAIN asked[u],
             heard[g].from > 0, heard[g].to <= upto, IsLine(heard[g], u, m)
      PROVE  IsLine(heard[g], u, m)'
  <2>1. PICK a, b, e : a = heard[g].from /\ b = heard[g].to /\ e = Len(asked[u][m])
    OBVIOUS
  <2>2. a \in Nat /\ b \in Nat /\ a > 0 /\ b <= l /\ b = a + e /\ e \in Nat /\ LineLen(u, m) = e + 1
    BY <1>2, <1>4, <2>1, LineIsLong DEF IsLine
  <2>3. \A k \in 1..LineLen(u, m) : a + k - 1 \in 1..l
    BY <1>2, <2>2
  <2>4. \A k \in 1..LineLen(u, m) : pipe'[a + k - 1] = [tool |-> u, req |-> m, pos |-> k]
    BY <1>2, <1>4, <2>1, <2>3 DEF IsLine
  <2>5. heard[g].to = heard[g].from + Len(asked[u][m])
    BY <1>4 DEF IsLine
  <2> QED
    BY <2>1, <2>4, <2>5 DEF IsLine, LineLen
<1>5. \A g \in 1..Len(heard) :
        /\ heard[g].from > 0 /\ heard[g].to <= upto
        /\ \E u \in Tools : \E m \in DOMAIN asked[u] : IsLine(heard[g], u, m)'
  BY <1>4 DEF LinesGot
<1>6. /\ \A g, h \in 1..Len(heard) : g < h => heard[g].to < heard[h].from
      /\ \A p \in 1..upto : \E g \in 1..Len(heard) : p \in heard[g].from..heard[g].to
  BY DEF LinesGot
<1> QED
  BY <1>3, <1>5, <1>6 DEF LinesGot

\* A line written in one piece lies whole behind the others.
LEMMA PlainWriteKeeps ==
  ASSUME ChInv, Plain, NEW t \in Tools, ~Ended(t), write_all(t)
  PROVE  NothingPut' /\ PipeLaid' /\ AllLaid' /\ InOrder' /\ LinesGot'
<1>1. /\ ChTypes /\ Told /\ NothingPut /\ PipeLaid /\ AllLaid /\ InOrder /\ LinesGot
      /\ put[t] = 0
  BY DEF ChInv, NothingPut
<1>2. PICK j : j = turn[t]
  OBVIOUS
<1>3. /\ j \in Nat \ {0} /\ j \in DOMAIN asked[t] /\ j \notin lost[t]
  <2>1. j \in Nat \ {0} /\ ~(j > Len(asked[t]))
    BY <1>1, <1>2 DEF ChTypes, Ended
  <2>2. j \in DOMAIN asked[t]
    BY <1>1, <2>1, LineIsLong
  <2>3. j \notin lost[t]
    BY <1>1, <1>2, <2>1 DEF Told
  <2> QED
    BY <2>1, <2>2, <2>3
<1>4. PICK n : n = LineLen(t, j)
  OBVIOUS
<1>5. n \in Nat /\ n > 0 /\ n <= PipeBuf
  <2>1. n \in Nat /\ n > 0
    BY <1>1, <1>3, <1>4, LineIsLong
  <2>2. n <= MaxLine /\ (n <= PipeBuf \/ n > MaxLine)
    BY <1>2, <1>3, <1>4 DEF write_all, Sendable, Plain
  <2> QED
    BY <2>1, <2>2, ChannelAssumption
<1>6. Write(t, n)
  <2>1. PICK w \in 1..n - put[t] : (n - put[t] <= PipeBuf => w = n - put[t]) /\ Write(t, w)
    BY <1>2, <1>4 DEF write_all
  <2>2. n - put[t] = n
    BY <1>1, <1>5
  <2> QED
    BY <1>5, <2>1, <2>2
<1>7. /\ put' = [put EXCEPT ![t] = 0] /\ turn' = [turn EXCEPT ![t] = @ + 1]
      /\ asked' = asked /\ lost' = lost /\ upto' = upto /\ heard' = heard
  <2>1. put[t] + n = LineLen(t, turn[t])
    BY <1>1, <1>2, <1>4, <1>5
  <2> QED
    BY <1>6, <2>1 DEF Write
<1>8. /\ turn'[t] = j + 1
      /\ \A u \in Tools : turn[u] \in Nat /\ turn'[u] \in Nat /\ turn[u] <= turn'[u]
      /\ \A u \in Tools : u # t => turn'[u] = turn[u]
  BY <1>1, <1>2, <1>7 DEF ChTypes
<1>9. Appended(t, j, 0, n)
  BY <1>1, <1>2, <1>5, <1>6, WriteAppends
<1>10. PICK l : l = Len(pipe)
  OBVIOUS
<1>11. /\ l \in Nat /\ Len(pipe') = l + n
       /\ \A i \in 1..l : pipe'[i] = pipe[i]
  BY <1>1, <1>9, <1>10, LenProperties DEF ChTypes, Appended
<1>12. \A k \in 1..n : pipe'[l + k] = PipeByte(t, j, k)
  <2>1. \A k \in 1..n : 0 + k = k
    OBVIOUS
  <2> QED
    BY <1>9, <1>10, <2>1 DEF Appended
<1>13. \A i \in 1..l + n : i \in 1..l \/ \E k \in 1..n : i = l + k
  <2>1. SUFFICES ASSUME NEW i \in 1..l + n, i \notin 1..l PROVE \E k \in 1..n : i = l + k
    OBVIOUS
  <2>2. i - l \in 1..n /\ i = l + (i - l)
    BY <1>5, <1>11, <2>1
  <2> QED
    BY <2>2
<1>14. NothingPut'
  BY <1>1, <1>7 DEF NothingPut, ChTypes
<1>15. PipeLaid'
  <2>1. ASSUME NEW i \in 1..l PROVE LineAround(i)'
    <3>1. PICK u, m, k : u = pipe[i].tool /\ m = pipe[i].req /\ k = pipe[i].pos
      OBVIOUS
    <3>2. LineAround(i)
      BY <1>1, <1>10, <2>1 DEF PipeLaid
    <3>3. /\ u \in Tools /\ m \in DOMAIN asked[u] /\ m \notin lost[u] /\ m < turn[u]
          /\ k \in 1..LineLen(u, m) /\ k <= i /\ i - k + LineLen(u, m) <= l
          /\ \A q \in 1..LineLen(u, m) : pipe[i - k + q] = PipeByte(u, m, q)
      BY <1>10, <3>1, <3>2 DEF LineAround
    <3>4. PICK e : e = LineLen(u, m)
      OBVIOUS
    <3>5. e \in Nat /\ m \in Nat
      BY <1>1, <3>3, <3>4, LineIsLong
    <3>6. m < turn'[u] /\ i - k + e <= l + n
      BY <1>5, <1>8, <1>11, <3>3, <3>4, <3>5
    <3>7. \A q \in 1..e : i - k + q \in 1..l
      BY <1>11, <2>1, <3>3, <3>4, <3>5
    <3>8. \A q \in 1..e : pipe'[i - k + q] = PipeByte(u, m, q)
      BY <1>11, <3>3, <3>4, <3>7
    <3>9. u = pipe'[i].tool /\ m = pipe'[i].req /\ k = pipe'[i].pos
      BY <1>11, <2>1, <3>1
    <3>10. LineLen(u, m)' = e
      BY <1>7, <3>4 DEF LineLen
    <3> QED
      BY <1>7, <1>11, <3>3, <3>4, <3>6, <3>8, <3>9, <3>10 DEF LineAround
  <2>2. ASSUME NEW k \in 1..n PROVE LineAround(l + k)'
    <3>1. t = pipe'[l + k].tool /\ j = pipe'[l + k].req /\ k = pipe'[l + k].pos
      BY <1>12, <2>2, ByteIs
    <3>2. LineLen(t, j)' = n
      BY <1>4, <1>7 DEF LineLen
    <3>3. j < turn'[t]
      BY <1>3, <1>8
    <3>4. PICK i : i = l + k
      OBVIOUS
    <3>5. i - k = l /\ k <= i /\ i - k + n <= l + n /\ k \in 1..n
      BY <1>5, <1>11, <2>2, <3>4
    <3>6. \A m \in 1..n : pipe'[i - k + m] = PipeByte(t, j, m)
      BY <1>12, <3>5
    <3>7. Len(pipe') = l + n /\ asked' = asked /\ lost' = lost
      BY <1>7, <1>11
    <3>8. t = pipe'[i].tool /\ j = pipe'[i].req /\ k = pipe'[i].pos
      BY <3>1, <3>4
    <3>9. LineAround(i)'
      BY <1>3, <3>2, <3>3, <3>5, <3>6, <3>7, <3>8 DEF LineAround
    <3> QED
      BY <3>4, <3>9
  <2> QED
    BY <1>11, <1>13, <2>1, <2>2 DEF PipeLaid
<1>16. AllLaid'
  <2>1. SUFFICES ASSUME NEW u \in Tools, NEW m \in DOMAIN asked[u], m \notin lost[u], m < turn'[u]
                 PROVE  \E i \in 1..l + n : pipe'[i] = PipeByte(u, m, 1)
    BY <1>7, <1>11 DEF AllLaid
  <2>2. m \in Nat
    BY <1>1, LineIsLong
  <2>3. CASE m < turn[u]
    <3>1. PICK i \in 1..l : pipe[i] = PipeByte(u, m, 1)
      BY <1>1, <1>10, <2>1, <2>3 DEF AllLaid
    <3>2. i \in 1..l + n
      BY <1>5, <1>11
    <3> QED
      BY <1>11, <3>1, <3>2
  <2>4. CASE u = t /\ m = j
    <3>1. 1 \in 1..n /\ l + 1 \in 1..l + n
      BY <1>5, <1>11
    <3> QED
      BY <1>12, <2>4, <3>1
  <2> QED
    BY <1>2, <1>8, <2>1, <2>2, <2>3, <2>4
<1>17. InOrder'
  <2>1. SUFFICES ASSUME NEW h \in 1..l + n, NEW i \in 1..l + n, h < i,
                        pipe'[h].tool = pipe'[i].tool
                 PROVE  \/ pipe'[h].req < pipe'[i].req
                        \/ pipe'[h].req = pipe'[i].req /\ pipe'[h].pos < pipe'[i].pos
    BY <1>11 DEF InOrder
  <2>2. CASE i \in 1..l
    <3>1. h \in 1..l
      BY <1>11, <2>1, <2>2
    <3> QED
      BY <1>1, <1>10, <1>11, <2>1, <2>2, <3>1 DEF InOrder
  <2>3. CASE h \in 1..l /\ \E k \in 1..n : i = l + k
    <3>1. pipe'[i].tool = t /\ pipe'[i].req = j
      BY <1>12, <2>3, ByteIs
    <3>2. LineAround(h)
      BY <1>1, <1>10, <2>3 DEF PipeLaid
    <3>3. pipe[h].tool = t
      BY <1>11, <2>1, <2>3, <3>1
    <3>4. pipe[h].req < turn[t]
      BY <3>2, <3>3 DEF LineAround
    <3> QED
      BY <1>2, <1>11, <2>3, <3>1, <3>4
  <2>4. CASE (\E k \in 1..n : h = l + k) /\ (\E k \in 1..n : i = l + k)
    <3>1. PICK a \in 1..n : h = l + a
      BY <2>4
    <3>2. PICK b \in 1..n : i = l + b
      BY <2>4
    <3>3. a < b
      BY <1>5, <1>11, <2>1, <3>1, <3>2
    <3>4. pipe'[h] = PipeByte(t, j, a) /\ pipe'[i] = PipeByte(t, j, b)
      BY <1>12, <3>1, <3>2
    <3> QED
      BY <3>3, <3>4, ByteIs
  <2> QED
    BY <1>13, <2>2, <2>3, <2>4
<1>18. LinesGot'
  BY <1>1, <1>5, <1>7, <1>9, GrownKeepsLines
<1> QED
  BY <1>14, <1>15, <1>16, <1>17, <1>18

LEMMA WriteAllKeeps ==
  ASSUME ChInv, NEW t \in Tools, write_all(t)
  PROVE  ChInv'
<1>1. ChTypes /\ Told /\ ~Ended(t)
  BY DEF ChInv, write_all
<1>2. PICK j, n : j = turn[t] /\ n = LineLen(t, j) - put[t]
  OBVIOUS
<1>3. PICK w \in 1..n : Write(t, w)
  BY <1>2 DEF write_all
<1>4. j \in Nat \ {0} /\ j \in DOMAIN asked[t]
  <2>1. j \in Nat \ {0} /\ ~(j > Len(asked[t]))
    BY <1>1, <1>2 DEF ChTypes, Ended
  <2> QED
    BY <1>1, <2>1, LineIsLong
<1>5. w \in Nat /\ put[t] \in Nat
  <2>1. LineLen(t, j) \in Nat /\ put[t] \in Nat
    BY <1>1, <1>4, LineIsLong DEF ChTypes
  <2> QED
    BY <1>2, <2>1
<1>6. Appended(t, j, put[t], w)
  BY <1>1, <1>2, <1>3, <1>5, WriteAppends
<1>7. /\ asked' = asked /\ lost' = lost /\ rcc' = rcc /\ upto' = upto /\ heard' = heard
      /\ ctlpc' = ctlpc
      /\ turn' \in [Tools -> Nat \ {0}] /\ put' \in [Tools -> Nat]
      /\ \A u \in Tools : turn[u] \in Nat /\ turn[u] <= turn'[u]
  <2>1. /\ asked' = asked /\ lost' = lost /\ rcc' = rcc /\ upto' = upto /\ heard' = heard
        /\ ctlpc' = ctlpc
    BY <1>3 DEF Write
  <2>2. turn \in [Tools -> Nat \ {0}] /\ put \in [Tools -> Nat]
    BY <1>1 DEF ChTypes
  <2>3. \/ put' = [put EXCEPT ![t] = 0] /\ turn' = [turn EXCEPT ![t] = @ + 1]
        \/ put' = [put EXCEPT ![t] = @ + w] /\ turn' = turn
    BY <1>3 DEF Write
  <2>4. turn' \in [Tools -> Nat \ {0}] /\ \A u \in Tools : turn[u] \in Nat /\ turn[u] <= turn'[u]
    BY <2>2, <2>3
  <2>5. put' \in [Tools -> Nat]
    BY <1>5, <2>2, <2>3
  <2> QED
    BY <2>1, <2>4, <2>5
<1>8. ChTypes'
  <2>1. pipe' \in Seq([tool : Tools, req : Nat, pos : Nat]) /\ upto \in 0..Len(pipe')
    <3>1. Len(pipe) \in Nat /\ upto \in 0..Len(pipe) /\ Len(pipe') = Len(pipe) + w
      BY <1>1, <1>6, LenProperties DEF ChTypes, Appended
    <3>2. upto \in 0..Len(pipe')
      BY <1>5, <3>1
    <3> QED
      BY <1>6, <3>2 DEF Appended
  <2> QED
    BY <1>1, <1>7, <2>1 DEF ChTypes
<1>9. Told'
  <2>1. ASSUME NEW u \in Tools, NEW m \in lost[u] PROVE m < turn'[u]
    <3>1. m < turn[u] /\ m \in Nat
      BY <1>1, <2>1 DEF Told, ChTypes
    <3>2. turn[u] \in Nat /\ turn'[u] \in Nat /\ turn[u] <= turn'[u]
      BY <1>7
    <3> QED
      BY <3>1, <3>2
  <2> QED
    BY <1>1, <1>7, <2>1 DEF Told
<1>10. ctlpc = "send"
  BY <1>1 DEF ChInv, AllEnded, ChTypes
<1>11. Plain' => Plain
  BY <1>7 DEF Plain, LineLen
<1> QED
  BY <1>1, <1>7, <1>8, <1>9, <1>10, <1>11, PlainWriteKeeps DEF ChInv

LEMMA PipeStays ==
  ASSUME UNCHANGED <<asked, turn, put, pipe, lost>>, NothingPut, PipeLaid, AllLaid, InOrder
  PROVE  NothingPut' /\ PipeLaid' /\ AllLaid' /\ InOrder'
<1>1. asked' = asked /\ turn' = turn /\ put' = put /\ pipe' = pipe /\ lost' = lost
  OBVIOUS
<1>2. NothingPut'
  BY <1>1 DEF NothingPut
<1>3. \A t, j : LineLen(t, j)' = LineLen(t, j)
  BY <1>1 DEF LineLen
<1>4. \A i : LineAround(i) => LineAround(i)'
  BY <1>1, <1>3 DEF LineAround
<1>5. PipeLaid'
  BY <1>1, <1>4 DEF PipeLaid
<1>6. AllLaid'
  BY <1>1 DEF AllLaid
<1>7. InOrder'
  BY <1>1 DEF InOrder
<1> QED
  BY <1>2, <1>5, <1>6, <1>7

LEMMA ReadLineKeeps ==
  ASSUME ChInv, ReadLine
  PROVE  ChInv'
<1>1. /\ ChTypes /\ Told /\ ctlpc = "send" /\ ctlpc' = ctlpc
      /\ asked' = asked /\ turn' = turn /\ put' = put /\ pipe' = pipe /\ lost' = lost /\ rcc' = rcc
  BY DEF ChInv, ReadLine
<1>2. PICK l : l = Len(pipe)
  OBVIOUS
<1>3. PICK e \in upto + 1..l :
        /\ Says(pipe[e]) = Newline /\ \A i \in upto + 1..e - 1 : Says(pipe[i]) # Newline
        /\ heard' = Append(heard, [from |-> upto + 1, to |-> e]) /\ upto' = e
  BY <1>2 DEF ReadLine
<1>4. l \in Nat /\ upto \in Nat /\ upto <= l /\ upto < e /\ e \in 1..l /\ Len(heard) \in Nat
  BY <1>1, <1>2, LenProperties DEF ChTypes
<1>5. PICK span, n : span = [from |-> upto + 1, to |-> e] /\ n = Len(heard)
  OBVIOUS
<1>6. span.from = upto + 1 /\ span.to = e /\ span \in [from : Nat, to : Nat]
  BY <1>4, <1>5
<1>7. /\ heard' \in Seq([from : Nat, to : Nat]) /\ Len(heard') = n + 1
      /\ \A g \in 1..n : heard'[g] = heard[g]
  BY <1>1, <1>3, <1>5, <1>6, AppendProperties DEF ChTypes
<1>8. heard'[n + 1] = span
  BY <1>1, <1>3, <1>5, <1>6, AppendProperties DEF ChTypes
<1>9. upto' = e
  BY <1>3
<1>10. ChTypes'
  BY <1>1, <1>2, <1>4, <1>7, <1>9 DEF ChTypes
<1>11. Told'
  BY <1>1 DEF Told
<1>12. ASSUME Plain PROVE NothingPut' /\ PipeLaid' /\ AllLaid' /\ InOrder' /\ LinesGot'
  <2>1. NothingPut /\ PipeLaid /\ AllLaid /\ InOrder /\ LinesGot
    BY <1>12 DEF ChInv
  <2>2. NothingPut' /\ PipeLaid' /\ AllLaid' /\ InOrder'
    BY <1>1, <2>1, PipeStays
  <2>3. PICK t \in Tools : \E j \in DOMAIN asked[t] :
          /\ upto + LineLen(t, j) <= l
          /\ \A m \in 1..LineLen(t, j) :
               /\ pipe[upto + m] = PipeByte(t, j, m)
               /\ Says(pipe[upto + m]) = Newline <=> m = LineLen(t, j)
    BY <1>2, <1>4, <1>12, NextLine
  <2>4. PICK j \in DOMAIN asked[t] :
          /\ upto + LineLen(t, j) <= l
          /\ \A m \in 1..LineLen(t, j) :
               /\ pipe[upto + m] = PipeByte(t, j, m)
               /\ Says(pipe[upto + m]) = Newline <=> m = LineLen(t, j)
    BY <2>3
  <2>5. PICK q : q = LineLen(t, j)
    OBVIOUS
  <2>6. q \in Nat /\ q > 0 /\ q = Len(asked[t][j]) + 1 /\ Len(asked[t][j]) \in Nat
    BY <1>1, <2>5, LineIsLong
  <2>7. e = upto + q
    <3>1. ~(upto + q < e)
      <4>1. Says(pipe[upto + q]) = Newline
        <5>1. q \in 1..LineLen(t, j)
          BY <2>5, <2>6
        <5> QED
          BY <2>4, <2>5, <5>1
      <4>2. upto + q < e => upto + q \in upto + 1..e - 1
        BY <1>4, <2>6
      <4> QED
        BY <1>3, <4>1, <4>2
    <3>2. ~(e < upto + q)
      <4>1. SUFFICES ASSUME e < upto + q PROVE FALSE
        OBVIOUS
      <4>2. PICK m : m = e - upto
        OBVIOUS
      <4>3. m \in 1..q /\ m # q /\ upto + m = e
        BY <1>4, <2>6, <4>1, <4>2
      <4>4. Says(pipe[e]) # Newline
        BY <2>4, <2>5, <4>3
      <4> QED
        BY <1>3, <4>4
    <3> QED
      BY <1>4, <2>6, <3>1, <3>2
  <2>8. IsLine(span, t, j)
    <3>1. span.to = span.from + Len(asked[t][j])
      <4>1. PICK c : c = Len(asked[t][j])
        OBVIOUS
      <4>2. c \in Nat /\ q = c + 1
        BY <2>6, <4>1
      <4>3. e = (upto + 1) + c
        BY <1>4, <2>7, <4>2
      <4> QED
        BY <1>6, <4>1, <4>3
    <3>2. \A m \in 1..LineLen(t, j) : pipe[span.from + m - 1] = [tool |-> t, req |-> j, pos |-> m]
      <4>1. \A m \in 1..LineLen(t, j) : span.from + m - 1 = upto + m
        BY <1>4, <1>6, <2>5, <2>6
      <4> QED
        BY <2>4, <4>1 DEF PipeByte
    <3> QED
      BY <3>1, <3>2 DEF IsLine
  <2>9. \A s, u, m : IsLine(s, u, m) => IsLine(s, u, m)'
    BY <1>1 DEF IsLine, LineLen
  <2>10. Says(pipe[e])' = Newline
    BY <1>1, <1>3 DEF Says, LineLen
  <2>11. ASSUME NEW g \in 1..n + 1
         PROVE  /\ heard'[g].from > 0 /\ heard'[g].to <= e
                /\ \E u \in Tools : \E m \in DOMAIN asked[u] : IsLine(heard[g], u, m)'
    <3>1. CASE g = n + 1
      <4>1. heard'[g] = span
        BY <1>8, <3>1
      <4>2. span.from > 0 /\ span.to <= e
        BY <1>4, <1>6
      <4> QED
        BY <2>8, <2>9, <4>1, <4>2
    <3>2. CASE g \in 1..n
      <4>1. heard'[g] = heard[g] /\ heard[g] \in [from : Nat, to : Nat]
        BY <1>1, <1>5, <1>7, <3>2, ElementOfSeq DEF ChTypes
      <4>2. /\ heard[g].from > 0 /\ heard[g].to <= upto
            /\ \E u \in Tools : \E m \in DOMAIN asked[u] : IsLine(heard[g], u, m)
        BY <1>5, <2>1, <3>2 DEF LinesGot
      <4>3. heard[g].to \in Nat
        BY <4>1
      <4>4. heard[g].to <= e
        BY <1>4, <4>2, <4>3
      <4> QED
        BY <2>9, <4>1, <4>2, <4>4
    <3> QED
      BY <1>4, <1>5, <2>11, <3>1, <3>2
  <2>12. ASSUME NEW g \in 1..n + 1, NEW h \in 1..n + 1, g < h
         PROVE  heard'[g].to < heard'[h].from
    <3>1. g \in 1..n
      BY <1>4, <1>5, <2>12
    <3>2. heard'[g] = heard[g] /\ heard[g].to <= upto /\ heard[g] \in [from : Nat, to : Nat]
      BY <1>1, <1>5, <1>7, <2>1, <3>1, ElementOfSeq DEF ChTypes, LinesGot
    <3>3. CASE h \in 1..n
      BY <1>5, <1>7, <2>1, <2>12, <3>1, <3>3 DEF LinesGot
    <3>4. CASE h = n + 1
      <4>1. heard'[h].from = upto + 1
        BY <1>6, <1>8, <3>4
      <4>2. heard[g].to \in Nat
        BY <3>2
      <4> QED
        BY <1>4, <3>2, <4>1, <4>2
    <3> QED
      BY <1>4, <1>5, <2>12, <3>3, <3>4
  <2>13. ASSUME NEW p \in 1..e PROVE \E g \in 1..n + 1 : p \in heard'[g].from..heard'[g].to
    <3>1. CASE p \in 1..upto
      <4>1. PICK g \in 1..n : p \in heard[g].from..heard[g].to
        BY <1>5, <2>1, <3>1 DEF LinesGot
      <4>2. g \in 1..n + 1 /\ heard'[g] = heard[g]
        BY <1>4, <1>5, <1>7
      <4> QED
        BY <4>1, <4>2
    <3>2. CASE p \in upto + 1..e
      <4>1. n + 1 \in 1..n + 1
        BY <1>4, <1>5
      <4>2. heard'[n + 1].from = upto + 1 /\ heard'[n + 1].to = e
        BY <1>6, <1>8
      <4> QED
        BY <3>2, <4>1, <4>2
    <3> QED
      BY <1>4, <2>13, <3>1, <3>2
  <2>14. LinesGot'
    BY <1>1, <1>7, <1>9, <2>10, <2>11, <2>12, <2>13 DEF LinesGot
  <2> QED
    BY <2>2, <2>14
<1>13. Plain' => Plain
  BY <1>1 DEF Plain, LineLen
<1> QED
  BY <1>1, <1>10, <1>11, <1>12, <1>13 DEF ChInv

LEMMA ChSame ==
  ASSUME ChInv, UNCHANGED <<asked, turn, put, pipe, lost, rcc, upto, heard>>,
         ctlpc' = ctlpc \/ (ctlpc' = "done" /\ AllEnded)
  PROVE  ChInv'
<1>1. ChTypes' /\ Told'
  BY DEF ChInv, ChTypes, Told
<1>2. ctlpc' = "done" => AllEnded'
  <2>1. ctlpc' = "done" => AllEnded
    BY DEF ChInv
  <2> QED
    BY <2>1 DEF AllEnded, Ended, Says, LineLen
<1>3. ASSUME Plain' PROVE NothingPut' /\ PipeLaid' /\ AllLaid' /\ InOrder' /\ LinesGot'
  <2>1. Plain
    BY <1>3 DEF Plain, LineLen
  <2>2. NothingPut /\ PipeLaid /\ AllLaid /\ InOrder /\ LinesGot
    BY <2>1 DEF ChInv
  <2>3. NothingPut' /\ PipeLaid' /\ AllLaid' /\ InOrder'
    BY <2>2, PipeStays
  <2>4. LinesGot'
    BY <2>2 DEF LinesGot, IsLine, Says, LineLen
  <2> QED
    BY <2>3, <2>4
<1> QED
  BY <1>1, <1>2, <1>3 DEF ChInv

LEMMA ChKeeps ==
  ASSUME ChInv, [ChannelNext]_channelVars
  PROVE  ChInv'
<1>1. ASSUME NEW t \in Tools, Refuse(t) PROVE ChInv'
  BY <1>1, CannotSendKeeps DEF Refuse
<1>2. ASSUME NEW t \in Tools, WriteFails(t) PROVE ChInv'
  BY <1>2, CannotSendKeeps DEF WriteFails
<1>3. ASSUME NEW t \in Tools, write_all(t) PROVE ChInv'
  BY <1>3, WriteAllKeeps
<1>4. CASE ReadLine
  BY <1>4, ReadLineKeeps
<1>5. CASE AllRead
  BY <1>5, ChSame DEF AllRead, AllEnded
<1>6. CASE UNCHANGED channelVars
  BY <1>6, ChSame DEF channelVars
<1> QED
  BY <1>1, <1>2, <1>3, <1>4, <1>5, <1>6 DEF ChannelNext, ctl_send

LEMMA ChArrives == ChInv => RequestsArriveWhole
<1>1. SUFFICES ASSUME ChInv, ctlpc = "done", Plain PROVE RequestsArriveWhole
  BY DEF RequestsArriveWhole
<1>2. /\ ChTypes /\ Told /\ PipeLaid /\ AllLaid /\ InOrder /\ LinesGot /\ AllEnded
  BY <1>1 DEF ChInv
<1>3. PICK l : l = Len(pipe)
  OBVIOUS
<1>4. l \in Nat /\ upto \in 0..l /\ upto \in Nat
  BY <1>2, <1>3, LenProperties DEF ChTypes
<1>5. upto = l
  <2>1. SUFFICES ASSUME upto < l PROVE FALSE
    BY <1>4
  <2>2. PICK t \in Tools : \E j \in DOMAIN asked[t] :
          /\ upto + LineLen(t, j) <= l
          /\ \A m \in 1..LineLen(t, j) :
               /\ pipe[upto + m] = PipeByte(t, j, m)
               /\ Says(pipe[upto + m]) = Newline <=> m = LineLen(t, j)
    BY <1>1, <1>3, <2>1, NextLine
  <2>3. PICK j \in DOMAIN asked[t] :
          /\ upto + LineLen(t, j) <= l
          /\ \A m \in 1..LineLen(t, j) :
               /\ pipe[upto + m] = PipeByte(t, j, m)
               /\ Says(pipe[upto + m]) = Newline <=> m = LineLen(t, j)
    BY <2>2
  <2>4. PICK n : n = LineLen(t, j)
    OBVIOUS
  <2>5. n \in Nat /\ n > 0
    BY <1>2, <2>4, LineIsLong
  <2>6. upto + n \in upto + 1..l /\ n \in 1..n
    BY <1>4, <2>3, <2>4, <2>5
  <2>7. Says(pipe[upto + n]) = Newline
    BY <2>3, <2>4, <2>6
  <2> QED
    BY <1>2, <1>3, <2>6, <2>7 DEF AllEnded
\* where a line begins
<1>6. ASSUME NEW g \in 1..Len(heard), NEW t \in Tools, NEW j \in DOMAIN asked[t],
             IsLine(heard[g], t, j)
      PROVE  /\ heard[g].from \in 1..l /\ heard[g].to \in 1..l /\ heard[g].from <= heard[g].to
             /\ heard[g].to - heard[g].from + 1 = LineLen(t, j)
             /\ \A i \in heard[g].from..heard[g].to : pipe[i] = PipeByte(t, j, i - heard[g].from + 1)
  <2>1. PICK a, b, e : a = heard[g].from /\ b = heard[g].to /\ e = Len(asked[t][j])
    OBVIOUS
  <2>2. heard[g] \in [from : Nat, to : Nat]
    BY <1>2, <1>6, ElementOfSeq DEF ChTypes
  <2>3. a \in Nat /\ b \in Nat /\ a > 0 /\ b <= l
    BY <1>2, <1>5, <2>1, <2>2 DEF LinesGot
  <2>4. b = a + e /\ e \in Nat /\ LineLen(t, j) = e + 1
    BY <1>2, <1>6, <2>1, LineIsLong DEF IsLine
  <2>5. ASSUME NEW i \in a..b PROVE pipe[i] = PipeByte(t, j, i - a + 1)
    <3>1. PICK k : k = i - a + 1
      OBVIOUS
    <3>2. k \in 1..LineLen(t, j) /\ a + k - 1 = i
      BY <2>3, <2>4, <2>5, <3>1
    <3>3. pipe[a + k - 1] = [tool |-> t, req |-> j, pos |-> k]
      BY <1>6, <2>1, <3>2 DEF IsLine
    <3> QED
      BY <3>1, <3>2, <3>3 DEF PipeByte
  <2>6. a \in 1..l /\ b \in 1..l /\ a <= b /\ b - a + 1 = LineLen(t, j)
    BY <1>4, <2>3, <2>4
  <2> QED
    BY <2>1, <2>5, <2>6
<1>7. ASSUME NEW g \in 1..Len(heard), NEW t \in Tools, NEW j \in DOMAIN asked[t],
             IsLine(heard[g], t, j)
      PROVE  heard[g].from \in 1..l /\ pipe[heard[g].from] = PipeByte(t, j, 1)
  <2>1. PICK a : a = heard[g].from
    OBVIOUS
  <2>2. a \in 1..l /\ a \in a..heard[g].to /\ a - a + 1 = 1
    BY <1>4, <1>6, <1>7, <2>1
  <2> QED
    BY <1>6, <1>7, <2>1, <2>2
<1>8. ASSUME NEW g \in 1..Len(heard)
      PROVE  \E t \in Tools : \E j \in DOMAIN asked[t] \ lost[t] : IsLine(heard[g], t, j)
  <2>1. PICK t \in Tools : \E j \in DOMAIN asked[t] : IsLine(heard[g], t, j)
    BY <1>2, <1>8 DEF LinesGot
  <2>2. PICK j \in DOMAIN asked[t] : IsLine(heard[g], t, j)
    BY <2>1
  <2>3. PICK a : a = heard[g].from /\ a \in 1..l /\ pipe[a] = PipeByte(t, j, 1)
    BY <1>7, <1>8, <2>2
  <2>4. LineAround(a)
    BY <1>2, <1>3, <2>3 DEF PipeLaid
  <2>5. j \notin lost[t]
    <3>1. pipe[a].tool = t /\ pipe[a].req = j
      BY <2>3, ByteIs
    <3> QED
      BY <2>4, <3>1 DEF LineAround
  <2> QED
    BY <2>2, <2>5
<1>9. ASSUME NEW t \in Tools, NEW j \in DOMAIN asked[t] \ lost[t]
      PROVE  \E g \in 1..Len(heard) : IsLine(heard[g], t, j)
  <2>1. j < turn[t]
    <3>1. turn[t] > Len(asked[t]) /\ turn[t] \in Nat
      BY <1>2 DEF AllEnded, Ended, ChTypes
    <3>2. j \in 1..Len(asked[t]) /\ Len(asked[t]) \in Nat
      BY <1>2, <1>9, LineIsLong
    <3> QED
      BY <3>1, <3>2
  <2>2. PICK i \in 1..l : pipe[i] = PipeByte(t, j, 1)
    BY <1>2, <1>3, <2>1 DEF AllLaid
  <2>3. PICK g \in 1..Len(heard) : i \in heard[g].from..heard[g].to
    BY <1>2, <1>5 DEF LinesGot
  <2>4. PICK u \in Tools : \E m \in DOMAIN asked[u] : IsLine(heard[g], u, m)
    BY <1>2 DEF LinesGot
  <2>5. PICK m \in DOMAIN asked[u] : IsLine(heard[g], u, m)
    BY <2>4
  <2>6. PICK k : k = i - heard[g].from + 1
    OBVIOUS
  <2>7. pipe[i] = PipeByte(u, m, k)
    BY <1>6, <2>3, <2>5, <2>6
  <2>8. u = t /\ m = j
    BY <2>2, <2>7, ByteIs
  <2> QED
    BY <2>5, <2>8
<1>10. ASSUME NEW g \in 1..Len(heard), NEW h \in 1..Len(heard), NEW t \in Tools,
              NEW i \in DOMAIN asked[t], NEW j \in DOMAIN asked[t],
              g < h, IsLine(heard[g], t, i), IsLine(heard[h], t, j)
       PROVE  i < j
  <2>1. PICK a : a = heard[g].from /\ a \in 1..l /\ pipe[a] = PipeByte(t, i, 1)
    BY <1>7, <1>10
  <2>2. PICK b : b = heard[h].from /\ b \in 1..l /\ pipe[b] = PipeByte(t, j, 1)
    BY <1>7, <1>10
  <2>3. a < b
    <3>1. PICK e : e = heard[g].to /\ e \in 1..l /\ a <= e
      BY <1>6, <1>10, <2>1
    <3>2. e < b
      BY <1>2, <1>10, <2>2, <3>1 DEF LinesGot
    <3> QED
      BY <1>4, <2>1, <2>2, <3>1, <3>2
  <2>4. pipe[a].tool = pipe[b].tool /\ pipe[a].req = i /\ pipe[b].req = j
        /\ pipe[a].pos = 1 /\ pipe[b].pos = 1
    BY <2>1, <2>2, ByteIs
  <2>5. i < j \/ (i = j /\ 1 < 1)
    <3>1. \/ pipe[a].req < pipe[b].req
          \/ pipe[a].req = pipe[b].req /\ pipe[a].pos < pipe[b].pos
      BY <1>2, <1>3, <2>1, <2>2, <2>3, <2>4 DEF InOrder
    <3> QED
      BY <2>4, <3>1
  <2> QED
    BY <2>5
<1>11. \A t \in Tools : rcc[t] = 0 <=> lost[t] = {}
  BY <1>2 DEF Told
<1> QED
  BY <1>8, <1>9, <1>10, <1>11 DEF RequestsArriveWhole

(* The shell gets each request that could be sent once, whole and in its   *)
(* order, whatever tools write at the same time and whichever writes fail  *)
(* (ex_util.c: cact_ub_shell_ctl; ex_shell.c: ctl_send).                   *)
THEOREM RequestsArriveWholeHolds == ChannelSpec => []RequestsArriveWhole
<1>1. ChannelInit => ChInv
  BY ChStarts
<1>2. ChInv /\ [ChannelNext]_channelVars => ChInv'
  BY ChKeeps
<1>3. ChInv => RequestsArriveWhole
  BY ChArrives
<1> QED
  BY <1>1, <1>2, <1>3, PTL DEF ChannelSpec

-----------------------------------------------------------------------------
(* timeout: every deadline, poll interval, number of polls, exit status    *)
(* and signal.                                                             *)

(* The strengthening that is inductive. *)
TimeoutInv ==
  /\ tpc \in {"fork", "poll", "sleep", "signal", "grace", "kill", "reap", "done",
             "timed_out", "lost"}
  /\ child \in {"none", "running", "zombie", "reaped"}
  /\ dead_ms \in Nat /\ waited \in Nat /\ tries \in Nat
  /\ tpc = "fork" => child = "none"
  /\ tpc \in {"poll", "sleep", "signal", "grace", "kill", "reap"} => Ours
  /\ tpc \in {"signal", "grace", "kill", "reap", "timed_out"} => waited >= dead_ms
  /\ tpc \in {"grace", "kill", "reap"} => sent # {}
  /\ tpc = "reap" => KILL \in sent
  /\ child \in {"none", "running"} <=> ended = Never
  /\ tpc \in {"signal", "grace", "kill", "reap"} => ended = Never \/ ended >= dead_ms
  /\ ended \in Nat \cup {Never}
  /\ TimeoutKeepsTrack

(* The start satisfies it.                                                 *)
LEMMA TimeoutStarts == TimeoutInit => TimeoutInv
BY TimeoutAssumption DEF TimeoutInit, TimeoutInv, TimeoutKeepsTrack, Ours, Never

(* Every step of timeout and of its command keeps the invariant.           *)
LEMMA TimeoutGoesOn == TimeoutInv /\ [TimeoutNext]_timeoutVars => TimeoutInv'
<1> SUFFICES ASSUME TimeoutInv, [TimeoutNext]_timeoutVars PROVE TimeoutInv'
  OBVIOUS
<1> USE TimeoutAssumption DEF TimeoutInv, TimeoutKeepsTrack, Ours, Never, Command, Clock
<1>1. CASE Fork
  BY <1>1 DEF Fork
<1>2. CASE Poll
  BY <1>2 DEF Poll, Reap, Still, WaitFails, Done, Lose
<1>3. CASE Sleep
  BY <1>3 DEF Sleep
<1>4. CASE SignalChild
  BY <1>4 DEF SignalChild, Kill
<1>5. CASE Grace
  BY <1>5 DEF Grace, Reap, Still, WaitFails, DoneTimedOut
<1>6. CASE KillChild
  BY <1>6 DEF KillChild, Kill
<1>7. CASE ReapTry
  BY <1>7 DEF ReapTry, Reap, Still, WaitFails, DoneTimedOut
<1>8. CASE ChildExits \/ ChildDies
  <2>1. PICK st : Ends(st)
    BY <1>8 DEF ChildExits, ChildDies
  <2> QED
    BY <2>1 DEF Ends
<1>9. CASE UNCHANGED timeoutVars
  BY <1>9 DEF timeoutVars
<1> QED
  BY <1>1, <1>2, <1>3, <1>4, <1>5, <1>6, <1>7, <1>8, <1>9 DEF TimeoutNext, TimeoutStep

(* The whole invariant, in every state of every run.                       *)
THEOREM TimeoutInvariance == TimeoutSpec => []TimeoutInv
BY TimeoutStarts, TimeoutGoesOn, PTL DEF TimeoutSpec

(* timeout (ex_admin.c:621) signals only a pid that is its command's,      *)
(* reports a time-out only of a command that outlived the deadline and     *)
(* was signalled, and otherwise the status of a command it has reaped,     *)
(* unless a waitpid before the deadline fails.                             *)
THEOREM TimeoutKeepsTrackHolds == TimeoutSpec => []TimeoutKeepsTrack
<1>1. TimeoutInv => TimeoutKeepsTrack
  BY DEF TimeoutInv
<1> QED
  BY <1>1, TimeoutInvariance, PTL

-----------------------------------------------------------------------------
(* The supplicant                                                          *)

\* A key is never mistaken for None.
LEMMA NoneIsNoKey == ASSUME NEW k \in Ptk PROVE k # None
    BY WljoinAssumption DEF Ptk, Passes

LEMMA KeyType == ASSUME NEW p \in Passes, NEW n \in Nat
                 PROVE  /\ PTK(p, n) \in Ptk
                        /\ PTK(p, n).pass = p
                        /\ PTK(p, n).anonce = n
    BY DEF PTK, Ptk

LEMMA HowType == ASSUME how \in Joins PROVE how.pass \in Passes /\ ApPass \in Passes
    BY DEF Passes

\* What the access point's state becomes in a send and in a restart.
LEMMA ApUpdate ==
    ASSUME NEW a \in ApState, NEW n \in Nat, NEW W \in SUBSET Nat
    PROVE  /\ [a EXCEPT !.sends = n, !.awaited = W] \in ApState
           /\ [a EXCEPT !.phase = "msg1", !.nonce = n, !.awaited = W] \in ApState
    BY DEF ApState

-----------------------------------------------------------------------------
(* The supplicant's steps keep the invariant, and so do, in the next       *)
(* section, those of the access point and of the link.                     *)

LEMMA InitInv == Init => WljoinInv
<1> SUFFICES ASSUME Init PROVE WljoinInv
    OBVIOUS
<1>1. TypeOK
    BY WljoinAssumption DEF Init, TypeOK, ApState
<1>2. KeysAreGenuine /\ Msg4EchoesMsg3 /\ UpIsKeyed /\ FramesToSta /\ FramesToAp
    BY DEF Init, KeysAreGenuine, Msg4EchoesMsg3, UpIsKeyed, FramesToSta, FramesToAp
<1>3. Handshake /\ Progress
    BY DEF Init, Handshake, Progress
<1> QED
    BY <1>1, <1>2, <1>3 DEF WljoinInv

LEMMA JoinInv == WljoinInv /\ Join => WljoinInv'
<1> SUFFICES ASSUME WljoinInv, Join PROVE WljoinInv'
    OBVIOUS
<1>1. TypeOK'
    BY DEF WljoinInv, TypeOK, Join
<1>2. wpa_state = 0 /\ wpa_state' \in {0, 1} /\ keys = {} /\ pc' # "group" /\ pc' # "pairwise"
    BY DEF WljoinInv, Progress, Join
<1>3. KeysAreGenuine' /\ Msg4EchoesMsg3' /\ UpIsKeyed'
    BY <1>2 DEF WljoinInv, KeysAreGenuine, Msg4EchoesMsg3, UpIsKeyed, Join
<1>4. FramesToSta' /\ FramesToAp'
    BY <1>2 DEF WljoinInv, FramesToSta, FramesToAp, Join
<1>5. Handshake' /\ Progress'
    BY <1>2 DEF WljoinInv, Handshake, Progress, Join
<1> QED
    BY <1>1, <1>3, <1>4, <1>5 DEF WljoinInv

LEMMA PollIdleInv == WljoinInv /\ PollIdle => WljoinInv'
<1> SUFFICES ASSUME WljoinInv, PollIdle PROVE WljoinInv'
    OBVIOUS
<1>1. TypeOK'
    BY WljoinAssumption DEF WljoinInv, TypeOK, PollIdle, Polling, sta
<1>2. KeysAreGenuine' /\ Msg4EchoesMsg3' /\ UpIsKeyed'
    BY DEF WljoinInv, KeysAreGenuine, Msg4EchoesMsg3, UpIsKeyed, PollIdle, sta
<1>3. FramesToSta' /\ FramesToAp' /\ Handshake' /\ Progress'
    BY DEF WljoinInv, FramesToSta, FramesToAp, Handshake, Progress, PollIdle, sta
<1> QED
    BY <1>1, <1>2, <1>3 DEF WljoinInv

\* What a poll that takes a frame keeps, whatever the frame does to the state.
LEMMA FrameTaken ==
    ASSUME WljoinInv, NEW f \in toSta,
           Polling, polls' = polls + 1, toSta' = toSta \ {f}, replay' = f.replay,
           UNCHANGED <<how, pc, keys, ap>>
    PROVE  /\ f \in FrameToSta
           /\ polls' \in 0 .. WPA_POLLS
           /\ toSta' \subseteq FrameToSta
           /\ FramesToSta'
           /\ keys = {}
<1>1. f \in FrameToSta
    BY DEF WljoinInv, TypeOK
<1>2. polls' \in 0 .. WPA_POLLS
    BY WljoinAssumption DEF WljoinInv, TypeOK, Polling
<1>3. toSta' \subseteq FrameToSta
    BY DEF WljoinInv, TypeOK
<1>4. FramesToSta'
    BY DEF WljoinInv, FramesToSta
<1>5. keys = {}
    BY DEF WljoinInv, Progress, Polling
<1> QED
    BY <1>1, <1>2, <1>3, <1>4, <1>5

LEMMA Msg1Inv ==
    ASSUME WljoinInv, NEW f \in toSta,
           Polling, polls' = polls + 1, toSta' = toSta \ {f}, replay' = f.replay,
           UNCHANGED <<how, pc, keys, ap>>, RxMsg1(f)
    PROVE  WljoinInv'
<1> DEFINE answer == [m |-> 2, replay |-> f.replay, mic |-> PTK(how.pass, f.anonce)]
<1>1. /\ f \in FrameToSta /\ polls' \in 0 .. WPA_POLLS /\ keys = {}
      /\ toSta' \subseteq FrameToSta /\ FramesToSta'
    BY FrameTaken
<1>2. how.pass \in Passes /\ f.anonce \in Nat /\ f.replay \in Nat /\ f.anonce <= ap.nonce
    BY <1>1, HowType DEF WljoinInv, TypeOK, FrameToSta, FramesToSta
<1>3. /\ ptk' = PTK(how.pass, f.anonce) /\ ptk' \in Ptk /\ ptk' # None
      /\ ptk'.pass = how.pass /\ ptk'.anonce = f.anonce
    BY <1>2, KeyType, NoneIsNoKey DEF RxMsg1
<1>4. toAp = {}
    BY DEF WljoinInv, FramesToAp, RxMsg1
<1>5. toAp' = {answer} /\ wpa_state = 1 /\ wpa_state' = 2 /\ gtk' = gtk /\ gtk = None
    BY <1>3, <1>4 DEF RxMsg1, WljoinInv, Handshake
<1>6. answer.m = 2 /\ answer.mic = ptk'
      /\ toAp' \subseteq [m : {2, 4}, replay : Nat, mic : Ptk]
    BY <1>2, <1>3, <1>5
<1>7. TypeOK'
    BY <1>1, <1>2, <1>3, <1>5, <1>6 DEF WljoinInv, TypeOK
<1>8. KeysAreGenuine' /\ Msg4EchoesMsg3' /\ UpIsKeyed'
    BY <1>1, <1>5, <1>6 DEF WljoinInv, KeysAreGenuine, Msg4EchoesMsg3, UpIsKeyed, Polling
<1>9. FramesToAp' /\ Handshake' /\ Progress'
    BY <1>2, <1>3, <1>5, <1>6
    DEF WljoinInv, FramesToAp, Handshake, Progress, Polling
<1> QED
    BY <1>1, <1>7, <1>8, <1>9 DEF WljoinInv

LEMMA BadMicInv ==
    ASSUME WljoinInv, NEW f \in toSta,
           Polling, polls' = polls + 1, toSta' = toSta \ {f}, replay' = f.replay,
           UNCHANGED <<how, pc, keys, ap>>, RxBadMic(f)
    PROVE  WljoinInv'
<1>1. /\ f \in FrameToSta /\ polls' \in 0 .. WPA_POLLS
      /\ toSta' \subseteq FrameToSta /\ FramesToSta'
    BY FrameTaken
<1>2. TypeOK'
    BY <1>1 DEF WljoinInv, TypeOK, RxBadMic, FrameToSta
<1>3. KeysAreGenuine' /\ Msg4EchoesMsg3' /\ UpIsKeyed'
    BY DEF WljoinInv, KeysAreGenuine, Msg4EchoesMsg3, UpIsKeyed, RxBadMic
<1>4. FramesToAp' /\ Handshake' /\ Progress'
    BY DEF WljoinInv, FramesToAp, Handshake, Progress, RxBadMic
<1> QED
    BY <1>1, <1>2, <1>3, <1>4 DEF WljoinInv

\* A frame whose MIC is the supplicant's key is a msg3 of the handshake that
\* key was made in, under the right passphrase.
LEMMA GoodMic ==
    ASSUME WljoinInv, NEW f \in toSta, wpa_state = 2, f.mic = ptk
    PROVE  /\ f.m = 3
           /\ ptk = PTK(ApPass, f.anonce)
           /\ ptk.anonce = f.anonce
           /\ how.pass = ApPass
           /\ f.gtk = ap.gtk
<1>1. f \in FrameToSta /\ ptk # None
    BY DEF WljoinInv, TypeOK, Handshake
<1>2. f.m = 3
    BY <1>1 DEF WljoinInv, FramesToSta, FrameToSta
<1>3. ptk = PTK(ApPass, f.anonce) /\ f.gtk = ap.gtk /\ f.anonce \in Nat
    BY <1>1, <1>2 DEF WljoinInv, FramesToSta, FrameToSta
<1>4. ApPass \in Passes
    BY DEF Passes
<1>5. ptk.anonce = f.anonce /\ ptk.pass = ApPass
    BY <1>3, <1>4, KeyType
<1> QED
    BY <1>2, <1>3, <1>5 DEF WljoinInv, Handshake

LEMMA Msg3Inv ==
    ASSUME WljoinInv, NEW f \in toSta,
           Polling, polls' = polls + 1, toSta' = toSta \ {f}, replay' = f.replay,
           UNCHANGED <<how, pc, keys, ap>>, RxMsg3(f)
    PROVE  WljoinInv'
<1> DEFINE answer == [m |-> 4, replay |-> f.replay, mic |-> ptk]
<1>1. /\ f \in FrameToSta /\ polls' \in 0 .. WPA_POLLS /\ keys = {}
      /\ toSta' \subseteq FrameToSta /\ FramesToSta'
    BY FrameTaken
<1>2. /\ f.m = 3 /\ ptk = PTK(ApPass, f.anonce) /\ ptk.anonce = f.anonce
      /\ how.pass = ApPass /\ f.gtk = ap.gtk
    BY GoodMic DEF RxMsg3
<1>3. /\ wpa_state = 2 /\ wpa_state' = 3 /\ ptk' = ptk /\ gtk' = f.gtk
      /\ toAp' = toAp \cup {answer}
    BY DEF RxMsg3
<1>4. f.replay \in Nat /\ f.anonce \in Nat /\ f.gtk \in Gtks \cup {None} /\ ptk \in Ptk
    <2>1. ptk \in Ptk
        BY <1>3 DEF WljoinInv, TypeOK, Handshake
    <2> QED
        BY <1>1, <2>1 DEF FrameToSta
<1>5. answer.m = 4 /\ answer.mic = ptk /\ answer.replay = f.replay
      /\ answer \in [m : {2, 4}, replay : Nat, mic : Ptk]
    BY <1>4
<1> HIDE DEF answer
<1>6. TypeOK'
    BY <1>1, <1>3, <1>4, <1>5 DEF WljoinInv, TypeOK
<1>7. f.anonce <= ap.nonce
      /\ (f.anonce = ap.nonce => /\ ap.phase # "msg1"
                                 /\ ap.phase = "msg3" => f.replay \in ap.awaited)
    BY <1>2 DEF WljoinInv, FramesToSta
<1>8. KeysAreGenuine'
    BY <1>1, <1>2, <1>3, <1>7 DEF WljoinInv, KeysAreGenuine, Polling
<1>9. Msg4EchoesMsg3'
    <2>1. ASSUME ptk = PTK(ApPass, ap.nonce) PROVE f.anonce = ap.nonce
        BY <1>2, <2>1, <1>4 DEF PTK
    <2>2. \A g \in toAp : g.m # 4
        BY <1>3 DEF WljoinInv, FramesToAp
    <2> QED
        BY <1>3, <1>5, <1>7, <2>1, <2>2 DEF Msg4EchoesMsg3
<1>10. UpIsKeyed'
    BY DEF UpIsKeyed, Polling
<1>11. FramesToAp'
    BY <1>3, <1>5 DEF WljoinInv, FramesToAp
<1>12. Handshake'
    BY <1>2, <1>3, <1>7 DEF WljoinInv, Handshake
<1>13. Progress'
    BY <1>1, <1>3 DEF WljoinInv, Progress, Polling
<1> QED
    BY <1>1, <1>6, <1>8, <1>9, <1>10, <1>11, <1>12, <1>13 DEF WljoinInv

LEMMA PollFrameInv == WljoinInv /\ PollFrame => WljoinInv'
<1> SUFFICES ASSUME WljoinInv, PollFrame PROVE WljoinInv'
    OBVIOUS
<1>1. PICK f \in toSta :
            /\ Polling /\ polls' = polls + 1 /\ toSta' = toSta \ {f}
            /\ replay' = f.replay /\ UNCHANGED <<how, pc, keys, ap>>
            /\ RxMsg1(f) \/ RxBadMic(f) \/ RxMsg3(f)
    BY DEF PollFrame
<1> QED
    BY <1>1, Msg1Inv, BadMicInv, Msg3Inv

LEMMA PollsOverInv == WljoinInv /\ PollsOver => WljoinInv'
<1> SUFFICES ASSUME WljoinInv, PollsOver PROVE WljoinInv'
    OBVIOUS
<1>1. TypeOK'
    BY DEF WljoinInv, TypeOK, PollsOver, sta
<1>2. KeysAreGenuine' /\ Msg4EchoesMsg3' /\ UpIsKeyed'
    BY DEF WljoinInv, KeysAreGenuine, Msg4EchoesMsg3, UpIsKeyed, PollsOver, sta
<1>3. FramesToSta' /\ FramesToAp' /\ Handshake' /\ Progress'
    BY DEF WljoinInv, FramesToSta, FramesToAp, Handshake, Progress, PollsOver, sta
<1> QED
    BY <1>1, <1>2, <1>3 DEF WljoinInv

\* Once the handshake is over the supplicant holds the access point's key.
LEMMA FinishedKey ==
    ASSUME WljoinInv, wpa_state = 3
    PROVE  ptk \in Ptk /\ ptk = PTK(ApPass, ptk.anonce)
<1>1. ptk \in Ptk /\ ptk.pass = ApPass
    BY DEF WljoinInv, TypeOK, Handshake, KeysAreGenuine
<1> QED
    BY <1>1 DEF Ptk, PTK

LEMMA PairwiseInv == WljoinInv /\ InstallPairwise => WljoinInv'
<1> SUFFICES ASSUME WljoinInv, InstallPairwise PROVE WljoinInv'
    OBVIOUS
<1>1. wpa_state = 3 /\ how.privacy
    BY DEF WljoinInv, Progress, InstallPairwise
<1>2. ptk \in Ptk /\ ptk = PTK(ApPass, ptk.anonce)
    BY <1>1, FinishedKey
<1>3. keys' \subseteq keys \cup {<<"pairwise", ptk>>}
    BY DEF InstallPairwise
<1>4. TypeOK'
    <2>1. <<"pairwise", ptk>> \in {"pairwise"} \X Ptk
        BY <1>2
    <2>2. pc' \in {"group", "up", "failed"}
        BY DEF InstallPairwise
    <2> QED
        BY <1>3, <2>1, <2>2 DEF WljoinInv, TypeOK, InstallPairwise, sta
<1>5. KeysAreGenuine'
    BY <1>2, <1>3 DEF WljoinInv, KeysAreGenuine, InstallPairwise, sta
<1>6. Msg4EchoesMsg3' /\ UpIsKeyed'
    BY <1>1 DEF WljoinInv, Msg4EchoesMsg3, UpIsKeyed, InstallPairwise, sta
<1>7. FramesToSta' /\ FramesToAp' /\ Handshake'
    BY DEF WljoinInv, FramesToSta, FramesToAp, Handshake, InstallPairwise, sta
<1>8. Progress'
    BY <1>1 DEF WljoinInv, Progress, InstallPairwise, sta
<1> QED
    BY <1>4, <1>5, <1>6, <1>7, <1>8 DEF WljoinInv

LEMMA GroupInv == WljoinInv /\ InstallGroup => WljoinInv'
<1> SUFFICES ASSUME WljoinInv, InstallGroup PROVE WljoinInv'
    OBVIOUS
<1>1. wpa_state = 3 /\ gtk # None /\ <<"pairwise", ptk>> \in keys
    BY DEF WljoinInv, Progress, InstallGroup
<1>2. gtk = ap.gtk /\ gtk \in Gtks
    BY <1>1 DEF WljoinInv, KeysAreGenuine, TypeOK
<1>3. keys' \subseteq keys \cup {<<"group", gtk>>} /\ keys \subseteq keys'
    BY DEF InstallGroup
<1>4. TypeOK'
    <2>1. <<"group", gtk>> \in {"group"} \X Gtks
        BY <1>2
    <2> QED
        BY <1>3, <2>1 DEF WljoinInv, TypeOK, InstallGroup, sta
<1>5. KeysAreGenuine'
    BY <1>2, <1>3 DEF WljoinInv, KeysAreGenuine, InstallGroup, sta
<1>6. Msg4EchoesMsg3' /\ UpIsKeyed'
    BY <1>1, <1>3 DEF WljoinInv, Msg4EchoesMsg3, UpIsKeyed, InstallGroup, sta
<1>7. FramesToSta' /\ FramesToAp' /\ Handshake' /\ Progress'
    BY <1>1 DEF WljoinInv, FramesToSta, FramesToAp, Handshake, Progress, InstallGroup, sta
<1> QED
    BY <1>4, <1>5, <1>6, <1>7 DEF WljoinInv

-----------------------------------------------------------------------------
(* The access point and the link                                           *)

LEMMA ApSendInv == WljoinInv /\ ApSend => WljoinInv'
<1> SUFFICES ASSUME WljoinInv, ApSend PROVE WljoinInv'
    OBVIOUS
<1> DEFINE f == Frame(IF ap.phase = "msg1" THEN 1 ELSE 3)
<1>1. /\ ap.nonce \in Nat /\ ap.sends \in Nat /\ ap.gtk \in Gtks \cup {None}
      /\ ap.awaited \subseteq Nat
      /\ ap.phase \in {"msg1", "msg3"}
    BY DEF WljoinInv, TypeOK, ApState, ApSend
<1>2. PTK(ApPass, ap.nonce) \in Ptk
    BY <1>1, KeyType DEF Passes
<1>3. f \in FrameToSta /\ f.anonce = ap.nonce /\ f.replay = ap.sends + 1
      /\ f.m = (IF ap.phase = "msg1" THEN 1 ELSE 3)
      /\ (f.m = 1 => f.mic = None)
      /\ (f.m = 3 => f.mic = PTK(ApPass, f.anonce) /\ f.gtk = ap.gtk)
    BY <1>1, <1>2 DEF Frame, FrameToSta
<1> HIDE DEF f
<1>4. /\ ap'.phase = ap.phase /\ ap'.nonce = ap.nonce /\ ap'.gtk = ap.gtk
      /\ ap'.awaited = ap.awaited \cup {ap.sends + 1}
      /\ toSta' = toSta \cup {f}
      /\ UNCHANGED <<how, pc, sta, polls, keys, toAp>>
    BY DEF ApSend, WljoinInv, TypeOK, ApState, f
<1>5. TypeOK'
    <2>1. ap' \in ApState
        <3>1. ap' = [ap EXCEPT !.sends = ap.sends + 1,
                               !.awaited = ap.awaited \cup {ap.sends + 1}]
            BY DEF ApSend
        <3>2. ap \in ApState
            BY DEF WljoinInv, TypeOK
        <3>3. ap.sends + 1 \in Nat /\ ap.awaited \cup {ap.sends + 1} \in SUBSET Nat
            BY <1>1
        <3> QED
            BY <3>1, <3>2, <3>3, ApUpdate, Zenon
    <2> QED
        BY <1>3, <1>4, <2>1 DEF WljoinInv, TypeOK, sta
<1>6. FramesToSta'
    BY <1>1, <1>3, <1>4 DEF WljoinInv, FramesToSta
<1>7. KeysAreGenuine' /\ Msg4EchoesMsg3' /\ UpIsKeyed'
    BY <1>4 DEF WljoinInv, KeysAreGenuine, Msg4EchoesMsg3, UpIsKeyed, sta
<1>8. FramesToAp' /\ Handshake' /\ Progress'
    BY <1>4 DEF WljoinInv, FramesToAp, Handshake, Progress, sta
<1> QED
    BY <1>5, <1>6, <1>7, <1>8 DEF WljoinInv

LEMMA ApRestartInv == WljoinInv /\ ApRestart => WljoinInv'
<1> SUFFICES ASSUME WljoinInv, ApRestart PROVE WljoinInv'
    OBVIOUS
<1>1. /\ ap'.phase = "msg1" /\ ap'.nonce = ap.nonce + 1 /\ ap'.gtk = ap.gtk
      /\ ap.nonce \in Nat
      /\ UNCHANGED <<how, pc, sta, polls, keys, toSta, toAp>>
    BY DEF ApRestart, WljoinInv, TypeOK, ApState
<1>2. TypeOK'
    <2>1. ap' = [ap EXCEPT !.phase = "msg1", !.nonce = ap.nonce + 1, !.awaited = {}]
        BY DEF ApRestart
    <2>2. ap \in ApState
        BY DEF WljoinInv, TypeOK
    <2>3. ap' \in ApState
        <3>1. ap.nonce + 1 \in Nat /\ {} \in SUBSET Nat
            BY <1>1
        <3> QED
            BY <2>1, <2>2, <3>1, ApUpdate, Zenon
    <2> QED
        BY <1>1, <2>3 DEF WljoinInv, TypeOK, sta
<1>3. KeysAreGenuine' /\ Msg4EchoesMsg3' /\ UpIsKeyed'
    <2>1. wpa_state = 3 => ptk.anonce \in Nat
        BY FinishedKey DEF Ptk
    <2> QED
        BY <1>1, <2>1 DEF WljoinInv, KeysAreGenuine, Msg4EchoesMsg3, UpIsKeyed, sta
<1>4. FramesToSta'
    <2>1. \A f \in toSta : f.anonce \in Nat
        BY DEF WljoinInv, TypeOK, FrameToSta
    <2> QED
        BY <1>1, <2>1 DEF WljoinInv, FramesToSta
<1>5. Handshake'
    <2>1. wpa_state >= 2 => ptk.anonce \in Nat
        BY DEF WljoinInv, TypeOK, Handshake, Ptk
    <2>2. wpa_state \in 0 .. 3
        BY DEF WljoinInv, TypeOK
    <2> QED
        BY <1>1, <2>1, <2>2 DEF WljoinInv, Handshake, sta
<1>6. FramesToAp' /\ Progress'
    BY <1>1 DEF WljoinInv, FramesToAp, Progress, sta
<1> QED
    BY <1>2, <1>3, <1>4, <1>5, <1>6 DEF WljoinInv

LEMMA ApGivesUpInv == WljoinInv /\ ApGivesUp => WljoinInv'
<1> SUFFICES ASSUME WljoinInv, ApGivesUp PROVE WljoinInv'
    OBVIOUS
<1>1. /\ ap'.phase = "off" /\ ap'.nonce = ap.nonce /\ ap'.gtk = ap.gtk
      /\ UNCHANGED <<how, pc, sta, polls, keys, toSta, toAp>>
    BY DEF ApGivesUp, WljoinInv, TypeOK, ApState
<1>2. TypeOK'
    BY <1>1 DEF WljoinInv, TypeOK, ApState, ApGivesUp, sta
<1>3. KeysAreGenuine' /\ Msg4EchoesMsg3' /\ UpIsKeyed'
    BY <1>1 DEF WljoinInv, KeysAreGenuine, Msg4EchoesMsg3, UpIsKeyed, sta
<1>4. FramesToSta' /\ FramesToAp' /\ Handshake' /\ Progress'
    BY <1>1 DEF WljoinInv, FramesToSta, FramesToAp, Handshake, Progress, sta
<1> QED
    BY <1>2, <1>3, <1>4 DEF WljoinInv

\* An answer that is not taken, or lost, leaves everything but toAp alone.
LEMMA AnswerGone ==
    ASSUME WljoinInv, toAp' \subseteq toAp,
           UNCHANGED <<how, pc, sta, polls, keys, toSta, ap>>
    PROVE  WljoinInv'
<1>1. TypeOK'
    BY DEF WljoinInv, TypeOK, sta
<1>2. KeysAreGenuine' /\ Msg4EchoesMsg3' /\ UpIsKeyed'
    BY DEF WljoinInv, KeysAreGenuine, Msg4EchoesMsg3, UpIsKeyed, sta
<1>3. FramesToSta' /\ FramesToAp' /\ Handshake' /\ Progress'
    BY DEF WljoinInv, FramesToSta, FramesToAp, Handshake, Progress, sta
<1> QED
    BY <1>1, <1>2, <1>3 DEF WljoinInv

LEMMA ApReceiveInv == WljoinInv /\ ApReceive => WljoinInv'
<1> SUFFICES ASSUME WljoinInv, ApReceive PROVE WljoinInv'
    OBVIOUS
<1>1. PICK f \in toAp :
          /\ ap' = CASE ap.phase = "msg1" /\ Answers(f, 2) ->
                          [ap EXCEPT !.phase = "msg3", !.awaited = {}]
                     [] ap.phase = "msg3" /\ Answers(f, 4) ->
                          [ap EXCEPT !.phase = "done"]
                     [] OTHER -> ap
          /\ toAp' = toAp \ {f}
          /\ UNCHANGED <<how, pc, sta, polls, keys, toSta>>
    BY DEF ApReceive
<1>2. toAp' \subseteq toAp
    BY <1>1
<1>3. ap \in ApState
    BY DEF WljoinInv, TypeOK
<1>4. CASE ap.phase = "msg1" /\ Answers(f, 2)
    <2>1. ap' = [ap EXCEPT !.phase = "msg3", !.awaited = {}]
        BY <1>1, <1>4
    <2>2. /\ ap'.phase = "msg3" /\ ap'.nonce = ap.nonce /\ ap'.gtk = ap.gtk
          /\ ap'.awaited = {}
        BY <1>3, <2>1 DEF ApState
    <2>3. TypeOK'
        BY <1>1, <1>2, <1>3, <2>1 DEF WljoinInv, TypeOK, ApState, sta
    <2>4. Msg4EchoesMsg3'
        <3>1. ASSUME NEW g \in toAp, g.m = 4, g.mic = PTK(ApPass, ap.nonce) PROVE FALSE
            <4>1. wpa_state = 3 /\ ptk = PTK(ApPass, ap.nonce)
                BY <3>1 DEF WljoinInv, FramesToAp
            <4>2. ptk.anonce = ap.nonce
                BY <4>1, <1>3 DEF PTK
            <4> QED
                BY <1>4, <4>1, <4>2 DEF WljoinInv, Handshake
        <3> QED
            BY <1>2, <2>2, <3>1 DEF Msg4EchoesMsg3
    <2>5. FramesToSta'
        BY <1>1, <1>4, <2>2 DEF WljoinInv, FramesToSta
    <2>6. KeysAreGenuine' /\ UpIsKeyed'
        BY <1>1, <2>2 DEF WljoinInv, KeysAreGenuine, UpIsKeyed, sta
    <2>7. FramesToAp' /\ Handshake' /\ Progress'
        BY <1>1, <1>2, <2>2 DEF WljoinInv, FramesToAp, Handshake, Progress, sta
    <2> QED
        BY <2>3, <2>4, <2>5, <2>6, <2>7 DEF WljoinInv
<1>5. CASE ap.phase = "msg3" /\ Answers(f, 4)
    <2>1. ap' = [ap EXCEPT !.phase = "done"]
        BY <1>1, <1>5
    <2>2. ap'.phase = "done" /\ ap'.nonce = ap.nonce /\ ap'.gtk = ap.gtk
        BY <1>3, <2>1 DEF ApState
    <2>3. TypeOK'
        BY <1>1, <1>2, <1>3, <2>1 DEF WljoinInv, TypeOK, ApState, sta
    <2>4. wpa_state = 3 /\ ptk = PTK(ApPass, ap.nonce)
        BY <1>5 DEF WljoinInv, FramesToAp, Answers
    <2>5. KeysAreGenuine' /\ Msg4EchoesMsg3' /\ UpIsKeyed'
        BY <1>1, <2>2, <2>4
        DEF WljoinInv, KeysAreGenuine, Msg4EchoesMsg3, UpIsKeyed, sta
    <2>6. FramesToSta' /\ FramesToAp' /\ Handshake' /\ Progress'
        BY <1>1, <1>2, <1>5, <2>2
        DEF WljoinInv, FramesToSta, FramesToAp, Handshake, Progress, sta
    <2> QED
        BY <2>3, <2>5, <2>6 DEF WljoinInv
<1>6. CASE ~ (ap.phase = "msg1" /\ Answers(f, 2)) /\ ~ (ap.phase = "msg3" /\ Answers(f, 4))
    BY <1>1, <1>2, <1>6, AnswerGone
<1> QED
    BY <1>4, <1>5, <1>6

LEMMA LossInv == WljoinInv /\ (LoseToSta \/ LoseToAp) => WljoinInv'
<1>1. ASSUME WljoinInv, LoseToAp PROVE WljoinInv'
    BY <1>1, AnswerGone DEF LoseToAp
<1>2. ASSUME WljoinInv, LoseToSta PROVE WljoinInv'
    <2>1. toSta' \subseteq toSta /\ UNCHANGED <<how, pc, sta, polls, keys, toAp, ap>>
        BY <1>2 DEF LoseToSta
    <2>2. TypeOK'
        BY <1>2, <2>1 DEF WljoinInv, TypeOK, sta
    <2>3. KeysAreGenuine' /\ Msg4EchoesMsg3' /\ UpIsKeyed'
        BY <1>2, <2>1 DEF WljoinInv, KeysAreGenuine, Msg4EchoesMsg3, UpIsKeyed, sta
    <2>4. FramesToSta' /\ FramesToAp' /\ Handshake' /\ Progress'
        BY <1>2, <2>1 DEF WljoinInv, FramesToSta, FramesToAp, Handshake, Progress, sta
    <2> QED
        BY <2>2, <2>3, <2>4 DEF WljoinInv
<1> QED
    BY <1>1, <1>2

LEMMA StutterInv == WljoinInv /\ UNCHANGED vars => WljoinInv'
    BY AnswerGone DEF vars

-----------------------------------------------------------------------------
\* Whatever the link loses, delays and reorders, the two sides and the frames
\* in flight fit together.
THEOREM JoinInvariance == Spec => []WljoinInv
<1>1. WljoinInv /\ [Next]_vars => WljoinInv'
    BY JoinInv, PollIdleInv, PollFrameInv, PollsOverInv, PairwiseInv, GroupInv,
       ApSendInv, ApRestartInv, ApGivesUpInv, ApReceiveInv, LossInv, StutterInv
    DEF Next
<1> QED
    BY InitInv, <1>1, PTL DEF Spec

\* Every variable keeps its type.
THEOREM JoinTypeCorrect == Spec => []TypeOK
<1>1. WljoinInv => TypeOK
    BY DEF WljoinInv
<1> QED
    BY <1>1, JoinInvariance, PTL

\* Only the right passphrase finishes, with keys of the access point's, and when
\* it has finished too, both sides hold the same one.
THEOREM KeysAreGenuineHolds == Spec => []KeysAreGenuine
<1>1. WljoinInv => KeysAreGenuine
    BY DEF WljoinInv
<1> QED
    BY <1>1, JoinInvariance, PTL

\* msg4 carries the counter of a msg3 the access point still waits for.
THEOREM Msg4EchoesMsg3Holds == Spec => []Msg4EchoesMsg3
<1>1. WljoinInv => Msg4EchoesMsg3
    BY DEF WljoinInv
<1> QED
    BY <1>1, JoinInvariance, PTL

\* A protected link that is up has its pairwise key installed.
THEOREM UpIsKeyedHolds == Spec => []UpIsKeyed
<1>1. WljoinInv => UpIsKeyed
    BY DEF WljoinInv
<1> QED
    BY <1>1, JoinInvariance, PTL

\* The keys in the radio come from the access point, a link that is up has them,
\* and unless the access point has started over since, it holds the same.
THEOREM JoinIsKeyedHolds == Spec => []JoinIsKeyed
<1>1. WljoinInv => KeysAreCurrent
    <2> SUFFICES ASSUME WljoinInv, wpa_state = 3, ~ Superseded
                 PROVE  ptk = PTK(ApPass, ap.nonce) /\ ap.phase # "msg1"
        BY DEF KeysAreCurrent
    <2>1. ptk # None
        BY DEF WljoinInv, Handshake
    <2>2. ptk \in Ptk /\ ap.nonce \in Nat
        BY <2>1 DEF WljoinInv, TypeOK, ApState
    <2>3. ptk.pass = ApPass /\ ptk.anonce <= ap.nonce
        BY DEF WljoinInv, Handshake, KeysAreGenuine
    <2>4. ptk.anonce = ap.nonce
        BY <2>2, <2>3 DEF Superseded, Ptk
    <2>5. ap.phase # "msg1"
        BY <2>4 DEF WljoinInv, Handshake
    <2> QED
        BY <2>2, <2>3, <2>4, <2>5 DEF Ptk, PTK
<1>2. WljoinInv => JoinIsKeyed
    BY <1>1 DEF WljoinInv, JoinIsKeyed
<1> QED
    BY <1>2, JoinInvariance, PTL

-----------------------------------------------------------------------------
(* A lost msg2 is final: nothing leads out of Stuck.                       *)

Stuck ==
    /\ wpa_state = 2
    /\ ap.phase \in {"msg1", "off"}
    /\ \A f \in toAp : f.m # 2
    /\ \A f \in toSta : f.m # 3

LEMMA StuckStays == WljoinInv /\ Stuck /\ [Next]_vars => Stuck'
<1> SUFFICES ASSUME WljoinInv, Stuck, [Next]_vars PROVE Stuck'
    OBVIOUS
<1>1. CASE Join
    BY <1>1 DEF Stuck, Join, WljoinInv, Progress
<1>2. CASE PollIdle \/ PollsOver \/ InstallPairwise \/ InstallGroup
    BY <1>2 DEF Stuck, PollIdle, PollsOver, InstallPairwise, InstallGroup, sta
<1>3. CASE PollFrame
    <2>1. PICK f \in toSta :
                /\ toSta' = toSta \ {f} /\ UNCHANGED ap
                /\ RxMsg1(f) \/ RxBadMic(f) \/ RxMsg3(f)
        BY <1>3 DEF PollFrame
    <2>2. ~ RxMsg3(f)
        BY GoodMic DEF RxMsg3, Stuck
    <2>3. RxBadMic(f)
        BY <2>1, <2>2 DEF RxMsg1, Stuck
    <2> QED
        BY <2>1, <2>3 DEF Stuck, RxBadMic
<1>4. CASE ApSend
    <2>1. ap.phase = "msg1" /\ ap'.phase = "msg1" /\ toSta' = toSta \cup {Frame(1)}
          /\ wpa_state' = wpa_state /\ toAp' = toAp
        BY <1>4 DEF ApSend, Stuck, sta, WljoinInv, TypeOK, ApState
    <2>2. Frame(1).m = 1
        BY DEF Frame
    <2> QED
        BY <2>1, <2>2 DEF Stuck
<1>5. CASE ApRestart \/ ApGivesUp
    BY <1>5 DEF Stuck, ApRestart, ApGivesUp, sta, WljoinInv, TypeOK, ApState
<1>6. CASE ApReceive
    <2>1. PICK f \in toAp :
              /\ ap' = CASE ap.phase = "msg1" /\ Answers(f, 2) ->
                              [ap EXCEPT !.phase = "msg3", !.awaited = {}]
                         [] ap.phase = "msg3" /\ Answers(f, 4) ->
                              [ap EXCEPT !.phase = "done"]
                         [] OTHER -> ap
              /\ toAp' = toAp \ {f}
              /\ UNCHANGED <<how, pc, sta, polls, keys, toSta>>
        BY <1>6 DEF ApReceive
    <2>2. f.m # 2 /\ ap.phase # "msg3"
        BY DEF Stuck
    <2>3. ap' = ap
        BY <2>1, <2>2 DEF Answers
    <2> QED
        BY <2>1, <2>3 DEF Stuck, sta
<1>7. CASE LoseToSta \/ LoseToAp
    BY <1>7 DEF Stuck, LoseToSta, LoseToAp, sta
<1>8. CASE UNCHANGED vars
    BY <1>8 DEF Stuck, vars, sta
<1> QED
    BY <1>1, <1>2, <1>3, <1>4, <1>5, <1>6, <1>7, <1>8 DEF Next

\* After the only msg2 is lost, no later step completes the handshake.
THEOREM LostMsg2Final == Spec => LostMsg2IsFinal
<1>1. AnswerLost => Stuck
    BY DEF AnswerLost, Stuck
<1>2. Stuck => wpa_state # 3
    BY DEF Stuck
<1> QED
    BY <1>1, <1>2, StuckStays, JoinInvariance, PTL DEF Spec, LostMsg2IsFinal
=============================================================================
