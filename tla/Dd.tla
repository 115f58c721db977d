--------------------------------- MODULE Dd ---------------------------------
(***************************************************************************)
(* dd (ex_dd.c): blocks copied from an input whose reads may be short to   *)
(* an output whose writes may be short, with count, skip, seek and         *)
(* notrunc.  A byte is a unit; block sizes are in units.                   *)
(***************************************************************************)
EXTENDS Integers, SequencesExt

CONSTANTS DdOperands,   \* [ibs, obs, count, skip, seek, notrunc, seekable]
          DdInputs,     \* inputs, sequences of units
          DdOutputs,    \* what the output file holds before
          MaxDdFaults   \* failing calls and writes of nothing

NoCount == -1
DdUnit == {"zero"} \cup UNION {ToSet(s) : s \in DdInputs \cup DdOutputs}

ASSUME DdAssumption ==
  /\ DdOperands \subseteq [ibs : Nat \ {0}, obs : Nat \ {0}, count : Nat \cup {NoCount},
                          skip : Nat, seek : Nat, notrunc : BOOLEAN, seekable : BOOLEAN]
  /\ DdInputs \cup DdOutputs \subseteq Seq(DdUnit)
  /\ MaxDdFaults \in Nat

VARIABLES dd, input, before, inPos, output, outPos, buf, left, records, rcdd, ddAt,
          short, zeroed, failures
ddVars == <<dd, input, before, inPos, output, outPos, buf, left, records, rcdd, ddAt,
            short, zeroed, failures>>

AtOnce == UNCHANGED <<dd, input, before>>
MayFail == failures < MaxDdFaults /\ failures' = failures + 1

\* units us written at offset n: a gap is filled with zeros
Over(file, n, us) ==
  LET len == IF us = <<>> \/ n + Len(us) < Len(file) THEN Len(file) ELSE n + Len(us)
  IN  [i \in 1..len |-> IF i > n /\ i <= n + Len(us) THEN us[i - n]
                        ELSE IF i <= Len(file) THEN file[i] ELSE "zero"]

\* the output is opened, and emptied unless notrunc is given
DdOpen ==
  /\ dd \in DdOperands /\ input \in DdInputs /\ before \in DdOutputs
  /\ output = IF dd.notrunc THEN before ELSE <<>>
  /\ inPos = 0 /\ outPos = 0 /\ buf = <<>> /\ records = 0 /\ rcdd = 0
  /\ left = dd.skip * dd.ibs /\ ddAt = "skip"
  /\ short = FALSE /\ zeroed = FALSE /\ failures = 0

DdOff ==
  /\ dd = <<>> /\ input = <<>> /\ before = <<>> /\ output = <<>> /\ inPos = 0 /\ outPos = 0
  /\ buf = <<>> /\ records = 0 /\ rcdd = 0 /\ left = 0 /\ ddAt = "off"
  /\ short = FALSE /\ zeroed = TRUE /\ failures = 0

\* lseek, or read and discard until the end or an error
DdSkip ==
  /\ ddAt = "skip"
  /\ \/ /\ dd.seekable \/ left = 0
        /\ inPos' = inPos + left /\ left' = 0 /\ ddAt' = "seek" /\ UNCHANGED failures
     \/ /\ left > 0 /\ inPos < Len(input) /\ ~dd.seekable
        /\ \E n \in 1..dd.ibs : /\ n <= left /\ n <= Len(input) - inPos
                                /\ inPos' = inPos + n /\ left' = left - n
        /\ UNCHANGED <<ddAt, failures>>
     \/ /\ left > 0 /\ ~dd.seekable
        /\ (inPos = Len(input) /\ UNCHANGED failures) \/ MayFail
        /\ ddAt' = "seek" /\ UNCHANGED <<inPos, left>>
  /\ UNCHANGED <<output, outPos, buf, records, rcdd, short, zeroed>> /\ AtOnce

DdSeek ==
  /\ ddAt = "seek"
  /\ \/ outPos' = dd.seek * dd.obs /\ ddAt' = "read" /\ UNCHANGED <<rcdd, failures>>
     \/ dd.seek > 0 /\ MayFail /\ rcdd' = 1 /\ ddAt' = "done" /\ UNCHANGED outPos
  /\ UNCHANGED <<inPos, output, buf, left, records, short, zeroed>> /\ AtOnce

\* every read is a record and counts, short or not
DdRead ==
  /\ ddAt = "read" /\ (dd.count = NoCount \/ records < dd.count)
  /\ \/ /\ inPos < Len(input)
        /\ \E n \in 1..dd.ibs :
             /\ n <= Len(input) - inPos
             /\ buf' = SubSeq(input, inPos + 1, inPos + n)
             /\ inPos' = inPos + n
             /\ short' = (short \/ (n < dd.ibs /\ n < Len(input) - inPos))
        /\ ddAt' = "write" /\ UNCHANGED <<rcdd, failures>>
     \/ /\ inPos >= Len(input) /\ ddAt' = "done"
        /\ UNCHANGED <<buf, inPos, short, rcdd, failures>>
     \/ /\ MayFail /\ rcdd' = 1 /\ ddAt' = "done" /\ UNCHANGED <<buf, inPos, short>>
  /\ UNCHANGED <<output, outPos, left, records, zeroed>> /\ AtOnce

\* Mutant of DdWrite: a short write is taken for the whole block.
DdWriteOnce ==
  /\ ddAt = "write" /\ buf # <<>>
  /\ \E w \in 1..Len(buf) :
       /\ output' = Over(output, outPos, SubSeq(buf, 1, w))
       /\ outPos' = outPos + w /\ buf' = <<>>
       /\ UNCHANGED <<ddAt, rcdd, zeroed, failures>>
  /\ UNCHANGED <<inPos, left, records, short>> /\ AtOnce

\* a write of nothing drops the rest of the block without an error
DdWrite ==
  /\ ddAt = "write" /\ buf # <<>>
  /\ \/ \E w \in 1..Len(buf) :
          /\ output' = Over(output, outPos, SubSeq(buf, 1, w))
          /\ outPos' = outPos + w /\ buf' = SubSeq(buf, w + 1, Len(buf))
          /\ UNCHANGED <<ddAt, rcdd, zeroed, failures>>
     \/ MayFail /\ zeroed' = TRUE /\ buf' = <<>> /\ UNCHANGED <<output, outPos, rcdd, ddAt>>
     \/ MayFail /\ rcdd' = 1 /\ ddAt' = "done" /\ UNCHANGED <<output, outPos, buf, zeroed>>
  /\ UNCHANGED <<inPos, left, records, short>> /\ AtOnce

DdNextBlock ==
  /\ ddAt = "write" /\ buf = <<>>
  /\ records' = records + 1
  /\ ddAt' = IF dd.count # NoCount /\ records' >= dd.count THEN "done" ELSE "read"
  /\ UNCHANGED <<inPos, output, outPos, buf, left, rcdd, short, zeroed, failures>> /\ AtOnce

DdCounted ==
  /\ ddAt = "read" /\ dd.count # NoCount /\ records >= dd.count /\ ddAt' = "done"
  /\ UNCHANGED <<inPos, output, outPos, buf, left, records, rcdd, short, zeroed, failures>>
  /\ AtOnce

DdNext == DdSkip \/ DdSeek \/ DdRead \/ DdWrite \/ DdNextBlock \/ DdCounted
DdSpec == DdOpen /\ [][DdNext]_ddVars

(***************************************************************************)
(* What dd promises.                                                       *)
(***************************************************************************)
Lowest(m, n) == IF m < n THEN m ELSE n
Skipped == Lowest(dd.skip * dd.ibs, Len(input))
Wanted == IF dd.count = NoCount THEN Len(input) - Skipped
         ELSE Lowest(dd.count * dd.ibs, Len(input) - Skipped)
Result(n) == Over(IF dd.notrunc THEN before ELSE <<>>, dd.seek * dd.obs,
                  SubSeq(input, Skipped + 1, Skipped + n))

(* The output holds one unbroken piece of the input, from skip on, at seek, *)
(* and nothing else is changed, after short reads and writes and after any  *)
(* failure; a copy that ends with status 0 is the piece that was asked for. *)
(* Exceptions: a write of nothing (ex_dd.c:190), a failed read while        *)
(* skipping (:153), and count with short reads, each of which counts (:194).*)
DdCopiesTheRange ==
  ~zeroed /\ (failures = 0 \/ left = 0) /\ ddAt # "skip" =>
    /\ \E n \in 0..Wanted : output = Result(n)
    /\ ddAt = "done" /\ rcdd = 0 /\ (short => dd.count = NoCount) => output = Result(Wanted)
=============================================================================
