-------------------------------- MODULE Tar --------------------------------
(***************************************************************************)
(* tar (ex_archive.c): files are archived while another process changes    *)
(* their sizes, and the archive is then listed or extracted.               *)
(*                                                                         *)
(* A block is Block units.  The archive is a sequence of units: a header   *)
(* is a unit that holds it and Rest for the remainder of its block, Zero   *)
(* is a unit of zeros.  A reader that takes anything else for a header is  *)
(* lost; what it then does is not modelled.  Names are model values and a  *)
(* directory argument is the list of its entries, which are "inner": the   *)
(* result of adding them is dropped (line 172).                            *)
(***************************************************************************)
EXTENDS Naturals, Integers, SequencesExt

CONSTANTS Block,        \* units in a block
          Entries0,     \* lists of [name, type, data, inner] that may be archived
          Grown,        \* the unit another process appends to a file
          MaxTrouble    \* failing calls and changed files, in all; one of a kind

VARIABLES mode, entries, archive, tarAt, k, size, done, pos, dest, printed,
          created, extracted, trouble
tarVars == <<mode, entries, archive, tarAt, k, size, done, pos, dest, printed,
             created, extracted, trouble>>

Unit(type, name, n) == [type |-> type, name |-> name, size |-> n]
Zero == Unit("zero", "", 0)
Rest == Unit("rest", "", 0)
Datum(x) == Unit("data", x, 0)
Zeros(n) == [i \in 1..n |-> Zero]
header(e) == <<Unit(e.type, e.name, Len(e.data))>> \o [i \in 1..Block - 1 |-> Rest]
Entry == entries[k]
Padding(n) == IF n % Block = 0 THEN 0 ELSE Block - (n % Block)
PadLen == Padding(size)

Types == {"file", "dir", "link"}
Names == UNION {{es[i].name : i \in DOMAIN es} : es \in Entries0}
Content ==
  {Datum(Grown)} \cup UNION {UNION {ToSet(es[i].data) : i \in DOMAIN es} : es \in Entries0}
TarEntry == [name : Names, type : Types, data : Seq(Content), inner : BOOLEAN]

ASSUME TarAssumption ==
  /\ Block \in Nat \ {0}
  /\ Entries0 \subseteq Seq(TarEntry) \ {<<>>}
  /\ \A es \in Entries0 : \A i \in 1..Len(es) : es[i].type # "file" => es[i].data = <<>>

Reading == UNCHANGED <<mode, entries, archive, created>>
Writing == UNCHANGED <<mode, entries, pos, dest, printed, extracted>>
Trouble(t) == t \notin trouble /\ Cardinality(trouble) < MaxTrouble
              /\ trouble' = trouble \cup {t}

Blank ==
  /\ archive = <<>> /\ k = 1
  /\ size = 0 /\ done = 0 /\ pos = 0 /\ dest = <<>> /\ printed = <<>>
  /\ created = 0 /\ extracted = 0 /\ trouble = {}
TarOff == Blank /\ mode = "off" /\ entries = <<>> /\ tarAt = "off"

TarInit ==
  \E m \in {"list", "extract"}, es \in Entries0 :
    Blank /\ mode = m /\ entries = es /\ tarAt = "add"

(***************************************************************************)
(* Creating.                                                               *)
(***************************************************************************)
\* The entry is finished; its failure counts unless it is inner.
NextEntry(failed) ==
  /\ k' = k + 1 /\ size' = 0 /\ done' = 0
  /\ tarAt' = IF k' > Len(entries) THEN "end" ELSE "add"
  /\ created' = IF failed /\ ~Entry.inner THEN 1 ELSE created

\* write_all fails after some of its units
WriteFails(us) ==
  /\ Trouble("write")
  /\ \E n \in 0..Len(us) - 1 : archive' = archive \o SubSeq(us, 1, n)
  /\ NextEntry(TRUE)

AddEntry ==
  /\ tarAt = "add"
  /\ \/ /\ archive' = archive \o header(Entry) /\ UNCHANGED trouble
        /\ IF Entry.type = "file"
           THEN /\ size' = Len(Entry.data) /\ tarAt' = "open"
                /\ UNCHANGED <<k, done, created>>
           ELSE NextEntry(FALSE)
     \/ WriteFails(header(Entry))
     \/ Trouble("stat") /\ NextEntry(TRUE) /\ UNCHANGED archive
  /\ Writing

\* the header is written by now: a file that does not open leaves no data
OpenEntry ==
  /\ tarAt = "open"
  /\ \/ tarAt' = "copy" /\ UNCHANGED <<archive, k, size, done, created, trouble>>
     \/ Trouble("open") /\ NextEntry(TRUE) /\ UNCHANGED archive
  /\ Writing

\* a read of the file, as long as the size in the header is not reached
CopyChunk ==
  /\ tarAt = "copy" /\ done < size /\ done < Len(Entry.data)
  /\ \E n \in 1..Len(Entry.data) - done :
       LET us == SubSeq(Entry.data, done + 1, done + n)
       IN  /\ done + n <= size
           /\ \/ /\ archive' = archive \o us /\ done' = done + n
                 /\ UNCHANGED <<tarAt, k, size, created, trouble>>
              \/ WriteFails(us)
              \/ Trouble("read") /\ NextEntry(TRUE) /\ UNCHANGED archive
  /\ Writing

\* The end of the file or of the announced size: the padding goes by the
\* announced size.
PadEntry ==
  /\ tarAt = "copy" /\ (done = size \/ done >= Len(Entry.data))
  /\ \/ archive' = archive \o Zeros(PadLen) /\ NextEntry(FALSE) /\ UNCHANGED trouble
     \/ PadLen > 0 /\ WriteFails(Zeros(PadLen))
  /\ Writing

\* two blocks of zeros, whose writing is not checked
tar_create_end ==
  /\ tarAt = "end" /\ tarAt' = "read"
  /\ \/ archive' = archive \o Zeros(2 * Block) /\ UNCHANGED trouble
     \/ /\ Trouble("write")
        /\ \E n \in 0..2 * Block - 1 : archive' = archive \o Zeros(n)
  /\ UNCHANGED <<k, size, done, created>> /\ Writing

\* another process makes a file shorter or longer while tar is at it
ChangeFile ==
  /\ tarAt \in {"add", "open", "copy"} /\ Entry.type = "file"
  /\ UNCHANGED <<mode, archive, tarAt, k, size, done, pos, dest, printed, created, extracted>>
  /\ \/ /\ Entry.data # <<>> /\ Trouble("shrunk")
        /\ entries' = [entries EXCEPT ![k].data = Front(@)]
     \/ /\ Trouble("grown")
        /\ entries' = [entries EXCEPT ![k].data = Append(@, Datum(Grown))]

(***************************************************************************)
(* Reading: tar_list and tar_extract.                                      *)
(***************************************************************************)
Ahead == Len(archive) - pos
IsHeader == Ahead >= Block /\ archive[pos + 1].type \in Types
            /\ \A i \in 2..Block : archive[pos + i] = Rest
AtZeros == Ahead >= Block /\ \A i \in 1..Block : archive[pos + i] = Zero
Head0 == archive[pos + 1]

\* Mutant of tar_skip_data: not rounded up.
tar_skip_data_bare(n) == pos' = pos + Block + n

\* skip_data, the size rounded up to blocks; a seek may pass the end
tar_skip_data(n) == pos' = pos + Block + ((n + Block - 1) \div Block) * Block

ListEntry ==
  /\ tarAt = "read" /\ mode = "list" /\ IsHeader
  /\ printed' = Append(printed, Head0.name)
  /\ tar_skip_data(Head0.size)
  /\ UNCHANGED <<tarAt, k, size, done, dest, extracted, trouble>> /\ Reading

\* the end of the archive: two zero blocks, or nothing more to read
ReadEnd ==
  /\ tarAt = "read" /\ (Ahead <= 0 \/ AtZeros)
  /\ tarAt' = "done"
  /\ UNCHANGED <<k, size, done, pos, dest, printed, extracted, trouble>> /\ Reading

ReadGarbage ==
  /\ tarAt = "read" /\ Ahead > 0 /\ ~AtZeros /\ ~IsHeader
  /\ tarAt' = "lost"
  /\ UNCHANGED <<k, size, done, pos, dest, printed, extracted, trouble>> /\ Reading

Made(type, data) == [name |-> Head0.name, type |-> type, data |-> data]

\* directories and links: whether they could be made is not told
ExtractOther ==
  /\ tarAt = "read" /\ mode = "extract" /\ IsHeader /\ Head0.type \in {"dir", "link"}
  /\ pos' = pos + Block
  /\ \/ dest' = Append(dest, Made(Head0.type, <<>>)) /\ UNCHANGED trouble
     \/ Trouble("make") /\ UNCHANGED dest
  /\ UNCHANGED <<tarAt, k, size, done, printed, extracted>> /\ Reading

ExtractOpen ==
  /\ tarAt = "read" /\ mode = "extract" /\ IsHeader /\ Head0.type = "file"
  /\ \/ /\ dest' = Append(dest, Made("file", <<>>))
        /\ tarAt' = "data" /\ size' = Head0.size /\ done' = 0 /\ pos' = pos + Block
        /\ UNCHANGED <<extracted, trouble>>
     \/ /\ Trouble("create") /\ extracted' = 1 /\ tar_skip_data(Head0.size)
        /\ UNCHANGED <<tarAt, size, done, dest>>
  /\ UNCHANGED <<k, printed>> /\ Reading

ExtractData ==
  /\ tarAt = "data" /\ done < size /\ Ahead > 0
  /\ \E n \in 1..Block :
       /\ n <= size - done /\ n <= Ahead
       /\ pos' = pos + n
       /\ \/ /\ dest' = [dest EXCEPT ![Len(dest)].data = @ \o SubSeq(archive, pos + 1, pos + n)]
             /\ done' = done + n
             /\ UNCHANGED <<tarAt, extracted, trouble>>
          \/ /\ Trouble("full") /\ extracted' = 1 /\ tarAt' = "skip"
             /\ UNCHANGED <<dest, done>>
  /\ UNCHANGED <<k, size, printed>> /\ Reading

\* all the data, the end of the archive, or a failed read: not an error
ExtractStop ==
  /\ tarAt = "data" /\ tarAt' = "skip"
  /\ \/ (done = size \/ Ahead <= 0) /\ UNCHANGED trouble
     \/ done < size /\ Ahead > 0 /\ Trouble("readback")
  /\ UNCHANGED <<k, size, done, pos, dest, printed, extracted>> /\ Reading

SkipPadding ==
  /\ tarAt = "skip" /\ tarAt' = "read"
  /\ pos' = IF PadLen <= Ahead THEN pos + PadLen ELSE Len(archive)
  /\ UNCHANGED <<k, size, done, dest, printed, extracted, trouble>> /\ Reading

tar_create == AddEntry \/ OpenEntry \/ CopyChunk \/ PadEntry \/ tar_create_end
tar_extract == ExtractOther \/ ExtractOpen \/ ExtractData \/ ExtractStop \/ SkipPadding
TarNext == tar_create \/ ChangeFile \/ ListEntry \/ ReadEnd \/ ReadGarbage \/ tar_extract

TarSpec == TarInit /\ [][TarNext]_tarVars

(***************************************************************************)
(* What tar promises.                                                      *)
(***************************************************************************)
\* the kinds of trouble that put nothing out of step
Harmless == {"stat", "grown", "create", "make"}

Stored == [i \in 1..Len(entries) |->
             [name |-> entries[i].name, type |-> entries[i].type, data |-> entries[i].data]]

\* a whole entry, or the first units of a file that has grown since
ComesFrom(d, e) == d.name = e.name /\ d.type = e.type /\ IsPrefix(d.data, e.data)

(* Headers stay where the reader looks for them, and an archive that was   *)
(* made and read without trouble gives back what went in, whatever pieces  *)
(* reads and writes came in.  A file that grows is harmless, and so is one *)
(* that cannot be created (its data is skipped).  What is not harmless is  *)
(* real: a file that shrinks or does not open after its header was written *)
(* (ex_archive.c:196, :188), reads and writes that fail in the middle      *)
(* (:195, :319, :320).                                                     *)
TarStaysInStep ==
  /\ tarAt = "lost" => ~(trouble \subseteq Harmless)
  /\ tarAt = "done" /\ trouble \subseteq Harmless =>
       \A d \in ToSet(dest) : \E e \in ToSet(Stored) : ComesFrom(d, e)
  /\ tarAt = "done" /\ trouble = {} =>
       IF mode = "list" THEN printed = [i \in 1..Len(entries) |-> entries[i].name]
       ELSE dest = Stored
=============================================================================
