# CactUserBins: a TLA+ verification project

CactUserBins is a set of 123 small user programs for a 32-bit system: an
entry point of a few lines for each, and their logic in `src/common/ex_*.c`
and in a few directories of their own (`ced`, `fdisk`, `wljoin`, `mkfs.*`,
`cact-rootfs`, `firmextr`).  This directory holds TLA+ models of the programs
that keep state over time, TLC configurations that check them on small
instances, and theorems that TLAPS proves for every size.

`PROJECT.json` lists the components, runs, mutants, the source lines each
definition stands for, the hazards, findings and theorems.

Run `tlc -config X.cfg M` for a run X of module M, and `tlapm M.tla` on
`FdiskProofs`, `CedProofs`, `CedInputProofs`, `TarProofs`, `ProgramProofs`,
`MkfsProofs`, `FileProofs` and `RootfsProofs` for the proofs.

## 1. Inventory

### Modelled

| Component | State | Operations | Interacts with | What is hard |
|---|---|---|---|---|
| `fdisk` (`fdisk/main.c`, `ptab.c`) | the table in memory, `g_dirty`; the sectors of the disk | load, `o g n d t b w q`, from a script or a terminal | disk by sector, kernel re-scan | a write of 67 sectors that may stop anywhere; two labels and two copies on one disk; renumbering; truncated numbers |
| `ced`, buffer and files (`ced/editor.c`) | lines, cursor, undo stack, cut buffer, modified flag; `FILE`, `FILE~` | typing, Enter, deletions, cut, paste, insert file, search, goto, undo, save, exit | file system, keyboard | coalescing in undo; save over the only copy; end of input at every place a key is read |
| `ced`, keyboard (`read_byte`, `read_key`) | pending byte, `got_int`, idle count, parser state | read a key | console, SIGINT | escape sequences interrupted by signals; telling a dead terminal from an interrupted read |
| `wljoin` (`wljoin/main.c`) | `wpa_state`, PTK, replay counter, GTK, keys in the radio | connect, poll for EAPOL frames, install keys | access point over a lossy link, driver | lost, late and reordered frames, an access point that starts over |
| file tools (`ex_files.c`, `ex_copy.c`, `ex_util.c`) | the C stack of the walk, the exit status; the tree of names and inodes | `cp mv rm rmdir mkdir ln touch cat wrt` | file system, other processes | destination truncated first; links out of the tree; a second device; names that come and go |
| `tar` (`ex_archive.c`) | position in the archive, what is left of an entry | create, list, extract | files that change, a disk that fills | header and data must stay in step |
| `dd` (`ex_dd.c`) | offsets, blocks left | one copy | files with short reads and writes | the next piece starts where the last ended |
| `cact-rootfs` | the step it is at | one installation | file system; kills and restarts | what is left by a killed installation |
| `timeout`, `xargs`, `killall`, `pidof` (`ex_admin.c`) | time waited, pid; items and statuses; the piece of `/proc` | poll, signal, kill; run a batch; walk | child processes, the kernel | a child that ends between two steps; fork that fails; pids that come and go; signals refused |
| shell bridge (`ex_shell.c`, `ex_util.c`) | the bytes still to be written | `cd export unset exit jobs fg bg` | the shell, by a pipe with several writers | one request is one line only up to the size of an atomic write |
| `wget`, `nc`, `ip` (`ex_net.c`) | buffer and body left; two processes of the relay; a copy of the configuration | redirect, headers, chunks; relay; read-modify-write | servers, peers, the kernel | a body cut short; half-closed peers; two commands at a time |
| `mkfs.ext4`, `mkfs.fat32` | geometry, writes still to do | probe, lay out, write in order | a device that may be shorter than it says | sizes just at a group, a bitmap or a FAT sector |
| `firmextr` | place in the stream, members found | one pass | a stream that may break | stopping early without missing a member |
| text filters and `grep` (`ex_text.c`, `ex_stream.c`, `ex_fmt.c`, `ex_grep.c`) | little but for `tail -f`: position in a file | 25 tools | files, writers of the followed file | boundaries, missing files, statuses; a file that grows between two calls |

Correct means, in short: `fdisk` never describes two partitions that share a
sector nor writes into a partition, and what it wrote is what is read again,
before and after a crash; `ced` never leaves its text, never loses a text it
said was safe, undoes what was done, and ends when its terminal does;
`read_key` returns the keys pressed; `wljoin` is up only with keys of the
access point's, and ends.  A file tool that answers 0 has done its work in
full, has touched nothing else and has not lost what it moved; an archive gives
back what went in; the shell gets whole requests; a body or a relay loses no
byte unnoticed; a signal goes to the process it is meant for; a new file system
has regions that are apart and counts that agree; a filter answers what its
usage says.

### Not modelled, and why

| Component | Why |
|---|---|
| `ex_hash.c` | digests: bit arithmetic beyond TLC, no state over time |
| `ex_sys.c`, `ex_system.c`, `ex_df.c`, `ex_misc.c`, `ex_echo.c`, `ex_proc.c`, `lscpu`, `mountpoint`, `truncate`, `ls`, `stat` | one system call or one read of `/proc`, and its output |
| `ex_ldd.c`, `file`, `ex_view.c` | parsing of ELF and other headers, paging; layout without state |
| `ex_path.c`, `ex_nav.c`, `ex_math.c` | one string or expression each, no state |
| `ping`, `dns`, `arp`, `ip link` | one exchange or one table each |
| `find`, `du`, `tree` (`cact_ub_tree_walk`) | read-only walks; the walks that change something, of `rm` and `cp`, are modelled |
| `dhcp`, `nconn`, `net` | not among the programs `meson.build` builds |
| cryptography of `wljoin` (`wpa.c`) | perfect by assumption |

## 2. Modules

```
Ptab -- Fdisk -- FdiskProps -- MCFdisk
                     |  \
                     |   AtomicCell (refined)
                 FdiskProofs

CedBuffer -- Ced -- CedProps -- MCCed
                        \
                         CedHistory -- MCCedHistory
                              \
                           CedProofs

CedInput -- MCCedInput
        \
      CedInputProofs

Wljoin -- MCWljoin

FileSys -- FileTools --\
   \------- Rootfs -----+-- MCFiles
            Tar, Dd ---/
              \
             TarProofs

Timeout, Xargs, Killall, Channel, Wget, Netcat, IpConfig -- MCPrograms

Timeout, Netcat, Dd, Killall, IpConfig, Firmextr, Wget, Xargs, Channel,
Wljoin -- ProgramProofs

TextTools -- FormatTools -- Filters ---------------\
                                                    +-- MCAlgorithms
                   Device -- Ext4, Fat32 -- Mkfs ---/
                                             | Firmextr
                                        MkfsProofs

FileTools, Filters -- FileProofs
                           |
                  Rootfs -- RootfsProofs
```

**Ptab** is `ptab.c`: a table is `[label, parts]`, `parts` the dense prefix of
the C array, so that the number a user types is an index.  Loading drops the
entries the loaders skip and closes up; building gives the sectors.  A type is
one of four classes, a CRC is the array it was computed over, names and GUIDs
are left out.

**Fdisk** is `main.c`: `Start` is `load_table`, each `Verb...` action one case
of `run_verb`, `WriteSector` one `wr512` of `write_table` in the order of the
code (`PlanLba`, `PlanSector`), `Crash` a kill between two of them and
`WriteError` a failing one.

**FdiskProps** states the properties; **AtomicCell** is the abstract write of
one cell that is old or new, and `FdiskProps!Cell` maps the disk to it through
the eyes of a reader that checks CRCs and falls back on the backup copy.

**CedBuffer** gives what each key makes of the lines and the cursor.  **Ced**
is the main loop around it: undo stack (`push_undo` with its coalescing and
its caps), prompts, save call by call (`BackupOpen`, `BackupWrite`, `Truncate`,
`WriteLines`, `SaveDone` and their failures), the exit question, sessions one
after another on the same files.  A line is a sequence of characters, a file a
sequence of lines.  **CedHistory** adds variables that record the past (the
file as it last was whole, the text the session began with) without adding or
removing a step.

**CedInput** is `read_byte` and `read_key`, one step for each byte, with the
user, the signal handler and the console as the environment.  The bytes of a
key arrive one by one (`Press`, `Arrive`): the reader may block, be interrupted
or lose its terminal between any two of them, which is what `read_byte_seq`
(`ReadOn`) is for.  `misled` remembers that `read_byte` gave up a terminal that
was there.  `Ced` takes the keys as given: `CedInput` shows that they are those
pressed.

**Wljoin** is `connect_ap` and `wpa_rx`; its access point is external, an
authenticator as the frames of the code presume it.  Keys and MICs are records
of what they are derived from (perfect cryptography, `wpa.c`).

**FileSys** is the kernel's tree as the tools see it: paths to directories,
links and inodes, inodes to contents, a second device on a directory.
`leads` is path lookup: a recursive function on the links that may still be
followed and the path, which gives the place a name leads to, or none for
a loop or a missing directory.  A call is an operator that gives the set of
its outcomes.  **FileTools** runs one command on it.  `todo` is the C stack,
so that a recursive walk is a sequence of calls between which another process
may act; each action is the code from one call that changes or reads the
tree to the next (`CpTree`, `CpList`, `RmEntry`, `MvAcross`, `MvUnlink`,
`CopyOpen`, `CopyBlock`).  A call that fails shows in what the caller does next;
where the code takes the failure for something else, a `getdents` for the end of
the directory or an `lstat` under `rm -f` for a name that is not there, `missed`
counts it.  The first look at DST and `touch`'s `stat` do not fail.  The other
process makes and removes files and removes links, and no more (`Meddle`).
**Rootfs** is the installer on the same tree,
a list of tasks each of which makes its own calls or gives way to others, with
kills and restarts: `copy_tree` becomes the listing of a directory and one
task for each of its entries, and what an entry is, is seen when its turn comes
(`CopyTree`, `ListDir`, `CopyEntry`), as in the recursion of the code.
**Tar** is an archive as a sequence of units, so that a reader which is
one block off reads data for a header.  **Dd** counts bytes in units.

**Timeout**, **Xargs**, **Killall**, **Channel**, **Wget**, **Netcat** and
**IpConfig** are one program each.  The child, the kernel, the shell, the
server and the peer are external and do what they may do at any moment.
`Channel` and `IpConfig` run several processes of the program.

What moves through these programs is told by where it comes from, not by what
it says, so that a property can speak of a byte lost, repeated or out of place.
In `Channel` a byte in the pipe is the place it has in a line of one tool; the
shell sees only what it says, and what it heard are places in the pipe.  In
`Xargs` an item is a span of the input and the commands get spans; a substitution
that does not fit its buffer ends the model in `broken`.  In `Killall` `spared`
holds the processes whose name was not read or whose signal was refused, and
`listing` says whether the walk was cut short.  In `Wget` a
response is a row of tokens (headers, the empty line, body units, chunk sizes
and their line ends), the reader is at a place in it, and the file is the
numbers of the units written.  In `Firmextr` the stream is a row of units, each
member says at which unit its header stands (`at`), and the pass is at a place
in it; a name that fills its field is read with the mode that follows it
(`tar_name`).  `IpConfig` has one variable that the program has not, `added`: the
configuration that the commands which succeeded would have made one after the
other; no step depends on it.

**TextTools** and **FormatTools** (which has `grep` too) hold the filters as
operators on sequences of characters: what a tool prints for its files and
options, and its status.  **Filters** states for each of them what its usage
promises, told by positions and counts rather than by scanning, names the cases
in which the code does otherwise where it leaves them out, and holds
`tail -f` as a state machine beside a growing file.  **Ext4** and **Fat32**
compute the geometry in units that keep the proportions of the code and then
write region by region; **Device** is the probe both share, and **Mkfs** puts
them side by side.  `Ext4` keeps the three loops of `e4_format`: over the groups
(bitmaps, inode table, and in group 0 the directories), the superblock, and
over the groups with a copy of it; a step is one call of `wr_block`, or all of
those that clear an inode table or lay a descriptor table (`wr_block`,
`next_group`).  The two inodes are copied into a buffer of one block: one that
does not end in it is not on the disk (`planted`), and the run may also end
there, in `broken` (`inode_overrun`).

MCFiles, MCPrograms and MCAlgorithms put programs that do not meet into one run
each: a behaviour starts one of them and leaves the others off, so their states
add up and are not multiplied.

## 3. Runs

| Run | Shows | Bounds, and why they suffice |
|---|---|---|
| `fdisk_session` | no overlap; in bounds; what was written is reloaded; no write into a partition | 13 sectors, 2 entry sectors, 2 partitions, 1 fault: full tables, both labels, both copies and every cut of a write occur; overlaps need two partitions |
| `fdisk_faults` | the GPT write implements `AtomicCell` | 13 sectors, scripts of `o g n d b` and `w`, partition numbers 1, 8 and 9 (past the table and past `int`, which is modulo 8 here), a cut after each of the 7 sectors, 1 fault; an empty disk and one whose first table is another tool's |
| `fdisk_stale_gpt` | violation, see section 6 | no faults are needed |
| `ced_edit` | cursor in the text; coalescing; search; cut and paste | 3 lines of 2 characters over 2 letters: first, middle and last line, start, middle and end of a line; TLC visits every such buffer that keys reach; 1 snapshot, which a run may hide behind |
| `ced_save` | one bad save is recoverable; unmodified means saved; the way back to the first text | 2 faults (kills, failing opens and writes, an unreadable file), sessions without limit; 2 snapshots, a budget that bites, allocations that fail |
| `ced_leave` | the editor leaves once its terminal is gone | the terminal goes in every state: the main loop, each prompt, each step of a save; 2 faults |
| `ced_exit` | violation, see section 6 | |
| `ced_input` | keys returned are keys pressed; signals reported; ends with the terminal | 3 of 7 keys (plain, lone ESC, CSI with and without parameters, SS3, two that `read_key` does not know), whose bytes arrive one at a time, 3 signals, 2 empty reads forgiven: more signals than forgiven reads occur, and a signal or a hang-up between any two bytes |
| `wljoin_join` | keys are the access point's, the current ones unless it has started over; msg4 echoes msg3; up means keyed; a lost msg2 is final; it ends | 5 polls and 5 frames, 2 nonces: one restart with delayed frames of both handshakes in flight |
| `files` | `MoveKeepsData`, `SuccessMeansDone`, `OutsideUntouched`, `ToolEnds` (file tools); `TarStaysInStep`; `DdCopiesTheRange`; `DeployedIsWhole` | trees of depth 4 with files, hard and symbolic links, directories, a second device; 1 failing call or kill, and for `rm` 1 file made, or file or link removed, by another process; archives of up to 3 entries of 0 to 3 units with blocks of 2; 5 units copied by blocks that do not divide them; 1 kill and 1 failure of the installer, list_dir holding 2 names |
| `programs` | `TimeoutKeepsTrack`; `BatchesRunEachItem`; `NamedAreFound`; `RequestsArriveWhole`; `BodyIsWhole`; `RelayKeepsBytes`; `CommandsAddUp` | deadlines below, at and above a poll; inputs of up to 4 characters, and one item of 5 in an argument with REPL twice; 4 pids, pieces of 2, 2 changes, any name unread and any signal refused; 3 tools with requests below and above an atomic write of 4 bytes; a buffer of 4 tokens and bodies of up to 5 units; 3 units each way; 3 commands |
| `algorithms` | `FiltersAgree`, `FollowShows`, `DiffApplies`, `LayoutsFit`, `MembersAreWhole` | texts of up to 4 or 5 characters over 2 or 3 letters, with every missing file; documents with up to 4 equal lines between changes for hunks with a context of 1; a file that grows by 5 and is cut once; volumes just below, at and above every boundary of a group, a bitmap and a FAT sector; inodes of which eleven do not fit a block, and inodes larger than one; archives that end at any unit, one with a name that fills its field |

Every property of a passing run has a mutant: a plausible slip in a mapped
definition under which TLC finds the property violated.  `BackupWriteShort`,
for example, takes one short write for the whole copy, `PlanLenShort` leaves
out the backup header, `RmTreeFollows` uses stat where the code uses lstat, and
`block_bitmap_open` leaves the blocks past the end of a volume free.

`CHECK_DEADLOCK FALSE` stands in `ced_input`, `wljoin_join`, `files`,
`programs` and `algorithms`, where the program ends and nothing of it is left
to run.

**Bounds in guards.** `MaxFaults` (fdisk, ced, file tools), `MaxLines` and
`MaxChars` (ced: an edit that would exceed them is not taken), `MaxStrokes` and
`MaxSignals` (ced input), `MaxSends` and `MaxNonces` (access point),
`MaxMeddles` (file tools), `MaxTrouble` (tar), `MaxDdFaults`, `MaxKills` and
`MaxRootFaults` (installer), `MaxChanges` (killall), `MaxWgetFaults`,
`MaxNcFaults`, `MaxIpFaults`, `MaxGrown` and `MaxTruncs` (tail -f),
`MaxFwFaults`.  `MaxDepth` is the length of the longest path the kernel takes and
`MaxLinks` the number of links it follows in one name: 2, so that chains of two
links, links on the way and at the end, and loops all occur.

**Fairness.** It is weak fairness of what a single sequential program does by
itself, never of its environment.  `CedInput`: `read_key`, as long as a read
returns.  `Ced`: the save goes on, and reads that report end of input
return (`Unattended`); keys, hang-ups and kills are not fair.  `Wljoin`: the
supplicant's own steps; a poll times out by itself, so one is always possible,
and nothing is asked of the access point or the link.  `files`: the steps of
the tool (`Tool`), as every system call on a file returns; the other process is
not fair.

## 4. Proofs

`FdiskProofs` proves, for every number of slots, entry sectors, entries in a
sector, alignment and capacity, every set of disks and arguments, and any
number of faults:

| Theorem | Says |
|---|---|
| `Invariance` | `Roomy => (Spec => []FdiskInv)` |
| `TypeCorrect` | every variable keeps its type |
| `NoOverlapHolds` | while no write was cut, partitions in memory are apart |
| `InBoundsHolds` | partitions in memory lie on the disk, after any cut |
| `UsableDataSafeHolds` | no sector write touches a partition in the usable range |
| `WrittenIsReloadedHolds` | the next load finds the table that an uncut `w` wrote, unless a dos label was written over a GPT header |
| `WriteIsAtomic` | a GPT write, cut after any sector, implements `AtomicCell` |

*Assumptions.*  `PtabAssumption`, `FdiskAssumption` (ranges of the constants),
`InitDisksAssumption` (a disk found at the start holds labels somebody wrote
properly) and `Roomy`, a hypothesis of each theorem: the disk has room for both
copies and the three sectors around them.  Without it the theorems are false:
`write_table` demands room for the primary copy only, and on a disk between
the two sizes the backup header lands among the primary entries, where the
loader reads it as a partition (`SlotOf` models that).  `WriteIsAtomic` also
assumes `Dependable`: on the first disk each header leads to the entries beside
it and a whole primary copy has a backup that agrees, as every GPT tool leaves
them (`fdisk_faults` evaluates this for its disks).

*The argument.*  `NoOverlap` and `PartsInBounds` speak of memory alone and are
not inductive: the next load makes memory of what the sectors hold.  `FdiskInv`
adds what they hold: each entry on the disk is in bounds
(`EntriesInBounds`), the entries a header leads to are apart (`DiskSeparate`),
a write in progress has a legal plan (`WriteInProgress`) and the sectors it has
passed hold the plan (`PrefixWritten`), which at the last sector gives
`DiskSeparate` back for the new table.  The last two hold only while no write
was cut, which is why `NoOverlap` has that condition and `PartsInBounds` has
not.  The lemmas: loading keeps the entries it keeps (`Compactions`), the plan
puts the sectors where the loader looks (div and mod over entries in a
sector), an addition that passes `NewAccepted` is in bounds and apart, and
truncated numbers stay indices.

`WrittenIsReloaded` needs with it only that a session starts with nothing
unsaved (`SavedInv`); its proof is that loading what `WriteSector` laid out
gives the table back, entry by entry.  For `WriteIsAtomic` the refinement
mapping reads the cell through the CRCs; `DependableInv` says where the headers
lead while a write goes on, and that a disk which is not hurt has agreeing
copies until the new primary header is out.  Each sector then either stutters
or moves the cell from the old table to the new one, which it does at the
primary header.

`ProgramProofs` proves of `wljoin`, for every passphrase, set of networks and group keys,
and any number of polls, frames and handshakes:

| Theorem | Says |
|---|---|
| `JoinInvariance` | `Spec => []WljoinInv` |
| `JoinTypeCorrect` | every variable keeps its type |
| `KeysAreGenuineHolds` | keys come from the right passphrase and the access point, and when both sides have finished they hold the same one |
| `Msg4EchoesMsg3Holds` | an answer carries the counter of a frame the access point sent |
| `UpIsKeyedHolds` | the link is up only with the pairwise key installed |
| `JoinIsKeyedHolds` | both, and a supplicant that has finished is in the handshake the access point is in, unless that has started over since |
| `LostMsg2Final` | once the first msg2 is lost the handshake never completes |

*Assumptions.*  `WljoinAssumption`: the constants' ranges, and that `None` is
neither a key nor a group key.  Perfect cryptography is in the model: a MIC
agrees only with the key it was made with.

*The argument.*  The properties speak of the two sides and are not inductive:
the next frame decides, and it may have been sent long ago.  `WljoinInv` adds
what the frames in flight can be (`FramesToSta`: a msg3 is signed with the key
of the handshake it is from, and while that is the current one its counter is
awaited; `FramesToAp`: every answer is made with the one PTK the supplicant
ever derives), what the supplicant's state says of its keys (`Handshake`) and
the order of `connect_ap` (`Progress`).  `GoodMic` is the heart: a msg3 that
passes the check is from the handshake of the supplicant's own PTK.
`LostMsg2Final` follows from a predicate, `Stuck`, that every step preserves.

`CedProofs` proves, for every alphabet, every file found
at the start, every set of texts inserted and needles, every page size and cap,
and sessions of any length with any number of faults:

| Theorem | Says |
|---|---|
| `TypeCorrect` | every variable keeps its type |
| `CursorInsideHolds` | the cursor and those of the snapshots stay in their texts |
| `UndoBoundedHolds` | the undo stack keeps its caps |
| `OneBadSaveRecoverableHolds` | after one bad save the old text is in `FILE` or `FILE~` |
| `UndoReachesTheStartHolds` | with nothing dropped, undo ends at the text of the start |
| `CleanMeansSavedHolds` | a buffer not marked modified is the text of the file |
| `RunStaysOnItsLineHolds` | an open run of typed or deleted characters has changed no line but its own |
| `SearchFindsTheNextHolds` | a search stops at the next place of the needle, round the end of the text if need be, and fails only when there is none |
| `CutThenPasteRestoresHolds` | a line cut and pasted at once comes back, but for the last of several |

*Assumptions.*  `CedAssumption`: the ranges of the constants; a text has a line,
and a file that has lines exists.

*The argument.*  `Core` (types, the cursor in the text, and so for every
snapshot) is inductive.  Its lemmas say of each key that it makes a sound buffer
of a sound one (`TypeCharSound`, `BackspaceSound`, `InsertSound`, ...), hence
the clamp that ends the loop changes nothing (`ClampSound`), which the later
proofs use to know what undo restores.  For the caps, the stack after trimming
is its longest suffix that fits, which exists because the empty one does
(`TrimmedFits`); the sums of bytes are a recursive function, and what is needed
of them is proved from a least counterexample (`SetInduction`, `TotalStep`).
The properties of the past need each a strengthening.  `SaveProgress` says
where the last whole text is at every call of the first save since then.
`RunHasSnapshot`, that an open run has its snapshot, makes a coalesced edit keep
the bottom of the stack.  `CleanInv` says of the snapshots what
`CleanMeansSaved` says of the buffer, because undo brings their flag back; after
a save it says nothing of them, because the flags they keep are from before it
(that is the finding `ced_exit`).  `RunInv` says of an open run that its
snapshot is on top and which lines the run has kept; each key either goes on
with the run, and keeps them, or ends it.  What search, cut and paste do is
proved of every sound buffer, and so of every one that is reached: a search is
a least place in the order of the text after the cursor, which exists if any
place does, and cut and paste are one removal and one insertion at the same
line.

`CedInputProofs` proves, for every set of strokes, number of forgiven reads,
limit of parameters and number of signals:

| Theorem | Says |
|---|---|
| `InputTypeHolds` | every variable keeps its type, parameters stay in their array |
| `FewSignalsNeverEndHolds` | with no more signals than forgiven reads only a terminal that is gone ends a session or cuts a sequence |
| `KeysAreStrokesHolds` | the keys returned are the strokes typed, in their order, wherever the signals fall |

*Assumptions.*  `InputAssumption`: the ranges of the constants, and that a
stroke sends a byte.  `KeysAreStrokesHolds` assumes `Known`: each stroke is a
character, a lone ESC or a sequence that ends where `read_key` ends it (its key
may be none that `read_key` knows), and with a lone ESC `[` and `O` are not also
typed as characters, since what follows the ESC then cannot be told from a
sequence by anyone.  Two things the theorem leaves out openly: a terminal that
goes between two bytes makes ESC, or nothing, of the last stroke (`CutShort`),
and where `read_byte` gives up a terminal that is there (`misled`) the rest of a
sequence is typed into the text; `FewSignalsNeverEndHolds` says what that takes.

*The argument.*  `SignalInv`: as long as the terminal is there, every empty
read in a row has used up one signal, and the one on its way will use another.
`KeyInv` says that what is still to be read, whether it has arrived or is on
the wire, is the rest of a row of strokes, of which only the last has still
bytes on the wire: there is a stroke and a place in it where the reader is, the strokes before it
are the keys returned, and the parser's state and parameters are what the bytes
of that stroke up to the place make of them (`Between`, `Within`).  A signal
between two bytes changes none of these, and an empty read within a sequence
finds the rest of it on the wire.

`TarProofs` proves, for every block, every list of entries and all pieces that
reads and writes come in:

| Theorem | Says |
|---|---|
| `TarStaysInStepHolds` | an archive is read in step with its headers, and what comes out is what went in, unless files shrank or a write failed |

*Assumptions.*  `TarAssumption`: a block has units, an archive is made of at
least one entry, and only files have data.

*The argument.*  The property speaks of what came out; what makes it true is
where the headers lie.  `TarInv` has a witness, the row of headers laid so far:
`Laid` says that each stands where the data and the padding of the one before
end, and that the units between are that data.  `Making` adds where the writer
is behind the last of them, `Unpacking` where the reader is among them, and
that the entries it has passed are extracted.  A read that is short or a file
that grows after its header changes the witness at its end only.  The one fact
of arithmetic is `Rounds`: the size the reader rounds up is the data and the
padding the writer put, for every size.

`ProgramProofs` proves the properties of nine programs:

| Theorem | Says | For every |
|---|---|---|
| `NcInvariance`, `RelayKeepsBytesHolds` | neither direction of `nc` loses, repeats or moves a unit; with status 0 all the peer has sent is written, and a patient peer has all of standard input | text, piece and failure |
| `DdCopiesTheRangeHolds` | the output is one unbroken piece of the input, from `skip` on, at `seek` | input, block sizes, count, short read and write |
| `NamedAreFoundHolds` | a named process that lives through the walk of `/proc` is noted once, if the walk came to it, its name was read and its signal not refused | set of pids, size of a piece, start and end of others, failing listing, name and signal |
| `CommandsAddUpHolds` | commands of `ip` one after the other keep each other's changes | configuration, command and failure |
| `MembersAreWholeHolds` | what `firmextr` wrote are beginnings of members asked for; status 0 means all of them, whole and under their own names, but for members of a subtree that a cut archive lost or whose name fills its field | archive, block, buffer, pattern and place where the stream ends |
| `BodyIsWholeHolds` | the file of `wget` is what it was or a beginning of the body; status 0 stands for all of it, or for what came before the connection ended where the body is not chunked | response, framing, piece and place where the connection ends |
| `BatchesRunEachItemHolds` | each word reaches one command of `xargs`, whole and in order, and the status is the largest, unless a fork or an allocation fails; the buffer of `-I` is overrun only where REPL stands twice in an argument | input, batch size and choice of statuses |
| `RequestsArriveWholeHolds` | the shell hears each request that could be sent once, whole, in its order | number of tools writing at a time, request, failing write |
| `TimeoutInvariance`, `TimeoutKeepsTrackHolds` | signals of `timeout` go to its command only, a time-out is reported only of one that had not ended before the deadline and was signalled, any other status is its own, unless a `waitpid` before the deadline fails | tick, deadline, signal, exit code, number of polls |

*Assumptions.*  `NetcatAssumption`, `DdAssumption`, `KillallAssumption`,
`IpAssumption`, `XargsAssumption`, `ChannelAssumption` and `TimeoutAssumption`
are the ranges of the
constants: texts are sequences, blocks are not empty, pids are finitely many
and positive, statuses are naturals.  `FwAssumption` and `WgetAssumption` also
say what an archive and a response are: members follow one another and no name
occurs twice, as it is or as it is read (with two members of a name the second would overwrite the first,
as it should); chunks follow one another, the last one is empty, and a redirect
that can be followed leads to a response.  What the properties leave to the
caller is in the properties: a line that fits an atomic write and has no
newline in it, forks that do not fail, a list of `pidof` with room.

*The arguments.*  Each property speaks of the end, or of what came out so far,
and none is inductive.

- `nc`.  `SentConserved` and `ReceivedConserved` are conservation laws: what
  was got, what is on its way, the buffer and what is not yet read are, one
  after the other, the whole text.  Each step moves a piece from the front of
  one of them to the end of the next, so only the laws of concatenation are
  used (`CatLaws`, `PieceMoves`).  `Stages` and `Finished` say which of the
  parts are empty when the child has stopped sending and when the peer closed.
- `dd`.  `DdInv`: what was written and the buffer are the input from `skip` to
  where the reader is (`Copied`), and the blocks left and those read are the
  count (`Counted`).
- `killall`, `pidof`.  `KaInv`: the pids are met upwards (`Upward`), the piece
  holds those that live just below where the walk is (`Places`), and each that
  is asked for and passed was noted or is in the piece (`Accounted`).
- `ip`.  `OneReader`: as long as no two commands overlapped, the one that has
  read and not yet written holds the configuration as it is.
- `firmextr`.  `FwInv`: what was written are beginnings (`Written`), within a
  member the place in the stream follows from the header (`Inside`), headers
  are met in their order while no call failed (`InStep`), and the members
  passed are done (`Seen`).  `Layout` says where members lie in any archive.
- `wget`.  `WgInv`: what is in the buffer is the response from the reader's
  place on (`Stream`), the file holds the units of the body in front of that
  place (`AtPlace`, with the place told from the chunk sizes by `ChunksLie`),
  and what each way out means (`Outcome`).
- `xargs`.  `XaInv`: the items are the words of the input in front of where it
  is cut (`CutSoFar`), and the commands have got the items in front of `next`
  in batches (`RunSoFar`, with `LineIs` for what one command line is).
- The shell.  `ChInv`: the line of every byte in the pipe lies there whole
  around it (`PipeLaid`), every line sent is there (`AllLaid`), those of a tool
  in their order (`InOrder`), and the lines heard are lines laid (`LinesGot`).
  `NextLine` shows that a line begins where the shell goes on reading, so that
  the next newline it finds is the end the tool wrote.
- `timeout`.  `TimeoutInv`: only a successful `waitpid` takes the pid away, every
  such step leaves the loop, and how the time waited and the moment the command
  ended compare at each place of it.

`MkfsProofs` proves, of devices of every size and whatever size they report:

| Theorem | Says |
|---|---|
| `ProbeFindsTheEnd` | the probe finds the number of sectors that can be used, up to the last one the tools address |
| `Fat32FitsHolds` | a `mkfs.fat32` that ends well leaves FATs that are alike and have an entry for every cluster, clusters that lie in the device, a free count that is what the FAT says, and an empty root directory |
| `Ext4FitsHolds` | a `mkfs.ext4` that ends well leaves bitmaps that tell what was written, free counts that are those of the bitmaps and add up to the superblock's, copies in group 1 and the powers of 3, 5 and 7 and nowhere else, and directories that fill their blocks and have their inodes, but for that of lost+found where eleven inodes do not fit a block; the superblock is written after every group |
| `LayoutsFitHolds` | `LayoutsFit`, of both |

*Assumptions.*  `DeviceAssumption`, `Fat32Assumption` and `Ext4Assumption`:
the ranges of the constants, blocks of more than one unit (they have 2048 or
4096 bytes), so that an inode bitmap has room for the inodes that are never
free, more than 7 reserved sectors (there are 32), so that the copies of the
boot sector lie in front of the FATs, and sizes of fewer than 2^32 sectors:
the tools address a device by a 32-bit byte offset.  The sizes of sectors,
FAT entries and clusters, the number of FATs and the limits on clusters
may be any.

*The argument.*  The probe and the iteration that finds the size of a FAT are
recursive functions, of which nothing is known before some function is shown
to satisfy their equations: `DoubleExists`, `HalveExists` and `GrowExists` do
that, the first two by an induction on a set of naturals (`SetInduction`) over
the room that is left.  `HalveFinds` keeps the end of the device between the
two bounds.  `NeedShrinks` is why the iteration ends: a larger FAT leaves fewer
clusters, so the FAT that the first guess asks for is large enough
(`GrowExists`, `FatIsFound`).  What that makes true of the geometry is
`Sound32` (`GeometryIsSound`), and `Inv32` carries it through the writes: the
sectors laid are the first of the writes and what is left are the others.  A
sector written once must not be written over, which is `WrittenOnce`, from
where the regions lie.

Of ext4, `SoundE4` is what holds of a geometry that is not refused
(`E4GeometryIsSound`), and `GroupIs` what follows for the parts of a
group.  A write is a slot: a loop, a group and a number.  `SlotInside` and
`SlotsApart` say that it stays in its group, in front of the free blocks, and
that two writes meet in no block but the first of the inode table of group 0,
which the code clears and then fills.  The invariant `Inv4` has three parts
that matter: `Laid4`, every block on the disk is of a slot that is done,
and every slot that is done is on the disk with what it writes, but for
that one block; `SuperLast`, for runs that fail half-way, where `Laid4`
no longer holds of the last slot; and `SoundE4`.  `next_group` changes
the loop, the group and the count and must leave the done slots as they are
(`NextLays4`): that is where a group skipped or a loop ended early would show.
When every slot is done, `WrittenIs` tells the blocks written from the free
ones, `UsedIs` finds the same in the bitmaps, `TotalOfAlmostEqual` adds up
the inodes, and `PowerIsPower` shows that the loop upwards from a prime
(`is_power`) finds what dividing down to 1 defines (`Power`).  `total`,
`is_power` and `Power` are recursive functions whose equations are shown
solvable like those above (`SumsExist`, `UpExists`, `DownExists`).

`FileProofs` proves of the file tools and of `tail -f`:

| Theorem | Says | For every |
|---|---|---|
| `OutsideUntouchedHolds` | a command changes no name and the contents of no file but what its arguments name | file system, command, depth and number of links, failing call, kill, file another process makes, file or link it removes |
| `SuccessMeansDoneHolds` | `rm`, `rmdir`, `mkdir`, `touch`, `ln`, `wrt` and `mv` of one source that end with status 0 have done what they are for, of every argument; excepted `rm -f` where an `lstat` failed and `wrt` where a write did | file system, arguments, depth, number of failing calls; of `rm` files another process makes and files and links it removes |
| `MoveKeepsDataHolds` | what `mv` of one source moves is whole where it was or where DST led, at every moment | file system, two names that are apart, depth and number of links, failing calls, kill |
| `FollowShowsHolds` | no character is shown twice or out of order, and all from the first look at the size on is shown while the file is not cut | size of a read, number of characters added and of cuts |

*Assumptions.*  `FileSysAssumption` and `FileToolsAssumption`: the trees are trees
(`IsTree`: a name stands in a directory, every file has an inode) and the
commands have the arguments the tools ask for.  `FiltersAssumption`: a read has
room for a character.  The first theorem is `ToolSpec => [](Confined =>
OutsideUntouched)`; the other process is `Meddle`, which makes no link and leaves
directories alone, so that a link put in the place of a directory while `rm -r`
is between its `lstat` and its `open` is outside the theorem; and `Confined` names three commands it says less of.  `rm`,
`rm -r`, `rmdir`, `ln`, `touch`, `cat`, `wrt` and `mkdir -p` are under it as they
are, beside another process too, but for `mkdir -p`.

- `cp` without `-r`, and `mv` with one source.  With more the property is false
  where an early argument makes the name a later one goes through: `mv a
  d/a/k/y d`, where `a` holds a link `k`, moves `a` to `d/a`, and then the
  second source names a file that no argument named when the command began.
  `cp -r` of a tree with a link in it can do the same to a later target.
- `mkdir -p` and `mv` without another process that makes and removes names: one
  that removes a link between two calls changes what the rest of the path means:
  `mkdir -p l/x` then makes a directory `l` and `x` in it, not in what `l` led to.

TLC checks `OutsideUntouched` of the commands in `MCCommands` whether
`Confined` or not.

The second theorem is `ToolSpec => [](Confined /\ (Sure \/ cmd.tool = "mv") =>
SuccessMeansDone)`, and the third `ToolSpec => [](Confined => MoveKeepsData)`.
`Sure` names the other tools, and asks of `rm` that the other process makes none of
the names it was given, as `rm a` has nothing to say of an `a` that is made
after it is gone.  `wrt` is the one whose failed writes may go unseen, and `rm
-f` the one that takes any failing `lstat` for a missing name; the property says
so of both (`faults = 0`, `missed = 0`).  Of `mv`, `Confined` is one source and no other process; the
properties themselves ask that the arguments are `Apart`.  Apart from what a
target leads to must be the source (`mv` across devices onto a link to its
source empties and removes it), and, of several sources, what another target
leads to: where `m/b` is a link to `m/a`, `mv a b m` across devices moves `a` to
`m/a` and then writes `b` over it.  TLC found the second, and that "whole" must
be said of places, not of names: in `mv a a/l/z`, where `a/l` is a link to a
directory, the name of DST leads through SRC and is gone after the move.

*The argument for the file tools.*  A path means something in a tree,
and the tree changes under the command.  `leads` is shown to have the
values its equations ask for (`LeadsExists`), and `LinkInduction` is the
induction on the links left and the length of the path that every fact on
names rests on: a path leads to one place at most (`LeadsOnce`), and a name
of more than one part stands in the directory the rest leads to (`NamedBy`).
Then what a path means now is compared with what it meant at the start, for
the three ways these commands change a tree: names go and new files appear
(`Shrunk`: a path leads where it led, or to a new file or a place that was
a link, `ShrunkReal`, `ShrunkNamed`), directories are added (`MoreDirs`:
a path leads where it led, or to what `mkdir` made, `MoreDirsLeads`),
and a name is made that was free (`ExtendedNamed`).

`ToolInv` is inductive.  `PlacesOK` and `DataOK` are the property, told
by what was allowed at the start.  They are not inductive alone, as what
the next call does depends on the C stack: `FrameOK` says of every frame
that the paths in it name, at the start, only what the command may change
(`RmCall`, `CopyCall`), or that the file it has open is none to be kept
(`CopyLoop`, `WrtCall`).  `rm -r` is where this is delicate: it lists what
`lstat` says is a directory, but opens it by name; `RealAsNamed` shows that
the directory listed is the one that was looked at, as the other process
makes files and removes names but makes no link, and `EntryInside` that
its entries lie below the argument.  `mv` across devices makes a link,
or copies, and only then removes its source; `Late` says that by then the
source is all that is left to touch, and what it names is still what the
command was given (`MvLinkOK`, `MvUnlinkOK`).

*The argument for success.*  `Progress` says how far `main` is: the arguments it
has passed are done unless the status is no longer 0, and so is the one whose
call has just returned 0; the frame above `main` works on the last one passed
(`Working`).  It survives the three moves of the C stack whatever the call does
(`ReturnProgress`, `BecomeProgress`, `CallProgress`), which leaves, action by
action, that a return of 0 means done and that what is done stays done: a
name that was removed is not made again, a directory stays one while others are
made below it (`MoreDirs`).  For `mkdir -p` a return of 0 means that `mkdir`
of the whole path answered, or `stat` found a directory; for `rm` that the last
`unlink` or `rmdir` did, whatever happened at the entries below.  `ln` and
`wrt` have one argument and do two calls for it: `Apt` says that until the
second the tree is as it was, but for the destination that `ln -f` removed or
the file that `wrt` emptied, so that the new name is a link to what the source
names, and the text lands in what the path names now.

*The argument for `mv`.*  `Mv(s)` says, at each call of `mv` and of the copy it
makes, what has become of the source `s`: until the rename, or the link, or the
opened copy, the tree is as it was.  A rename puts at the new place, and below
it, what was at and below the old one (`MovedView`).  While a copy is made the
tree is the old one with the copy beside the source (`Beside`: more files, no
name changed, the source a file and not the copy), and the copy holds the blocks
read so far (`Copying`); at the end of the file it holds them all (`Copied`),
and only a copy that ended so is followed by the `unlink` of the source, which
leaves the copy as it is (`SameView`).  `ApartParts` is where the arguments
being apart is needed: the file that is truncated is not the one that is read.
Every case of `Mv` has the source whole or moved (`MvSafe`), so a kill may come
at any of them.

*The argument for `tail -f`.*  The characters are numbered as they come, so the
file is always a last stretch of the numbers (`Numbered`).  `Behind` says that
what was shown is smaller than what can still be read; a file that was cut is
read from its beginning, and what it holds then is newer than all that was
shown.  `Complete` says that of a file that was not cut the last `pos - base`
characters shown are those between the two places.

`RootfsProofs` proves of `cact-rootfs` that `RootSpec => []DeployedIsWhole`:

| Theorem | Says | For every |
|---|---|---|
| `DeployedIsWholeHolds` | when it says "skeleton deployed", every directory, link and text is there, and a copy of each file it was to copy, as that was before | file system, options, depth and number of links, number of names `list_dir` holds, of failing calls, kills and restarts |

*Assumptions.*  `FileSysAssumption`; `RootfsAssumption`: the file systems are
finite trees whose paths are no longer than a path may be, and the options are
paths.  `NamesAssumption` says that the names the installer makes are strings,
which TLC evaluates and the provers have no other way to know.  The property
itself asks that nothing was hushed up (`hushed`: a failing read or `symlink`, a
directory that does not open, more names than fit) and that the target is
`Separate`: it has no link but those of usrmerge, no file of it has a second
name, and what is copied lies neither in it nor above it.  Without the last,
`O_TRUNC` may empty a file before it is read.

*The argument.*  `RootInv` says, for every place `p` the target leads to, four
things.  The file system is the old one, `Grown` below `p`: no name went, what is
new is a directory, a file of its own or a merge link, and what lies outside has
its old contents.  The plan holds tasks of the steps or of entries of what is
copied, and no two of them fill the same place or one below the other (`PlanOK`).
The copy in progress holds the blocks read so far, and the rest of its source
is what is left (`BlockOK`).  And while the installation has neither failed nor
hushed something up, each step is done or still to be done (`Underway`): its
directory or link is there or has a task left, and a file with the content `c`
that the name `w` is to have is `Due` of a task left, or is `Present` and no task
left will write there.  A killed installation starts again with all of its
steps, so that `Underway` holds anew whatever was half done (`FreshReady`).

Three groups of lemmas carry it.  A call adds one name or writes one file of the
target, and what a name of the target leads to stays as it is (`Adds`,
`Writes`); names are read through links, so this rests on `LinkInduction` and
on the target having no link in the names that are written (`Clear`).  A
task gives way to tasks of which everything is due that was due of it (`Gives`,
`Yields`): a tree to its directory and the list of its entries, each entry to a
tree or a file, as what they are in the source has not changed (`Source`,
`Leading`).  And the steps of `main` fill 14 directories, 3 links and up to
7 names of files and trees that are all different (`Stepped`).  At the end the plan is empty, so
all that was due is present.

## 5. Model-checked only, and left out

Model-checked only, of safety:

- `SuccessMeansDone` of `cp` and `cat`, and with `MoveKeepsData` of `mv` of
  several sources.  `cp -r` copies a tree along names whose meaning may change
  while it runs, among several sources that may meet in one target; what `cat`
  prints is defined by a fold over its arguments.
- `OutsideUntouched` of the commands that are not `Confined` (section 4).
- `FiltersAgree` and `DiffApplies`, whose operators fold over texts: inductions
  over data.

Of liveness: `LeavesUnlessAsking`, `HangupEnds`, `CtrlCReportedWithNextKey`,
`JoinEnds` and `ToolEnds`, which TLAPS cannot prove.  `WrittenIsReloaded` and
`ExitKeepsText` are what the two runs of section 6 refute.

Proved and no longer checked by a run: `FdiskInv`, `WljoinInv`, the type
invariants, `UndoBounded` and the inductive invariants below the theorems.

Left out of the modelled components: `fdisk`'s capacity probe (exact here) and
read errors, the parsing of sizes and units; `ced`'s drawing, help and prompts'
line editing, and files that change while they are edited; `wljoin`'s scan,
status and leave, and its nonce, which is the same in every handshake; modes,
owners and times of files; octal fields and checksums of archives; what a
reader of an archive does after it has lost the headers; TLS and name look-up
of `wget`; time stamps, identifiers and constant fields of new file systems;
column layout and floating point of the filters; of `grep` the names in front
of lines, reads that fail, and under `-r` links and directories below the one
named; of the shell bridge `help` and the checks of arguments.  Memory is
unbounded except where an action says otherwise (undo snapshots, `xargs`, the
table of `diff`).

## 6. What the runs found

| Run | The code | What the repository says |
|---|---|---|
| `fdisk_stale_gpt` | `o`, `w` on a GPT disk leave the header in sector 1, and the next session loads the old GPT table (`fdisk/main.c:310`, `:290`) | "Table written." (`:625`) |
| `ced_exit` | type, save, undo, exit: no question, the text is gone (`editor.c:390`) | "prompts when modified" (`README.md:293`) |

The others are the exceptions that properties which hold have to state, each
listed under "findings" with its line.  In short:

- `fdisk`: the backup header points at the primary entries; a scripted `t` that
  changes nothing lets `w` follow; extended containers; the backup area inside
  a GPT partition; numbers cut to `int`.
- `ced`: a second failing save backs up the damaged file; end of input at the
  exit question; the last line cut and pasted; a Ctrl-C just before the read;
  65 Ctrl-C in a row.
- `wljoin`: after the access point has started over, a delayed third message of
  the old handshake still completes it, and the link is up with a key that the
  access point no longer has.
- file tools: a copy onto its own source empties it, and `mv` across devices
  then removes it, and `mv a b m` writes over the
  moved `a` when `m/b` is a link to `m/a`; failing `unlink` in `mv` and failing
  writes in `cat` are not told; `ln -f` removes before it links; `cp -r` copies
  part of a directory with status 0 when `getdents` fails; `rm -f` answers 0 for
  any `lstat` that fails.
- `tar`: files that shrink or vanish after their header, and failed writes
  while extracting, put the reader out of step; statuses dropped.
- `dd`: a write of nothing.  `cact-rootfs`: read errors and more than 64
  entries are hushed up; `-b` onto the source itself, or into a target with a
  link or a second name that leads there, empties the files it copies.
- `xargs`: a failing fork loses items with status 0; `-I` writes past its buffer
  for a long item in an argument with REPL twice.  `killall` and `pidof`: a
  refused signal, an unread name and a listing cut short by an error leave named
  processes out and show in no status.  `timeout`: a command that
  ends just before the signal is reported with 124; a `waitpid` that fails is
  answered with 0 and the command left alone.  Shell requests longer than
  an atomic write, or with a newline in them, do not arrive as they were made.
- `wget`: a body cut short is a success; a long piece does not fit its buffer.
  `nc` drops what is unsent when the peer closes first.  `ip`: two commands at
  a time lose a change; `addr del` ignores its address.
- filters: `split` wraps around; `fold -s` misses a blank just at the width;
  `paste` writes a row too many and with `-s` keeps the newlines; `grep -r`
  answers the opposite status and a device counts as a match;
  `tail -f` may miss what is added before its first look.
- `mkfs.ext4` refuses sizes whose last group is small, and with `-b 2048` copies
  the inode of lost+found past the end of its buffer, so that it is not on the
  disk.  `firmextr` reports success for part of a subtree of a broken archive,
  and writes a member whose name has 100 bytes under another name.

## 7. Plan

1. *Done:* `fdisk`, `ced` and its input, `wljoin`, `tar`, `dd`, `firmextr` and
   all process, shell and network tools, with a proof of every safety property
   of theirs that a run checks, and so of the makers of file systems and of the
   installer; the file tools, with a proof that they leave alone what they were
   not given, that `mv` loses nothing and, of seven of the nine, that they have
   done what they are for; the filters, checked by TLC.
2. The filters whose definitions are folds (`head`, `tail`, `wc`, `cut`), with
   functions whose equations are shown solvable as in `MkfsProofs`.
3. `SuccessMeansDone` of `cp`, along `RootfsProofs`, whose invariant says the same
   of the copies of an installation, and of `mv` of several sources, where `Apart`
   keeps the copies of two sources in different files.
4. `find` and `du` over a changing tree; `ping` and `dns` with late replies.
