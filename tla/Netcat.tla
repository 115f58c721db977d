------------------------------- MODULE Netcat -------------------------------
(***************************************************************************)
(* nc (ex_net.c): a child sends standard input to the peer, the parent     *)
(* writes what the peer sends to standard output, and kills the child once *)
(* the peer has closed its direction.  Reads and writes move any number of *)
(* units.  The peer is external: it sends, it closes when it wants or, if  *)
(* it is patient, only after it has seen the end of what nc sends.         *)
(***************************************************************************)
EXTENDS Naturals, SequencesExt

CONSTANTS Stdins, PeerTexts,    \* sequences of units
          MaxNcFaults

Unit == UNION {ToSet(s) : s \in Stdins \cup PeerTexts}
ASSUME NetcatAssumption == Stdins \cup PeerTexts \subseteq Seq(Unit)

VARIABLES stdin, stdout, toPeer, fromPeer, peerGot, peerLeft, peerOpen, patient,
          inbuf, outbuf, childAt, parentAt, shut, rcn, ncFaults, stdin0, text0
ncVars == <<stdin, stdout, toPeer, fromPeer, peerGot, peerLeft, peerOpen, patient,
            inbuf, outbuf, childAt, parentAt, shut, rcn, ncFaults, stdin0, text0>>

NcInit ==
  /\ stdin \in Stdins /\ peerLeft \in PeerTexts /\ patient \in BOOLEAN
  /\ stdin0 = stdin /\ text0 = peerLeft
  /\ stdout = <<>> /\ toPeer = <<>> /\ fromPeer = <<>> /\ peerGot = <<>> /\ peerOpen = TRUE
  /\ inbuf = <<>> /\ outbuf = <<>> /\ childAt = "fork" /\ parentAt = "fork"
  /\ shut = FALSE /\ rcn = 0 /\ ncFaults = 0

NcFault == ncFaults < MaxNcFaults /\ ncFaults' = ncFaults + 1
Split(s) == {<<SubSeq(s, 1, n), SubSeq(s, n + 1, Len(s))>> : n \in 1..Len(s)}
Runs == UNCHANGED <<stdin0, text0, patient>>
ParentIdle == UNCHANGED <<stdout, fromPeer, outbuf, parentAt, rcn>>
ChildIdle == UNCHANGED <<stdin, toPeer, inbuf, childAt, shut>>
PeerIdle == UNCHANGED <<peerGot, peerLeft, peerOpen>>

NcFork ==
  /\ parentAt = "fork"
  /\ \/ parentAt' = "read" /\ childAt' = "read" /\ UNCHANGED <<rcn, ncFaults>>
     \/ NcFault /\ parentAt' = "done" /\ childAt' = "done" /\ rcn' = 1
  /\ UNCHANGED <<stdin, stdout, toPeer, fromPeer, inbuf, outbuf, shut>> /\ PeerIdle /\ Runs

\* the child: read, and write all of it; then no more is sent
ChildRead ==
  /\ childAt = "read"
  /\ \/ \E x \in Split(stdin) : /\ inbuf' = x[1] /\ stdin' = x[2]
                                /\ childAt' = "write" /\ UNCHANGED <<shut, ncFaults>>
     \/ /\ (stdin = <<>> /\ UNCHANGED ncFaults) \/ NcFault
        /\ childAt' = "done" /\ shut' = TRUE /\ UNCHANGED <<inbuf, stdin>>
  /\ UNCHANGED toPeer /\ ParentIdle /\ PeerIdle /\ Runs

\* Mutant of ChildWrite: a short write is taken for all of it.
ChildWriteOnce ==
  /\ childAt = "write"
  /\ \E x \in Split(inbuf) :
       /\ toPeer' = toPeer \o x[1] /\ inbuf' = <<>> /\ childAt' = "read"
       /\ UNCHANGED <<shut, ncFaults>>
  /\ UNCHANGED stdin /\ ParentIdle /\ PeerIdle /\ Runs

ChildWrite ==
  /\ childAt = "write"
  /\ \/ \E x \in Split(inbuf) :
          /\ toPeer' = toPeer \o x[1] /\ inbuf' = x[2]
          /\ childAt' = IF x[2] = <<>> THEN "read" ELSE "write"
          /\ UNCHANGED <<shut, ncFaults>>
     \/ NcFault /\ childAt' = "done" /\ shut' = TRUE /\ UNCHANGED <<toPeer, inbuf>>
  /\ UNCHANGED stdin /\ ParentIdle /\ PeerIdle /\ Runs

\* the parent: until the peer has closed, then the child is killed
ParentRead ==
  /\ parentAt = "read"
  /\ \/ \E x \in Split(fromPeer) :
          outbuf' = x[1] /\ fromPeer' = x[2] /\ parentAt' = "write" /\ UNCHANGED <<rcn, ncFaults>>
     \/ fromPeer = <<>> /\ ~peerOpen /\ parentAt' = "kill"
        /\ UNCHANGED <<rcn, outbuf, fromPeer, ncFaults>>
     \/ NcFault /\ rcn' = 1 /\ parentAt' = "kill" /\ UNCHANGED <<outbuf, fromPeer>>
  /\ UNCHANGED stdout /\ ChildIdle /\ PeerIdle /\ Runs

ParentWrite ==
  /\ parentAt = "write"
  /\ \/ \E x \in Split(outbuf) :
          /\ stdout' = stdout \o x[1] /\ outbuf' = x[2]
          /\ parentAt' = (IF x[2] = <<>> THEN "read" ELSE "write") /\ UNCHANGED <<rcn, ncFaults>>
     \/ NcFault /\ rcn' = 1 /\ parentAt' = "kill" /\ UNCHANGED <<stdout, outbuf>>
  /\ UNCHANGED fromPeer /\ ChildIdle /\ PeerIdle /\ Runs

\* SIGKILL, wait, close: what the child has not sent is not sent
KillSender ==
  /\ parentAt = "kill" /\ parentAt' = "done" /\ childAt' = "done" /\ shut' = TRUE
  /\ UNCHANGED <<stdin, stdout, toPeer, fromPeer, inbuf, outbuf, rcn, ncFaults>>
  /\ PeerIdle /\ Runs

PeerReceives ==
  /\ toPeer # <<>> /\ peerGot' = Append(peerGot, Head(toPeer)) /\ toPeer' = Tail(toPeer)
  /\ UNCHANGED <<stdin, inbuf, childAt, shut, peerLeft, peerOpen, ncFaults>>
  /\ ParentIdle /\ Runs

PeerSends ==
  /\ peerOpen /\ peerLeft # <<>>
  /\ fromPeer' = Append(fromPeer, Head(peerLeft)) /\ peerLeft' = Tail(peerLeft)
  /\ UNCHANGED <<stdout, outbuf, parentAt, rcn, peerGot, peerOpen, ncFaults>> /\ ChildIdle /\ Runs

PeerCloses ==
  /\ peerOpen /\ (patient => toPeer = <<>> /\ shut /\ peerLeft = <<>>)
  /\ peerOpen' = FALSE
  /\ UNCHANGED <<peerGot, peerLeft, ncFaults>> /\ ParentIdle /\ ChildIdle /\ Runs

nc_relay == NcFork \/ ChildRead \/ ChildWrite \/ ParentRead \/ ParentWrite \/ KillSender
NcNext == nc_relay \/ PeerReceives \/ PeerSends \/ PeerCloses
NcSpec == NcInit /\ [][NcNext]_ncVars

NcOff ==
  /\ stdin = <<>> /\ peerLeft = <<>> /\ patient = FALSE /\ stdin0 = <<>> /\ text0 = <<>>
  /\ stdout = <<>> /\ toPeer = <<>> /\ fromPeer = <<>> /\ peerGot = <<>> /\ peerOpen = FALSE
  /\ inbuf = <<>> /\ outbuf = <<>> /\ childAt = "done" /\ parentAt = "done"
  /\ shut = TRUE /\ rcn = 0 /\ ncFaults = 0

(***************************************************************************)
(* What nc promises.                                                       *)
(***************************************************************************)
(* Both directions keep every unit and its order; with status 0 all the    *)
(* peer has sent is written, and a peer that waits for the end of what nc  *)
(* sends has got all of standard input.  A peer that closes its direction  *)
(* first has the rest taken away (ex_net.c:1317).                          *)
RelayKeepsBytes ==
  /\ IsPrefix(stdout, text0) /\ IsPrefix(peerGot, stdin0)
  /\ parentAt = "done" /\ rcn = 0 => stdout \o peerLeft = text0
  /\ parentAt = "done" /\ rcn = 0 /\ patient /\ ncFaults = 0 =>
       peerGot = stdin0 /\ stdout = text0
=============================================================================
