------------------------------ MODULE Channel ------------------------------
(***************************************************************************)
(* cd, export, unset, exit, jobs, fg and bg (ex_shell.c) ask the shell for *)
(* what they cannot do themselves: one line for each request through the   *)
(* pipe $CACT_CTL_FD (ex_util.c).  Several of them may run at a time, as   *)
(* the parts of a pipeline.  The pipe and the shell are external: writes   *)
(* of up to PipeBuf bytes arrive whole, longer ones in pieces, and the     *)
(* shell reads what is there when the commands have ended.                 *)
(*                                                                         *)
(* A byte of the pipe is where it comes from: the pos-th of the line for   *)
(* the req-th request of the tool.  The shell sees what the byte says, and *)
(* a line it heard is where it lies in the pipe.                           *)
(***************************************************************************)
EXTENDS Naturals, SequencesExt

CONSTANTS Tools,        \* the processes
          Requests,     \* lists of requests, a request a sequence of bytes
          MaxLine,      \* the buffer of shell_ctl: 600
          PipeBuf,
          NoChannel     \* the tools that have no CACT_CTL_FD

ASSUME ChannelAssumption ==
  Requests \subseteq Seq(Seq(STRING)) /\ MaxLine \in Nat /\ PipeBuf \in Nat

Newline == "nl"

VARIABLES asked, turn, put, pipe, lost, rcc, upto, heard, ctlpc
channelVars == <<asked, turn, put, pipe, lost, rcc, upto, heard, ctlpc>>

ChannelInit ==
  /\ asked \in [Tools -> Requests]
  /\ turn = [t \in Tools |-> 1] /\ put = [t \in Tools |-> 0] /\ pipe = <<>>
  /\ lost = [t \in Tools |-> {}] /\ rcc = [t \in Tools |-> 0]
  /\ upto = 0 /\ heard = <<>> /\ ctlpc = "send"

Ended(t) == turn[t] > Len(asked[t])
LineLen(t, j) == Len(asked[t][j]) + 1
Sendable(t, j) == t \notin NoChannel /\ LineLen(t, j) <= MaxLine
Says(b) == IF b.pos = LineLen(b.tool, b.req) THEN Newline ELSE asked[b.tool][b.req][b.pos]

\* ctl_send returns 1: the tool goes on and remembers it in its status
CannotSend(t) ==
  /\ lost' = [lost EXCEPT ![t] = @ \cup {turn[t]}] /\ rcc' = [rcc EXCEPT ![t] = 1]
  /\ turn' = [turn EXCEPT ![t] = @ + 1] /\ put' = [put EXCEPT ![t] = 0]
  /\ UNCHANGED <<asked, pipe, upto, heard, ctlpc>>

\* shell_ctl: no channel, or a line that does not fit
Refuse(t) == ~Ended(t) /\ ~Sendable(t, turn[t]) /\ CannotSend(t)

WriteFails(t) == ~Ended(t) /\ Sendable(t, turn[t]) /\ CannotSend(t)

\* the next n bytes of the line of t
Write(t, n) ==
  /\ pipe' = pipe \o [k \in 1..n |-> [tool |-> t, req |-> turn[t], pos |-> put[t] + k]]
  /\ IF put[t] + n = LineLen(t, turn[t])
     THEN put' = [put EXCEPT ![t] = 0] /\ turn' = [turn EXCEPT ![t] = @ + 1]
     ELSE put' = [put EXCEPT ![t] = @ + n] /\ UNCHANGED turn
  /\ UNCHANGED <<asked, lost, rcc, upto, heard, ctlpc>>

\* Mutant of write_all: byte by byte.
write_all_bytes(t) == ~Ended(t) /\ Sendable(t, turn[t]) /\ Write(t, 1)

\* one write, or as many as it takes
write_all(t) ==
  /\ ~Ended(t) /\ Sendable(t, turn[t])
  /\ \E n \in 1..LineLen(t, turn[t]) - put[t] :
       /\ LineLen(t, turn[t]) - put[t] <= PipeBuf => n = LineLen(t, turn[t]) - put[t]
       /\ Write(t, n)

ctl_send(t) == Refuse(t) \/ WriteFails(t) \/ write_all(t)

\* the next line in the pipe, with the newline that ends it
ReadLine ==
  /\ ctlpc = "send" /\ \A t \in Tools : Ended(t)
  /\ \E e \in upto + 1..Len(pipe) :
       /\ Says(pipe[e]) = Newline /\ \A i \in upto + 1..e - 1 : Says(pipe[i]) # Newline
       /\ heard' = Append(heard, [from |-> upto + 1, to |-> e]) /\ upto' = e
  /\ UNCHANGED <<asked, turn, put, pipe, lost, rcc, ctlpc>>

AllRead ==
  /\ ctlpc = "send" /\ ctlpc' = "done" /\ \A t \in Tools : Ended(t)
  /\ \A i \in upto + 1..Len(pipe) : Says(pipe[i]) # Newline
  /\ UNCHANGED <<asked, turn, put, pipe, lost, rcc, upto, heard>>

ChannelNext == (\E t \in Tools : ctl_send(t)) \/ ReadLine \/ AllRead
ChannelSpec == ChannelInit /\ [][ChannelNext]_channelVars

ChannelOff ==
  /\ asked = [t \in Tools |-> <<>>] /\ turn = [t \in Tools |-> 1] /\ put = [t \in Tools |-> 0]
  /\ pipe = <<>> /\ lost = [t \in Tools |-> {}] /\ rcc = [t \in Tools |-> 0]
  /\ upto = 0 /\ heard = <<>> /\ ctlpc = "off"

(***************************************************************************)
(* What the bridge promises.                                               *)
(***************************************************************************)
Plain == \A t \in Tools : \A j \in DOMAIN asked[t] :
           /\ \A k \in DOMAIN asked[t][j] : asked[t][j][k] # Newline
           /\ LineLen(t, j) <= PipeBuf \/ LineLen(t, j) > MaxLine

\* what was heard is the line for the j-th request of t, from end to end
IsLine(span, t, j) ==
  /\ span.to = span.from + Len(asked[t][j])
  /\ \A k \in 1..LineLen(t, j) :
       pipe[span.from + k - 1] = [tool |-> t, req |-> j, pos |-> k]

(* The shell gets each request that could be sent exactly once and whole,  *)
(* those of one tool in their order, however the writes of the tools fall; *)
(* a tool that could not send one says so in its status.  Exceptions:      *)
(* requests longer than the atomic write of the pipe (write_all then       *)
(* loops, ex_util.c:88), and values that hold a newline, which make two    *)
(* requests (ex_shell.c:97).                                               *)
RequestsArriveWhole ==
  ctlpc = "done" /\ Plain =>
    /\ \A g \in 1..Len(heard) : \E t \in Tools : \E j \in DOMAIN asked[t] \ lost[t] :
         IsLine(heard[g], t, j)
    /\ \A t \in Tools : \A j \in DOMAIN asked[t] \ lost[t] :
         \E g \in 1..Len(heard) : IsLine(heard[g], t, j)
    /\ \A g, h \in 1..Len(heard) : \A t \in Tools : \A i, j \in DOMAIN asked[t] :
         g < h /\ IsLine(heard[g], t, i) /\ IsLine(heard[h], t, j) => i < j
    /\ \A t \in Tools : rcc[t] = 0 <=> lost[t] = {}
=============================================================================
