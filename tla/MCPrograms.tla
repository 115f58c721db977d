----------------------------- MODULE MCPrograms -----------------------------
(***************************************************************************)
(* Small instances of the programs that start, signal and ask processes,   *)
(* and of those that talk to the network: each behaviour is one run of one *)
(* of them, but for ip and the tools of the shell, of which several run.   *)
(***************************************************************************)
EXTENDS Timeout, Xargs, Killall, Channel, Wget, Netcat, IpConfig

Call(input, per, mode, runEmpty, base) ==
  [input |-> input, per |-> per, mode |-> mode, runEmpty |-> runEmpty, base |-> base]
MCInputs == UNION {[1..n -> {"a", "b", Space}] : n \in 0..4}
MCCalls ==
  {Call(in, per, "batch", e, <<<<"c">>>>) : in \in MCInputs, per \in {0, 2, 3}, e \in BOOLEAN}
  \cup {Call(in, 1, "replace", e, <<<<"c">>, arg>>) :
          in \in {i \in MCInputs : Len(i) < 4} \cup {<<"a", "b", Space, "b", "b", "a", "b", "a">>},
          arg \in {<<"x", Repl>>, <<Repl, Repl>>}, e \in BOOLEAN}

MCRequests ==
  {<<>>, <<<<"c", "d">>>>, <<<<"e">>, <<"u", "v">>>>, <<<<"n", Newline, "m">>>>,
   <<<<"l", "o", "n", "g", "g">>, <<"s">>>>, <<<<"x", "x", "x", "x">>>>}

TimeoutOff ==
  /\ tpc = "done" /\ dead_ms = 0 /\ waited = 0 /\ tries = 0 /\ status = 0
  /\ child = "none" /\ told = 0 /\ sent = {} /\ ended = Never

\* a body is the sizes of its pieces
Sum(ns) == FoldLeft(LAMBDA m, n : m + n, 0, ns)
Chunks(headers, ns) ==
  [i \in 1..Len(ns) + 1 |->
     LET before == SubSeq(ns, 1, i - 1)
     IN  [at |-> headers + 1 + Sum(before) + 2 * (i - 1), from |-> Sum(before),
          size |-> IF i <= Len(ns) THEN ns[i] ELSE 0]]
Resp(code, location, framing, headers, ns) ==
  [code |-> code, location |-> location, framing |-> framing, headers |-> headers,
   size |-> Sum(ns), chunks |-> IF framing = "chunked" THEN Chunks(headers, ns) ELSE <<>>]
Bodies == {<<>>, <<1>>, <<3, 1>>, <<2, 3>>}
Finals ==
  {Resp("ok", "none", f, h, b) : f \in {"chunked", "length", "close"}, h \in {1, 3}, b \in Bodies}
  \cup {Resp("error", "none", "length", 2, <<>>), Resp("ok", "none", "length", 4, <<1>>)}
Hop(l) == Resp("redirect", l, "length", 1, <<>>)
MCJourneys ==
  {<<r>> : r \in Finals} \cup {<<Hop("path"), r>> : r \in Finals}
  \cup {<<Hop("url"), Hop("relative")>>, <<Hop("none")>>, [i \in 1..4 |-> Hop("url")]}

MCStdins == {<<>>, <<"1", "2">>, <<"1", "2", "3">>}
MCTexts == {<<>>, <<"7", "8">>}

MCIp ==
  {[op |-> "addr add", addr |-> 5, gw |-> 0, dev |-> d] : d \in {"eth0", "lo"}}
  \cup {[op |-> o, addr |-> 1, gw |-> 7, dev |-> "eth0"] :
          o \in {"addr del", "flush", "route add", "route del"}}
MCStarts == {[addr |-> 1, gw |-> 2, dns |-> 3]}

ProgramsInit ==
  \/ TimeoutInit /\ XargsOff /\ KillallOff /\ ChannelOff
     /\ WgetOff /\ NcOff /\ IpOff
  \/ TimeoutOff /\ XargsInit /\ KillallOff /\ ChannelOff
     /\ WgetOff /\ NcOff /\ IpOff
  \/ TimeoutOff /\ XargsOff /\ KillallInit /\ ChannelOff
     /\ WgetOff /\ NcOff /\ IpOff
  \/ TimeoutOff /\ XargsOff /\ KillallOff /\ ChannelInit
     /\ WgetOff /\ NcOff /\ IpOff
  \/ TimeoutOff /\ XargsOff /\ KillallOff /\ ChannelOff
     /\ WgetInit /\ NcOff /\ IpOff
  \/ TimeoutOff /\ XargsOff /\ KillallOff /\ ChannelOff
     /\ WgetOff /\ NcInit /\ IpOff
  \/ TimeoutOff /\ XargsOff /\ KillallOff /\ ChannelOff
     /\ WgetOff /\ NcOff /\ IpInit

ProgramsNext ==
  \/ TimeoutNext /\ UNCHANGED <<xargsVars, killallVars, channelVars, wgetVars, ncVars, ipVars>>
  \/ XargsNext /\ UNCHANGED <<timeoutVars, killallVars, channelVars, wgetVars, ncVars, ipVars>>
  \/ KillallNext /\ UNCHANGED <<timeoutVars, xargsVars, channelVars, wgetVars, ncVars, ipVars>>
  \/ ChannelNext /\ UNCHANGED <<timeoutVars, xargsVars, killallVars, wgetVars, ncVars, ipVars>>
  \/ WgetNext /\ UNCHANGED <<timeoutVars, xargsVars, killallVars, channelVars, ncVars, ipVars>>
  \/ NcNext /\ UNCHANGED <<timeoutVars, xargsVars, killallVars, channelVars, wgetVars, ipVars>>
  \/ IpNext /\ UNCHANGED <<timeoutVars, xargsVars, killallVars, channelVars, wgetVars, ncVars>>

ProgramsSpec ==
  ProgramsInit
  /\ [][ProgramsNext]_<<timeoutVars, xargsVars, killallVars, channelVars, wgetVars, ncVars, ipVars>>
=============================================================================
