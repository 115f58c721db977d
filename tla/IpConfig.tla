------------------------------ MODULE IpConfig ------------------------------
(***************************************************************************)
(* ip addr and ip route (ex_net.c): each command reads the configuration   *)
(* of the one interface, changes its part and writes all of it back.       *)
(* Several commands may run at a time; the kernel's copy is external.      *)
(***************************************************************************)
EXTENDS Naturals

CONSTANTS IpCommands,   \* [op, addr, gw, dev]
          Nic,          \* the interface that can be configured
          IpStarts,     \* the configurations it can have at first
          Clients,      \* the processes
          MaxIpFaults

Unset == 0              \* no address, no gateway
AddrOps == {"addr add", "addr del", "flush"}
RouteOps == {"route add", "route del"}
Configs == [addr : Nat, gw : Nat, dns : Nat]

ASSUME IpAssumption ==
  /\ IpStarts \subseteq Configs /\ MaxIpFaults \in Nat
  /\ \A cmd \in IpCommands :
       cmd.op \in AddrOps \cup RouteOps /\ cmd.addr \in Nat /\ cmd.gw \in Nat

\* added: what the commands that succeeded make, one after the other, of the
\* configuration there was; overlap: two were at work at a time
VARIABLES config, ipCmd, ipAt, seen, rci, added, overlap, ipFaults
ipVars == <<config, ipCmd, ipAt, seen, rci, added, overlap, ipFaults>>

IpInit ==
  /\ config \in IpStarts /\ added = config
  /\ ipCmd \in [Clients -> IpCommands]
  /\ ipAt = [c \in Clients |-> "start"] /\ seen = [c \in Clients |-> config]
  /\ rci = [c \in Clients |-> 0] /\ overlap = FALSE /\ ipFaults = 0

\* what a command makes of a configuration
Mine(cmd, g) ==
  CASE cmd.op = "addr add"  -> [g EXCEPT !.addr = cmd.addr]
    [] cmd.op = "addr del"  -> [g EXCEPT !.addr = Unset]
    [] cmd.op = "flush"     -> [addr |-> Unset, gw |-> Unset, dns |-> Unset]
    [] cmd.op = "route add" -> [g EXCEPT !.gw = cmd.gw]
    [] cmd.op = "route del" -> [g EXCEPT !.gw = Unset]

Step(c, to) == ipAt' = [ipAt EXCEPT ![c] = to]
IpFails(c) == Step(c, "done") /\ rci' = [rci EXCEPT ![c] = 1]
MayFailIp == ipFaults < MaxIpFaults /\ ipFaults' = ipFaults + 1

\* ip_require_nic: addr commands refuse another interface, flush included
IpRefuse(c) ==
  /\ ipAt[c] = "start" /\ ipCmd[c].op \in AddrOps
  /\ ipCmd[c].dev # Nic /\ IpFails(c)
  /\ UNCHANGED <<config, ipCmd, seen, added, overlap, ipFaults>>

ip_get_cfg(c) ==
  /\ ipAt[c] = "start" /\ (ipCmd[c].op \in RouteOps \/ ipCmd[c].dev = Nic)
  /\ \/ Step(c, "set") /\ seen' = [seen EXCEPT ![c] = config] /\ UNCHANGED <<rci, ipFaults>>
     \/ MayFailIp /\ ipCmd[c].op # "flush" /\ IpFails(c) /\ UNCHANGED seen
  /\ overlap' = (overlap \/ \E d \in Clients : ipAt[d] = "set")
  /\ UNCHANGED <<config, ipCmd, added>>

\* Mutant of ip_set_cfg: the resolver is left out.
ip_set_cfg_short(c) ==
  /\ ipAt[c] = "set" /\ Step(c, "done")
  /\ config' = [Mine(ipCmd[c], seen[c]) EXCEPT !.dns = Unset] /\ added' = Mine(ipCmd[c], added)
  /\ UNCHANGED <<ipCmd, seen, rci, overlap, ipFaults>>

ip_set_cfg(c) ==
  /\ ipAt[c] = "set"
  /\ \/ /\ Step(c, "done") /\ config' = Mine(ipCmd[c], seen[c]) /\ added' = Mine(ipCmd[c], added)
        /\ UNCHANGED <<rci, ipFaults>>
     \/ MayFailIp /\ IpFails(c) /\ UNCHANGED <<config, added>>
  /\ UNCHANGED <<ipCmd, seen, overlap>>

IpNext == \E c \in Clients : IpRefuse(c) \/ ip_get_cfg(c) \/ ip_set_cfg(c)

IpSpec == IpInit /\ [][IpNext]_ipVars

IpOff ==
  /\ config = <<>> /\ added = <<>> /\ ipCmd = [c \in Clients |-> <<>>]
  /\ ipAt = [c \in Clients |-> "done"] /\ seen = [c \in Clients |-> <<>>]
  /\ rci = [c \in Clients |-> 0] /\ overlap = TRUE /\ ipFaults = 0

(***************************************************************************)
(* What ip promises.                                                       *)
(***************************************************************************)
(* Commands one after another add up: each leaves what is not its own as   *)
(* it is ("routes are left untouched", ex_net.c:960), and one that failed  *)
(* or was refused has changed nothing.  Commands at the same time lose     *)
(* each other's changes, since each writes back all it has read.           *)
CommandsAddUp == ~overlap => config = added
=============================================================================
