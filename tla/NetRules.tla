------------------------------ MODULE NetRules ------------------------------
(***************************************************************************)
(* The network service of an agent (agent/uvn_net.py) and its WireGuard    *)
(* interfaces (core/wg.py) on one host.  A process starts the service with *)
(* a series of external commands, each of which may fail, and stops it     *)
(* with another one; the process may be killed between any two of them,    *)
(* and the host may restart.  What is left on the host is what the next    *)
(* process finds: `uno agent`, `uno service up` or `uno service down`.     *)
(*                                                                         *)
(* Interfaces are numbered in the order in which _start goes through them. *)
(* The tables of the kernel are reduced to what the commands depend on: a  *)
(* chain can be created once and deleted only when it is empty and no rule *)
(* jumps to it, and a rule that is deleted must be there.                  *)
(***************************************************************************)
EXTENDS Integers

CONSTANTS
    NumLans,     \* LAN interfaces
    NumVpns,     \* VPN interfaces
    Masquerade,  \* VPN interfaces with a NAT rule
    Docker,      \* the host has the chain DOCKER-USER
    MaxStarts,   \* bound: starts without a marker
    MaxFaults    \* bound: commands that fail for no reason of ours

ASSUME NetAssumption ==
    /\ NumLans \in Nat /\ NumVpns \in Nat
    /\ Docker \in BOOLEAN
    /\ MaxStarts \in Nat /\ MaxFaults \in Nat

VARIABLES
    \* The host
    policy,      \* policy of the chain FORWARD
    count,       \* copies of each rule of the service
    links,       \* WireGuard interfaces that exist
    ups,         \* those that are enabled
    host_rules,  \* the host's own rules are in place
    backup,      \* iptables_backup.rules exists
    marker,      \* the marker file of the static service exists
    \* The process
    phase,       \* what it does
    at,          \* the key or interface that its loop is at
    left,        \* in the loop over reversed(rules): how many are left
    assert_stopped, \* how it stops
    depth,       \* _iptables_rules: how many rules of each key are recorded
    up, created, \* flags of the WireGuardInterface objects
    \* History
    starts, faults,
    torn,        \* a process died, or gave up, while it was stopping
    skipped,     \* a stop went on after a command that failed
    clean        \* the last series was a stop that came to its end

tables == <<policy, count, host_rules>>
host == <<tables, links, ups, backup, marker>>
memory == <<at, left, assert_stopped, depth, up, created>>
process == <<phase, memory>>
history == <<starts, faults, torn, skipped, clean>>
netVars == <<host, process, history>>

-----------------------------------------------------------------------------
(* The keys of _iptables_rules and their rules, in order.                  *)

ForwardDrop == 1
TcpPmtu == 2
LanNics == 3 .. (2 + NumLans)
VpnNics == (3 + NumLans) .. (2 + NumLans + NumVpns)
Nics == LanNics \union VpnNics
LastNic == 2 + NumLans + NumVpns
RuleIds == 1 .. LastNic

\* The rules of an interface; the other keys have one rule each.
Chain == 1       \* -N FORWARD_nic
Jump == 2        \* -A FORWARD -j FORWARD_nic
Related == 3     \* -A FORWARD_nic, and the same for the next one
Subnets == 4
DockerUser == 5  \* -I DOCKER-USER, if there is Docker
DropRest == 6    \* -A FORWARD_nic, and the same for the next one
Return == 7
Nat_ == 8        \* -t nat -A POSTROUTING, if the interface asks for it

NumRules(id) == IF id \in Nics THEN 8 ELSE 1

\* The rules of a key that _start installs.
Installed(id, k) ==
    /\ k \in 1 .. NumRules(id)
    /\ id \in Nics /\ k = DockerUser => Docker
    /\ id \in Nics /\ k = Nat_ => id \in Masquerade

InChain == {Related, Subnets, DropRest, Return}

AllRules == [id \in RuleIds |-> NumRules(id)]
NoRules == [id \in RuleIds |-> 0]
NoCopies == [id \in RuleIds |-> [k \in 1 .. 8 |-> 0]]

NetInit ==
    /\ policy \in {"ACCEPT", "DROP"}
    /\ count = NoCopies
    /\ links = {} /\ ups = {}
    /\ host_rules = TRUE
    /\ backup = FALSE /\ marker = FALSE
    /\ phase = "off" /\ at = 0 /\ left = 0
    /\ assert_stopped = FALSE
    /\ depth = NoRules
    /\ up = {} /\ created = {}
    /\ starts = 0 /\ faults = 0
    /\ torn = FALSE /\ skipped = FALSE
    /\ clean = TRUE

\* A process that has ended has forgotten everything.
Ends ==
    /\ phase' = "off" /\ at' = 0 /\ left' = 0
    /\ assert_stopped' = FALSE
    /\ depth' = NoRules
    /\ up' = {} /\ created' = {}

-----------------------------------------------------------------------------
(* iptables.                                                               *)

\* Whether the kernel takes a new rule, or a new chain.
AcceptsNew(id, k) ==
    id \in Nics =>
        /\ k = Chain => count[id][Chain] = 0
        /\ k \in InChain \union {Jump} => count[id][Chain] > 0

\* Whether it deletes one. The policy is set, not deleted.
AcceptsDelete(id, k) ==
    /\ id # ForwardDrop => count[id][k] > 0
    /\ id \in Nics /\ k = Chain => \A j \in InChain \union {Jump} : count[id][j] = 0

New(id, k) ==
    IF id = ForwardDrop
    THEN policy' = "DROP" /\ UNCHANGED count
    ELSE count' = [count EXCEPT ![id][k] = @ + 1] /\ UNCHANGED policy

Delete(id, k) ==
    IF id = ForwardDrop
    THEN policy' = "ACCEPT" /\ UNCHANGED count
    ELSE count' = [count EXCEPT ![id][k] = @ - 1] /\ UNCHANGED policy

\* A command that the kernel would take fails.
Fault == faults < MaxFaults /\ faults' = faults + 1

-----------------------------------------------------------------------------
(* Start.                                                                  *)

\* Mutation: the marker is written first.
StartWithMarker ==
    /\ phase = "off" /\ ~marker
    /\ starts < MaxStarts
    /\ starts' = starts + 1
    /\ phase' = "starting"
    /\ marker' = TRUE
    /\ UNCHANGED <<tables, links, ups, backup, memory, faults, torn, skipped, clean>>

\* AgentService.start and start_static, without a marker: UvnNet._start.
StartNet ==
    /\ phase = "off" /\ ~marker
    /\ starts < MaxStarts
    /\ starts' = starts + 1
    /\ phase' = "starting"
    /\ UNCHANGED <<host, memory, faults, torn, skipped, clean>>

\* With a marker: take_over_static, which runs _start as a no-op.
TakeOver ==
    /\ phase = "off" /\ marker
    /\ phase' = "started"
    /\ depth' = AllRules
    /\ up' = VpnNics /\ created' = VpnNics
    /\ UNCHANGED <<host, at, left, assert_stopped, history>>

\* Mutation: the policy is left as it is.
SaveOnly ==
    /\ phase = "starting" /\ at = 0
    /\ backup' = TRUE
    /\ at' = TcpPmtu
    /\ UNCHANGED <<tables, links, ups, marker, phase, left, assert_stopped, depth, up, created,
                   history>>

\* Forwarding is enabled and the tables are saved.
Save ==
    /\ phase = "starting" /\ at = 0
    /\ backup' = TRUE
    /\ at' = ForwardDrop
    /\ UNCHANGED <<tables, links, ups, marker, phase, left, assert_stopped, depth, up, created,
                   history>>

\* WireGuardInterface.create: an interface that is there is deleted first.
Create ==
    /\ phase = "starting" /\ at \in VpnNics \ created
    /\ links' = links \union {at}
    /\ ups' = ups \ {at}
    /\ created' = created \union {at}
    /\ UNCHANGED <<tables, backup, marker, phase, at, left, assert_stopped, depth, up, history>>

\* WireGuardInterface.bring_up
BringUp ==
    /\ phase = "starting" /\ at \in created \ up
    /\ at \in links
    /\ ups' = ups \union {at}
    /\ up' = up \union {at}
    /\ UNCHANGED <<tables, links, backup, marker, phase, at, left, assert_stopped, depth, created,
                   history>>

\* The rule of the current key that is next.
Ready == phase = "starting" /\ at \in RuleIds /\ (at \in VpnNics => at \in up)
NextRule == depth[at] + 1

\* _iptables_install, and the next key after the last rule of this one.
Install ==
    /\ Ready
    /\ IF Installed(at, NextRule)
         THEN AcceptsNew(at, NextRule) /\ New(at, NextRule)
         ELSE UNCHANGED <<policy, count>>
    /\ depth' = [depth EXCEPT ![at] = NextRule]
    /\ at' = IF NextRule = NumRules(at) THEN at + 1 ELSE at
    /\ UNCHANGED <<host_rules, links, ups, backup, marker, phase, left, assert_stopped, up, created,
                   history>>

\* The next command is one that fails and raises.  The service was not entered
\* and is not stopped; the process ends.  create() may have deleted an old
\* interface, or added the new one, before it fails.
StartFails ==
    /\ phase = "starting" /\ at <= LastNic
    /\ \/ /\ Ready /\ Installed(at, NextRule)
          /\ \/ ~AcceptsNew(at, NextRule) /\ UNCHANGED faults
             \/ AcceptsNew(at, NextRule) /\ Fault
          /\ UNCHANGED <<links, ups>>
       \/ /\ at = 0 /\ Fault
          /\ UNCHANGED <<links, ups>>
       \/ /\ at \in created \ up
          /\ IF at \in links THEN Fault ELSE UNCHANGED faults
          /\ UNCHANGED <<links, ups>>
       \/ /\ at \in VpnNics \ created /\ Fault
          /\ links' \in {links \ {at}, links \union {at}}
          /\ ups' = ups \ {at}
    /\ Ends
    /\ clean' = FALSE
    /\ UNCHANGED <<tables, backup, marker, starts, torn, skipped>>

\* The marker is written when _start is done.
Started ==
    /\ phase = "starting" /\ at = LastNic + 1
    /\ phase' = "started"
    /\ marker' = TRUE
    /\ UNCHANGED <<tables, links, ups, backup, at, left, assert_stopped, depth, up, created,
                   history>>

-----------------------------------------------------------------------------
(* Stop.                                                                   *)

\* The loop of _stop over the interfaces, or what comes after it.
FirstVpn == 3 + NumLans
StopPhase(v) == IF v \in VpnNics THEN "tear_down" ELSE "iptables"

Stopping == {"tear_down", "delete", "iptables", "undo"}

\* The loop goes on with the next interface.
NextVpn ==
    /\ at' = at + 1 /\ phase' = StopPhase(at + 1)
    /\ UNCHANGED <<left, assert_stopped, depth, up>>

\* AgentService.stop of a service that this process started or took over.
StopNet ==
    /\ phase = "started"
    /\ assert_stopped' \in BOOLEAN
    /\ at' = FirstVpn /\ phase' = StopPhase(FirstVpn)
    /\ clean' = TRUE
    /\ UNCHANGED <<host, left, depth, up, created, starts, faults, torn, skipped>>

\* stop_static in a new process, after whatever happened: `uno service down`.
Down ==
    /\ phase = "off"
    /\ assert_stopped' = TRUE
    /\ at' = FirstVpn /\ phase' = StopPhase(FirstVpn)
    /\ clean' = TRUE
    /\ UNCHANGED <<host, left, depth, up, created, starts, faults, torn, skipped>>

\* A command of the stop fails, although the kernel accepts it, or because there
\* is nothing to delete: it is logged if assert_stopped, and raises otherwise.
Ignored(accepted) ==
    /\ assert_stopped
    /\ IF accepted THEN Fault /\ skipped' = TRUE ELSE UNCHANGED <<faults, skipped>>
    /\ UNCHANGED <<marker, torn, clean>>

\* AgentService.stop deletes the marker all the same, and the process gives up.
Raised ==
    /\ ~assert_stopped
    /\ Ends
    /\ marker' = FALSE
    /\ torn' = TRUE
    /\ clean' = FALSE

RaisedBy(accepted) ==
    /\ Raised
    /\ IF accepted THEN Fault ELSE UNCHANGED faults
    /\ UNCHANGED skipped

Works == UNCHANGED <<marker, faults, torn, skipped, clean>>

\* WireGuardInterface.tear_down, if the interface is up or must be down.
TearDown ==
    /\ phase = "tear_down"
    /\ IF assert_stopped \/ at \in up
         THEN \/ /\ at \in links
                 /\ ups' = ups \ {at}
                 /\ phase' = "delete" /\ up' = up \ {at}
                 /\ Works
                 /\ UNCHANGED <<at, left, assert_stopped, depth, created>>
              \/ /\ Ignored(at \in links)
                 /\ phase' = "delete" /\ up' = up \ {at}
                 /\ UNCHANGED <<ups, at, left, assert_stopped, depth, created>>
              \/ RaisedBy(at \in links) /\ UNCHANGED ups
         ELSE phase' = "delete" /\ Works /\ UNCHANGED <<ups, memory>>
    /\ UNCHANGED <<tables, links, backup, starts>>

\* WireGuardInterface.delete, likewise; then the next interface.
DeleteLink ==
    /\ phase = "delete"
    /\ IF assert_stopped \/ at \in created
         THEN \/ /\ at \in links
                 /\ links' = links \ {at} /\ ups' = ups \ {at}
                 /\ NextVpn /\ created' = created \ {at}
                 /\ Works
              \/ /\ Ignored(at \in links)
                 /\ NextVpn /\ created' = created \ {at}
                 /\ UNCHANGED <<links, ups>>
              \/ RaisedBy(at \in links) /\ UNCHANGED <<links, ups>>
         ELSE NextVpn /\ Works /\ UNCHANGED <<links, ups, created>>
    /\ UNCHANGED <<tables, backup, starts>>

\* Without a backup file the tables are flushed, and the file that is not there
\* cannot be restored.
FlushIptables ==
    /\ phase = "iptables" /\ ~backup
    /\ policy' = "ACCEPT"
    /\ count' = NoCopies
    /\ host_rules' = FALSE
    /\ IF assert_stopped THEN Ends /\ marker' = FALSE /\ UNCHANGED <<torn, clean>> ELSE Raised
    /\ UNCHANGED <<links, ups, backup, starts, faults, skipped>>

\* Mutation: a new process, which has recorded nothing, deletes nothing.
OnlyRecorded == depth

\* The rules that _stop deletes: a process that asserts that the service is
\* stopped and has recorded none records all of them first.
RulesToDelete == IF assert_stopped /\ depth = NoRules THEN AllRules ELSE depth

\* Otherwise the rules are deleted one by one.
UndoBegin ==
    /\ phase = "iptables" /\ backup
    /\ depth' = RulesToDelete
    /\ up' = IF depth' # depth THEN VpnNics ELSE up
    /\ created' = IF depth' # depth THEN VpnNics ELSE created
    /\ phase' = "undo" /\ at' = ForwardDrop /\ left' = depth'[ForwardDrop]
    /\ UNCHANGED <<host, assert_stopped, history>>

\* Mutation: in the order in which they were installed.
FirstRule == depth[at] + 1 - left

\* The rules recorded for a key, the last one first.
LastRule == left

\* The loop goes on, with the next key after the last rule.
Onward ==
    /\ IF left > 1
         THEN left' = left - 1 /\ UNCHANGED at
         ELSE at' = at + 1 /\ left' = IF at + 1 \in RuleIds THEN depth[at + 1] ELSE 0
    /\ UNCHANGED <<phase, assert_stopped, depth, up, created>>

Undo ==
    /\ phase = "undo" /\ at \in RuleIds
    /\ IF Installed(at, LastRule)
         THEN \/ /\ AcceptsDelete(at, LastRule) /\ Delete(at, LastRule)
                 /\ Onward /\ Works
              \/ /\ Ignored(AcceptsDelete(at, LastRule))
                 /\ Onward /\ UNCHANGED <<policy, count>>
              \/ RaisedBy(AcceptsDelete(at, LastRule)) /\ UNCHANGED <<policy, count>>
         ELSE Onward /\ Works /\ UNCHANGED <<policy, count>>
    /\ UNCHANGED <<host_rules, links, ups, backup, starts>>

\* The marker is deleted at the end.
Stopped ==
    /\ phase = "undo" /\ at = LastNic + 1
    /\ Ends
    /\ marker' = FALSE
    /\ UNCHANGED <<tables, links, ups, backup, history>>

-----------------------------------------------------------------------------
(* Faults.                                                                 *)

\* The process is killed, or leaves the service to systemd, which changes
\* nothing on the host either.
Killed ==
    /\ phase # "off"
    /\ Ends
    /\ torn' = (torn \/ phase \in Stopping)
    /\ clean' = FALSE
    /\ UNCHANGED <<host, starts, faults, skipped>>

\* The host restarts with its own rules; /run is empty, the agent's directory
\* is not.
Reboot ==
    /\ phase = "off"
    /\ policy' \in {"ACCEPT", "DROP"}
    /\ count' = NoCopies
    /\ links' = {} /\ ups' = {}
    /\ host_rules' = TRUE
    /\ marker' = FALSE
    /\ torn' = FALSE /\ skipped' = FALSE
    /\ clean' = TRUE
    /\ UNCHANGED <<backup, process, starts, faults>>

NetNext ==
    \/ StartNet \/ TakeOver \/ Save \/ Create \/ BringUp \/ Install \/ StartFails \/ Started
    \/ StopNet \/ Down \/ TearDown \/ DeleteLink \/ FlushIptables \/ UndoBegin \/ Undo \/ Stopped
    \/ Killed \/ Reboot

NetSpec == NetInit /\ [][NetNext]_netVars

-----------------------------------------------------------------------------
(* Properties.                                                             *)

Complete ==
    /\ policy = "DROP"
    /\ ups = VpnNics
    /\ \A id \in RuleIds \ {ForwardDrop} : \A k \in 1 .. 8 : Installed(id, k) => count[id][k] > 0

(* A service that is started, also one that was taken over on the word of  *)
(* its marker, is complete: every interface is up and every rule is there. *)
(* Only a stop that was cut short leaves a marker, or a table, that says   *)
(* otherwise.                                                              *)
StartedIsComplete ==
    phase = "started" /\ ~torn => Complete

(* Once a stop is over, and whatever was on the host when it began (a      *)
(* start that failed or died half way, twice, a stop that died half way),  *)
(* nothing of the service is left but copies of the rule for TCP, which    *)
(* every start that finds a chain in its way adds once more.  The exception*)
(* is a command that failed in a stop that went on.                        *)
StopCleansUp ==
    phase = "off" /\ clean /\ ~skipped =>
        /\ links = {}
        /\ \A id \in RuleIds \ {TcpPmtu} : \A k \in 1 .. 8 : count[id][k] = 0

(* While a VPN interface is enabled the host forwards nothing by default,  *)
(* at every step of a start, a stop or a repair, unless a stop went on     *)
(* after a command that failed.                                            *)
VpnProtected ==
    ~skipped => (ups # {} => policy = "DROP")

(* A start that follows a stop, or a restart of the host, is not refused:  *)
(* no command of its series meets a leftover.                              *)
FreshStartAccepted ==
    phase = "starting" /\ clean /\ ~skipped =>
        /\ Ready /\ Installed(at, NextRule) => AcceptsNew(at, NextRule)
        /\ at \in created => at \in links

=============================================================================
