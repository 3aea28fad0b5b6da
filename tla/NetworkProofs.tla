---------------------------- MODULE NetworkProofs ----------------------------
(***************************************************************************)
(* The threads of an agent and its network service.                        *)
(*                                                                         *)
(* The first part is about Triggerable alone, a service thread and whoever *)
(* triggers it: no trigger is left without a wakeup.  The second is about  *)
(* the three threads of an agent, for any set of routes: the main loop     *)
(* uses the tester as Triggerable allows, so that what is proved of the    *)
(* tester holds inside of the agent, and no change of a route is lost.     *)
(*                                                                         *)
(* The third part is about NetRules, for any number of interfaces, starts, *)
(* stops and failures.  Its invariant says what is left on the host when a *)
(* start or a stop is cut short anywhere: of each interface a prefix of    *)
(* the rules in the order in which they are installed, so that the next    *)
(* stop, which deletes them in the opposite order, is refused nothing that *)
(* is there.                                                               *)
(***************************************************************************)
EXTENDS RoutesMonitor, NetRules, TLAPS


-----------------------------------------------------------------------------
(* Triggerable.                                                            *)

\* The service thread does nothing before the main thread starts it.
NotStarted == main = "new" => service = "new"

Inv == TypeOK /\ WakeupNotLost /\ NotStarted

\* The steps of the main thread preserve the invariant.
LEMMA MainStep == Inv /\ Main => Inv'
  <1> SUFFICES ASSUME Inv, Main PROVE Inv'
    OBVIOUS
  <1> USE DEF Inv, TypeOK, MainStates, ServiceStates, WakeupNotLost, NotStarted
  <1>1. CASE Start
    BY <1>1 DEF Start
  <1>2. CASE Trigger
    BY <1>2 DEF Trigger
  <1>3. CASE Release
    BY <1>3 DEF Release
  <1>4. CASE Stop
    BY <1>4 DEF Stop
  <1>5. CASE StopTrigger
    BY <1>5 DEF StopTrigger
  <1>6. CASE StopRelease
    BY <1>6 DEF StopRelease
  <1>7. CASE Join
    BY <1>7 DEF Join
  <1> QED
    BY <1>1, <1>2, <1>3, <1>4, <1>5, <1>6, <1>7 DEF Main

\* So do those of the service thread.
LEMMA ServiceStep == Inv /\ Service => Inv'
  <1> SUFFICES ASSUME Inv, Service PROVE Inv'
    OBVIOUS
  <1> USE DEF Inv, TypeOK, MainStates, ServiceStates, WakeupNotLost, NotStarted
  <1>1. CASE Check
    BY <1>1 DEF Check
  <1>2. CASE Acquire
    BY <1>2 DEF Acquire
  <1>3. CASE Timeout
    BY <1>3 DEF Timeout
  <1>4. CASE Read
    BY <1>4 DEF Read
  <1>5. CASE Decide
    BY <1>5 DEF Decide
  <1>6. CASE Handle
    BY <1>6 DEF Handle
  <1>7. CASE HandleFails
    BY <1>7 DEF HandleFails
  <1> QED
    BY <1>1, <1>2, <1>3, <1>4, <1>5, <1>6, <1>7 DEF Service

\* A queued trigger always has the semaphore's wakeup on its side: the
\* service thread needs no timeout to see it.
THEOREM WakeupCorrect == Spec => [](TypeOK /\ WakeupNotLost)
  <1>1. Init => Inv
    BY DEF Init, Inv, TypeOK, MainStates, ServiceStates, WakeupNotLost, NotStarted
  <1>2. Inv /\ [Next]_vars => Inv'
    <2>1. Inv /\ UNCHANGED vars => Inv'
      BY DEF vars, Inv, TypeOK, WakeupNotLost, NotStarted
    <2> QED
      BY <2>1, MainStep, ServiceStep DEF Next
  <1>3. Spec => []Inv
    BY <1>1, <1>2, PTL DEF Spec
  <1> QED
    BY <1>3, PTL DEF Inv

-----------------------------------------------------------------------------
(* The agent.                                                              *)

\* The steps of the host, of the monitor's thread, and of the main thread
\* outside of trigger() and stop_trigger_thread().
OwnStep ==
    \/ RouteChanges \/ Listen \/ MonitorDies
    \/ ReadLine \/ SetCondition
    \/ FirstList \/ FirstPoll \/ Popen \/ StartThread
    \/ Wait \/ OnConditionActive \/ List \/ Compare \/ RequestUpdate \/ SpinServices
    \/ StopMonitor \/ JoinMonitor

\* They leave the tester alone.
LEMMA OwnStepStutters == OwnStep => UNCHANGED vars
  BY DEF OwnStep, RouteChanges, Listen, MonitorDies, ReadLine, SetCondition, FirstList,
         FirstPoll, Popen, StartThread, Wait, OnConditionActive, List, Compare,
         RequestUpdate, SpinServices, StopMonitor, JoinMonitor

\* The others are steps of Triggerable.
LEMMA OtherStepIsNext ==
    StartTester \/ OtherEvent \/ Notify \/ StopTester \/ InTriggerable => Next
  BY DEF StartTester, OtherEvent, Notify, StopTester, InTriggerable, Next, Main

\* Every step of the agent is a step of the tester's component, or none of
\* its business: Agent's handlers and contexts call trigger(),
\* start_trigger_thread and stop_trigger_thread only where they may be called.
THEOREM AgentImplementsTriggerable == AgentSpec => Spec
  <1>1. AgentInit => Init
    BY DEF AgentInit
  <1>2. [AgentNext]_avars => [Next]_vars
    <2>1. CASE AgentNext
      BY <2>1, OwnStepStutters, OtherStepIsNext DEF AgentNext, OwnStep, MainLoop
    <2>2. CASE UNCHANGED avars
      BY <2>2 DEF avars
    <2> QED
      BY <2>1, <2>2
  <1> QED
    BY <1>1, <1>2, PTL DEF AgentSpec, Spec

\* In the whole agent too, a queued trigger has its wakeup.
THEOREM AgentWakeupCorrect == AgentSpec => []WakeupNotLost
  BY AgentImplementsTriggerable, WakeupCorrect, PTL

-----------------------------------------------------------------------------
Leaving == {"stop", "join", "stopped"}

\* ChangeNotLost is not inductive: before the main loop runs nothing is said
\* of a change, and the loop must not start with one that is lost. Here only
\* an agent that stops is excused, and the monitor's thread, which forgets
\* where it was when it is started, is started once.
Accounted ==
    /\ unseen => \/ pending \/ reader = "set" \/ condition
                 \/ loop = "list" \/ (loop \in {"events", "handled"} /\ woken)
                 \/ loop \in Leaving
    /\ loop \in {"start", "first_poll", "popen", "thread"} => reader = "new"

\* Each step preserves it.
LEMMA AccountedStep == Accounted /\ [AgentNext]_avars => Accounted'
  <1> SUFFICES ASSUME Accounted, [AgentNext]_avars PROVE Accounted'
    OBVIOUS
  <1> USE DEF Accounted, Leaving
  <1>1. CASE RouteChanges \/ Listen \/ MonitorDies
    <2>1. CASE RouteChanges
      BY <2>1 DEF RouteChanges
    <2>2. CASE Listen \/ MonitorDies
      BY <2>2 DEF Listen, MonitorDies
    <2> QED
      BY <1>1, <2>1, <2>2
  <1>2. CASE ReadLine \/ SetCondition
    BY <1>2 DEF ReadLine, SetCondition
  <1>3. CASE FirstList \/ FirstPoll \/ Popen \/ StartThread \/ StartTester
    BY <1>3 DEF FirstList, FirstPoll, Popen, StartThread, StartTester
  <1>4. CASE OtherEvent
    BY <1>4 DEF OtherEvent
  <1>5. CASE Wait
    BY <1>5 DEF Wait
  <1>6. CASE OnConditionActive
    BY <1>6 DEF OnConditionActive
  <1>7. CASE List
    BY <1>7 DEF List
  <1>8. CASE Compare \/ Notify \/ RequestUpdate \/ SpinServices
    BY <1>8 DEF Compare, Notify, RequestUpdate, SpinServices
  <1>9. CASE StopTester \/ StopMonitor \/ JoinMonitor
    BY <1>9 DEF StopTester, StopMonitor, JoinMonitor
  <1>10. CASE InTriggerable \/ UNCHANGED avars
    BY <1>10 DEF InTriggerable, avars, mvars
  <1> QED
    BY <1>1, <1>2, <1>3, <1>4, <1>5, <1>6, <1>7, <1>8, <1>9, <1>10 DEF AgentNext, MainLoop

\* Between the output of `ip monitor` and the listing of the routes, in any
\* interleaving of the monitor's thread and the main loop, no change is lost.
THEOREM ChangesCorrect == AgentSpec => []ChangeNotLost
  <1>1. AgentInit => Accounted
    BY DEF AgentInit, Accounted
  <1>2. Accounted => ChangeNotLost
    BY DEF Accounted, ChangeNotLost, Leaving, Running
  <1> QED
    BY <1>1, <1>2, AccountedStep, PTL DEF AgentSpec

-----------------------------------------------------------------------------
(* The network service.                                                    *)

\* Where the loops of _start and _stop can be: before the first key, at a key,
\* or past the last one.
Places == 0 .. (LastNic + 1)

\* The type of what is on the host and of the history.
HostType ==
    /\ policy \in {"ACCEPT", "DROP"}
    /\ count \in [RuleIds -> [1 .. 8 -> Nat]]
    /\ links \subseteq VpnNics /\ ups \subseteq links
    /\ backup \in BOOLEAN /\ marker \in BOOLEAN
    /\ torn \in BOOLEAN /\ skipped \in BOOLEAN /\ clean \in BOOLEAN

\* The type of what a process remembers.
ProcessType ==
    /\ phase \in {"off", "starting", "started"} \cup Stopping
    /\ at \in Places /\ left \in 0 .. 8
    /\ depth \in [RuleIds -> 0 .. 8]
    /\ up \subseteq VpnNics /\ created \subseteq VpnNics
    /\ assert_stopped \in BOOLEAN

\* No process inherits what another one recorded.
OffIsFresh == phase = "off" =>
    at = 0 /\ depth = NoRules /\ up = {} /\ created = {}

\* Nothing is in the tables that _start would not have put there; the policy
\* is not counted.
OnlyInstalled == \A id \in RuleIds : \A k \in 1 .. 8 :
    id = ForwardDrop \/ ~Installed(id, k) => count[id][k] = 0

\* The rules of an interface are in the tables at most once, and never one
\* without those that are installed before it: its chain comes first and goes
\* last. This holds of every leftover of any series of starts and stops that
\* were cut short.
Prefix == ~skipped => \A n \in Nics : \A k \in 1 .. 8 :
    /\ count[n][k] <= 1
    /\ count[n][k] = 1 => \A j \in 1 .. k : Installed(n, j) => count[n][j] = 1

\* A start has recorded all the rules of the keys that it is done with, some of
\* the one it is at, and none of the others.
Recorded == \A id \in RuleIds :
    /\ id < at => depth[id] = NumRules(id)
    /\ id = at => depth[id] < NumRules(id)
    /\ id > at => depth[id] = 0

\* Its interfaces are up as far as it came, and rules are installed only for an
\* interface that is up.
StartedLinks ==
    /\ created \subseteq links /\ up \subseteq ups /\ up \subseteq created
    /\ \A v \in VpnNics : /\ v < at => v \in up
                          /\ v > at => v \notin created
                          /\ depth[v] > 0 => v \in up

\* What it recorded is in the tables, and the policy was the first.
InstalledRules ==
    /\ at >= TcpPmtu => policy = "DROP"
    /\ \A id \in RuleIds \ {ForwardDrop} : \A k \in 1 .. 8 :
         Installed(id, k) /\ k <= depth[id] => count[id][k] > 0

\* Behind the rule of an interface that it installed last there is nothing: the
\* chain was new. On a clean host there is nothing ahead of it either.
Front == ~skipped => \A n \in Nics : \A k \in 1 .. 8 :
    k > depth[n] /\ (depth[n] > 0 \/ clean) => count[n][k] = 0

\* What holds while _start runs.
StartInv == phase = "starting" =>
    Recorded /\ StartedLinks /\ InstalledRules /\ Front /\ ~marker

\* A started process has the marker and remembers everything, and the marker
\* tells the truth unless a stop was cut short.
MarkerIsTrue ==
    /\ phase = "started" =>
         marker /\ depth = AllRules /\ up = VpnNics /\ created = VpnNics
    /\ phase \notin Stopping /\ marker /\ ~torn => Complete

\* A stop remembers everything, or nothing if it is the one of a new process,
\* which records everything before it deletes rules. A stop that would raise is
\* one of a process that has the interfaces it stops.
StopMemory ==
    /\ phase \in Stopping => depth = AllRules \/ (depth = NoRules /\ assert_stopped)
    /\ phase \in {"tear_down", "delete"} => at \in VpnNics
    /\ phase \in {"tear_down", "delete"} /\ ~assert_stopped => \A v \in VpnNics :
         /\ v > at \/ (v = at /\ phase = "tear_down") => v \in up
         /\ v >= at => v \in created
    /\ phase = "undo" =>
         /\ depth = AllRules /\ at > 0
         /\ at \in RuleIds => left \in 1 .. NumRules(at)

\* The interfaces that the stop is done with are gone, all of them before the
\* first rule is deleted.
StopLinks == ~skipped =>
    /\ phase \in {"tear_down", "delete"} => \A v \in VpnNics : v < at => v \notin links
    /\ phase = "delete" => at \notin ups
    /\ phase \in {"iptables", "undo"} => links = {}

\* So are the rules that the loop over reversed(rules) is done with.
StopRules == phase = "undo" /\ ~skipped => \A n \in Nics : \A k \in 1 .. 8 :
    n < at \/ (n = at /\ k > left) => count[n][k] = 0

\* What holds while _stop runs.
StopInv == StopMemory /\ StopLinks /\ StopRules

\* The inductive invariant of the network service.
NetInv ==
    /\ HostType /\ ProcessType /\ OffIsFresh
    /\ OnlyInstalled /\ Prefix
    /\ StartInv /\ MarkerIsTrue /\ StopInv
    /\ VpnProtected /\ StopCleansUp

\* The interfaces are numbered after the two other keys, the VPNs last.
LEMMA NicFacts ==
    /\ LastNic \in Nat /\ LastNic >= 2
    /\ RuleIds = 1 .. LastNic
    /\ Nics = 3 .. LastNic
    /\ FirstVpn \in Int /\ FirstVpn >= 3 /\ FirstVpn <= LastNic + 1
    /\ VpnNics = FirstVpn .. LastNic
    /\ ForwardDrop = 1 /\ TcpPmtu = 2
  BY NetAssumption DEF LastNic, RuleIds, Nics, LanNics, VpnNics, FirstVpn, ForwardDrop,
     TcpPmtu

\* Every key is a place.
LEMMA AtFacts ==
    \A i \in {0, ForwardDrop, FirstVpn} \cup RuleIds : i \in Places
  BY NicFacts DEF Places

\* Every key has rules, the interfaces eight.
LEMMA RuleFacts ==
    /\ \A id : NumRules(id) \in 1 .. 8
    /\ \A id \in Nics : NumRules(id) = 8
    /\ \A id \in RuleIds \ Nics : NumRules(id) = 1
    /\ \A id, k : Installed(id, k) => k \in 1 .. 8
  BY DEF NumRules, Installed

\* No rule recorded, and all of them, are two different things to remember.
LEMMA DepthFacts ==
    /\ NoRules \in [RuleIds -> 0 .. 8] /\ AllRules \in [RuleIds -> 0 .. 8]
    /\ \A id \in RuleIds : NoRules[id] = 0 /\ AllRules[id] = NumRules(id)
    /\ AllRules # NoRules
  <1>1. 1 \in RuleIds
    BY NicFacts
  <1> QED
    BY <1>1, RuleFacts DEF NoRules, AllRules

\* Empty tables.
LEMMA NoCopiesFacts ==
    /\ NoCopies \in [RuleIds -> [1 .. 8 -> Nat]]
    /\ \A id \in RuleIds : \A k \in 1 .. 8 : NoCopies[id][k] = 0
  BY DEF NoCopies

\* What is said of the tables stays true if they do not change.
LEMMA TablesKept ==
    ASSUME count' = count, skipped => skipped', OnlyInstalled, Prefix
    PROVE  OnlyInstalled' /\ Prefix'
  BY DEF OnlyInstalled, Prefix

\* It is true of empty tables.
LEMMA TablesFlushed ==
    ASSUME count' = NoCopies
    PROVE  OnlyInstalled' /\ Prefix'
  <1>1. Nics \subseteq RuleIds
    BY NicFacts
  <1> QED
    BY <1>1, NoCopiesFacts DEF OnlyInstalled, Prefix

\* A process that has ended satisfies what is said of processes.
LEMMA EndsFacts ==
    ASSUME Ends
    PROVE  ProcessType' /\ OffIsFresh' /\ StartInv' /\ StopInv' /\ phase' = "off"
  <1>1. phase' = "off" /\ phase' \notin Stopping
    BY DEF Ends, Stopping
  <1>2. ProcessType'
    <2>1. at' \in Places
      BY AtFacts DEF Ends
    <2>2. depth' \in [RuleIds -> 0 .. 8]
      BY DepthFacts DEF Ends
    <2>3. /\ phase' \in {"off", "starting", "started"} \cup Stopping
          /\ up' \subseteq VpnNics /\ created' \subseteq VpnNics
      BY DEF Ends
    <2>4. left' \in 0 .. 8
      BY DEF Ends
    <2>5. assert_stopped' \in BOOLEAN
      BY DEF Ends
    <2> QED
      BY <2>1, <2>2, <2>3, <2>4, <2>5 DEF ProcessType
  <1>3. OffIsFresh'
    BY DEF Ends, OffIsFresh
  <1>4. StartInv' /\ StopInv'
    BY <1>1 DEF StartInv, StopInv, StopMemory, StopLinks, StopRules
  <1> QED
    BY <1>1, <1>2, <1>3, <1>4

\* A host on which the service never ran satisfies the invariant.
LEMMA InitNet == NetInit => NetInv
  <1> SUFFICES ASSUME NetInit PROVE NetInv
    OBVIOUS
  <1>1. HostType
    BY NoCopiesFacts DEF NetInit, HostType
  <1>2. ProcessType
    <2>1. at \in Places
      BY AtFacts DEF NetInit
    <2>2. depth \in [RuleIds -> 0 .. 8]
      BY DepthFacts DEF NetInit
    <2>3. /\ phase \in {"off", "starting", "started"} \cup Stopping
          /\ up \subseteq VpnNics /\ created \subseteq VpnNics
      BY DEF NetInit
    <2>4. left \in 0 .. 8
      BY DEF NetInit
    <2>5. assert_stopped \in BOOLEAN
      BY DEF NetInit
    <2> QED
      BY <2>1, <2>2, <2>3, <2>4, <2>5 DEF ProcessType
  <1>3. OnlyInstalled /\ Prefix /\ StopCleansUp
    BY NicFacts, NoCopiesFacts DEF NetInit, OnlyInstalled, Prefix, StopCleansUp
  <1>4. OffIsFresh /\ StartInv /\ MarkerIsTrue /\ StopInv /\ VpnProtected
    BY DEF NetInit, Stopping, OffIsFresh, StartInv, MarkerIsTrue, StopInv, StopMemory,
       StopLinks, StopRules, VpnProtected
  <1> QED
    BY <1>1, <1>2, <1>3, <1>4 DEF NetInv

\* A start begins with an empty memory, behind no marker.
LEMMA StartNetKeeps == NetInv /\ StartNet => NetInv'
  <1> SUFFICES ASSUME NetInv, StartNet PROVE NetInv'
    OBVIOUS
  <1>1. /\ phase = "off" /\ ~marker /\ phase' = "starting" /\ at = 0 /\ depth = NoRules
        /\ up = {} /\ created = {}
        /\ UNCHANGED <<policy, count, links, ups, backup, marker, at, left,
             assert_stopped, depth,
                       up, created, torn, skipped, clean>>
    BY DEF StartNet, host, tables, memory, NetInv, OffIsFresh
  <1>2. HostType' /\ ProcessType' /\ OffIsFresh'
    BY <1>1 DEF NetInv, HostType, ProcessType, OffIsFresh
  <1>3. OnlyInstalled' /\ Prefix'
    BY <1>1, TablesKept DEF NetInv
  <1>4. Recorded' /\ StartedLinks' /\ InstalledRules'
    BY <1>1, NicFacts, DepthFacts DEF Recorded, StartedLinks, InstalledRules
  <1>5. Front'
    BY <1>1, NicFacts, DepthFacts DEF Front, NetInv, StopCleansUp
  <1>6. StartInv' /\ MarkerIsTrue' /\ StopInv' /\ StopCleansUp'
    BY <1>1, <1>4, <1>5 DEF StartInv, MarkerIsTrue, StopInv, StopMemory, StopLinks,
       StopRules, StopCleansUp, Stopping
  <1>7. VpnProtected'
    BY <1>1 DEF NetInv, VpnProtected
  <1> QED
    BY <1>2, <1>3, <1>6, <1>7 DEF NetInv

\* A process that takes over remembers what the marker stands for.
LEMMA TakeOverKeeps == NetInv /\ TakeOver => NetInv'
  <1> SUFFICES ASSUME NetInv, TakeOver PROVE NetInv'
    OBVIOUS
  <1>1. /\ phase = "off" /\ marker /\ phase' = "started"
        /\ depth' = AllRules /\ up' = VpnNics /\ created' = VpnNics
        /\ UNCHANGED <<policy, count, links, ups, backup, marker, at, left,
             assert_stopped, torn,
                       skipped, clean>>
    BY DEF TakeOver, host, tables, history
  <1>2. HostType' /\ ProcessType' /\ OffIsFresh'
    BY <1>1, DepthFacts DEF NetInv, HostType, ProcessType, OffIsFresh
  <1>3. OnlyInstalled' /\ Prefix'
    BY <1>1, TablesKept DEF NetInv
  <1>4. StartInv' /\ StopInv' /\ StopCleansUp'
    BY <1>1 DEF StartInv, StopInv, StopMemory, StopLinks, StopRules, StopCleansUp
  <1>5. MarkerIsTrue' /\ VpnProtected'
    BY <1>1 DEF NetInv, MarkerIsTrue, Complete, VpnProtected, Stopping
  <1> QED
    BY <1>2, <1>3, <1>4, <1>5 DEF NetInv

\* The backup changes nothing that the invariant is about.
LEMMA SaveKeeps == NetInv /\ Save => NetInv'
  <1> SUFFICES ASSUME NetInv, Save PROVE NetInv'
    OBVIOUS
  <1>1. /\ phase = "starting" /\ at = 0 /\ at' = ForwardDrop /\ backup' = TRUE
        /\ UNCHANGED <<policy, count, links, ups, marker, phase, left, assert_stopped,
             depth,
                       up, created, torn, skipped, clean>>
    BY DEF Save, tables, history
  <1>2. HostType' /\ ProcessType' /\ OffIsFresh'
    BY <1>1, AtFacts DEF NetInv, HostType, ProcessType, OffIsFresh
  <1>3. OnlyInstalled' /\ Prefix'
    BY <1>1, TablesKept DEF NetInv
  <1>4. Recorded' /\ StartedLinks'
    BY <1>1, NicFacts, RuleFacts DEF NetInv, StartInv, Recorded, StartedLinks
  <1>5. InstalledRules' /\ Front'
    BY <1>1, NicFacts DEF NetInv, StartInv, InstalledRules, Front
  <1>6. StartInv' /\ MarkerIsTrue' /\ StopInv' /\ StopCleansUp' /\ VpnProtected'
    BY <1>1, <1>4, <1>5 DEF NetInv, StartInv, MarkerIsTrue, StopInv, StopMemory,
       StopLinks, StopRules, StopCleansUp, VpnProtected
  <1> QED
    BY <1>2, <1>3, <1>6 DEF NetInv

\* An interface that is created anew is not up.
LEMMA CreateKeeps == NetInv /\ Create => NetInv'
  <1> SUFFICES ASSUME NetInv, Create PROVE NetInv'
    OBVIOUS
  <1>1. /\ phase = "starting" /\ at \in VpnNics /\ at \notin created
        /\ links' = links \cup {at} /\ ups' = ups \ {at} /\ created' = created \cup {at}
        /\ UNCHANGED <<policy, count, backup, marker, phase, at, left, assert_stopped,
             depth,
                       up, torn, skipped, clean>>
    BY DEF Create, tables, history
  <1>2. HostType' /\ ProcessType' /\ OffIsFresh'
    BY <1>1 DEF NetInv, HostType, ProcessType, OffIsFresh
  <1>3. OnlyInstalled' /\ Prefix'
    BY <1>1, TablesKept DEF NetInv
  <1>4. StartedLinks'
    BY <1>1 DEF NetInv, StartInv, StartedLinks
  <1>5. Recorded' /\ InstalledRules' /\ Front'
    BY <1>1 DEF NetInv, StartInv, Recorded, InstalledRules, Front
  <1>6. StartInv' /\ MarkerIsTrue' /\ StopInv' /\ StopCleansUp' /\ VpnProtected'
    BY <1>1, <1>4, <1>5 DEF NetInv, StartInv, MarkerIsTrue, StopInv, StopMemory,
       StopLinks, StopRules, StopCleansUp, VpnProtected
  <1> QED
    BY <1>2, <1>3, <1>6 DEF NetInv

\* When the first interface is brought up the policy was set before.
LEMMA BringUpKeeps == NetInv /\ BringUp => NetInv'
  <1> SUFFICES ASSUME NetInv, BringUp PROVE NetInv'
    OBVIOUS
  <1>1. /\ phase = "starting" /\ at \in created /\ at \in links
        /\ ups' = ups \cup {at} /\ up' = up \cup {at}
        /\ UNCHANGED <<policy, count, links, backup, marker, phase, at, left,
             assert_stopped, depth,
                       created, torn, skipped, clean>>
    BY DEF BringUp, tables, history
  <1>2. HostType' /\ ProcessType' /\ OffIsFresh'
    BY <1>1 DEF NetInv, HostType, ProcessType, OffIsFresh
  <1>3. OnlyInstalled' /\ Prefix'
    BY <1>1, TablesKept DEF NetInv
  <1>4. StartedLinks'
    BY <1>1 DEF NetInv, StartInv, StartedLinks
  <1>5. Recorded' /\ InstalledRules' /\ Front'
    BY <1>1 DEF NetInv, StartInv, Recorded, InstalledRules, Front
  <1>6. VpnProtected'
    BY <1>1, NicFacts DEF NetInv, HostType, StartInv, InstalledRules, VpnProtected
  <1>7. StartInv' /\ MarkerIsTrue' /\ StopInv' /\ StopCleansUp'
    BY <1>1, <1>4, <1>5 DEF NetInv, StartInv, MarkerIsTrue, StopInv, StopMemory,
       StopLinks, StopRules, StopCleansUp
  <1> QED
    BY <1>2, <1>3, <1>6, <1>7 DEF NetInv

\* A rule that the kernel takes is one behind the last: -N of a chain is taken
\* only if the chain is not there, and then nothing of the interface is.
LEMMA InstallKeeps == NetInv /\ Install => NetInv'
  <1> SUFFICES ASSUME NetInv, Install PROVE NetInv'
    OBVIOUS
  <1> DEFINE k == depth[at] + 1
  <1>1. /\ phase = "starting" /\ at \in RuleIds /\ (at \in VpnNics => at \in up)
        /\ depth' = [depth EXCEPT ![at] = k]
        /\ at' = IF k = NumRules(at) THEN at + 1 ELSE at
        /\ UNCHANGED <<links, ups, backup, marker, phase, left, assert_stopped, up,
             created, torn,
                       skipped, clean>>
    BY DEF Install, Ready, NextRule, history
  <1>2. /\ depth \in [RuleIds -> 0 .. 8] /\ k \in 1 .. NumRules(at) /\ k \in 1 .. 8
        /\ Recorded /\ StartedLinks /\ InstalledRules /\ Front /\ ~marker
    BY <1>1, RuleFacts DEF NetInv, ProcessType, StartInv, Recorded
  <1>3. \/ /\ ~Installed(at, k)
           /\ UNCHANGED <<policy, count>>
        \/ /\ Installed(at, k) /\ at = ForwardDrop
           /\ policy' = "DROP" /\ UNCHANGED count
        \/ /\ Installed(at, k) /\ at # ForwardDrop /\ AcceptsNew(at, k)
           /\ count' = [count EXCEPT ![at][k] = @ + 1] /\ UNCHANGED policy
    BY DEF Install, NextRule, New
  <1>4. count \in [RuleIds -> [1 .. 8 -> Nat]]
    BY DEF NetInv, HostType
  <1>5. ASSUME at \in Nics, ~skipped, NEW j \in 1 .. 8, j >= k
        PROVE  count[at][j] = 0
    <2>1. CASE depth[at] > 0
      BY <1>1, <1>2, <1>5, <2>1 DEF Front
    <2>2. CASE depth[at] = 0
      <3>1. Installed(at, k) /\ k = Chain
        BY <2>2 DEF Installed, Chain, DockerUser, Nat_, NumRules
      <3>2. count[at][1] = 0
        BY <1>3, <1>5, <3>1, NicFacts DEF AcceptsNew, Chain
      <3>3. Installed(at, 1)
        BY <2>2, <3>1
      <3>4. count[at][j] # 1
        BY <1>5, <3>2, <3>3 DEF NetInv, Prefix
      <3> QED
        BY <1>4, <1>1, <1>5, <3>4 DEF NetInv, Prefix
    <2> QED
      BY <1>1, <1>2, <2>1, <2>2
  <1>6. HostType'
    BY <1>1, <1>3 DEF NetInv, HostType
  <1>7. ProcessType' /\ OffIsFresh'
    BY <1>1, <1>2, NicFacts DEF NetInv, ProcessType, OffIsFresh, Places
  <1>8. OnlyInstalled'
    BY <1>3, <1>4 DEF NetInv, OnlyInstalled
  <1>9. Prefix'
    <2> SUFFICES ASSUME ~skipped, NEW n \in Nics, NEW i \in 1 .. 8
                 PROVE  /\ count'[n][i] <= 1
                        /\ count'[n][i] = 1 =>
                             \A j \in 1 .. i : Installed(n, j) => count'[n][j] = 1
      BY <1>1 DEF Prefix
    <2>1. n \in RuleIds /\ n # ForwardDrop
      BY NicFacts
    <2>2. CASE count'[n] = count[n]
      BY <2>2 DEF NetInv, Prefix
    <2>3. CASE count'[n] # count[n]
      <3>1. n = at /\ count'[n] = [count[n] EXCEPT ![k] = @ + 1] /\ Installed(at, k)
        BY <1>3, <1>4, <2>3, <2>1
      <3>2. count'[n][k] = 1 /\ \A j \in 1 .. 8 : j # k => count'[n][j] = count[n][j]
        BY <1>2, <1>4, <1>5, <2>1, <3>1
      <3>3. \A j \in 1 .. 8 : j > k => count'[n][j] = 0
        BY <1>2, <1>5, <3>1
      <3>4. \A j \in 1 .. 8 : j < k /\ Installed(n, j) => count'[n][j] = 1
        <4>1. \A j \in 1 .. 8 : j < k /\ Installed(n, j) => count[n][j] > 0
          BY <1>2, <2>1, <3>1 DEF InstalledRules
        <4> QED
          BY <1>4, <2>1, <3>2, <4>1 DEF NetInv, Prefix
      <3>5. count'[n][i] <= 1
        BY <3>2 DEF NetInv, Prefix
      <3> QED
        BY <1>2, <3>3, <3>4, <3>5
    <2> QED
      BY <2>2, <2>3
  <1>10. Recorded' /\ StartedLinks'
    BY <1>1, <1>2, NicFacts, RuleFacts DEF Recorded, StartedLinks
  <1>11. InstalledRules'
    <2>1. at' >= TcpPmtu => policy' = "DROP"
      <3>1. at = ForwardDrop => Installed(at, k)
        BY <1>2, NicFacts DEF Installed
      <3> QED
        BY <1>1, <1>2, <1>3, <3>1, NicFacts DEF InstalledRules
    <2>2. ASSUME NEW id \in RuleIds \ {ForwardDrop}, NEW i \in 1 .. 8, Installed(id, i),
                 i <= depth'[id]
          PROVE  count'[id][i] > 0
      <3>1. CASE id # at \/ i # k
        <4>1. i <= depth[id]
          BY <1>1, <1>2, <2>2, <3>1
        <4>2. count[id][i] > 0
          BY <1>2, <2>2, <4>1 DEF InstalledRules
        <4> QED
          BY <1>3, <1>4, <4>2
      <3>2. CASE id = at /\ i = k
        BY <1>3, <1>4, <2>2, <3>2
      <3> QED
        BY <3>1, <3>2
    <2> QED
      BY <2>1, <2>2 DEF InstalledRules
  <1>12. Front'
    <2> SUFFICES ASSUME ~skipped, NEW n \in Nics, NEW i \in 1 .. 8, i > depth'[n],
                        depth'[n] > 0 \/ clean
                 PROVE  count'[n][i] = 0
      BY <1>1 DEF Front
    <2>1. n \in RuleIds
      BY NicFacts
    <2>2. CASE n # at
      BY <1>1, <1>2, <1>3, <1>4, <2>1, <2>2 DEF Front
    <2>3. CASE n = at
      <3>1. i > k
        BY <1>1, <1>2, <2>3
      <3>2. count[n][i] = 0
        BY <1>2, <1>5, <2>3, <3>1
      <3> QED
        BY <1>3, <1>4, <2>1, <3>1, <3>2
    <2> QED
      BY <2>2, <2>3
  <1>13. StartInv' /\ MarkerIsTrue' /\ StopInv' /\ StopCleansUp'
    BY <1>1, <1>2, <1>10, <1>11, <1>12 DEF StartInv, MarkerIsTrue, StopInv, StopMemory,
       StopLinks, StopRules, StopCleansUp, Stopping
  <1>14. VpnProtected'
    BY <1>1, <1>3 DEF NetInv, VpnProtected
  <1> QED
    BY <1>6, <1>7, <1>8, <1>9, <1>13, <1>14 DEF NetInv

\* A start that fails leaves a prefix behind, and no marker.
LEMMA StartFailsKeeps == NetInv /\ StartFails => NetInv'
  <1> SUFFICES ASSUME NetInv, StartFails PROVE NetInv'
    OBVIOUS
  <1>1. /\ phase = "starting" /\ Ends /\ clean' = FALSE
        /\ UNCHANGED <<policy, count, backup, marker, torn, skipped>>
    BY DEF StartFails, tables
  <1>2. ~marker
    BY <1>1 DEF NetInv, StartInv
  <1>3. \/ UNCHANGED <<links, ups>>
        \/ /\ at \in VpnNics
           /\ links' \in {links \ {at}, links \cup {at}}
           /\ ups' = ups \ {at}
    BY DEF StartFails
  <1>4. HostType'
    BY <1>1, <1>3 DEF NetInv, HostType
  <1>5. VpnProtected'
    BY <1>1, <1>3 DEF NetInv, VpnProtected
  <1>6. OnlyInstalled' /\ Prefix'
    BY <1>1, TablesKept DEF NetInv
  <1>7. MarkerIsTrue' /\ StopCleansUp'
    BY <1>1, <1>2, EndsFacts DEF MarkerIsTrue, StopCleansUp
  <1> QED
    BY <1>1, <1>4, <1>5, <1>6, <1>7, EndsFacts DEF NetInv

\* A start that comes to its end has installed everything.
LEMMA StartedKeeps == NetInv /\ Started => NetInv'
  <1> SUFFICES ASSUME NetInv, Started PROVE NetInv'
    OBVIOUS
  <1>1. /\ phase = "starting" /\ at = LastNic + 1 /\ phase' = "started"
             /\ marker' = TRUE
        /\ UNCHANGED <<policy, count, links, ups, backup, at, left, assert_stopped,
             depth, up,
                       created, torn, skipped, clean>>
    BY DEF Started, tables, history
  <1>2. Recorded /\ StartedLinks /\ InstalledRules
    BY <1>1 DEF NetInv, StartInv
  <1>3. depth = AllRules
    <2>1. \A id \in RuleIds : depth[id] = AllRules[id]
      BY <1>1, <1>2, NicFacts, DepthFacts DEF Recorded
    <2> QED
      BY <2>1, DepthFacts DEF NetInv, ProcessType
  <1>4. up = VpnNics /\ created = VpnNics /\ ups = VpnNics
    <2>1. \A v \in VpnNics : v < at
      BY <1>1, NicFacts
    <2> QED
      BY <1>2, <2>1 DEF NetInv, HostType, ProcessType, StartedLinks
  <1>5. Complete
    <2>1. policy = "DROP"
      BY <1>1, <1>2, NicFacts DEF InstalledRules
    <2>2. ASSUME NEW id \in RuleIds \ {ForwardDrop}, NEW k \in 1 .. 8, Installed(id, k)
          PROVE  count[id][k] > 0
      <3>1. k <= depth[id]
        BY <1>3, <2>2, DepthFacts DEF Installed
      <3> QED
        BY <1>2, <2>2, <3>1 DEF InstalledRules
    <2> QED
      BY <1>4, <2>1, <2>2 DEF Complete
  <1>6. HostType' /\ ProcessType' /\ OffIsFresh'
    BY <1>1 DEF NetInv, HostType, ProcessType, OffIsFresh
  <1>7. OnlyInstalled' /\ Prefix'
    BY <1>1, TablesKept DEF NetInv
  <1>8. MarkerIsTrue'
    BY <1>1, <1>3, <1>4, <1>5 DEF MarkerIsTrue, Complete
  <1>9. StartInv' /\ StopInv' /\ StopCleansUp' /\ VpnProtected'
    BY <1>1 DEF NetInv, StartInv, StopInv, StopMemory, StopLinks, StopRules,
       StopCleansUp, VpnProtected, Stopping
  <1> QED
    BY <1>6, <1>7, <1>8, <1>9 DEF NetInv

\* The loop of _stop over the interfaces.
LEMMA StopsFacts ==
    /\ FirstVpn \in VpnNics \/ VpnNics = {}
    /\ \A v \in VpnNics : v + 1 \in VpnNics \/ \A w \in VpnNics : w <= v
    /\ \A v \in VpnNics : v + 1 \in Places
    /\ \A v, w \in VpnNics : w < v + 1 => w = v \/ w < v
    /\ \A v : StopPhase(v) \in Stopping
    /\ \A v : StopPhase(v) # "delete" /\ StopPhase(v) # "undo"
    /\ \A v : StopPhase(v) = "tear_down" <=> v \in VpnNics
  BY NicFacts DEF StopPhase, Stopping, Places

\* A stop of a process that remembers everything, or of a new one that asserts
\* that the service is stopped.
LEMMA StopBegins ==
    ASSUME NetInv, at' = FirstVpn, phase' = StopPhase(FirstVpn),
           assert_stopped' \in BOOLEAN,
           clean' = TRUE,
           UNCHANGED <<policy, count, links, ups, backup, marker, left, depth, up,
             created, torn,
                       skipped>>,
           \/ depth = AllRules /\ up = VpnNics /\ created = VpnNics
           \/ depth = NoRules /\ assert_stopped'
    PROVE  NetInv'
  <1>1. phase' \in Stopping /\ phase' \in {"tear_down", "iptables"}
    BY DEF StopPhase, Stopping
  <1>2. HostType'
    BY DEF NetInv, HostType
  <1>3. ProcessType'
    BY <1>1, AtFacts DEF NetInv, ProcessType
  <1>4. OnlyInstalled' /\ Prefix'
    BY TablesKept DEF NetInv
  <1>5. OffIsFresh' /\ StartInv' /\ MarkerIsTrue' /\ StopRules' /\ StopCleansUp'
    BY <1>1 DEF OffIsFresh, StartInv, MarkerIsTrue, StopRules, StopCleansUp
  <1>6. StopMemory'
    BY StopsFacts DEF StopMemory
  <1>7. StopLinks'
    <2>1. \A v \in VpnNics : ~(v < FirstVpn)
      BY NicFacts
    <2>2. phase' = "iptables" => VpnNics = {}
      BY StopsFacts
    <2> QED
      BY <1>1, <2>1, <2>2 DEF StopLinks, NetInv, HostType
  <1>8. VpnProtected'
    BY DEF NetInv, VpnProtected
  <1> QED
    BY <1>2, <1>3, <1>4, <1>5, <1>6, <1>7, <1>8 DEF NetInv, StopInv

\* A process stops what it started or took over.
LEMMA StopNetKeeps == NetInv /\ StopNet => NetInv'
  <1> SUFFICES ASSUME NetInv, StopNet PROVE NetInv'
    OBVIOUS
  <1>1. depth = AllRules /\ up = VpnNics /\ created = VpnNics
    BY DEF NetInv, MarkerIsTrue, StopNet
  <1> QED
    BY <1>1, StopBegins DEF StopNet, host, tables

\* A new process stops what it finds.
LEMMA DownKeeps == NetInv /\ Down => NetInv'
  <1> SUFFICES ASSUME NetInv, Down PROVE NetInv'
    OBVIOUS
  <1>1. depth = NoRules
    BY DEF NetInv, OffIsFresh, Down
  <1> QED
    BY <1>1, StopBegins DEF Down, host, tables

\* A stop that raises leaves the tables as they are.
LEMMA RaisedKeeps ==
    ASSUME NetInv, Raised, UNCHANGED <<policy, count, links, ups, backup, skipped>>
    PROVE  NetInv'
  <1>1. HostType'
    BY DEF Raised, NetInv, HostType
  <1>2. OnlyInstalled' /\ Prefix'
    BY TablesKept DEF NetInv
  <1>3. MarkerIsTrue' /\ StopCleansUp' /\ VpnProtected'
    BY EndsFacts DEF Raised, MarkerIsTrue, StopCleansUp, NetInv, VpnProtected
  <1> QED
    BY <1>1, <1>2, <1>3, EndsFacts DEF NetInv, Raised

\* A command of a stop that leaves the tables alone, or fails and is skipped.
LEMMA StopGoesOn ==
    ASSUME NetInv, phase' \in Stopping, ProcessType', StopInv',
           \/ Works
           \/ Ignored(TRUE)
           \/ Ignored(FALSE),
           links' \subseteq links, ups' \subseteq ups, ups' \subseteq links',
           UNCHANGED <<policy, count, backup>>
    PROVE  NetInv'
  <1>1. /\ UNCHANGED <<marker, torn, clean>> /\ skipped' \in BOOLEAN
        /\ skipped => skipped'
    BY DEF Works, Ignored, NetInv, HostType
  <1>2. HostType'
    BY <1>1 DEF NetInv, HostType
  <1>3. OnlyInstalled' /\ Prefix'
    BY <1>1, TablesKept DEF NetInv
  <1>4. OffIsFresh' /\ StartInv' /\ MarkerIsTrue' /\ StopCleansUp'
    BY DEF OffIsFresh, StartInv, MarkerIsTrue, StopCleansUp, Stopping
  <1>5. VpnProtected'
    BY <1>1 DEF NetInv, VpnProtected
  <1> QED
    BY <1>2, <1>3, <1>4, <1>5 DEF NetInv

\* An interface that was torn down is not up. One that is not there cannot be
\* torn down, and was not up.
LEMMA TearDownKeeps == NetInv /\ TearDown => NetInv'
  <1> SUFFICES ASSUME NetInv, TearDown PROVE NetInv'
    OBVIOUS
  <1>1. /\ phase = "tear_down" /\ UNCHANGED <<policy, count, links, backup>>
        /\ at \in VpnNics
    BY DEF TearDown, tables, NetInv, StopInv, StopMemory
  <1>2. assert_stopped \/ at \in up
    BY <1>1 DEF NetInv, StopInv, StopMemory
  <1>3. \/ Raised /\ UNCHANGED <<ups, skipped>>
        \/ /\ phase' = "delete" /\ up' = up \ {at}
           /\ UNCHANGED <<at, left, assert_stopped, depth, created>>
           /\ \/ Works /\ ups' = ups \ {at}
              \/ Ignored(TRUE) /\ UNCHANGED ups
              \/ Ignored(FALSE) /\ at \notin links /\ UNCHANGED ups
    BY <1>2 DEF TearDown, RaisedBy, Ignored
  <1>4. CASE Raised /\ UNCHANGED <<ups, skipped>>
    BY <1>1, <1>4, RaisedKeeps
  <1>5. CASE /\ phase' = "delete" /\ up' = up \ {at}
             /\ UNCHANGED <<at, left, assert_stopped, depth, created>>
             /\ \/ Works /\ ups' = ups \ {at}
                \/ Ignored(TRUE) /\ UNCHANGED ups
                \/ Ignored(FALSE) /\ at \notin links /\ UNCHANGED ups
    <2>1. phase' \in Stopping /\ ups' \subseteq ups /\ ups' \subseteq links'
      BY <1>1, <1>5 DEF Stopping, NetInv, HostType
    <2>2. ProcessType'
      BY <1>5, <2>1 DEF NetInv, ProcessType
    <2>3. StopMemory'
      BY <1>1, <1>5, NicFacts DEF NetInv, StopInv, StopMemory, Stopping
    <2>4. StopLinks'
      BY <1>1, <1>5 DEF Works, Ignored, NetInv, HostType, StopInv, StopLinks
    <2>5. StopRules'
      BY <1>5 DEF StopRules
    <2> QED
      BY <1>1, <1>5, <2>1, <2>2, <2>3, <2>4, <2>5, StopGoesOn DEF StopInv
  <1> QED
    BY <1>3, <1>4, <1>5

\* The interfaces up to this one are gone.
LEMMA DeleteLinkKeeps == NetInv /\ DeleteLink => NetInv'
  <1> SUFFICES ASSUME NetInv, DeleteLink PROVE NetInv'
    OBVIOUS
  <1>1. /\ phase = "delete" /\ UNCHANGED <<policy, count, backup>>
        /\ at \in VpnNics
    BY DEF DeleteLink, tables, NetInv, StopInv, StopMemory
  <1>2. assert_stopped \/ at \in created
    BY <1>1, NicFacts DEF NetInv, StopInv, StopMemory
  <1> DEFINE Deleted == \/ Works /\ links' = links \ {at} /\ ups' = ups \ {at}
                        \/ Ignored(TRUE) /\ UNCHANGED <<links, ups>>
                        \/ Ignored(FALSE) /\ at \notin links /\ UNCHANGED <<links, ups>>
  <1>3. \/ Raised /\ UNCHANGED <<links, ups, skipped>>
        \/ NextVpn /\ created' = created \ {at} /\ Deleted
    BY <1>2 DEF DeleteLink, RaisedBy, Ignored
  <1>4. CASE Raised /\ UNCHANGED <<links, ups, skipped>>
    BY <1>1, <1>4, RaisedKeeps
  <1>5. CASE NextVpn /\ created' = created \ {at} /\ Deleted
    <2>1. /\ at' = at + 1 /\ phase' = StopPhase(at + 1)
          /\ UNCHANGED <<left, assert_stopped, depth, up>>
      BY <1>5 DEF NextVpn
    <2>2. /\ phase' \in Stopping /\ links' \subseteq links
          /\ ups' \subseteq ups /\ ups' \subseteq links'
      BY <1>5, <2>1, StopsFacts DEF NetInv, HostType
    <2>3. ProcessType'
      BY <1>1, <1>5, <2>1, StopsFacts DEF NetInv, ProcessType
    <2>4. StopMemory'
      <3>1. depth' = AllRules \/ (depth' = NoRules /\ assert_stopped')
        BY <1>1, <2>1 DEF NetInv, StopInv, StopMemory, Stopping
      <3>2. phase' \in {"tear_down", "delete"} =>
              phase' = "tear_down" /\ at' \in VpnNics
        BY <2>1, StopsFacts
      <3>3. ASSUME ~assert_stopped', NEW v \in VpnNics, v >= at'
            PROVE  v \in up' /\ v \in created'
        BY <1>1, <1>5, <2>1, <3>3, NicFacts DEF NetInv, StopInv, StopMemory
      <3>4. \A v \in VpnNics : v > at' => v >= at'
        BY <2>1, NicFacts
      <3>5. \A v \in VpnNics : v = at' => v >= at'
        BY NicFacts
      <3>6. phase' # "undo"
        BY <2>1, StopsFacts
      <3> QED
        BY <3>1, <3>2, <3>3, <3>4, <3>5, <3>6 DEF StopMemory
    <2>5. StopLinks'
      <3> SUFFICES ASSUME ~skipped'
                   PROVE  /\ \A v \in VpnNics : v < at' => v \notin links'
                          /\ phase' = "iptables" => links' = {}
        BY <2>1, StopsFacts DEF StopLinks
      <3>1. ~skipped /\ at \notin links'
        BY <1>5 DEF Works, Ignored
      <3>2. \A v \in VpnNics : v < at' => v \notin links'
        BY <1>1, <2>1, <2>2, <3>1, StopsFacts DEF NetInv, StopInv, StopLinks
      <3>3. ASSUME phase' = "iptables" PROVE links' = {}
        <4>1. \A v \in VpnNics : v <= at
          BY <1>1, <2>1, <3>3, StopsFacts
        <4>2. \A v \in VpnNics : v < at'
          BY <1>1, <2>1, <4>1, NicFacts
        <4> QED
          BY <2>2, <3>2, <4>2 DEF NetInv, HostType
      <3> QED
        BY <3>2, <3>3
    <2>6. StopRules'
      BY <2>1, StopsFacts DEF StopRules
    <2> QED
      BY <1>1, <1>5, <2>2, <2>3, <2>4, <2>5, <2>6, StopGoesOn DEF StopInv
  <1> QED
    BY <1>3, <1>4, <1>5

\* Without a backup the tables are empty after the stop.
LEMMA FlushIptablesKeeps == NetInv /\ FlushIptables => NetInv'
  <1> SUFFICES ASSUME NetInv, FlushIptables PROVE NetInv'
    OBVIOUS
  <1>1. /\ phase = "iptables" /\ policy' = "ACCEPT" /\ count' = NoCopies
        /\ Ends /\ marker' = FALSE /\ UNCHANGED <<links, ups, backup, skipped>>
    BY DEF FlushIptables, Raised
  <1>2. torn' \in BOOLEAN /\ clean' \in BOOLEAN
    BY DEF FlushIptables, Raised, NetInv, HostType
  <1>3. HostType'
    BY <1>1, <1>2, NoCopiesFacts DEF NetInv, HostType
  <1>4. OnlyInstalled' /\ Prefix'
    BY <1>1, TablesFlushed
  <1>5. ~skipped => links = {} /\ ups = {}
    BY <1>1 DEF NetInv, HostType, StopInv, StopLinks
  <1>6. StopCleansUp' /\ VpnProtected'
    BY <1>1, <1>5, NoCopiesFacts DEF StopCleansUp, VpnProtected
  <1>7. MarkerIsTrue'
    BY <1>1, EndsFacts DEF MarkerIsTrue
  <1> QED
    BY <1>1, <1>3, <1>4, <1>6, <1>7, EndsFacts DEF NetInv

\* The loop over the rules begins with everything recorded.
LEMMA UndoBeginKeeps == NetInv /\ UndoBegin => NetInv'
  <1> SUFFICES ASSUME NetInv, UndoBegin PROVE NetInv'
    OBVIOUS
  <1>1. /\ phase = "iptables" /\ phase' = "undo" /\ at' = ForwardDrop
        /\ depth' = RulesToDelete /\ left' = depth'[ForwardDrop]
        /\ up' \in {up, VpnNics} /\ created' \in {created, VpnNics}
        /\ UNCHANGED <<policy, count, links, ups, backup, marker, assert_stopped, torn,
             skipped,
                       clean>>
    BY DEF UndoBegin, host, tables, history
  <1>2. depth' = AllRules
    BY <1>1 DEF RulesToDelete, NetInv, StopInv, StopMemory, Stopping
  <1>3. ForwardDrop \in RuleIds /\ left' = NumRules(ForwardDrop)
          /\ NumRules(ForwardDrop) \in 1 .. 8
    BY <1>1, <1>2, NicFacts, RuleFacts, DepthFacts
  <1>4. phase' \in Stopping
    BY <1>1 DEF Stopping
  <1>5. HostType'
    BY <1>1 DEF NetInv, HostType
  <1>6. ProcessType'
    <2>1. at' \in Places
      BY <1>1, AtFacts
    <2>2. left' \in 0 .. 8
      BY <1>3
    <2> QED
      BY <1>1, <1>2, <1>4, <2>1, <2>2, DepthFacts DEF NetInv, ProcessType
  <1>7. OnlyInstalled' /\ Prefix'
    BY <1>1, TablesKept DEF NetInv
  <1>8. OffIsFresh' /\ StartInv' /\ MarkerIsTrue' /\ StopCleansUp' /\ VpnProtected'
    BY <1>1, <1>4 DEF NetInv, OffIsFresh, StartInv, MarkerIsTrue, StopCleansUp,
       VpnProtected
  <1>9. StopMemory'
    BY <1>1, <1>2, <1>3, NicFacts DEF StopMemory
  <1>10. StopLinks'
    BY <1>1 DEF NetInv, StopInv, StopLinks
  <1>11. StopRules'
    <2> QED
      BY <1>1, NicFacts DEF StopRules
  <1> QED
    BY <1>5, <1>6, <1>7, <1>8, <1>9, <1>10, <1>11 DEF NetInv, StopInv

\* One more rule is gone, and the rules before it are still a prefix.
LEMMA OnwardKeeps ==
    ASSUME NetInv, phase = "undo", at \in RuleIds, Onward, UNCHANGED links,
           skipped => skipped',
           ~skipped' => \A n \in Nics : \A k \in 1 .. 8 :
               count'[n][k] = IF n = at /\ k = left THEN 0 ELSE count[n][k]
    PROVE  ProcessType' /\ StopInv' /\ Prefix'
  <1>1. /\ phase' = "undo" /\ depth = AllRules /\ left \in 1 .. NumRules(at)
        /\ UNCHANGED <<assert_stopped, depth, up, created>>
    BY DEF Onward, NetInv, StopInv, StopMemory
  <1>2. /\ left > 1 => left' = left - 1 /\ at' = at
        /\ left <= 1 => at' = at + 1
        /\ left <= 1 /\ at + 1 \in RuleIds => left' = NumRules(at + 1)
        /\ left <= 1 /\ at + 1 \notin RuleIds => left' = 0
    BY <1>1, DepthFacts DEF Onward
  <1>3. NumRules(at) \in 1 .. 8 /\ NumRules(at + 1) \in 1 .. 8
    BY RuleFacts
  <1>4. left' \in 0 .. 8 /\ (at' \in RuleIds => left' \in 1 .. NumRules(at'))
    BY <1>1, <1>2, <1>3
  <1>5. at' \in Places /\ at' > 0
    BY <1>1, <1>2, NicFacts DEF Places
  <1>6. ProcessType'
    BY <1>1, <1>4, <1>5 DEF NetInv, ProcessType
  <1>7. StopMemory'
    BY <1>1, <1>4, <1>5 DEF StopMemory
  <1>8. StopLinks'
    BY <1>1 DEF NetInv, StopInv, StopLinks
  <1>9. \A n \in Nics : \A k \in 1 .. 8 :
          n < at' \/ (n = at' /\ k > left') => n < at \/ (n = at /\ k >= left)
    BY <1>1, <1>2, NicFacts, RuleFacts
  <1>10. StopRules'
    BY <1>1, <1>9 DEF NetInv, StopInv, StopRules
  <1>11. Prefix'
    <2> SUFFICES ASSUME ~skipped', NEW n \in Nics, NEW k \in 1 .. 8
                 PROVE  /\ count'[n][k] <= 1
                        /\ count'[n][k] = 1 =>
                             \A j \in 1 .. k : Installed(n, j) => count'[n][j] = 1
      BY DEF Prefix
    <2>1. CASE n # at
      BY <2>1 DEF NetInv, Prefix
    <2>2. CASE n = at
      <3>1. \A j \in 1 .. 8 : j >= left => count'[n][j] = 0
        BY <1>1, <2>2 DEF NetInv, StopInv, StopRules
      <3> QED
        BY <3>1 DEF NetInv, Prefix
    <2> QED
      BY <2>1, <2>2
  <1> QED
    BY <1>6, <1>7, <1>8, <1>10, <1>11 DEF StopInv

\* A rule is deleted, was not there, or is left behind by a stop that says so:
\* the kernel refuses to delete a rule only if it is not there, because what is
\* left of an interface is a prefix and the last rule goes first.
LEMMA UndoKeeps == NetInv /\ Undo => NetInv'
  <1> SUFFICES ASSUME NetInv, Undo PROVE NetInv'
    OBVIOUS
  <1>1. /\ phase = "undo" /\ at \in RuleIds
        /\ UNCHANGED <<links, ups, backup>>
    BY DEF Undo
  <1>2. /\ left \in 1 .. 8
        /\ count \in [RuleIds -> [1 .. 8 -> Nat]]
    BY <1>1, RuleFacts DEF NetInv, HostType, StopInv, StopMemory
  <1> DEFINE Gone == count' = [count EXCEPT ![at][left] = @ - 1]
  <1>3. \/ Raised /\ UNCHANGED <<policy, count, skipped>>
        \/ /\ Onward
           /\ \/ ~Installed(at, left) /\ Works /\ UNCHANGED <<policy, count>>
              \/ Works /\ at = ForwardDrop /\ UNCHANGED count /\ policy' = "ACCEPT"
              \/ Works /\ at # ForwardDrop /\ count[at][left] > 0 /\ Gone
                   /\ UNCHANGED policy
              \/ Ignored(TRUE) /\ UNCHANGED <<policy, count>>
              \/ Ignored(FALSE) /\ ~AcceptsDelete(at, left)
                   /\ UNCHANGED <<policy, count>>
    BY DEF Undo, RaisedBy, Ignored, LastRule, Delete, AcceptsDelete
  <1>4. CASE Raised /\ UNCHANGED <<policy, count, skipped>>
    BY <1>1, <1>4, RaisedKeeps
  <1>5. ASSUME Onward,
               \/ ~Installed(at, left) /\ Works /\ UNCHANGED <<policy, count>>
               \/ Works /\ at = ForwardDrop /\ UNCHANGED count /\ policy' = "ACCEPT"
               \/ Works /\ at # ForwardDrop /\ count[at][left] > 0 /\ Gone
                    /\ UNCHANGED policy
               \/ Ignored(TRUE) /\ UNCHANGED <<policy, count>>
               \/ Ignored(FALSE) /\ ~AcceptsDelete(at, left)
                    /\ UNCHANGED <<policy, count>>
        PROVE  NetInv'
    <2>1. UNCHANGED count \/ (at # ForwardDrop /\ count[at][left] > 0 /\ Gone)
      BY <1>5
    <2>2. /\ UNCHANGED <<marker, torn, clean>> /\ skipped' \in BOOLEAN
          /\ skipped => skipped'
      BY <1>5 DEF Works, Ignored, NetInv, HostType
    <2>3. phase' = "undo" /\ phase' \in Stopping
      BY <1>1, <1>5 DEF Onward, Stopping
    <2>4. HostType'
      <3>1. count' \in [RuleIds -> [1 .. 8 -> Nat]]
        BY <1>2, <2>1
      <3> QED
        BY <1>1, <1>5, <2>2, <3>1 DEF NetInv, HostType
    <2>5. ASSUME ~skipped', at \in Nics
          PROVE  /\ count'[at][left] = 0
                 /\ \A k \in 1 .. 8 : k # left => count'[at][k] = count[at][k]
      <3>1. at # ForwardDrop
        BY <2>5, NicFacts
      <3>2. count[at][left] <= 1 /\ count[at][left] \in Nat
        BY <1>1, <1>2, <2>2, <2>5 DEF NetInv, Prefix
      <3>3. CASE ~Installed(at, left) /\ UNCHANGED count
        BY <1>1, <1>2, <3>3 DEF NetInv, OnlyInstalled
      <3>4. CASE count[at][left] > 0 /\ Gone
        BY <1>1, <1>2, <3>2, <3>4
      <3>5. CASE Ignored(FALSE) /\ ~AcceptsDelete(at, left) /\ UNCHANGED count
        <4>1. ASSUME left = Chain, NEW j \in InChain \cup {Jump} PROVE count[at][j] = 0
          BY <1>1, <2>2, <2>5, <4>1 DEF NetInv, StopInv, StopRules, InChain, Chain,
             Jump, Related, Subnets, DropRest, Return
        <4> QED
          BY <3>5, <3>2, <4>1 DEF AcceptsDelete
      <3>6. ~Ignored(TRUE)
        BY <2>5 DEF Ignored
      <3> QED
        BY <1>5, <3>1, <3>3, <3>4, <3>5, <3>6
    <2>6. ASSUME NEW n \in Nics, n # at,
                 NEW k \in 1 .. 8 PROVE count'[n][k] = count[n][k]
      <3>1. n \in RuleIds
        BY NicFacts
      <3> QED
        BY <1>2, <2>1, <2>6, <3>1
    <2>7. ProcessType' /\ StopInv' /\ Prefix'
      BY <1>1, <1>5, <2>2, <2>5, <2>6, OnwardKeeps
    <2>8. OnlyInstalled'
      <3>1. CASE UNCHANGED count
        BY <3>1 DEF NetInv, OnlyInstalled
      <3>2. CASE at # ForwardDrop /\ count[at][left] > 0 /\ Gone
        BY <3>2 DEF NetInv, OnlyInstalled
      <3> QED
        BY <2>1, <3>1, <3>2
    <2>9. VpnProtected'
      <3>1. ~skipped => ups = {}
        BY <1>1 DEF NetInv, HostType, StopInv, StopLinks
      <3> QED
        BY <1>1, <2>2, <3>1 DEF VpnProtected
    <2>10. OffIsFresh' /\ StartInv' /\ MarkerIsTrue' /\ StopCleansUp'
      BY <2>3 DEF OffIsFresh, StartInv, MarkerIsTrue, StopCleansUp
    <2> QED
      BY <2>4, <2>7, <2>8, <2>9, <2>10 DEF NetInv
  <1> QED
    BY <1>3, <1>4, <1>5

\* At the end of the loop nothing is left.
LEMMA StoppedKeeps == NetInv /\ Stopped => NetInv'
  <1> SUFFICES ASSUME NetInv, Stopped PROVE NetInv'
    OBVIOUS
  <1>1. /\ phase = "undo" /\ at = LastNic + 1 /\ Ends /\ marker' = FALSE
        /\ UNCHANGED <<policy, count, links, ups, backup, torn, skipped, clean>>
    BY DEF Stopped, tables, history
  <1>2. HostType'
    BY <1>1 DEF NetInv, HostType
  <1>3. OnlyInstalled' /\ Prefix'
    BY <1>1, TablesKept DEF NetInv
  <1>4. ASSUME ~skipped, NEW id \in RuleIds \ {TcpPmtu}, NEW k \in 1 .. 8
        PROVE  count[id][k] = 0
    <2>1. CASE id \in Nics
      <3>1. id < at
        BY <1>1, NicFacts
      <3> QED
        BY <1>1, <1>4, <2>1, <3>1 DEF NetInv, StopInv, StopRules
    <2>2. CASE id = ForwardDrop
      BY <2>2 DEF NetInv, OnlyInstalled
    <2> QED
      BY <2>1, <2>2, NicFacts
  <1>5. StopCleansUp'
    BY <1>1, <1>4 DEF NetInv, StopInv, StopLinks, StopCleansUp
  <1>6. MarkerIsTrue' /\ VpnProtected'
    BY <1>1, EndsFacts DEF MarkerIsTrue, NetInv, VpnProtected
  <1> QED
    BY <1>1, <1>2, <1>3, <1>5, <1>6, EndsFacts DEF NetInv

\* A process that is killed leaves what it did.
LEMMA KilledKeeps == NetInv /\ Killed => NetInv'
  <1> SUFFICES ASSUME NetInv, Killed PROVE NetInv'
    OBVIOUS
  <1>1. /\ Ends /\ clean' = FALSE /\ torn' = (torn \/ phase \in Stopping)
        /\ UNCHANGED <<policy, count, links, ups, backup, marker, skipped>>
    BY DEF Killed, host, tables
  <1>2. HostType'
    BY <1>1 DEF NetInv, HostType
  <1>3. OnlyInstalled' /\ Prefix'
    BY <1>1, TablesKept DEF NetInv
  <1>4. StopCleansUp' /\ VpnProtected'
    BY <1>1 DEF NetInv, StopCleansUp, VpnProtected
  <1>5. MarkerIsTrue'
    BY <1>1, EndsFacts DEF NetInv, MarkerIsTrue, Complete
  <1> QED
    BY <1>1, <1>2, <1>3, <1>4, <1>5, EndsFacts DEF NetInv

\* A host that restarts has no interfaces and empty tables.
LEMMA RebootKeeps == NetInv /\ Reboot => NetInv'
  <1> SUFFICES ASSUME NetInv, Reboot PROVE NetInv'
    OBVIOUS
  <1>1. /\ phase = "off" /\ policy' \in {"ACCEPT", "DROP"} /\ count' = NoCopies
        /\ links' = {} /\ ups' = {} /\ marker' = FALSE
        /\ torn' = FALSE /\ skipped' = FALSE /\ clean' = TRUE
        /\ UNCHANGED <<backup, phase, at, left, assert_stopped, depth, up, created>>
    BY DEF Reboot, process, memory
  <1>2. HostType'
    BY <1>1, NoCopiesFacts DEF NetInv, HostType
  <1>3. ProcessType' /\ OffIsFresh'
    BY <1>1 DEF NetInv, ProcessType, OffIsFresh
  <1>4. OnlyInstalled' /\ Prefix'
    BY <1>1, TablesFlushed
  <1>5. StartInv' /\ MarkerIsTrue' /\ StopInv'
    BY <1>1 DEF StartInv, MarkerIsTrue, StopInv, StopMemory, StopLinks, StopRules,
       Stopping
  <1>6. StopCleansUp' /\ VpnProtected'
    BY <1>1, NoCopiesFacts DEF StopCleansUp, VpnProtected
  <1> QED
    BY <1>2, <1>3, <1>4, <1>5, <1>6 DEF NetInv

\* Every step preserves the invariant.
LEMMA NetStep == NetInv /\ [NetNext]_netVars => NetInv'
  <1> SUFFICES ASSUME NetInv, [NetNext]_netVars PROVE NetInv'
    OBVIOUS
  <1>1. CASE NetNext
    BY <1>1, StartNetKeeps, TakeOverKeeps, SaveKeeps, CreateKeeps, BringUpKeeps,
       InstallKeeps, StartFailsKeeps, StartedKeeps, StopNetKeeps, DownKeeps,
       TearDownKeeps, DeleteLinkKeeps, FlushIptablesKeeps, UndoBeginKeeps, UndoKeeps,
       StoppedKeeps, KilledKeeps, RebootKeeps DEF NetNext
  <1>2. CASE UNCHANGED netVars
    <2>1. UNCHANGED <<policy, count, links, ups, backup, marker, phase, at, left,
            assert_stopped,
                      depth, up, created, torn, skipped, clean>>
      BY <1>2 DEF netVars, host, tables, process, memory, history
    <2>2. HostType' /\ ProcessType' /\ OffIsFresh' /\ VpnProtected' /\ StopCleansUp'
      BY <2>1 DEF NetInv, HostType, ProcessType, OffIsFresh, VpnProtected, StopCleansUp
    <2>3. OnlyInstalled' /\ Prefix'
      BY <2>1, TablesKept DEF NetInv
    <2>4. StartInv'
      BY <2>1 DEF NetInv, StartInv, Recorded, StartedLinks, InstalledRules, Front
    <2>5. MarkerIsTrue' /\ StopInv'
      BY <2>1 DEF NetInv, MarkerIsTrue, Complete, StopInv, StopMemory, StopLinks,
         StopRules
    <2> QED
      BY <2>2, <2>3, <2>4, <2>5 DEF NetInv
  <1> QED
    BY <1>1, <1>2

\* The inductive invariant holds throughout, for any number of interfaces, of
\* starts and of faults (UvnNet, WireGuardInterface).
THEOREM NetInvCorrect == NetSpec => []NetInv
  BY InitNet, NetStep, PTL DEF NetSpec

\* A service that was started, or taken over on the word of its marker
\* (AgentService.take_over_static), is complete, unless a stop was cut short.
THEOREM StartedCorrect == NetSpec => []StartedIsComplete
  <1>1. NetInv => StartedIsComplete
    BY DEF NetInv, MarkerIsTrue, StartedIsComplete, Stopping
  <1> QED
    BY <1>1, NetInvCorrect, PTL

\* A stop that comes to its end (UvnNet._stop) removes the interfaces and the
\* rules of any number of starts and stops that failed or died before it.
THEOREM CleanUpCorrect == NetSpec => []StopCleansUp
  <1>1. NetInv => StopCleansUp
    BY DEF NetInv
  <1> QED
    BY <1>1, NetInvCorrect, PTL

\* At no moment of a start, a stop or a repair is a VPN interface up on a host
\* that forwards by default (UvnNet._start sets the policy first, and _stop
\* resets it once the interfaces are gone).
THEOREM ProtectedCorrect == NetSpec => []VpnProtected
  <1>1. NetInv => VpnProtected
    BY DEF NetInv
  <1> QED
    BY <1>1, NetInvCorrect, PTL

\* No start after a stop, or after a restart of the host, is refused by a
\* leftover (UvnNet._iptables_install, WireGuardInterface.bring_up).
THEOREM FreshStartCorrect == NetSpec => []FreshStartAccepted
  <1>1. ASSUME NetInv PROVE FreshStartAccepted
    <2> SUFFICES ASSUME phase = "starting", clean, ~skipped
                 PROVE  /\ Ready /\ Installed(at, NextRule) => AcceptsNew(at, NextRule)
                        /\ at \in created => at \in links
      BY DEF FreshStartAccepted
    <2>1. Recorded /\ StartedLinks /\ InstalledRules /\ Front
      BY <1>1 DEF NetInv, StartInv
    <2>2. ASSUME Ready, Installed(at, NextRule), at \in Nics
          PROVE  AcceptsNew(at, NextRule)
      <3>1. at \in RuleIds /\ depth[at] \in 0 .. 8 /\ NextRule = depth[at] + 1
              /\ NextRule \in 1 .. 8
        BY <1>1, <2>2, RuleFacts DEF Ready, NextRule, NetInv, ProcessType
      <3>2. NextRule = Chain => count[at][Chain] = 0
        BY <2>1, <2>2, <3>1 DEF Front
      <3>3. ASSUME NextRule \in InChain \cup {Jump} PROVE count[at][Chain] > 0
        <4>1. Chain \in 1 .. 8 /\ Chain <= depth[at] /\ Installed(at, Chain)
                /\ at # ForwardDrop
          BY <2>2, <3>1, <3>3, NicFacts, RuleFacts DEF InChain, Chain, Jump, Related,
             Subnets, DropRest, Return, Installed, DockerUser, Nat_
        <4> QED
          BY <2>1, <3>1, <4>1 DEF InstalledRules
      <3> QED
        BY <3>2, <3>3 DEF AcceptsNew
    <2> QED
      BY <2>1, <2>2 DEF StartedLinks, AcceptsNew
  <1> QED
    BY <1>1, NetInvCorrect, PTL

=============================================================================
