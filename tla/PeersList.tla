------------------------------ MODULE PeersList ------------------------------
(***************************************************************************)
(* The list of peers that every uno agent keeps (agent/uvn_peers_list.py,  *)
(* agent/uvn_peer.py) and the agent's handlers that feed it                *)
(* (agent/agent.py): what the agent believes about the registry, the cells *)
(* and the particles of its UVN, the five summary flags it derives, the    *)
(* events it hands to its listeners, and what the listeners write out.     *)
(*                                                                         *)
(* The agent's main thread runs one handler at a time (participant.spin),  *)
(* so a handler is one action.  The middleware may call the handlers in    *)
(* any order; the reachability tester runs in a thread of its own, and its *)
(* result reaches the list later, through a condition.                     *)
(*                                                                         *)
(* Abstractions: a LAN stands for its LanDescriptor and its subnet; a      *)
(* peer's instance and writer handles, always assigned and reset together, *)
(* are one bit; a peer has one VPN interface; timestamps, logging, plots   *)
(* and the web UI are left out; a test reads the attached LANs in one step *)
(* and is delivered in another.                                            *)
(***************************************************************************)
EXTENDS FiniteSets, Naturals

CONSTANTS
    Cells,        \* every cell of the UVN (uvn.all_cells)
    Excluded,     \* the banned ones: uvn.cells is Cells \ Excluded
    Particles,    \* the particles of the UVN
    Registry,     \* the peer of the registry's own agent
    LocalPeer,    \* the peer this agent is: the registry, or a cell
    Lans,         \* networks that cells may attach
    AllowedLans,  \* the networks each cell is configured to attach
    LocalLans,    \* the networks attached to this agent's host
    ConfigIds,    \* identifiers of registry configurations
    CellInfos,    \* for each cell, the contents of the samples it may publish
    VpnPeers      \* the peers behind one of this agent's VPN interfaces

UvnCells == Cells \ Excluded
Peers == {Registry} \cup Cells \cup Particles
Statuses == {"DECLARED", "ONLINE", "OFFLINE"}

\* The value of registry_id before a peer announces one.
NoConfig == "none"

\* What a peer knows of some networks: LAN -> reachable?
KnownNetworks == UNION {[L -> BOOLEAN] : L \in SUBSET Lans}
NoNetworks == [lan \in {} |-> FALSE]

\* The tester's _last_result while its condition is not active.
NoResult == [pending |-> FALSE, known |-> NoNetworks]

CellInfo == [registry_id : ConfigIds, routed : SUBSET Lans, known : KnownNetworks]

ASSUME PeersAssumption ==
    /\ IsFiniteSet(Cells) /\ UvnCells # {}
    /\ Excluded \subseteq Cells
    /\ Registry \notin Cells \cup Particles
    /\ Cells \cap Particles = {}
    /\ LocalPeer \in UvnCells \cup {Registry}
    /\ VpnPeers \subseteq Peers

ASSUME DataAssumption ==
    /\ AllowedLans \in [Cells -> SUBSET Lans]
    /\ LocalLans \subseteq Lans
    /\ LocalPeer = Registry => LocalLans = {}
    /\ NoConfig \notin ConfigIds
    /\ CellInfos \in [Cells -> SUBSET CellInfo]

VARIABLES
    config,        \* agent.config_id
    stale_db,      \* the database still holds routed networks of a crashed run
    status,        \* per peer: DECLARED, ONLINE or OFFLINE
    registry_id,   \* per peer: the configuration it announced
    routed,        \* per peer: routed_networks
    known,         \* per peer: known_networks
    handles,       \* the peers whose instance and writer handles are set
    vpn_online,    \* the peers whose VPN interface is online
    status_all_cells_connected,
    status_registry_connected,
    status_routed_networks_discovered,
    status_consistent_config_uvn,
    status_fully_routed_uvn,
    view,          \* what the listeners have been told, added up
    triggered,     \* the reachability tester has been triggered
    last_result,   \* the tester's result, not yet applied
    published,     \* the networks this cell last published as reachable
    known_file     \* contents of the known networks file

flags == <<status_all_cells_connected, status_registry_connected,
           status_routed_networks_discovered, status_consistent_config_uvn,
           status_fully_routed_uvn>>
peers == <<status, registry_id, routed, known, handles, vpn_online>>
outputs == <<view, triggered, published, known_file>>
vars == <<config, stale_db, peers, flags, outputs, last_result>>

IsCellAgent == LocalPeer \in Cells
Running == status[LocalPeer] = "ONLINE"

-----------------------------------------------------------------------------
(* Derived sets, each one a property of UvnPeersList.                      *)

online_cells == {c \in UvnCells : status[c] = "ONLINE"}
consistent_config_cells == {c \in UvnCells : registry_id[c] = config}
expected_subnets == UNION {AllowedLans[c] : c \in UvnCells}
routed_subnets == UNION {routed[c] : c \in UvnCells}
reachable_networks(p) == {lan \in DOMAIN known[p] : known[p][lan]}

fully_routed_cells ==
    {c \in UvnCells : /\ expected_subnets # {}
                      /\ expected_subnets \subseteq reachable_networks(c)}

RoutedPairs == {pair \in Peers \X Lans : pair[2] \in routed[pair[1]]}
WithStatus(S, s) == {p \in S : status[p] = s}

-----------------------------------------------------------------------------
(* UvnPeersList._process_updates: compares the tracked values before and   *)
(* after an update, recomputes the flags an update can affect, and         *)
(* notifies the listeners if the local peer is (now) online.               *)

\* Mutation of Notify: the local status is read before the update.
NotifyOnOldStatus == status[LocalPeer] = "ONLINE"

Notify == status'[LocalPeer] = "ONLINE"

StatusChanged(S) ==
    {p \in S : status'[p] # status[p] /\ status'[p] \in {"ONLINE", "OFFLINE"}}
\* Mutation of RoutedChanged: a network that is detached goes unnoticed.
RoutedChangedOnAttach == \E p \in Peers : routed'[p] \ routed[p] # {}
RoutedChanged == stale_db \/ routed' # routed

\* Mutation of ConsistentChanged: a cell that moves away from this agent's
\* configuration goes unnoticed.
ConsistentChangedOnNew(tracked) ==
    {p \in tracked \ {Registry} : registry_id[p] # config' /\ registry_id'[p] = config'}

ConsistentChanged(tracked) ==
    {p \in tracked \ {Registry} :
        (registry_id[p] = config') # (registry_id'[p] = config')}

\* Mutation of ReachableChanged: a network is new, so nothing changed.
ReachableChangedOnKnown(p) ==
    {lan \in DOMAIN known[p] \cap DOMAIN known'[p] : known'[p][lan] # known[p][lan]}

\* A LanStatus whose "reachable" was assigned a different value. A network
\* that is gone leaves no trace; a new one starts out as unreachable.
ReachableChanged(p) ==
    {lan \in DOMAIN known'[p] :
        known'[p][lan] # (lan \in DOMAIN known[p] /\ known[p][lan])}

AllCellsConnectedUpdate ==
    status_all_cells_connected' =
        IF StatusChanged(Cells) # {}
        THEN Cardinality(online_cells') = Cardinality(UvnCells)
        ELSE status_all_cells_connected

RegistryConnectedUpdate ==
    status_registry_connected' =
        IF StatusChanged({Registry}) # {}
        THEN status'[Registry] = "ONLINE"
        ELSE status_registry_connected

RoutedNetworksDiscoveredUpdate ==
    status_routed_networks_discovered' =
        IF RoutedChanged
        THEN routed_subnets' = expected_subnets
        ELSE status_routed_networks_discovered

ConsistentConfigUpdate(tracked) ==
    status_consistent_config_uvn' =
        IF ConsistentChanged(tracked) # {}
        THEN Cardinality(consistent_config_cells') = Cardinality(UvnCells)
        ELSE status_consistent_config_uvn

FullyRoutedUpdate ==
    status_fully_routed_uvn' =
        IF \E p \in Peers : ReachableChanged(p) # {}
        THEN Cardinality(fully_routed_cells') = Cardinality(UvnCells)
        ELSE status_fully_routed_uvn

\* What the listeners have added up from the events they were handed.
Told(before, changed, is) == (before \ changed) \cup (changed \cap is)

ViewUpdate(tracked) ==
    view' =
        IF ~Notify THEN view
        ELSE [online |-> Told(view.online, StatusChanged(Peers), WithStatus(Peers, "ONLINE")'),
              routed |-> IF RoutedChanged
                         THEN (view.routed \cup (RoutedPairs' \ RoutedPairs))
                                 \ (RoutedPairs \ RoutedPairs')
                         ELSE view.routed,
              consistent |-> Told(view.consistent, ConsistentChanged(tracked),
                                  {p \in Peers : registry_id'[p] = config'})]

\* The agent's listeners: the tester is triggered by three of the events,
\* the known networks file and the cell's own sample are written by two.
TesterTriggered ==
    \/ StatusChanged(Cells) # {}
    \/ RoutedChanged
    \/ \E p \in Peers \ {LocalPeer} : ReachableChanged(p) # {}

\* Mutation of WriteKnownNetworksFile: it is written before the update.
WriteKnownNetworksFileEarly ==
    known_file' =
        IF Notify /\ RoutedChanged /\ IsCellAgent
        THEN UNION {routed[p] : p \in Peers} \ LocalLans
        ELSE known_file

WriteKnownNetworksFile ==
    known_file' =
        IF Notify /\ RoutedChanged /\ IsCellAgent
        THEN UNION {routed'[p] : p \in Peers} \ LocalLans
        ELSE known_file

\* Mutation of PublishCellInfo: published when other cells' networks change.
PublishCellInfoOnRemote ==
    published' =
        IF Notify /\ IsCellAgent
           /\ \E p \in Peers \ {LocalPeer} : ReachableChanged(p) # {}
        THEN reachable_networks(LocalPeer)'
        ELSE published

PublishCellInfo ==
    published' =
        IF Notify /\ ReachableChanged(LocalPeer) # {} /\ IsCellAgent
        THEN reachable_networks(LocalPeer)'
        ELSE published

\* tracked: the peers whose registry_id was assigned through its setter.
ProcessUpdates(tracked) ==
    /\ AllCellsConnectedUpdate
    /\ RegistryConnectedUpdate
    /\ RoutedNetworksDiscoveredUpdate
    /\ ConsistentConfigUpdate(tracked)
    /\ FullyRoutedUpdate
    /\ ViewUpdate(tracked)
    /\ triggered' = (triggered \/ (Notify /\ TesterTriggered))
    /\ WriteKnownNetworksFile
    /\ stale_db' = FALSE

-----------------------------------------------------------------------------
(* The life of the list within a process, and across processes.            *)

FreshView == [online |-> {}, routed |-> {}, consistent |-> {}]

Init ==
    /\ config \in ConfigIds
    /\ stale_db = FALSE
    /\ status = [p \in Peers |-> "DECLARED"]
    /\ registry_id = [p \in Peers |-> NoConfig]
    /\ routed = [p \in Peers |-> {}]
    /\ known = [p \in Peers |-> NoNetworks]
    /\ handles = {}
    /\ vpn_online = {}
    /\ status_all_cells_connected = FALSE
    /\ status_registry_connected = FALSE
    /\ status_routed_networks_discovered = FALSE
    /\ status_consistent_config_uvn = FALSE
    /\ status_fully_routed_uvn = FALSE
    /\ view = FreshView
    /\ triggered = FALSE
    /\ last_result = NoResult
    /\ published = {}
    /\ known_file = {}

\* UvnPeersList.load_nested, in a new process or in a new Agent object: the
\* peers in the database are reset; the agent may have a new configuration.
LoadNested ==
    /\ config' \in ConfigIds
    /\ status' = [p \in Peers |-> "DECLARED"]
    /\ registry_id' = [p \in Peers |-> NoConfig]
    /\ routed' = [p \in Peers |-> {}]
    /\ known' = [p \in Peers |-> NoNetworks]
    /\ handles' = {}
    /\ vpn_online' = {}
    /\ status_all_cells_connected' = FALSE
    /\ status_registry_connected' = FALSE
    /\ status_routed_networks_discovered' = FALSE
    /\ status_consistent_config_uvn' = FALSE
    /\ status_fully_routed_uvn' = FALSE
    /\ view' = FreshView
    /\ triggered' = FALSE
    /\ last_result' = NoResult
    /\ published' = {}
    /\ UNCHANGED known_file

\* The agent stopped (or asked to be reloaded) and a new one is opened.
Reload ==
    /\ status[LocalPeer] = "OFFLINE"
    /\ LoadNested
    /\ stale_db' = FALSE

\* The process dies without running peers.offline(), and is started again.
\* The reset of routed_networks in load_nested is a tracked change that no
\* one saves: the first _process_updates will see it.
Crash ==
    /\ Running
    /\ LoadNested
    /\ stale_db' = (\E p \in Peers : routed[p] # {})

\* Agent._on_started: online(), and the first sample of a cell.
Online ==
    /\ status[LocalPeer] = "DECLARED"
    /\ status' = [status EXCEPT ![LocalPeer] = "ONLINE"]
    /\ registry_id' = [registry_id EXCEPT ![LocalPeer] = config]
    /\ routed' = [routed EXCEPT ![LocalPeer] = LocalLans]
    /\ UNCHANGED <<config, known, handles, vpn_online, last_result>>
    /\ ProcessUpdates({LocalPeer})
    /\ published' = IF IsCellAgent THEN reachable_networks(LocalPeer) ELSE published

\* UvnPeersList.offline, when the agent's contexts exit. A reset of
\* registry_id goes around its setter, and is not a tracked change.
Offline ==
    /\ Running
    /\ status' = [p \in Peers |-> "OFFLINE"]
    /\ registry_id' = [p \in Peers |-> NoConfig]
    /\ routed' = [p \in Peers |-> {}]
    /\ known' = [p \in Peers |-> NoNetworks]
    /\ handles' = {}
    /\ vpn_online' = {}
    /\ UNCHANGED <<config, last_result>>
    /\ ProcessUpdates({})
    /\ PublishCellInfo

-----------------------------------------------------------------------------
(* The handlers of the middleware's events.                                *)

\* A sample from a cell of this UVN. Samples of other UVNs, and of cells
\* that are banned or unknown, are ignored; a cell does not read its own.
OnCellInfo(c, info) ==
    /\ Running
    /\ c \in UvnCells \ {LocalPeer}
    /\ status' = [status EXCEPT ![c] = "ONLINE"]
    /\ registry_id' = [registry_id EXCEPT ![c] = info.registry_id]
    /\ routed' = [routed EXCEPT ![c] = info.routed]
    /\ known' = [known EXCEPT ![c] = info.known]
    /\ handles' = handles \cup {c}
    /\ UNCHANGED <<config, vpn_online, last_result>>
    /\ ProcessUpdates({c})
    /\ PublishCellInfo

\* A sample from the registry's agent, which only cells subscribe to.
OnUvnInfo(id) ==
    /\ Running
    /\ LocalPeer # Registry
    /\ status' = [status EXCEPT ![Registry] = "ONLINE"]
    /\ registry_id' = [registry_id EXCEPT ![Registry] = id]
    /\ handles' = handles \cup {Registry}
    /\ UNCHANGED <<config, routed, known, vpn_online, last_result>>
    /\ ProcessUpdates({Registry})
    /\ PublishCellInfo

\* The assignment of one status to some peers, with nothing else.
SetStatus(S, s) ==
    /\ status' = [p \in Peers |-> IF p \in S THEN s ELSE status[p]]
    /\ UNCHANGED <<config, registry_id, routed, known, handles, last_result>>
    /\ ProcessUpdates({})
    /\ PublishCellInfo

\* The peer's instance has no writers left. An instance no peer has, is
\* ignored.
OnInstanceOffline(p) ==
    /\ Running
    /\ p \in handles
    /\ UNCHANGED vpn_online
    /\ SetStatus({p}, "OFFLINE")

\* The writers the middleware matches, for the cells or for the registry:
\* offline peers with one of those writers are marked online.
OnRemoteWritersStatus(S) ==
    /\ Running
    /\ S # {}
    /\ S \subseteq {p \in handles : status[p] = "OFFLINE"}
    /\ S \subseteq Cells \/ S = {Registry}
    /\ UNCHANGED vpn_online
    /\ SetStatus(S, "ONLINE")

\* Agent._update_peer_vpn_stats, for one peer. Only the status of a
\* particle follows its VPN interface.
UpdatePeerVpnStats(p, online) ==
    /\ Running
    /\ p \in VpnPeers
    /\ online # (p \in vpn_online)
    /\ vpn_online' = IF online THEN vpn_online \cup {p} ELSE vpn_online \ {p}
    /\ SetStatus(IF p \in Particles /\ online THEN {p} ELSE {}, "ONLINE")

-----------------------------------------------------------------------------
(* The tester of a cell's agent (agent/uvn_peers_tester.py).               *)

\* Its thread wakes up on a trigger, or after max_trigger_delay without
\* one, and pings the networks attached to the cells.
TesterTest(result) ==
    /\ Running
    /\ IsCellAgent
    /\ DOMAIN result = routed_subnets
    /\ last_result' = [pending |-> TRUE, known |-> result]
    /\ triggered' = FALSE
    /\ UNCHANGED <<config, stale_db, peers, flags, view, published, known_file>>

\* Mutation of TesterUpdates: networks that do not answer are dropped.
TesterUpdatesOnlyReachable ==
    /\ Running
    /\ last_result.pending
    /\ known' = [known EXCEPT ![LocalPeer] =
                    [lan \in {l \in DOMAIN last_result.known : last_result.known[l]} |-> TRUE]]
    /\ last_result' = NoResult
    /\ UNCHANGED <<config, status, registry_id, routed, handles, vpn_online>>
    /\ ProcessUpdates({})
    /\ PublishCellInfo

\* The main thread finds the tester's condition active.
TesterUpdates ==
    /\ Running
    /\ last_result.pending
    /\ known' = [known EXCEPT ![LocalPeer] = last_result.known]
    /\ last_result' = NoResult
    /\ UNCHANGED <<config, status, registry_id, routed, handles, vpn_online>>
    /\ ProcessUpdates({})
    /\ PublishCellInfo

Next ==
    \/ Reload
    \/ Crash
    \/ Online
    \/ Offline
    \/ \E c \in Cells : \E info \in CellInfos[c] : OnCellInfo(c, info)
    \/ \E id \in ConfigIds : OnUvnInfo(id)
    \/ \E p \in Peers : OnInstanceOffline(p)
    \/ \E S \in SUBSET Peers : OnRemoteWritersStatus(S)
    \/ \E p \in VpnPeers, online \in BOOLEAN : UpdatePeerVpnStats(p, online)
    \/ \E result \in [routed_subnets -> BOOLEAN] : TesterTest(result)
    \/ TesterUpdates

Spec == Init /\ [][Next]_vars

\* The tester's loop always runs again, and the main loop waits on the
\* tester's condition together with the others.
Fairness ==
    /\ WF_vars(\E result \in [routed_subnets -> BOOLEAN] : TesterTest(result))
    /\ WF_vars(TesterUpdates)

FairSpec == Spec /\ Fairness

-----------------------------------------------------------------------------
(* Properties.                                                             *)

\* Every variable has its type.
TypeOK ==
    /\ config \in ConfigIds
    /\ stale_db \in BOOLEAN
    /\ status \in [Peers -> Statuses]
    /\ registry_id \in [Peers -> ConfigIds \cup {NoConfig}]
    /\ routed \in [Peers -> SUBSET Lans]
    /\ known \in [Peers -> KnownNetworks]
    /\ handles \subseteq Peers
    /\ vpn_online \subseteq Peers
    /\ status_all_cells_connected \in BOOLEAN
    /\ status_registry_connected \in BOOLEAN
    /\ status_routed_networks_discovered \in BOOLEAN
    /\ status_consistent_config_uvn \in BOOLEAN
    /\ status_fully_routed_uvn \in BOOLEAN
    /\ view \in [online : SUBSET Peers,
                 routed : SUBSET (Peers \X Lans),
                 consistent : SUBSET Peers]
    /\ triggered \in BOOLEAN
    /\ last_result \in [pending : BOOLEAN, known : KnownNetworks]
    /\ published \subseteq Lans
    /\ known_file \subseteq Lans

\* The flag a registry waits for before it pushes a rekeyed configuration,
\* recomputed from counts and only when a cell's status changes, says
\* exactly that every cell that is not banned is online.
AllCellsConnectedAccurate ==
    status_all_cells_connected <=> \A c \in UvnCells : status[c] = "ONLINE"

\* The flag that is assigned, not recomputed, when the registry's peer
\* changes status says exactly that the registry is online.
RegistryConnectedAccurate ==
    status_registry_connected <=> status[Registry] = "ONLINE"

\* In a UVN with networks, the flag recomputed only on changes of some
\* peer's attached networks says exactly that the cells attach the expected
\* ones, also after a crash left other values in the database.
RoutedDiscoveredAccurate ==
    expected_subnets # {} =>
        (status_routed_networks_discovered <=> routed_subnets = expected_subnets)

\* While the agent runs, the flag a registry's sync waits for says exactly
\* that every cell announced this agent's configuration.
ConsistentConfigAccurate ==
    Running =>
        (status_consistent_config_uvn <=> \A c \in UvnCells : registry_id[c] = config)

\* Sync never waits for a UVN that is already fully routed: the flag is set
\* whenever every cell reaches every expected network.
FullyRoutedNotMissed ==
    (\A c \in UvnCells : c \in fully_routed_cells) => status_fully_routed_uvn

\* While the agent runs, a listener that adds up the events of
\* _process_updates knows which peers are online, which networks are
\* attached where, and which cells have this agent's configuration.
ListenersInSync ==
    Running =>
        /\ view.online = WithStatus(Peers, "ONLINE")
        /\ view.routed = RoutedPairs
        /\ view.consistent = {p \in Peers \ {Registry} : registry_id[p] = config}

\* Other agents are never left unaware of a network this cell reaches: the
\* cell's last sample lists it.
ReachableIsPublished ==
    Running /\ IsCellAgent => reachable_networks(LocalPeer) \subseteq published

\* The file of known networks of a cell with networks lists those that the
\* other peers attach, whatever run of the agent wrote it last.
KnownNetworksFileAccurate ==
    Running /\ IsCellAgent /\ LocalLans # {} =>
        known_file = UNION {routed[p] : p \in Peers} \ LocalLans

\* A network that a cell attaches is in the end tested by a running cell's
\* agent, unless it is detached or the agent stops.
AttachedIsTested ==
    \A lan \in Lans :
        (Running /\ IsCellAgent /\ lan \in routed_subnets)
            ~> (~Running \/ lan \notin routed_subnets \/ lan \in DOMAIN known[LocalPeer])

=============================================================================
