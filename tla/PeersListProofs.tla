--------------------------- MODULE PeersListProofs ---------------------------
(***************************************************************************)
(* Proofs about PeersList, for every UVN: the types, and that the summary  *)
(* flags say what they claim to say.                                       *)
(***************************************************************************)
EXTENDS PeersList, FiniteSetTheorems, TLAPS

-----------------------------------------------------------------------------
(* Facts about the data.                                                   *)

\* What a peer knows of some networks is about networks.
LEMMA KnownDomain == \A k \in KnownNetworks : DOMAIN k \subseteq Lans
  BY DEF KnownNetworks

\* Knowing nothing, and the result of a test of some networks, are both
\* values of known_networks.
LEMMA KnownValues ==
    /\ NoNetworks \in KnownNetworks
    /\ \A L \in SUBSET Lans : [L -> BOOLEAN] \subseteq KnownNetworks
  <1>1. \A L \in SUBSET Lans : [L -> BOOLEAN] \subseteq KnownNetworks
    BY DEF KnownNetworks
  <1>2. {} \in SUBSET Lans
    OBVIOUS
  <1>3. NoNetworks \in [{} -> BOOLEAN]
    BY DEF NoNetworks
  <1> QED
    BY <1>1, <1>2, <1>3

\* Counting cells, as the code does, compares sets of cells.
LEMMA CountIsAll ==
    ASSUME NEW S \in SUBSET UvnCells
    PROVE  Cardinality(S) = Cardinality(UvnCells) <=> S = UvnCells
  <1>1. IsFiniteSet(UvnCells)
    BY PeersAssumption, FS_Subset DEF UvnCells
  <1> QED
    BY <1>1, FS_Subset

\* A cell's sample has the parts of a CellInfo.
LEMMA CellInfoParts ==
    ASSUME NEW c \in Cells, NEW info \in CellInfos[c]
    PROVE  /\ info.registry_id \in ConfigIds
           /\ info.routed \in SUBSET Lans
           /\ info.known \in KnownNetworks
  <1>1. info \in CellInfo
    BY DataAssumption
  <1> QED
    BY <1>1 DEF CellInfo

-----------------------------------------------------------------------------
(* Type correctness.  CoreType is the part of TypeOK that the handlers     *)
(* assign; _process_updates assigns the rest from it.                      *)

CoreType ==
    /\ config \in ConfigIds
    /\ status \in [Peers -> Statuses]
    /\ registry_id \in [Peers -> ConfigIds \cup {NoConfig}]
    /\ routed \in [Peers -> SUBSET Lans]
    /\ known \in [Peers -> KnownNetworks]
    /\ handles \in SUBSET Peers
    /\ vpn_online \in SUBSET Peers
    /\ last_result \in [pending : BOOLEAN, known : KnownNetworks]

DerivedType ==
    /\ stale_db \in BOOLEAN
    /\ status_all_cells_connected \in BOOLEAN
    /\ status_registry_connected \in BOOLEAN
    /\ status_routed_networks_discovered \in BOOLEAN
    /\ status_consistent_config_uvn \in BOOLEAN
    /\ status_fully_routed_uvn \in BOOLEAN
    /\ view \in [online : SUBSET Peers,
                 routed : SUBSET (Peers \X Lans),
                 consistent : SUBSET Peers]
    /\ triggered \in BOOLEAN
    /\ known_file \in SUBSET Lans

\* The type invariant, in the parts that different steps assign.
LEMMA TypeParts == TypeOK <=> CoreType /\ DerivedType /\ published \in SUBSET Lans
  BY DEF TypeOK, CoreType, DerivedType

\* The local peer, the registry and the cells are all peers.
LEMMA LocalIsPeer == LocalPeer \in Peers /\ Registry \in Peers /\ Cells \subseteq Peers
                        /\ UvnCells \subseteq Peers
  BY PeersAssumption DEF Peers, UvnCells

\* The initial state is well typed.
LEMMA InitType == Init => TypeOK
  <1> SUFFICES ASSUME Init PROVE TypeOK
    OBVIOUS
  <1>1. NoResult \in [pending : BOOLEAN, known : KnownNetworks]
    BY KnownValues DEF NoResult
  <1>2. FreshView \in [online : SUBSET Peers,
                       routed : SUBSET (Peers \X Lans),
                       consistent : SUBSET Peers]
    BY DEF FreshView
  <1> QED
    BY <1>1, <1>2, KnownValues DEF Init, TypeOK, Statuses

\* So is the state that load_nested leaves.
LEMMA LoadType ==
    ASSUME TypeOK, LoadNested, stale_db' \in BOOLEAN
    PROVE  TypeOK'
  <1>1. NoResult \in [pending : BOOLEAN, known : KnownNetworks]
    BY KnownValues DEF NoResult
  <1>2. FreshView \in [online : SUBSET Peers,
                       routed : SUBSET (Peers \X Lans),
                       consistent : SUBSET Peers]
    BY DEF FreshView
  <1> QED
    BY <1>1, <1>2, KnownValues DEF LoadNested, TypeOK, Statuses

\* _process_updates preserves the types of what it assigns.
LEMMA DerivedTypeUpdate ==
    ASSUME TypeOK, CoreType', NEW tracked \in SUBSET Peers, ProcessUpdates(tracked)
    PROVE  DerivedType'
  <1>1. /\ status_all_cells_connected' \in BOOLEAN
        /\ status_registry_connected' \in BOOLEAN
        /\ status_routed_networks_discovered' \in BOOLEAN
    BY DEF ProcessUpdates, AllCellsConnectedUpdate, RegistryConnectedUpdate,
           RoutedNetworksDiscoveredUpdate, TypeOK
  <1>2. /\ status_consistent_config_uvn' \in BOOLEAN
        /\ status_fully_routed_uvn' \in BOOLEAN
    BY DEF ProcessUpdates, ConsistentConfigUpdate, FullyRoutedUpdate, TypeOK
  <1>3. triggered' \in BOOLEAN /\ stale_db' \in BOOLEAN
    BY DEF ProcessUpdates, Notify, TesterTriggered, RoutedChanged, TypeOK
  <1>4. known_file' \in SUBSET Lans
    BY DEF ProcessUpdates, WriteKnownNetworksFile, TypeOK, CoreType
  <1>5. view' \in [online : SUBSET Peers,
                   routed : SUBSET (Peers \X Lans),
                   consistent : SUBSET Peers]
    <2>1. CASE ~Notify
      BY <2>1 DEF ProcessUpdates, ViewUpdate, TypeOK
    <2>2. CASE Notify
      <3> DEFINE online == Told(view.online, StatusChanged(Peers), WithStatus(Peers, "ONLINE")')
                 pairs == IF RoutedChanged
                          THEN (view.routed \cup (RoutedPairs' \ RoutedPairs))
                                 \ (RoutedPairs \ RoutedPairs')
                          ELSE view.routed
                 consistent == Told(view.consistent, ConsistentChanged(tracked),
                                    {p \in Peers : registry_id'[p] = config'})
      <3>1. view' = [online |-> online, routed |-> pairs, consistent |-> consistent]
        BY <2>2 DEF ProcessUpdates, ViewUpdate
      <3>2. online \in SUBSET Peers
        BY DEF Told, StatusChanged, TypeOK
      <3>3. pairs \in SUBSET (Peers \X Lans)
        <4>1. RoutedPairs \in SUBSET (Peers \X Lans) /\ RoutedPairs' \in SUBSET (Peers \X Lans)
          BY DEF RoutedPairs
        <4> QED
          BY <4>1 DEF TypeOK
      <3>4. consistent \in SUBSET Peers
        BY DEF Told, ConsistentChanged, TypeOK
      <3> HIDE DEF online, pairs, consistent
      <3> QED
        BY <3>1, <3>2, <3>3, <3>4
    <2> QED
      BY <2>1, <2>2
  <1> QED
    BY <1>1, <1>2, <1>3, <1>4, <1>5 DEF DerivedType

\* A cell publishes networks that it knows.
LEMMA PublishedType ==
    ASSUME TypeOK, CoreType', PublishCellInfo
    PROVE  published' \in SUBSET Lans
  <1>1. known'[LocalPeer] \in KnownNetworks
    BY LocalIsPeer DEF CoreType
  <1> QED
    BY <1>1, KnownDomain DEF PublishCellInfo, reachable_networks, TypeOK

-----------------------------------------------------------------------------
(* Every step of the specification has one of a few shapes.                *)

\* A step in which the list's update is processed: the statuses it assigns
\* are ONLINE or OFFLINE, and the configurations it assigns are tracked.
Update(tracked) ==
    /\ config' = config
    /\ CoreType'
    /\ \A p \in Peers : status'[p] = status[p] \/ status'[p] \in {"ONLINE", "OFFLINE"}
    /\ ProcessUpdates(tracked)

\* A handler that runs between Online and Offline.
Handled(tracked) ==
    /\ Running /\ Running'
    /\ Update(tracked)
    /\ \A p \in Peers \ tracked : registry_id'[p] = registry_id[p]
    /\ PublishCellInfo

\* Between Online and Offline no instance is the local peer's.
LocalUnhandled == LocalPeer \notin handles

\* A cell's sample is an update whose only tracked configuration is its own.
LEMMA OnCellInfoShape ==
    ASSUME TypeOK, NEW c \in Cells, NEW info \in CellInfos[c], OnCellInfo(c, info)
    PROVE  c \in Peers /\ Handled({c}) /\ LocalUnhandled' = LocalUnhandled
  <1>1. c \in Peers /\ c # LocalPeer
    BY LocalIsPeer DEF OnCellInfo, UvnCells
  <1>2. CoreType'
    BY <1>1, CellInfoParts DEF OnCellInfo, TypeOK, CoreType, Statuses
  <1> QED
    BY <1>1, <1>2, LocalIsPeer
    DEF OnCellInfo, Handled, Update, Running, LocalUnhandled, TypeOK

\* So is a sample of the registry.
LEMMA OnUvnInfoShape ==
    ASSUME TypeOK, NEW id \in ConfigIds, OnUvnInfo(id)
    PROVE  Handled({Registry}) /\ LocalUnhandled' = LocalUnhandled
  <1>1. CoreType'
    BY LocalIsPeer DEF OnUvnInfo, TypeOK, CoreType, Statuses
  <1> QED
    BY <1>1, LocalIsPeer DEF OnUvnInfo, Handled, Update, Running, LocalUnhandled, TypeOK

\* A change of status is an update that tracks no configuration.
LEMMA SetStatusShape ==
    ASSUME TypeOK, Running, NEW S \in SUBSET Peers, NEW s \in {"ONLINE", "OFFLINE"},
           LocalPeer \in S => s = "ONLINE",
           vpn_online' \in SUBSET Peers, SetStatus(S, s)
    PROVE  Handled({}) /\ handles' = handles
  <1>1. CoreType'
    BY LocalIsPeer DEF SetStatus, TypeOK, CoreType, Statuses
  <1> QED
    BY <1>1, LocalIsPeer DEF SetStatus, Handled, Update, Running, TypeOK

\* A lost instance is never the local peer's.
LEMMA OnInstanceOfflineShape ==
    ASSUME TypeOK, LocalUnhandled, NEW p \in Peers, OnInstanceOffline(p)
    PROVE  Handled({}) /\ handles' = handles
  BY SetStatusShape DEF OnInstanceOffline, LocalUnhandled, TypeOK

\* Matched writers change the status of peers that were offline.
LEMMA OnRemoteWritersStatusShape ==
    ASSUME TypeOK, NEW S \in SUBSET Peers, OnRemoteWritersStatus(S)
    PROVE  Handled({}) /\ handles' = handles
  BY SetStatusShape DEF OnRemoteWritersStatus, TypeOK

\* Statistics of the VPNs change the status of particles only.
LEMMA UpdatePeerVpnStatsShape ==
    ASSUME TypeOK, NEW p \in VpnPeers, NEW online \in BOOLEAN, UpdatePeerVpnStats(p, online)
    PROVE  Handled({}) /\ handles' = handles
  <1>1. p \in Peers
    BY PeersAssumption
  <1>2. vpn_online' \in SUBSET Peers
    BY <1>1 DEF UpdatePeerVpnStats, TypeOK
  <1>3. (IF p \in Particles /\ online THEN {p} ELSE {}) \in SUBSET Peers
    BY <1>1
  <1> QED
    BY <1>2, <1>3, SetStatusShape DEF UpdatePeerVpnStats

\* The tester's result changes what the local peer knows.
LEMMA TesterUpdatesShape ==
    ASSUME TypeOK, TesterUpdates
    PROVE  Handled({}) /\ handles' = handles
  <1>1. NoResult \in [pending : BOOLEAN, known : KnownNetworks]
    BY KnownValues DEF NoResult
  <1>2. last_result.known \in KnownNetworks
    BY DEF TypeOK
  <1>3. CoreType'
    BY <1>1, <1>2, LocalIsPeer DEF TesterUpdates, TypeOK, CoreType
  <1> QED
    BY <1>3 DEF TesterUpdates, Handled, Update, Running

\* Going online is an update that tracks the local configuration.
LEMMA OnlineShape ==
    ASSUME TypeOK, Online
    PROVE  Update({LocalPeer}) /\ Running' /\ published' \in SUBSET Lans
  <1>1. CoreType'
    BY LocalIsPeer, DataAssumption DEF Online, TypeOK, CoreType, Statuses
  <1>2. known[LocalPeer] \in KnownNetworks
    BY LocalIsPeer DEF TypeOK
  <1> QED
    BY <1>1, <1>2, LocalIsPeer, KnownDomain
    DEF Online, Update, Running, TypeOK, reachable_networks

\* Going offline is an update that tracks no configuration.
LEMMA OfflineShape ==
    ASSUME TypeOK, Offline
    PROVE  Update({}) /\ ~Running' /\ PublishCellInfo
  <1>1. CoreType'
    BY KnownValues DEF Offline, TypeOK, CoreType, Statuses
  <1> QED
    BY <1>1, LocalIsPeer DEF Offline, Update, Running

\* Every step loads the list, goes online or offline, handles one event, or
\* is a test.
LEMMA NextShape ==
    ASSUME TypeOK, LocalUnhandled, Next
    PROVE  \/ LoadNested /\ stale_db' \in BOOLEAN
           \/ Online
           \/ Offline
           \/ \E tracked \in SUBSET Peers : Handled(tracked) /\ LocalUnhandled'
           \/ \E result \in [routed_subnets -> BOOLEAN] : TesterTest(result)
  <1>1. CASE Reload \/ Crash
    BY <1>1 DEF Reload, Crash
  <1>2. ASSUME NEW c \in Cells, NEW info \in CellInfos[c], OnCellInfo(c, info)
        PROVE  \E tracked \in SUBSET Peers : Handled(tracked) /\ LocalUnhandled'
    BY <1>2, OnCellInfoShape
  <1>3. ASSUME NEW id \in ConfigIds, OnUvnInfo(id)
        PROVE  \E tracked \in SUBSET Peers : Handled(tracked) /\ LocalUnhandled'
    BY <1>3, OnUvnInfoShape, LocalIsPeer
  <1>4. ASSUME Handled({}), handles' = handles
        PROVE  \E tracked \in SUBSET Peers : Handled(tracked) /\ LocalUnhandled'
    BY <1>4 DEF LocalUnhandled
  <1>5. ASSUME NEW p \in Peers, OnInstanceOffline(p)
        PROVE  Handled({}) /\ handles' = handles
    BY <1>5, OnInstanceOfflineShape
  <1>6. ASSUME NEW S \in SUBSET Peers, OnRemoteWritersStatus(S)
        PROVE  Handled({}) /\ handles' = handles
    BY <1>6, OnRemoteWritersStatusShape
  <1>7. ASSUME NEW p \in VpnPeers, NEW online \in BOOLEAN, UpdatePeerVpnStats(p, online)
        PROVE  Handled({}) /\ handles' = handles
    BY <1>7, UpdatePeerVpnStatsShape
  <1>8. ASSUME TesterUpdates PROVE Handled({}) /\ handles' = handles
    BY <1>8, TesterUpdatesShape
  <1> QED
    BY <1>1, <1>2, <1>3, <1>4, <1>5, <1>6, <1>7, <1>8 DEF Next

\* An update preserves the types.
LEMMA UpdateType ==
    ASSUME TypeOK, NEW tracked \in SUBSET Peers, Update(tracked), published' \in SUBSET Lans
    PROVE  TypeOK'
  BY DerivedTypeUpdate, TypeParts DEF Update, TypeOK, CoreType, DerivedType

\* Every step preserves the types, and leaves the local peer without handles.
LEMMA TypeStep ==
    ASSUME TypeOK, LocalUnhandled, [Next]_vars
    PROVE  TypeOK' /\ LocalUnhandled'
  <1>1. CASE LoadNested /\ stale_db' \in BOOLEAN
    BY <1>1, LoadType DEF LoadNested, LocalUnhandled
  <1>2. CASE Online
    BY <1>2, OnlineShape, UpdateType, LocalIsPeer DEF Online, LocalUnhandled
  <1>3. CASE Offline
    BY <1>3, OfflineShape, UpdateType, PublishedType DEF Update, Offline, LocalUnhandled
  <1>4. ASSUME NEW tracked \in SUBSET Peers, Handled(tracked), LocalUnhandled'
        PROVE  TypeOK' /\ LocalUnhandled'
    BY <1>4, UpdateType, PublishedType DEF Handled, Update
  <1>5. ASSUME NEW result \in [routed_subnets -> BOOLEAN], TesterTest(result)
        PROVE  TypeOK' /\ LocalUnhandled'
    <2>1. routed_subnets \in SUBSET Lans
      BY LocalIsPeer DEF routed_subnets, TypeOK
    <2>2. result \in KnownNetworks
      BY <2>1, KnownValues
    <2> QED
      BY <1>5, <2>2 DEF TesterTest, TypeOK, peers, flags, LocalUnhandled
  <1>6. CASE UNCHANGED vars
    BY <1>6 DEF vars, peers, flags, outputs, TypeOK, LocalUnhandled
  <1> QED
    BY <1>1, <1>2, <1>3, <1>4, <1>5, <1>6, NextShape

\* Every variable keeps its type, whatever order the handlers run in.
THEOREM TypeCorrect == Spec => [](TypeOK /\ LocalUnhandled)
  <1>1. Init => TypeOK /\ LocalUnhandled
    BY InitType DEF Init, LocalUnhandled
  <1>2. TypeOK /\ LocalUnhandled /\ [Next]_vars => (TypeOK /\ LocalUnhandled)'
    BY TypeStep
  <1> QED
    BY <1>1, <1>2, PTL DEF Spec

-----------------------------------------------------------------------------
(* The inductive invariant.  A list that has not been brought online is as *)
(* load_nested left it; the flags are compared with sets of cells, which   *)
(* CountIsAll relates to the counts of the code.                           *)

FreshWhenDeclared ==
    status[LocalPeer] = "DECLARED" =>
        /\ status = [p \in Peers |-> "DECLARED"]
        /\ registry_id = [p \in Peers |-> NoConfig]
        /\ routed = [p \in Peers |-> {}]
        /\ known = [p \in Peers |-> NoNetworks]
        /\ handles = {}
        /\ view = FreshView
        /\ status_consistent_config_uvn = FALSE

IInv ==
    /\ FreshWhenDeclared
    /\ AllCellsConnectedAccurate
    /\ RegistryConnectedAccurate
    /\ RoutedDiscoveredAccurate
    /\ ConsistentConfigAccurate
    /\ FullyRoutedNotMissed
    /\ ListenersInSync

\* Three of the flags are accurate after any update that was processed.
LEMMA UpdateAllCells ==
    ASSUME TypeOK, TypeOK', NEW tracked \in SUBSET Peers, Update(tracked),
           AllCellsConnectedAccurate
    PROVE  AllCellsConnectedAccurate'
  <1>1. Cardinality(online_cells)' = Cardinality(UvnCells)
          <=> \A c \in UvnCells : status'[c] = "ONLINE"
    <2>1. online_cells' \in SUBSET UvnCells
      BY DEF online_cells
    <2> QED
      BY <2>1, CountIsAll DEF online_cells
  <1>2. CASE StatusChanged(Cells) # {}
    BY <1>1, <1>2 DEF Update, ProcessUpdates, AllCellsConnectedUpdate, AllCellsConnectedAccurate
  <1>3. CASE StatusChanged(Cells) = {}
    <2>1. \A c \in UvnCells : status'[c] = status[c]
      BY <1>3, LocalIsPeer DEF StatusChanged, Update, UvnCells
    <2> QED
      BY <1>3, <2>1 DEF Update, ProcessUpdates, AllCellsConnectedUpdate, AllCellsConnectedAccurate
  <1> QED
    BY <1>2, <1>3

\* The flag for the registry stays accurate.
LEMMA UpdateRegistry ==
    ASSUME TypeOK, TypeOK', NEW tracked \in SUBSET Peers, Update(tracked),
           RegistryConnectedAccurate
    PROVE  RegistryConnectedAccurate'
  <1>1. CASE StatusChanged({Registry}) # {}
    BY <1>1 DEF Update, ProcessUpdates, RegistryConnectedUpdate, RegistryConnectedAccurate
  <1>2. CASE StatusChanged({Registry}) = {}
    <2>1. status'[Registry] = status[Registry]
      BY <1>2, LocalIsPeer DEF StatusChanged, Update
    <2> QED
      BY <1>2, <2>1 DEF Update, ProcessUpdates, RegistryConnectedUpdate, RegistryConnectedAccurate
  <1> QED
    BY <1>1, <1>2

\* The flag for the attached networks stays accurate, also after a crash.
LEMMA UpdateRouted ==
    ASSUME TypeOK, TypeOK', NEW tracked \in SUBSET Peers, Update(tracked),
           RoutedDiscoveredAccurate
    PROVE  RoutedDiscoveredAccurate'
  <1>1. expected_subnets' = expected_subnets
    BY DEF expected_subnets
  <1>2. CASE RoutedChanged
    BY <1>1, <1>2 DEF Update, ProcessUpdates, RoutedNetworksDiscoveredUpdate,
                      RoutedDiscoveredAccurate
  <1>3. CASE ~RoutedChanged
    <2>1. routed' = routed
      BY <1>3 DEF RoutedChanged
    <2>2. routed_subnets' = routed_subnets
      BY <2>1 DEF routed_subnets
    <2> QED
      BY <1>1, <1>3, <2>2 DEF Update, ProcessUpdates, RoutedNetworksDiscoveredUpdate,
                              RoutedDiscoveredAccurate
  <1> QED
    BY <1>2, <1>3

\* A network that a peer starts to reach is a tracked change, so the flag of
\* a fully routed UVN is recomputed in time. (One that a peer no longer
\* knows is not, so the flag may stay set.)
LEMMA UpdateFullyRouted ==
    ASSUME TypeOK, TypeOK', NEW tracked \in SUBSET Peers, Update(tracked),
           FullyRoutedNotMissed
    PROVE  FullyRoutedNotMissed'
  <1>1. CASE \E p \in Peers : ReachableChanged(p) # {}
    <2>1. fully_routed_cells' \in SUBSET UvnCells
      BY DEF fully_routed_cells
    <2>2. Cardinality(fully_routed_cells)' = Cardinality(UvnCells)
            <=> fully_routed_cells' = UvnCells
      BY <2>1, CountIsAll
    <2>3. (\A c \in UvnCells : c \in fully_routed_cells') => fully_routed_cells' = UvnCells
      BY <2>1
    <2>4. status_fully_routed_uvn' = (Cardinality(fully_routed_cells)' = Cardinality(UvnCells))
      BY <1>1 DEF Update, ProcessUpdates, FullyRoutedUpdate
    <2> QED
      BY <2>2, <2>3, <2>4 DEF FullyRoutedNotMissed
  <1>2. CASE \A p \in Peers : ReachableChanged(p) = {}
    <2>1. ASSUME NEW c \in UvnCells
          PROVE  reachable_networks(c)' \subseteq reachable_networks(c)
      BY <1>2, LocalIsPeer DEF ReachableChanged, reachable_networks
    <2>2. \A c \in UvnCells : c \in fully_routed_cells' => c \in fully_routed_cells
      BY <2>1 DEF fully_routed_cells, expected_subnets
    <2>3. status_fully_routed_uvn' = status_fully_routed_uvn
      BY <1>2 DEF Update, ProcessUpdates, FullyRoutedUpdate
    <2> QED
      BY <2>2, <2>3 DEF FullyRoutedNotMissed
  <1> QED
    BY <1>1, <1>2

\* While the agent runs, so does the flag for the configurations: each one is
\* assigned through its setter, and is tracked.
LEMMA HandledConsistent ==
    ASSUME TypeOK, TypeOK', NEW tracked \in SUBSET Peers, Handled(tracked),
           ConsistentConfigAccurate
    PROVE  ConsistentConfigAccurate'
  <1>1. CASE ConsistentChanged(tracked) # {}
    <2>1. consistent_config_cells' \in SUBSET UvnCells
      BY DEF consistent_config_cells
    <2>2. Cardinality(consistent_config_cells)' = Cardinality(UvnCells)
            <=> \A c \in UvnCells : registry_id'[c] = config'
      BY <2>1, CountIsAll DEF consistent_config_cells
    <2> QED
      BY <1>1, <2>2 DEF Handled, Update, ProcessUpdates, ConsistentConfigUpdate,
                        ConsistentConfigAccurate
  <1>2. CASE ConsistentChanged(tracked) = {}
    <2>1. \A c \in UvnCells : (registry_id'[c] = config') <=> (registry_id[c] = config)
      BY <1>2, LocalIsPeer, PeersAssumption DEF ConsistentChanged, Handled, Update, UvnCells
    <2> QED
      BY <1>2, <2>1 DEF Handled, Update, ProcessUpdates, ConsistentConfigUpdate,
                        ConsistentConfigAccurate
  <1> QED
    BY <1>1, <1>2

\* The events of one update turn what the listeners knew into what is so.
LEMMA UpdateView ==
    ASSUME TypeOK, TypeOK', NEW tracked \in SUBSET Peers, Update(tracked), Running',
           \A p \in Peers \ tracked : registry_id'[p] = registry_id[p],
           view.online = WithStatus(Peers, "ONLINE"),
           view.routed = RoutedPairs,
           view.consistent = {p \in Peers \ {Registry} : registry_id[p] = config}
    PROVE  ListenersInSync'
  <1>1. Notify
    BY DEF Running, Notify
  <1>2. view' = [online |-> Told(view.online, StatusChanged(Peers), WithStatus(Peers, "ONLINE")'),
                 routed |-> IF RoutedChanged
                            THEN (view.routed \cup (RoutedPairs' \ RoutedPairs))
                                   \ (RoutedPairs \ RoutedPairs')
                            ELSE view.routed,
                 consistent |-> Told(view.consistent, ConsistentChanged(tracked),
                                     {p \in Peers : registry_id'[p] = config'})]
    BY <1>1 DEF Update, ProcessUpdates, ViewUpdate
  <1>3. view'.online = WithStatus(Peers, "ONLINE")'
    <2>1. \A p \in Peers : p \notin StatusChanged(Peers) => status'[p] = status[p]
      BY DEF StatusChanged, Update
    <2> QED
      BY <1>2, <2>1 DEF Told, WithStatus, StatusChanged
  <1>4. view'.routed = RoutedPairs'
    <2>1. CASE RoutedChanged
      BY <1>2, <2>1
    <2>2. CASE ~RoutedChanged
      <3>1. routed' = routed
        BY <2>2 DEF RoutedChanged
      <3> QED
        BY <1>2, <2>2, <3>1 DEF RoutedPairs
    <2> QED
      BY <2>1, <2>2
  <1>5. view'.consistent = {p \in Peers \ {Registry} : registry_id'[p] = config'}
    <2>1. \A p \in Peers \ {Registry} : p \notin ConsistentChanged(tracked) =>
              (registry_id'[p] = config' <=> registry_id[p] = config)
      BY DEF ConsistentChanged, Update
    <2>2. view'.consistent = Told(view.consistent, ConsistentChanged(tracked),
                                  {p \in Peers : registry_id'[p] = config'})
      BY <1>2
    <2>3. ConsistentChanged(tracked) \subseteq Peers \ {Registry}
      BY DEF ConsistentChanged
    <2> QED
      BY <2>1, <2>2, <2>3 DEF Told
  <1> QED
    BY <1>3, <1>4, <1>5 DEF ListenersInSync

\* The initial state satisfies the inductive invariant.
LEMMA InitInv == Init => IInv
  <1> SUFFICES ASSUME Init PROVE IInv
    OBVIOUS
  <1>1. \E c \in UvnCells : c \in Peers
    BY PeersAssumption, LocalIsPeer
  <1>2. ~Running
    BY LocalIsPeer DEF Init, Running
  <1>3. FreshWhenDeclared
    BY DEF Init, FreshWhenDeclared
  <1>4. AllCellsConnectedAccurate /\ RegistryConnectedAccurate
    BY <1>1, LocalIsPeer DEF Init, AllCellsConnectedAccurate, RegistryConnectedAccurate
  <1>5. RoutedDiscoveredAccurate
    <2>1. routed_subnets = {}
      BY LocalIsPeer DEF Init, routed_subnets
    <2> QED
      BY <2>1 DEF Init, RoutedDiscoveredAccurate
  <1>6. FullyRoutedNotMissed
    <2>1. \A c \in UvnCells : reachable_networks(c) = {}
      BY LocalIsPeer DEF Init, reachable_networks, NoNetworks
    <2> QED
      BY <1>1, <2>1 DEF FullyRoutedNotMissed, fully_routed_cells
  <1> QED
    BY <1>2, <1>3, <1>4, <1>5, <1>6 DEF IInv, ConsistentConfigAccurate, ListenersInSync

\* So does the state that load_nested leaves.
LEMMA LoadInv ==
    ASSUME TypeOK, LoadNested
    PROVE  IInv'
  <1>1. \E c \in UvnCells : c \in Peers
    BY PeersAssumption, LocalIsPeer
  <1>2. ~Running'
    BY LocalIsPeer DEF LoadNested, Running
  <1>3. FreshWhenDeclared'
    BY DEF LoadNested, FreshWhenDeclared
  <1>4. AllCellsConnectedAccurate' /\ RegistryConnectedAccurate'
    BY <1>1, LocalIsPeer DEF LoadNested, AllCellsConnectedAccurate, RegistryConnectedAccurate
  <1>5. RoutedDiscoveredAccurate'
    <2>1. routed_subnets' = {}
      BY LocalIsPeer DEF LoadNested, routed_subnets
    <2> QED
      BY <2>1 DEF LoadNested, RoutedDiscoveredAccurate
  <1>6. FullyRoutedNotMissed'
    <2>1. \A c \in UvnCells : reachable_networks(c)' = {}
      BY LocalIsPeer DEF LoadNested, reachable_networks, NoNetworks
    <2> QED
      BY <1>1, <2>1 DEF FullyRoutedNotMissed, fully_routed_cells
  <1> QED
    BY <1>2, <1>3, <1>4, <1>5, <1>6 DEF IInv, ConsistentConfigAccurate, ListenersInSync

\* Online starts from a fresh list, so the local peer's is the only change.
LEMMA OnlineInv ==
    ASSUME TypeOK, TypeOK', IInv, Online
    PROVE  IInv'
  <1>1. Update({LocalPeer}) /\ Running' /\ {LocalPeer} \in SUBSET Peers
    BY OnlineShape, LocalIsPeer
  <1>2. /\ status = [p \in Peers |-> "DECLARED"]
        /\ registry_id = [p \in Peers |-> NoConfig]
        /\ routed = [p \in Peers |-> {}]
        /\ view = FreshView
        /\ status_consistent_config_uvn = FALSE
    BY DEF Online, IInv, FreshWhenDeclared
  <1>3. /\ AllCellsConnectedAccurate' /\ RegistryConnectedAccurate'
        /\ RoutedDiscoveredAccurate' /\ FullyRoutedNotMissed'
    BY <1>1, UpdateAllCells, UpdateRegistry, UpdateRouted, UpdateFullyRouted DEF IInv
  <1>4. FreshWhenDeclared'
    BY <1>1 DEF Running, FreshWhenDeclared
  <1>5. ListenersInSync'
    <2>1. WithStatus(Peers, "ONLINE") = {} /\ view.online = {}
      BY <1>2 DEF WithStatus, FreshView
    <2>2. RoutedPairs = {} /\ view.routed = {}
      BY <1>2 DEF RoutedPairs, FreshView
    <2>3. {p \in Peers \ {Registry} : registry_id[p] = config} = {} /\ view.consistent = {}
      BY <1>2, DataAssumption DEF FreshView, TypeOK
    <2>4. \A p \in Peers \ {LocalPeer} : registry_id'[p] = registry_id[p]
      BY DEF Online, TypeOK
    <2> QED
      BY <1>1, <2>1, <2>2, <2>3, <2>4, UpdateView
  <1>6. ConsistentConfigAccurate'
    <2>1. ConsistentChanged({LocalPeer}) = {LocalPeer} \ {Registry}
      BY <1>2, LocalIsPeer, DataAssumption DEF Online, ConsistentChanged, TypeOK
    <2>2. CASE LocalPeer = Registry
      <3>1. status_consistent_config_uvn' = FALSE
        BY <1>1, <1>2, <2>1, <2>2 DEF Update, ProcessUpdates, ConsistentConfigUpdate
      <3>2. \A c \in UvnCells : registry_id'[c] # config'
        BY <1>2, <2>2, LocalIsPeer, PeersAssumption, DataAssumption DEF Online, TypeOK, UvnCells
      <3> QED
        BY <3>1, <3>2, PeersAssumption DEF ConsistentConfigAccurate
    <2>3. CASE LocalPeer # Registry
      <3>1. consistent_config_cells' \in SUBSET UvnCells
        BY DEF consistent_config_cells
      <3>2. Cardinality(consistent_config_cells)' = Cardinality(UvnCells)
              <=> \A c \in UvnCells : registry_id'[c] = config'
        BY <3>1, CountIsAll DEF consistent_config_cells
      <3> QED
        BY <1>1, <2>1, <2>3, <3>2
        DEF Update, ProcessUpdates, ConsistentConfigUpdate, ConsistentConfigAccurate
    <2> QED
      BY <2>2, <2>3
  <1> QED
    BY <1>3, <1>4, <1>5, <1>6 DEF IInv

\* Going offline resets all that the invariant says of a running agent.
LEMMA OfflineInv ==
    ASSUME TypeOK, TypeOK', IInv, Offline
    PROVE  IInv'
  <1>1. Update({}) /\ ~Running'
    BY OfflineShape
  <1>2. /\ AllCellsConnectedAccurate' /\ RegistryConnectedAccurate'
        /\ RoutedDiscoveredAccurate' /\ FullyRoutedNotMissed'
    BY <1>1, UpdateAllCells, UpdateRegistry, UpdateRouted, UpdateFullyRouted DEF IInv
  <1>3. FreshWhenDeclared'
    BY LocalIsPeer DEF Offline, FreshWhenDeclared
  <1> QED
    BY <1>1, <1>2, <1>3 DEF IInv, ConsistentConfigAccurate, ListenersInSync

\* Handling an event preserves the invariant.
LEMMA HandledInv ==
    ASSUME TypeOK, TypeOK', IInv, NEW tracked \in SUBSET Peers, Handled(tracked)
    PROVE  IInv'
  <1>1. Update(tracked) /\ Running /\ Running'
    BY DEF Handled
  <1>2. /\ AllCellsConnectedAccurate' /\ RegistryConnectedAccurate'
        /\ RoutedDiscoveredAccurate' /\ FullyRoutedNotMissed'
    BY <1>1, UpdateAllCells, UpdateRegistry, UpdateRouted, UpdateFullyRouted DEF IInv
  <1>3. ConsistentConfigAccurate'
    BY HandledConsistent DEF IInv
  <1>4. ListenersInSync'
    BY <1>1, UpdateView DEF IInv, ListenersInSync, Handled
  <1>5. FreshWhenDeclared'
    BY <1>1 DEF Running, FreshWhenDeclared
  <1> QED
    BY <1>2, <1>3, <1>4, <1>5 DEF IInv

\* A test changes nothing that the invariant is about.
LEMMA UnchangedInv ==
    ASSUME IInv, UNCHANGED <<config, peers, flags, view>>
    PROVE  IInv'
  <1> USE DEF peers, flags
  <1>1. FreshWhenDeclared'
    BY DEF IInv, FreshWhenDeclared
  <1>2. /\ AllCellsConnectedAccurate' /\ RegistryConnectedAccurate'
    BY DEF IInv, AllCellsConnectedAccurate, RegistryConnectedAccurate
  <1>3. RoutedDiscoveredAccurate'
    BY DEF IInv, RoutedDiscoveredAccurate, expected_subnets, routed_subnets
  <1>4. FullyRoutedNotMissed'
    BY DEF IInv, FullyRoutedNotMissed, fully_routed_cells, expected_subnets, reachable_networks
  <1>5. ConsistentConfigAccurate'
    BY DEF IInv, ConsistentConfigAccurate, Running
  <1>6. ListenersInSync'
    BY DEF IInv, ListenersInSync, Running, WithStatus, RoutedPairs
  <1> QED
    BY <1>1, <1>2, <1>3, <1>4, <1>5, <1>6 DEF IInv

\* Every step preserves the invariant.
LEMMA StepInv ==
    ASSUME TypeOK, TypeOK', LocalUnhandled, IInv, [Next]_vars
    PROVE  IInv'
  <1>1. CASE LoadNested
    BY <1>1, LoadInv
  <1>2. CASE Online
    BY <1>2, OnlineInv
  <1>3. CASE Offline
    BY <1>3, OfflineInv
  <1>4. ASSUME NEW tracked \in SUBSET Peers, Handled(tracked)
        PROVE  IInv'
    BY <1>4, HandledInv
  <1>5. ASSUME NEW result \in [routed_subnets -> BOOLEAN], TesterTest(result)
        PROVE  IInv'
    BY <1>5, UnchangedInv DEF TesterTest
  <1>6. CASE UNCHANGED vars
    BY <1>6, UnchangedInv DEF vars, outputs
  <1> QED
    BY <1>1, <1>2, <1>3, <1>4, <1>5, <1>6, NextShape

\* The inductive invariant holds in every reachable state.
LEMMA InvCorrect == Spec => []IInv
  <1>1. Init => IInv
    BY InitInv
  <1>2. TypeOK /\ TypeOK' /\ LocalUnhandled /\ IInv /\ [Next]_vars => IInv'
    BY StepInv
  <1> QED
    BY <1>1, <1>2, TypeCorrect, PTL DEF Spec

\* The agents' view of who is connected is right in every UVN: the flags for
\* all cells and for the registry say exactly what their names say.
THEOREM ConnectedFlagsCorrect ==
    Spec => [](AllCellsConnectedAccurate /\ RegistryConnectedAccurate)
  BY InvCorrect, PTL DEF IInv

\* So is the flag for the discovered networks, crashes included.
THEOREM RoutedFlagCorrect == Spec => []RoutedDiscoveredAccurate
  BY InvCorrect, PTL DEF IInv

\* While an agent runs, so is the flag for a consistent configuration, which
\* ends a sync of the registry.
THEOREM ConsistentFlagCorrect == Spec => []ConsistentConfigAccurate
  BY InvCorrect, PTL DEF IInv

\* A fully routed UVN is never missed.
THEOREM FullyRoutedFlagComplete == Spec => []FullyRoutedNotMissed
  BY InvCorrect, PTL DEF IInv

\* Whatever the order of events, the listeners can add them up.
THEOREM ListenersCorrect == Spec => []ListenersInSync
  BY InvCorrect, PTL DEF IInv

-----------------------------------------------------------------------------
(* What a cell's agent writes out.  The file of known networks and the     *)
(* cell's sample are written on a tracked change only, and going online    *)
(* is one for a cell with networks, because of FreshWhenDeclared.          *)

Outputs == KnownNetworksFileAccurate /\ ReachableIsPublished

\* A change of what is attached, and the first time online of a cell with
\* networks, rewrite the file of known networks.
LEMMA UpdateKnownFile ==
    ASSUME NEW tracked \in SUBSET Peers, Update(tracked), Running',
           routed' = routed => KnownNetworksFileAccurate /\ Running
    PROVE  KnownNetworksFileAccurate'
  <1> SUFFICES ASSUME IsCellAgent, LocalLans # {}
               PROVE  known_file' = UNION {routed'[p] : p \in Peers} \ LocalLans
    BY DEF KnownNetworksFileAccurate, IsCellAgent
  <1>1. Notify
    BY DEF Notify, Running
  <1>2. WriteKnownNetworksFile
    BY DEF Update, ProcessUpdates
  <1>3. CASE RoutedChanged
    BY <1>1, <1>2, <1>3 DEF WriteKnownNetworksFile
  <1>4. CASE ~RoutedChanged
    BY <1>2, <1>4 DEF WriteKnownNetworksFile, RoutedChanged, KnownNetworksFileAccurate
  <1> QED
    BY <1>3, <1>4

\* A network that becomes reachable is one whose LanStatus is assigned TRUE.
LEMMA PublishedCovers ==
    ASSUME IsCellAgent, Notify, PublishCellInfo,
           reachable_networks(LocalPeer) \subseteq published
    PROVE  reachable_networks(LocalPeer)' \subseteq published'
  <1>1. CASE ReachableChanged(LocalPeer) # {}
    BY <1>1 DEF PublishCellInfo
  <1>2. CASE ReachableChanged(LocalPeer) = {}
    <2>1. reachable_networks(LocalPeer)' \subseteq reachable_networks(LocalPeer)
      BY <1>2 DEF ReachableChanged, reachable_networks
    <2> QED
      BY <1>2, <2>1 DEF PublishCellInfo
  <1> QED
    BY <1>1, <1>2

\* Every step preserves both.
LEMMA OutputsStep ==
    ASSUME TypeOK, TypeOK', LocalUnhandled, IInv, Outputs, [Next]_vars
    PROVE  Outputs'
  <1>1. CASE LoadNested
    BY <1>1, LocalIsPeer
    DEF LoadNested, Outputs, KnownNetworksFileAccurate, ReachableIsPublished, Running
  <1>2. CASE Online
    <2>1. Update({LocalPeer}) /\ Running'
      BY <1>2, OnlineShape
    <2>2. LocalLans # {} => routed' # routed
      BY <1>2, LocalIsPeer DEF Online, IInv, FreshWhenDeclared
    <2>3. KnownNetworksFileAccurate'
      <3>1. CASE LocalLans = {}
        BY <3>1 DEF KnownNetworksFileAccurate
      <3>2. CASE LocalLans # {}
        BY <2>1, <2>2, <3>2, LocalIsPeer, UpdateKnownFile
      <3> QED
        BY <3>1, <3>2
    <2>4. ReachableIsPublished'
      BY <1>2 DEF Online, ReachableIsPublished, reachable_networks, IsCellAgent
    <2> QED
      BY <2>3, <2>4 DEF Outputs
  <1>3. CASE Offline
    BY <1>3, OfflineShape DEF Outputs, KnownNetworksFileAccurate, ReachableIsPublished
  <1>4. ASSUME NEW tracked \in SUBSET Peers, Handled(tracked)
        PROVE  Outputs'
    <2>1. KnownNetworksFileAccurate'
      BY <1>4, UpdateKnownFile DEF Handled, Outputs
    <2>2. ReachableIsPublished'
      BY <1>4, PublishedCovers
      DEF Handled, Outputs, ReachableIsPublished, Running, Notify, IsCellAgent
    <2> QED
      BY <2>1, <2>2 DEF Outputs
  <1>5. ASSUME UNCHANGED <<status, routed, known, published, known_file>>
        PROVE  Outputs'
    BY <1>5 DEF Outputs, KnownNetworksFileAccurate, ReachableIsPublished, Running,
                reachable_networks, IsCellAgent
  <1>6. ASSUME NEW result \in [routed_subnets -> BOOLEAN], TesterTest(result)
        PROVE  Outputs'
    BY <1>5, <1>6 DEF TesterTest, peers
  <1>7. CASE UNCHANGED vars
    BY <1>5, <1>7 DEF vars, peers, outputs
  <1> QED
    BY <1>1, <1>2, <1>3, <1>4, <1>6, <1>7, NextShape

\* Both hold in every reachable state.
LEMMA OutputsCorrect == Spec => []Outputs
  <1>1. Init => Outputs
    BY LocalIsPeer
    DEF Init, Outputs, KnownNetworksFileAccurate, ReachableIsPublished, Running
  <1>2. TypeOK /\ TypeOK' /\ LocalUnhandled /\ IInv /\ Outputs /\ [Next]_vars => Outputs'
    BY OutputsStep
  <1> QED
    BY <1>1, <1>2, TypeCorrect, InvCorrect, PTL DEF Spec

\* A network that a running cell's agent reaches is in the cell's last
\* sample, although samples are written only on tracked changes.
THEOREM PublicationCorrect == Spec => []ReachableIsPublished
  BY OutputsCorrect, PTL DEF Outputs

\* The file of known networks is that of the list, whatever a process that
\* crashed has left in it or in the database.
THEOREM KnownNetworksFileCorrect == Spec => []KnownNetworksFileAccurate
  BY OutputsCorrect, PTL DEF Outputs

=============================================================================
