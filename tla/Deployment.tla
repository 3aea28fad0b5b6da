----------------------------- MODULE Deployment ------------------------------
(***************************************************************************)
(* One redeployment of the UVN's backbone (Registry.redeploy,              *)
(* DeploymentStrategy.deploy): the strategy's graph is walked peer by peer *)
(* and neighbour by neighbour, every pair of neighbours is given the next  *)
(* two addresses of the backbone's subnet when it is met for the first     *)
(* time (registry/deployment.py, core/paired_map.py), and the WireGuard    *)
(* configuration of every peer is then derived from the result             *)
(* (P2pVpnConfig.peer_config).                                             *)
(*                                                                         *)
(* Abstractions: an address is its offset in the subnet, whose first one   *)
(* is even; keys and settings that are the same for all links are left     *)
(* out. The graph is an input: module DeploymentStrategies has those that  *)
(* the strategies make.                                                    *)
(***************************************************************************)
EXTENDS FiniteSets, Naturals, Sequences

CONSTANTS
    PeerIds,      \* the ids of the cells
    SubnetSize,   \* the number of addresses of the backbone's subnet
    Deployments   \* graphs to deploy, with the cells that have no address

\* static_deployment: every peer with the list of its neighbours.
Graph == Seq([peer : PeerIds, peers : Seq(PeerIds)])

\* No peer has two lists.
IsDeployable(d) ==
    /\ d.graph \in Graph
    /\ \A l, m \in 1..Len(d.graph) : d.graph[l].peer = d.graph[m].peer => l = m

ASSUME DeploymentAssumption ==
    /\ PeerIds \subseteq Nat
    /\ SubnetSize \in Nat
    /\ \A d \in Deployments : IsDeployable(d)

VARIABLES
    deployment,  \* the graph that is deployed
    n,           \* the peer of the graph that is being visited
    i,           \* the neighbour of that peer that is next
    next_ip,     \* _next_ip of the P2pLinkAllocationMap
    allocated,   \* the P2pLinkAllocationMap: pair of peers -> two addresses
    peers_map,   \* <<a, b>> -> the interface of a for its link with b
    state

vars == <<deployment, n, i, next_ip, allocated, peers_map, state>>

graph == deployment.graph
peer_ids == {graph[m].peer : m \in 1..Len(graph)}

-----------------------------------------------------------------------------
(* PairedValuesMap, and the addresses of a link.                           *)

\* Mutation of pair_key: the key of a pair depends on who asks.
unordered_key(a, b) == <<a, b>>

pair_key(a, b) == IF a > b THEN <<b, a>> ELSE <<a, b>>

\* Mutation of pick: the first peer that asked has the first address.
pick_first(a, b, target, val) == IF target = a THEN val[1] ELSE val[2]

pick(a, b, target, val) == IF pair_key(a, b)[1] = target THEN val[1] ELSE val[2]

\* The first address of the /31 network of an address.
network31(ip) == ip - (ip % 2)

Put(f, k, v) == [x \in DOMAIN f \cup {k} |-> IF x = k THEN v ELSE f[x]]

-----------------------------------------------------------------------------
\* Mutation of Init: the first host address is used.
InitAtOne ==
    /\ deployment \in Deployments
    /\ n = 1
    /\ i = 1
    /\ next_ip = 1
    /\ allocated = [k \in {} |-> <<0, 0>>]
    /\ peers_map = [k \in {} |-> <<>>]
    /\ state = "deploying"

Init ==
    /\ deployment \in Deployments
    /\ n = 1
    /\ i = 1
    /\ next_ip = 2
    /\ allocated = [k \in {} |-> <<0, 0>>]
    /\ peers_map = [k \in {} |-> <<>>]
    /\ state = "deploying"

\* The link from the current peer to its next neighbour, with the addresses
\* that were allocated for the pair.
Connect(a, b, val) ==
    /\ peers_map' = Put(peers_map, <<a, b>>,
                        [port |-> i - 1,
                         local |-> pick(a, b, a, val),
                         remote |-> pick(a, b, b, val),
                         network |-> network31(val[1])])
    /\ i' = i + 1

AtNeighbor ==
    /\ state = "deploying"
    /\ n <= Len(graph)
    /\ i <= Len(graph[n].peers)

\* A neighbour that the graph has no entry for.
SkipUnknown ==
    /\ AtNeighbor
    /\ graph[n].peers[i] \notin peer_ids
    /\ i' = i + 1
    /\ UNCHANGED <<deployment, n, next_ip, allocated, peers_map, state>>

\* assert_pair finds the addresses that the other peer's visit allocated.
Reuse ==
    /\ AtNeighbor
    /\ graph[n].peers[i] \in peer_ids
    /\ LET a == graph[n].peer
           b == graph[n].peers[i]
       IN  /\ pair_key(a, b) \in DOMAIN allocated
           /\ Connect(a, b, allocated[pair_key(a, b)])
    /\ UNCHANGED <<deployment, n, next_ip, allocated, state>>

\* assert_pair generates a value: both addresses must be in the subnet, and
\* in the same /31 network.
Allocate ==
    /\ AtNeighbor
    /\ graph[n].peers[i] \in peer_ids
    /\ LET a == graph[n].peer
           b == graph[n].peers[i]
           val == <<next_ip, next_ip + 1>>
       IN  /\ pair_key(a, b) \notin DOMAIN allocated
           /\ next_ip + 1 < SubnetSize
           /\ network31(next_ip) = next_ip
           /\ network31(next_ip + 1) = next_ip
           /\ Connect(a, b, val)
           /\ allocated' = Put(allocated, pair_key(a, b), val)
    /\ next_ip' = next_ip + 2
    /\ UNCHANGED <<deployment, n, state>>

\* generate_val raises: the subnet is exceeded, or the addresses are not two
\* of the same network.
AllocateFails ==
    /\ AtNeighbor
    /\ graph[n].peers[i] \in peer_ids
    /\ pair_key(graph[n].peer, graph[n].peers[i]) \notin DOMAIN allocated
    /\ \/ next_ip + 1 >= SubnetSize
       \/ network31(next_ip) # next_ip
       \/ network31(next_ip + 1) # next_ip
    /\ state' = IF next_ip + 1 >= SubnetSize THEN "exceeded" ELSE "misaligned"
    /\ UNCHANGED <<deployment, n, i, next_ip, allocated, peers_map>>

NextPeer ==
    /\ state = "deploying"
    /\ n <= Len(graph)
    /\ i > Len(graph[n].peers)
    /\ n' = n + 1
    /\ i' = 1
    /\ UNCHANGED <<deployment, next_ip, allocated, peers_map, state>>

\* P2pVpnConfig.peer_config for every peer: the port of the other end is
\* looked up in the other peer's links, and may be missing.
PeerConfigs ==
    /\ state = "deploying"
    /\ n > Len(graph)
    /\ state' = IF \A p \in DOMAIN peers_map : <<p[2], p[1]>> \in DOMAIN peers_map
                THEN "configured"
                ELSE "key_error"
    /\ UNCHANGED <<deployment, n, i, next_ip, allocated, peers_map>>

Next ==
    \/ SkipUnknown
    \/ Reuse
    \/ Allocate
    \/ AllocateFails
    \/ NextPeer
    \/ PeerConfigs

Spec == Init /\ [][Next]_vars

-----------------------------------------------------------------------------
(* Properties.                                                             *)

\* Every variable has its type.
TypeOK ==
    /\ IsDeployable(deployment)
    /\ n \in 1..(Len(graph) + 1)
    /\ i \in Nat \ {0}
    /\ next_ip \in Nat
    /\ DOMAIN allocated \subseteq peer_ids \X peer_ids
    /\ allocated \in [DOMAIN allocated -> Nat \X Nat]
    /\ DOMAIN peers_map \subseteq peer_ids \X peer_ids
    /\ peers_map \in [DOMAIN peers_map ->
                        [port : Nat, local : Nat, remote : Nat, network : Nat]]
    /\ state \in {"deploying", "exceeded", "misaligned", "configured", "key_error"}

\* No two interfaces of the backbone, on whatever hosts, have the same
\* address, although an address is handed out by whichever end of a link is
\* visited first.
AddressesUnique ==
    \A p, q \in DOMAIN peers_map :
        peers_map[p].local = peers_map[q].local => p = q

\* Every address is one of the subnet, and not one of its first two.
AddressesInSubnet ==
    \A p \in DOMAIN peers_map : peers_map[p].local \in 2..(SubnetSize - 1)

\* The two ends of a link are configured alike: what one end has as its own
\* address is what the other end has as its peer's, in the same /31 network.
LinkEndsAgree ==
    \A p, q \in DOMAIN peers_map :
        q = <<p[2], p[1]>> =>
            /\ peers_map[p].local = peers_map[q].remote
            /\ peers_map[p].network = peers_map[q].network
            /\ network31(peers_map[p].local) = peers_map[p].network

\* The links of a peer have different ports, which are also what tells the
\* names of its interfaces apart.
PortsDistinct ==
    \A p, q \in DOMAIN peers_map :
        p[1] = q[1] /\ peers_map[p].port = peers_map[q].port => p = q

\* Two consecutive addresses are always of the same network, and the
\* allocation is refused only when every link the subnet has room for is
\* allocated.
RefusedOnlyWhenFull ==
    /\ state # "misaligned"
    /\ state = "exceeded" => 2 + 2 * (Cardinality(DOMAIN allocated) + 1) > SubnetSize

=============================================================================
