--------------------------- MODULE DeploymentProofs --------------------------
(***************************************************************************)
(* Proofs about the backbone.                                              *)
(*                                                                         *)
(* The first part is about the allocation of the backbone's links, for     *)
(* every graph and every size of the subnet.  The inductive invariant has  *)
(* three parts beside the types: what the allocation map holds (Pairs:     *)
(* consecutive addresses from an even one, below next_ip, different for    *)
(* different pairs, and next_ip counts them), how the interfaces follow    *)
(* from it (Interfaces), and which ports are in use for the peer that is   *)
(* being visited (Ports).                                                  *)
(*                                                                         *)
(* The second part is about the search of the strategy "random", for any   *)
(* number of cells: the graph that it returns is connected.                *)
(*                                                                         *)
(* The third part is about the other strategies, for any cells in any      *)
(* order: their graphs link all cells, evenly, and in both directions, and *)
(* a deployment makes the links of its graph and no others (LinkInv), so   *)
(* that the backbone is as documented. Where the code sums, or goes round  *)
(* a ring, the proofs take the least number for which a claim fails.       *)
(***************************************************************************)
EXTENDS Backbone, RandomDeployment, FiniteSetTheorems, WellFoundedInduction,
        SequenceTheorems, TLAPS

\* The addresses of pairs: two of a /31 network each, of no other pair.
Pairs ==
    /\ IsFiniteSet(DOMAIN allocated)
    /\ next_ip = 2 + 2 * Cardinality(DOMAIN allocated)
    /\ \A k \in DOMAIN allocated :
        /\ allocated[k][2] = allocated[k][1] + 1
        /\ allocated[k][1] % 2 = 0
        /\ allocated[k][1] >= 2
        /\ allocated[k][2] < next_ip
        /\ allocated[k][2] < SubnetSize
    /\ \A k, l \in DOMAIN allocated : allocated[k][1] = allocated[l][1] => k = l

\* An interface has the address that its pair, and its end of it, determine.
Interfaces ==
    \A p \in DOMAIN peers_map :
        LET key == pair_key(p[1], p[2])
        IN  /\ key \in DOMAIN allocated
            /\ peers_map[p].local = pick(p[1], p[2], p[1], allocated[key])
            /\ peers_map[p].remote = pick(p[1], p[2], p[2], allocated[key])
            /\ peers_map[p].network = allocated[key][1]

\* The ports in use are those of cells and neighbours that were visited.
Ports ==
    /\ \A p \in DOMAIN peers_map : \E m \in 1..Len(graph) :
        /\ m <= n
        /\ p[1] = graph[m].peer
        /\ m = n => peers_map[p].port + 1 < i
    /\ PortsDistinct

\* The inductive invariant of the allocation.
IInv == TypeOK /\ Pairs /\ Interfaces /\ Ports /\ RefusedOnlyWhenFull

-----------------------------------------------------------------------------
(* Facts about the operators.                                              *)

\* The key of a pair is the pair itself in one of its orders, and the same
\* for both.
LEMMA PairKeyType ==
    ASSUME NEW a \in Nat, NEW b \in Nat
    PROVE  /\ pair_key(a, b) = <<a, b>> \/ pair_key(a, b) = <<b, a>>
           /\ pair_key(a, b) = pair_key(b, a)
           /\ pair_key(a, b)[1] = a \/ pair_key(a, b)[1] = b
BY DEF pair_key

\* next_ip, which counts pairs from 2, is the first address of its network,
\* and the address after it is the second.
LEMMA EvenAddress ==
    ASSUME NEW c \in Nat
    PROVE  /\ (2 + 2 * c) % 2 = 0
           /\ network31(2 + 2 * c) = 2 + 2 * c
           /\ network31(2 + 2 * c + 1) = 2 + 2 * c
BY DEF network31

\* Two even addresses are never one apart.
LEMMA EvenNotNext ==
    ASSUME NEW x \in Nat, NEW y \in Nat, x % 2 = 0, y % 2 = 0
    PROVE  x + 1 # y /\ y + 1 # x
OBVIOUS

\* An even address and the one after it are of the same network.
LEMMA NetworkOfPair ==
    ASSUME NEW ip \in Nat, ip % 2 = 0
    PROVE  network31(ip) = ip /\ network31(ip + 1) = ip
BY DEF network31

\* The graph's peers, and the two peers of the link that is next.
LEMMA GraphTypes ==
    ASSUME TypeOK
    PROVE  /\ graph \in Graph
           /\ Len(graph) \in Nat
           /\ peer_ids \subseteq Nat
           /\ \A m \in 1..Len(graph) : /\ graph[m].peer \in peer_ids
                                       /\ graph[m].peers \in Seq(PeerIds)
                                       /\ Len(graph[m].peers) \in Nat
           /\ \A l, m \in 1..Len(graph) : graph[l].peer = graph[m].peer => l = m
<1>1. graph \in Graph
  BY DEF TypeOK, IsDeployable, graph
<1>2. \A l, m \in 1..Len(graph) : graph[l].peer = graph[m].peer => l = m
  BY DEF TypeOK, IsDeployable, graph
<1>3. Len(graph) \in Nat
  BY <1>1 DEF Graph
<1>4. \A m \in 1..Len(graph) : graph[m] \in [peer : PeerIds, peers : Seq(PeerIds)]
  <2> DEFINE Entry == [peer : PeerIds, peers : Seq(PeerIds)]
  <2>1. graph \in Seq(Entry)
    BY <1>1 DEF Graph
  <2> HIDE DEF Entry
  <2>2. \A m \in 1..Len(graph) : graph[m] \in Entry
    BY <2>1
  <2>3. QED
    BY <2>2 DEF Entry
<1>5. \A m \in 1..Len(graph) : graph[m].peer \in peer_ids
  BY DEF peer_ids
<1>6. peer_ids \subseteq Nat
  BY <1>4, DeploymentAssumption DEF peer_ids
<1>7. QED
  BY <1>1, <1>2, <1>3, <1>4, <1>5, <1>6

\* The empty maps, and next_ip = 2, satisfy the invariant.
LEMMA InitIInv == Init => IInv
<1> SUFFICES ASSUME Init PROVE IInv
  OBVIOUS
<1>1. DOMAIN allocated = {} /\ DOMAIN peers_map = {}
  BY DEF Init
<1>2. TypeOK
  <2>1. IsDeployable(deployment) /\ graph \in Graph
    BY DeploymentAssumption DEF Init, IsDeployable, graph
  <2>2. Len(graph) \in Nat
    BY <2>1 DEF Graph
  <2>3. n \in 1..(Len(graph) + 1)
    BY <2>2 DEF Init
  <2>4. allocated \in [DOMAIN allocated -> Nat \X Nat]
    BY DEF Init
  <2>5. peers_map \in [DOMAIN peers_map ->
                        [port : Nat, local : Nat, remote : Nat, network : Nat]]
    BY DEF Init
  <2>6. QED
    BY <1>1, <2>1, <2>3, <2>4, <2>5 DEF Init, TypeOK
<1>3. Pairs
  <2>1. IsFiniteSet(DOMAIN allocated) /\ Cardinality(DOMAIN allocated) = 0
    BY <1>1, FS_EmptySet
  <2>2. next_ip = 2
    BY DEF Init
  <2>3. QED
    BY <1>1, <2>1, <2>2 DEF Pairs
<1>4. Interfaces
  BY <1>1 DEF Interfaces
<1>5. Ports
  BY <1>1 DEF Ports, PortsDistinct
<1>6. RefusedOnlyWhenFull
  BY DEF Init, RefusedOnlyWhenFull
<1>7. QED
  BY <1>2, <1>3, <1>4, <1>5, <1>6 DEF IInv

\* Facts about a step that links the current peer to its next neighbour with
\* a value of the (new) allocation map.
LEMMA ConnectKeepsLinks ==
    ASSUME IInv, AtNeighbor,
           graph[n].peers[i] \in peer_ids,
           NEW val \in Nat \X Nat,
           Connect(graph[n].peer, graph[n].peers[i], val),
           UNCHANGED <<deployment, n, state>>,
           DOMAIN allocated \subseteq DOMAIN allocated',
           \A k \in DOMAIN allocated : allocated'[k] = allocated[k],
           pair_key(graph[n].peer, graph[n].peers[i]) \in DOMAIN allocated',
           allocated'[pair_key(graph[n].peer, graph[n].peers[i])] = val,
           val[1] % 2 = 0
    PROVE  /\ i' \in Nat \ {0}
           /\ DOMAIN peers_map' \subseteq peer_ids \X peer_ids
           /\ peers_map' \in [DOMAIN peers_map' ->
                                [port : Nat, local : Nat, remote : Nat, network : Nat]]
           /\ Interfaces'
           /\ Ports'
<1> DEFINE a == graph[n].peer
           b == graph[n].peers[i]
           new == <<a, b>>
           entry == [port |-> i - 1,
                     local |-> pick(a, b, a, val),
                     remote |-> pick(a, b, b, val),
                     network |-> network31(val[1])]
<1>1. /\ TypeOK /\ n \in 1..Len(graph) /\ i \in Nat \ {0}
      /\ a \in peer_ids /\ b \in peer_ids /\ a \in Nat /\ b \in Nat
  <2>1. TypeOK /\ n \in 1..(Len(graph) + 1) /\ i \in Nat \ {0}
    BY DEF IInv, TypeOK
  <2>2. n \in 1..Len(graph)
    BY <2>1, GraphTypes DEF AtNeighbor
  <2>3. a \in peer_ids /\ peer_ids \subseteq Nat
    BY <2>1, <2>2, GraphTypes
  <2>4. QED
    BY <2>1, <2>2, <2>3
<1>2. /\ DOMAIN peers_map' = DOMAIN peers_map \cup {new}
      /\ peers_map'[new] = entry
      /\ \A p \in DOMAIN peers_map : p # new => peers_map'[p] = peers_map[p]
      /\ peers_map' = [x \in DOMAIN peers_map \cup {new} |->
                         IF x = new THEN entry ELSE peers_map[x]]
      /\ i' = i + 1
  BY DEF Connect, Put
<1>3. entry \in [port : Nat, local : Nat, remote : Nat, network : Nat]
  <2>1. val[1] \in Nat /\ val[2] \in Nat
    OBVIOUS
  <2>2. network31(val[1]) = val[1]
    BY <2>1, NetworkOfPair
  <2>3. pick(a, b, a, val) \in Nat /\ pick(a, b, b, val) \in Nat
    BY <2>1 DEF pick
  <2>4. QED
    BY <1>1, <2>1, <2>2, <2>3
<1>4. /\ DOMAIN peers_map' \subseteq peer_ids \X peer_ids
      /\ peers_map' \in [DOMAIN peers_map' ->
                          [port : Nat, local : Nat, remote : Nat, network : Nat]]
  <2>1. /\ DOMAIN peers_map \subseteq peer_ids \X peer_ids
        /\ \A p \in DOMAIN peers_map :
             peers_map[p] \in [port : Nat, local : Nat, remote : Nat, network : Nat]
    <3>1. peers_map \in [DOMAIN peers_map ->
                           [port : Nat, local : Nat, remote : Nat, network : Nat]]
      BY <1>1 DEF TypeOK
    <3> HIDE DEF a, b, new, entry
    <3>2. QED
      BY <1>1, <3>1 DEF TypeOK
  <2>2. new \in peer_ids \X peer_ids
    BY <1>1
  <2> HIDE DEF a, b, new, entry
  <2>3. DOMAIN peers_map' \subseteq peer_ids \X peer_ids
    BY <1>2, <2>1, <2>2
  <2>4. \A p \in DOMAIN peers_map' :
           peers_map'[p] \in [port : Nat, local : Nat, remote : Nat, network : Nat]
    BY <1>2, <1>3, <2>1
  <2>5. peers_map' = [p \in DOMAIN peers_map' |-> peers_map'[p]]
    BY <1>2
  <2> DEFINE Entries == [port : Nat, local : Nat, remote : Nat, network : Nat]
  <2> HIDE DEF Entries
  <2>6. \A p \in DOMAIN peers_map' : peers_map'[p] \in Entries
    BY <2>4 DEF Entries
  <2>7. peers_map' \in [DOMAIN peers_map' -> Entries]
    BY <2>5, <2>6
  <2>8. QED
    BY <2>3, <2>7 DEF Entries
<1>5. Interfaces'
  <2>1. SUFFICES ASSUME NEW p \in DOMAIN peers_map'
                 PROVE  LET key == pair_key(p[1], p[2])
                        IN  /\ key \in DOMAIN allocated'
                            /\ peers_map'[p].local = pick(p[1], p[2], p[1], allocated'[key])
                            /\ peers_map'[p].remote = pick(p[1], p[2], p[2], allocated'[key])
                            /\ peers_map'[p].network = allocated'[key][1]
    BY DEF Interfaces, pair_key, pick
  <2>2. CASE p = new
    <3>1. p[1] = a /\ p[2] = b /\ peers_map'[p] = entry
      BY <1>2, <2>2
    <3>2. network31(val[1]) = val[1]
      BY NetworkOfPair
    <3>3. QED
      BY <3>1, <3>2
  <2>3. CASE p # new
    <3>1. p \in DOMAIN peers_map /\ peers_map'[p] = peers_map[p]
      BY <1>2, <2>3
    <3>2. QED
      BY <3>1 DEF IInv, Interfaces
  <2>4. QED
    BY <2>2, <2>3
<1>6. Ports'
  <2>1. \A p \in DOMAIN peers_map : p[1] = a => peers_map[p].port + 1 < i
    BY <1>1, GraphTypes DEF IInv, Ports
  <2>2. graph' = graph
    BY DEF graph
  <2>3. \A p \in DOMAIN peers_map' : \E m \in 1..Len(graph) :
            /\ m <= n
            /\ p[1] = graph[m].peer
            /\ m = n => peers_map'[p].port + 1 < i + 1
    <3>1. SUFFICES ASSUME NEW p \in DOMAIN peers_map'
                   PROVE  \E m \in 1..Len(graph) :
                            /\ m <= n
                            /\ p[1] = graph[m].peer
                            /\ m = n => peers_map'[p].port + 1 < i + 1
      OBVIOUS
    <3>2. CASE p = new
      <4>1. p[1] = graph[n].peer /\ peers_map'[p].port = i - 1
        BY <1>2, <3>2
      <4>2. QED
        BY <1>1, <4>1
    <3>3. CASE p # new
      <4>1. p \in DOMAIN peers_map /\ peers_map'[p] = peers_map[p]
        BY <1>2, <3>3
      <4>2. PICK m \in 1..Len(graph) : /\ m <= n
                                       /\ p[1] = graph[m].peer
                                       /\ m = n => peers_map[p].port + 1 < i
        BY <4>1 DEF IInv, Ports
      <4>3. peers_map[p].port \in Nat
        BY <1>1, <4>1 DEF TypeOK
      <4>4. QED
        BY <1>1, <4>1, <4>2, <4>3
    <3>4. QED
      BY <3>2, <3>3
  <2>4. PortsDistinct'
    <3>1. SUFFICES ASSUME NEW p \in DOMAIN peers_map', NEW q \in DOMAIN peers_map',
                          p[1] = q[1], peers_map'[p].port = peers_map'[q].port, p # q
                   PROVE  FALSE
      BY DEF PortsDistinct
    <3>2. peers_map'[new].port = i - 1
      BY <1>2
    <3>3. \A x \in DOMAIN peers_map : x # new =>
            peers_map'[x] = peers_map[x] /\ peers_map[x].port \in Nat
      BY <1>1, <1>2 DEF TypeOK
    <3>4. CASE p = new
      <4>1. q \in DOMAIN peers_map /\ q # new /\ q[1] = a
        BY <1>2, <3>1, <3>4
      <4>2. QED
        BY <1>1, <2>1, <3>1, <3>2, <3>3, <3>4, <4>1
    <3>5. CASE q = new
      <4>1. p \in DOMAIN peers_map /\ p # new /\ p[1] = a
        BY <1>2, <3>1, <3>5
      <4>2. QED
        BY <1>1, <2>1, <3>1, <3>2, <3>3, <3>5, <4>1
    <3>6. CASE p # new /\ q # new
      BY <1>2, <3>1, <3>3, <3>6 DEF IInv, Ports, PortsDistinct
    <3>7. QED
      BY <3>4, <3>5, <3>6
  <2>5. QED
    BY <1>2, <2>2, <2>3, <2>4 DEF Ports
<1>7. i' \in Nat \ {0}
  <2>1. i' = i + 1 /\ i \in Nat \ {0}
    BY <1>1, <1>2
  <2>2. QED
    BY <2>1
<1>8. QED
  BY <1>4, <1>5, <1>6, <1>7

\* The actions that leave the allocation map and the interfaces alone.
LEMMA MapsUnchanged ==
    ASSUME IInv, UNCHANGED <<deployment, next_ip, allocated, peers_map>>
    PROVE  Pairs' /\ Interfaces' /\ PortsDistinct' /\ graph' = graph /\ peer_ids' = peer_ids
<1>1. graph' = graph /\ peer_ids' = peer_ids
  BY DEF graph, peer_ids
<1>2. Pairs'
  BY DEF IInv, Pairs
<1>3. Interfaces'
  BY DEF IInv, Interfaces, pair_key, pick
<1>4. PortsDistinct'
  BY DEF IInv, Ports, PortsDistinct
<1>5. QED
  BY <1>1, <1>2, <1>3, <1>4

\* A neighbour that is skipped leaves its port unused.
LEMMA SkipUnknownIInv == IInv /\ SkipUnknown => IInv'
<1> SUFFICES ASSUME IInv, SkipUnknown PROVE IInv'
  OBVIOUS
<1>1. /\ Pairs' /\ Interfaces' /\ PortsDistinct' /\ graph' = graph /\ peer_ids' = peer_ids
  BY MapsUnchanged DEF SkipUnknown
<1>2. TypeOK'
  BY <1>1 DEF IInv, SkipUnknown, TypeOK
<1>3. Ports'
  <2>1. i' = i + 1 /\ i \in Nat /\ n' = n /\ peers_map' = peers_map
    BY DEF IInv, SkipUnknown, TypeOK
  <2>2. \A p \in DOMAIN peers_map : peers_map[p].port \in Nat
    BY DEF IInv, TypeOK
  <2>3. QED
    BY <1>1, <2>1, <2>2 DEF IInv, Ports
<1>4. RefusedOnlyWhenFull'
  BY DEF IInv, SkipUnknown, RefusedOnlyWhenFull
<1>5. QED
  BY <1>1, <1>2, <1>3, <1>4 DEF IInv

\* No interface of the next peer is there yet: a peer is listed once.
LEMMA NextPeerIInv == IInv /\ NextPeer => IInv'
<1> SUFFICES ASSUME IInv, NextPeer PROVE IInv'
  OBVIOUS
<1>1. /\ Pairs' /\ Interfaces' /\ PortsDistinct' /\ graph' = graph /\ peer_ids' = peer_ids
  BY MapsUnchanged DEF NextPeer
<1>2. n' = n + 1 /\ n \in Nat /\ n <= Len(graph) /\ Len(graph) \in Nat
  BY GraphTypes DEF IInv, NextPeer, TypeOK
<1>3. TypeOK'
  BY <1>1, <1>2 DEF IInv, NextPeer, TypeOK
<1>4. Ports'
  BY <1>1, <1>2 DEF IInv, NextPeer, Ports
<1>5. RefusedOnlyWhenFull'
  BY DEF IInv, NextPeer, RefusedOnlyWhenFull
<1>6. QED
  BY <1>1, <1>3, <1>4, <1>5 DEF IInv

\* Deriving the configurations changes neither map.
LEMMA PeerConfigsIInv == IInv /\ PeerConfigs => IInv'
<1> SUFFICES ASSUME IInv, PeerConfigs PROVE IInv'
  OBVIOUS
<1>1. /\ Pairs' /\ Interfaces' /\ PortsDistinct' /\ graph' = graph /\ peer_ids' = peer_ids
  BY MapsUnchanged DEF PeerConfigs
<1>2. state' \in {"configured", "key_error"}
  BY DEF PeerConfigs
<1>3. TypeOK'
  BY <1>1, <1>2 DEF IInv, PeerConfigs, TypeOK
<1>4. Ports'
  BY <1>1 DEF IInv, PeerConfigs, Ports
<1>5. RefusedOnlyWhenFull'
  BY <1>2 DEF RefusedOnlyWhenFull
<1>6. QED
  BY <1>1, <1>3, <1>4, <1>5 DEF IInv

\* A refusal: next_ip is even, so it is not for misaligned addresses, and it
\* counts the links.
LEMMA AllocateFailsIInv == IInv /\ AllocateFails => IInv'
<1> SUFFICES ASSUME IInv, AllocateFails PROVE IInv'
  OBVIOUS
<1>1. /\ Pairs' /\ Interfaces' /\ PortsDistinct' /\ graph' = graph /\ peer_ids' = peer_ids
  BY MapsUnchanged DEF AllocateFails
<1>2. PICK c \in Nat : c = Cardinality(DOMAIN allocated) /\ next_ip = 2 + 2 * c
  BY FS_CardinalityType DEF IInv, Pairs
<1>3. network31(next_ip) = next_ip /\ network31(next_ip + 1) = next_ip
  BY <1>2, EvenAddress
<1>4. next_ip + 1 >= SubnetSize /\ state' = "exceeded"
  BY <1>3 DEF AllocateFails
<1>5. TypeOK'
  BY <1>1, <1>4 DEF IInv, AllocateFails, TypeOK
<1>6. Ports'
  BY <1>1 DEF IInv, AllocateFails, Ports
<1>7. RefusedOnlyWhenFull'
  BY <1>2, <1>4, DeploymentAssumption DEF AllocateFails, RefusedOnlyWhenFull
<1>8. QED
  BY <1>1, <1>5, <1>6, <1>7 DEF IInv

\* The other direction of a link uses the addresses of the first one.
LEMMA ReuseIInv == IInv /\ Reuse => IInv'
<1> SUFFICES ASSUME IInv, Reuse PROVE IInv'
  OBVIOUS
<1> DEFINE key == pair_key(graph[n].peer, graph[n].peers[i])
<1>1. /\ AtNeighbor /\ graph[n].peers[i] \in peer_ids
      /\ key \in DOMAIN allocated
      /\ Connect(graph[n].peer, graph[n].peers[i], allocated[key])
      /\ UNCHANGED <<deployment, n, next_ip, allocated, state>>
  BY DEF Reuse
<1>2. allocated[key] \in Nat \X Nat /\ allocated[key][1] % 2 = 0
  BY <1>1 DEF IInv, TypeOK, Pairs
<1> HIDE DEF key
<1>3. /\ i' \in Nat \ {0}
      /\ DOMAIN peers_map' \subseteq peer_ids \X peer_ids
      /\ peers_map' \in [DOMAIN peers_map' ->
                          [port : Nat, local : Nat, remote : Nat, network : Nat]]
      /\ Interfaces'
      /\ Ports'
  BY <1>1, <1>2, ConnectKeepsLinks DEF key
<1>4. graph' = graph /\ peer_ids' = peer_ids
  BY <1>1 DEF graph, peer_ids
<1>5. TypeOK'
  BY <1>1, <1>3, <1>4 DEF IInv, TypeOK
<1>6. Pairs'
  BY <1>1 DEF IInv, Pairs
<1>7. RefusedOnlyWhenFull'
  BY <1>1 DEF IInv, RefusedOnlyWhenFull
<1>8. QED
  BY <1>3, <1>5, <1>6, <1>7 DEF IInv

\* A new pair has the next two addresses, which no other pair has.
LEMMA AllocateIInv == IInv /\ Allocate => IInv'
<1> SUFFICES ASSUME IInv, Allocate PROVE IInv'
  OBVIOUS
<1> DEFINE a == graph[n].peer
           b == graph[n].peers[i]
           key == pair_key(a, b)
           val == <<next_ip, next_ip + 1>>
<1>1. /\ AtNeighbor /\ b \in peer_ids
      /\ key \notin DOMAIN allocated
      /\ next_ip + 1 < SubnetSize
      /\ Connect(a, b, val)
      /\ allocated' = Put(allocated, key, val)
      /\ next_ip' = next_ip + 2
      /\ UNCHANGED <<deployment, n, state>>
  BY DEF Allocate
<1>2. /\ DOMAIN allocated' = DOMAIN allocated \cup {key}
      /\ allocated'[key] = val
      /\ \A k \in DOMAIN allocated : allocated'[k] = allocated[k]
      /\ allocated' = [x \in DOMAIN allocated \cup {key} |->
                         IF x = key THEN val ELSE allocated[x]]
  BY <1>1 DEF Put
<1>3. PICK c \in Nat : c = Cardinality(DOMAIN allocated) /\ next_ip = 2 + 2 * c
  BY FS_CardinalityType DEF IInv, Pairs
<1>4. val \in Nat \X Nat /\ val[1] % 2 = 0
  BY <1>3, EvenAddress
<1>5. graph' = graph /\ peer_ids' = peer_ids
  BY <1>1 DEF graph, peer_ids
<1>6. key \in peer_ids \X peer_ids
  <2>1. TypeOK /\ n \in 1..(Len(graph) + 1)
    BY DEF IInv, TypeOK
  <2>2. n \in 1..Len(graph)
    BY <1>1, <2>1, GraphTypes DEF AtNeighbor
  <2>3. a \in peer_ids
    BY <2>1, <2>2, GraphTypes
  <2>4. QED
    BY <1>1, <2>3 DEF pair_key
<1>7. /\ i' \in Nat \ {0}
      /\ DOMAIN peers_map' \subseteq peer_ids \X peer_ids
      /\ peers_map' \in [DOMAIN peers_map' ->
                          [port : Nat, local : Nat, remote : Nat, network : Nat]]
      /\ Interfaces'
      /\ Ports'
  <2> HIDE DEF val
  <2>1. DOMAIN allocated \subseteq DOMAIN allocated' /\ key \in DOMAIN allocated'
    BY <1>2
  <2>2. QED
    BY <1>1, <1>2, <1>4, <2>1, ConnectKeepsLinks
<1>8. TypeOK'
  <2>1. next_ip' \in Nat
    BY <1>1 DEF IInv, TypeOK
  <2>2. DOMAIN allocated' \subseteq peer_ids \X peer_ids
    BY <1>2, <1>6 DEF IInv, TypeOK
  <2>3. allocated' \in [DOMAIN allocated' -> Nat \X Nat]
    <3> HIDE DEF val, key
    <3>1. QED
      BY <1>2, <1>4 DEF IInv, TypeOK
  <2>4. QED
    BY <1>1, <1>5, <1>7, <2>1, <2>2, <2>3 DEF IInv, TypeOK
<1>9. Pairs'
  <2>1. /\ IsFiniteSet(DOMAIN allocated')
        /\ Cardinality(DOMAIN allocated') = c + 1
    BY <1>1, <1>2, <1>3, FS_AddElement DEF IInv, Pairs
  <2>2. next_ip' = 2 + 2 * Cardinality(DOMAIN allocated')
    BY <1>1, <1>3, <2>1
  <2>3. \A k \in DOMAIN allocated : allocated[k][1] \in Nat /\ allocated[k][2] \in Nat
    BY DEF IInv, TypeOK
  <2>4. \A k \in DOMAIN allocated' :
            /\ allocated'[k][2] = allocated'[k][1] + 1
            /\ allocated'[k][1] % 2 = 0
            /\ allocated'[k][1] >= 2
            /\ allocated'[k][2] < next_ip'
            /\ allocated'[k][2] < SubnetSize
    <3>1. SUFFICES ASSUME NEW k \in DOMAIN allocated'
                   PROVE  /\ allocated'[k][2] = allocated'[k][1] + 1
                          /\ allocated'[k][1] % 2 = 0
                          /\ allocated'[k][1] >= 2
                          /\ allocated'[k][2] < next_ip'
                          /\ allocated'[k][2] < SubnetSize
      OBVIOUS
    <3>2. CASE k = key
      <4>1. allocated'[k][1] = next_ip /\ allocated'[k][2] = next_ip + 1
        BY <1>2, <3>2
      <4>2. next_ip \in Nat /\ next_ip >= 2 /\ next_ip % 2 = 0
        BY <1>3, <1>4
      <4>3. QED
        BY <1>1, <4>1, <4>2
    <3>3. CASE k # key
      <4>1. k \in DOMAIN allocated /\ allocated'[k] = allocated[k]
        BY <1>2, <3>3
      <4>2. QED
        BY <1>1, <1>3, <2>3, <4>1 DEF IInv, Pairs
    <3>4. QED
      BY <3>2, <3>3
  <2>5. ASSUME NEW k \in DOMAIN allocated', NEW l \in DOMAIN allocated',
               allocated'[k][1] = allocated'[l][1]
        PROVE  k = l
    <3>1. \A x \in DOMAIN allocated : allocated'[x][1] # next_ip
      BY <1>2, <1>3, <2>3 DEF IInv, Pairs
    <3>2. allocated'[key][1] = next_ip
      BY <1>2
    <3>3. CASE k = key \/ l = key
      BY <1>2, <2>5, <3>1, <3>2, <3>3
    <3>4. CASE k # key /\ l # key
      <4>1. /\ k \in DOMAIN allocated /\ allocated'[k] = allocated[k]
            /\ l \in DOMAIN allocated /\ allocated'[l] = allocated[l]
        BY <1>2, <3>4
      <4>2. QED
        BY <2>5, <4>1 DEF IInv, Pairs
    <3>5. QED
      BY <3>3, <3>4
  <2>6. QED
    BY <2>1, <2>2, <2>4, <2>5 DEF Pairs
<1>10. RefusedOnlyWhenFull'
  <2>1. state' = "deploying"
    BY <1>1 DEF AtNeighbor
  <2>2. QED
    BY <2>1 DEF RefusedOnlyWhenFull
<1>11. QED
  BY <1>7, <1>8, <1>9, <1>10 DEF IInv

\* A stuttering step changes nothing.
LEMMA StutterIInv == IInv /\ UNCHANGED vars => IInv'
<1> SUFFICES ASSUME IInv, UNCHANGED vars PROVE IInv'
  OBVIOUS
<1>1. /\ Pairs' /\ Interfaces' /\ PortsDistinct' /\ graph' = graph /\ peer_ids' = peer_ids
  BY MapsUnchanged DEF vars
<1>2. TypeOK'
  BY <1>1 DEF IInv, vars, TypeOK
<1>3. Ports'
  BY <1>1 DEF IInv, vars, Ports
<1>4. RefusedOnlyWhenFull'
  BY DEF IInv, vars, RefusedOnlyWhenFull
<1>5. QED
  BY <1>1, <1>2, <1>3, <1>4 DEF IInv

\* The inductive invariant holds in every reachable state.
THEOREM IInvCorrect == Spec => []IInv
<1>1. Init => IInv
  BY InitIInv
<1>2. IInv /\ [Next]_vars => IInv'
  BY SkipUnknownIInv, ReuseIInv, AllocateIInv, AllocateFailsIInv, NextPeerIInv,
     PeerConfigsIInv, StutterIInv
     DEF Next
<1>3. QED
  BY <1>1, <1>2, PTL DEF Spec

-----------------------------------------------------------------------------
(* What the invariant says about addresses.                                *)

\* The address of an interface, by the order of the two peers of its link.
LEMMA LocalAddress ==
    ASSUME IInv, NEW p \in DOMAIN peers_map
    PROVE  /\ p = <<p[1], p[2]>> /\ p[1] \in Nat /\ p[2] \in Nat
           /\ pair_key(p[1], p[2]) \in DOMAIN allocated
           /\ LET val == allocated[pair_key(p[1], p[2])]
              IN  /\ peers_map[p].local = (IF p[1] > p[2] THEN val[2] ELSE val[1])
                  /\ peers_map[p].remote = (IF p[2] > p[1] THEN val[2] ELSE val[1])
                  /\ peers_map[p].network = val[1]
                  /\ val[1] \in Nat /\ val[2] = val[1] + 1 /\ val[1] % 2 = 0
                  /\ val[1] >= 2 /\ val[2] < SubnetSize
<1>1. p = <<p[1], p[2]>> /\ p[1] \in Nat /\ p[2] \in Nat
  BY GraphTypes, SMTT(30) DEF IInv, TypeOK
<1>2. pair_key(p[1], p[2]) \in DOMAIN allocated
  BY DEF IInv, Interfaces
<1> DEFINE val == allocated[pair_key(p[1], p[2])]
<1>3. /\ val[1] \in Nat /\ val[2] = val[1] + 1 /\ val[1] % 2 = 0
      /\ val[1] >= 2 /\ val[2] < SubnetSize
  BY <1>2 DEF IInv, TypeOK, Pairs
<1>4. /\ peers_map[p].local = pick(p[1], p[2], p[1], val)
      /\ peers_map[p].remote = pick(p[1], p[2], p[2], val)
      /\ peers_map[p].network = val[1]
  BY DEF IInv, Interfaces
<1>5. /\ pick(p[1], p[2], p[1], val) = (IF p[1] > p[2] THEN val[2] ELSE val[1])
      /\ pick(p[1], p[2], p[2], val) = (IF p[2] > p[1] THEN val[2] ELSE val[1])
  BY <1>1 DEF pick, pair_key
<1>6. QED
  BY <1>1, <1>2, <1>3, <1>4, <1>5

\* The three properties of the addresses follow from the invariant.
LEMMA IInvAddresses == IInv => AddressesUnique /\ AddressesInSubnet /\ LinkEndsAgree
<1> SUFFICES ASSUME IInv PROVE AddressesUnique /\ AddressesInSubnet /\ LinkEndsAgree
  OBVIOUS
<1>1. AddressesInSubnet
  BY LocalAddress, DeploymentAssumption DEF AddressesInSubnet
<1>2. AddressesUnique
  <2>1. SUFFICES ASSUME NEW p \in DOMAIN peers_map, NEW q \in DOMAIN peers_map,
                        peers_map[p].local = peers_map[q].local
                 PROVE  p = q
    BY DEF AddressesUnique
  <2> DEFINE kp == pair_key(p[1], p[2])
             kq == pair_key(q[1], q[2])
  <2>2. allocated[kp][1] = allocated[kq][1] /\ (p[1] > p[2] <=> q[1] > q[2])
    <3>1. /\ peers_map[p].local = IF p[1] > p[2] THEN allocated[kp][1] + 1 ELSE allocated[kp][1]
          /\ peers_map[q].local = IF q[1] > q[2] THEN allocated[kq][1] + 1 ELSE allocated[kq][1]
      BY LocalAddress
    <3>2. /\ allocated[kp][1] \in Nat /\ allocated[kp][1] % 2 = 0
          /\ allocated[kq][1] \in Nat /\ allocated[kq][1] % 2 = 0
      BY LocalAddress
    <3>3. PICK x \in Nat, y \in Nat :
            /\ x = allocated[kp][1] /\ x % 2 = 0
            /\ y = allocated[kq][1] /\ y % 2 = 0
      BY <3>2
    <3>4. /\ p[1] > p[2] => peers_map[p].local = x + 1
          /\ ~(p[1] > p[2]) => peers_map[p].local = x
          /\ q[1] > q[2] => peers_map[q].local = y + 1
          /\ ~(q[1] > q[2]) => peers_map[q].local = y
      BY <3>1, <3>3
    <3>5. x + 1 # y /\ y + 1 # x
      BY <3>3, EvenNotNext
    <3>6. x = y /\ (p[1] > p[2] <=> q[1] > q[2])
      BY <2>1, <3>4, <3>5
    <3>7. QED
      BY <3>3, <3>6
  <2>3. kp = kq
    BY <2>2, LocalAddress DEF IInv, Pairs
  <2>4. QED
    BY <2>2, <2>3, LocalAddress DEF pair_key
<1>3. LinkEndsAgree
  <2>1. SUFFICES ASSUME NEW p \in DOMAIN peers_map, NEW q \in DOMAIN peers_map,
                        q = <<p[2], p[1]>>
                 PROVE  /\ peers_map[p].local = peers_map[q].remote
                        /\ peers_map[p].network = peers_map[q].network
                        /\ network31(peers_map[p].local) = peers_map[p].network
    BY DEF LinkEndsAgree
  <2>2. q[1] = p[2] /\ q[2] = p[1] /\ pair_key(q[1], q[2]) = pair_key(p[1], p[2])
    BY <2>1, LocalAddress, PairKeyType
  <2>3. network31(peers_map[p].local) = peers_map[p].network
    BY LocalAddress, NetworkOfPair
  <2>4. QED
    BY <2>2, <2>3, LocalAddress
<1>4. QED
  BY <1>1, <1>2, <1>3

\* Whatever the graph and whoever is visited first, no two interfaces of the
\* backbone are given the same address.
THEOREM AddressesCorrect == Spec => []AddressesUnique
<1>1. IInv => AddressesUnique
  BY IInvAddresses
<1>2. QED
  BY <1>1, IInvCorrect, PTL

\* The two ends of every link are configured alike, with addresses of the
\* subnet.
THEOREM LinksCorrect == Spec => [](LinkEndsAgree /\ AddressesInSubnet)
<1>1. IInv => LinkEndsAgree /\ AddressesInSubnet
  BY IInvAddresses
<1>2. QED
  BY <1>1, IInvCorrect, PTL

\* The links of a peer never share a port or an interface name.
THEOREM PortsCorrect == Spec => []PortsDistinct
<1>1. IInv => PortsDistinct
  BY DEF IInv, Ports
<1>2. QED
  BY <1>1, IInvCorrect, PTL

\* The allocation never sees misaligned addresses, and is refused only when
\* the subnet has no room for another link.
THEOREM RefusalCorrect == Spec => []RefusedOnlyWhenFull
<1>1. IInv => RefusedOnlyWhenFull
  BY DEF IInv
<1>2. QED
  BY <1>1, IInvCorrect, PTL

-----------------------------------------------------------------------------
(* The random search.                                                      *)

\* The types. There is a cell with a public address.
WalkType ==
    /\ private_peers \in SUBSET Peers /\ public_peers # {}
    /\ walk \in Seq(Peers)
    /\ stored \in Nat /\ (stored > 0 => stored < Len(walk))
    /\ peer_edges \in [Peers -> SUBSET Peers]

\* The walk visits no cell twice, and one end of each of its edges is public.
IsPath ==
    /\ \A j, k \in 1..Len(walk) : walk[j] = walk[k] => j = k
    /\ \A k \in 1..Len(walk) : k + 1 \in 1..Len(walk) =>
         {walk[k], walk[k + 1]} \cap public_peers # {}

\* Edges are stored once the walk has come to its end, of a walk that is kept.
StoredIsEnded == stored > 0 => IsKept /\ neighbors = {}

\* The three lists sort the cells that have an edge by the number of edges.
ListsAreExact ==
    /\ full_peers = {p \in Peers : peer_edges[p] # {}
         /\ Count(peer_edges[p]) >= max_peer_edges}
    /\ ok_peers = {p \in Peers : /\ peer_edges[p] # {} /\ Count(peer_edges[p]) < max_peer_edges
                                 /\ Count(peer_edges[p]) >= ok_peer_edges}
    /\ min_peers = {p \in Peers : /\ peer_edges[p] # {} /\ Count(peer_edges[p]) < max_peer_edges
                                  /\ Count(peer_edges[p]) < ok_peer_edges}

\* The cells of T are linked with each other: no set of cells that no edge
\* leaves has some of them only.
IsJoined(T) == \A S \in SUBSET Peers : IsClosed(S) /\ S \cap T # {} => T \subseteq S

\* The part of the walk whose edges were stored.
Passed == {walk[k] : k \in {j \in 1..Len(walk) : j <= stored + 1}}

\* The graph has nothing but the part of the walk that was stored. No edge of
\* the first walk is dropped then, because no cell is full.
FirstWalk ==
    /\ \A p \in Peers : stored = 0 \/ p \notin Passed => peer_edges[p] = {}
    /\ stored > 0 => peer_edges[walk[stored + 1]] \subseteq {walk[stored]}
    /\ IsJoined(Passed)

\* The inductive invariant of the search. The first walk that is kept links all
\* the public cells, because a walk ends only where no public cell is left; the
\* others add edges to that.
WalkInv ==
    /\ WalkType /\ IsPath /\ StoredIsEnded /\ ListsAreExact
    /\ IsJoined(public_peers) \/ FirstWalk
    /\ ReturnedIsConnected

\* Sets of cells are finite.
LEMMA CountFacts ==
    ASSUME NEW S \in SUBSET Peers
    PROVE  /\ IsFiniteSet(S) /\ Count(S) \in Nat
           /\ Count(S) = 0 <=> S = {}
           /\ Count(S) <= Count(Peers)
           /\ Count(S) = Count(Peers) => S = Peers
           /\ \A p \in Peers : Count(S \cup {p}) = IF p \in S THEN Count(S)
                ELSE Count(S) + 1
  <1>1. IsFiniteSet(S) /\ IsFiniteSet(Peers)
    BY RandomAssumption, FS_Subset
  <1>2. Count(S) \in Nat /\ (Count(S) = 0 <=> S = {})
    BY <1>1, FS_CardinalityType, FS_EmptySet DEF Count
  <1>3. Count(S) <= Count(Peers) /\ (Count(S) = Count(Peers) => S = Peers)
    BY <1>1, FS_Subset DEF Count
  <1>4. \A p \in Peers : Count(S \cup {p}) = IF p \in S THEN Count(S) ELSE Count(S) + 1
    BY <1>1, FS_AddElement DEF Count
  <1> QED
    BY <1>1, <1>2, <1>3, <1>4

\* The limits, for two cells or more.
LEMMA LimitFacts ==
    ASSUME private_peers \in SUBSET Peers, NEW a \in Peers, NEW b \in Peers, a # b
    PROVE  /\ min_peer_edges = 1
           /\ ok_peer_edges \in Nat \ {0}
           /\ max_peer_edges \in Nat /\ max_peer_edges >= 2
  <1>1. Count({a}) = 1
    <2>1. Count({}) = 0 /\ Count({} \cup {a}) = Count({}) + 1
      BY CountFacts
    <2> QED
      BY <2>1
  <1>2. Count(Peers) \in Nat /\ Count(Peers) >= 2
    <2> QED
      BY <1>1, CountFacts
  <1>3. Count(public_peers) \in Nat /\ Count(private_peers) \in Nat
    BY CountFacts DEF public_peers
  <1> QED
    BY <1>2, <1>3 DEF min_peer_edges, ok_peer_edges, max_peer_edges

\* They do not change during a search.
LEMMA LimitsKept ==
    ASSUME private_peers' = private_peers
    PROVE  /\ public_peers' = public_peers /\ max_peer_edges' = max_peer_edges
           /\ ok_peer_edges' = ok_peer_edges /\ min_peer_edges' = min_peer_edges
  BY DEF public_peers, max_peer_edges

\* What is said of the graph stays true if it does not change.
LEMMA GraphKept ==
    ASSUME private_peers' = private_peers, peer_edges' = peer_edges
    PROVE  /\ WithinLimits' = WithinLimits /\ Connected' = Connected
           /\ IsJoined(public_peers)' = IsJoined(public_peers)
           /\ UNCHANGED lists => ListsAreExact' = ListsAreExact
  <1>1. \A S : IsClosed(S)' = IsClosed(S)
    BY DEF IsClosed
  <1> QED
    BY <1>1, LimitsKept DEF WithinLimits, Connected, IsJoined, ListsAreExact, lists

\* The search begins with a graph without edges.
LEMMA InitSearch == SearchInit => WalkInv
  <1> SUFFICES ASSUME SearchInit PROVE WalkInv
    OBVIOUS
  <1>1. private_peers \in SUBSET Peers /\ Count(private_peers) \in Privates
        /\ walk = <<>> /\ stored = 0 /\ peer_edges = [p \in Peers |-> {}]
    BY DEF SearchInit
  <1>2. public_peers # {}
    <2>1. Count(private_peers) # Count(Peers)
      <3>1. Count(Peers) \in Nat
        BY CountFacts
      <3> QED
        BY <1>1, <3>1, RandomAssumption DEF Count
    <2>2. public_peers = {} => private_peers = Peers
      BY <1>1 DEF public_peers
    <2> QED
      BY <2>1, <2>2
  <1>3. WalkType /\ IsPath /\ StoredIsEnded
    BY <1>1, <1>2 DEF WalkType, IsPath, StoredIsEnded
  <1>4. ListsAreExact
    BY DEF SearchInit, ListsAreExact
  <1>5. FirstWalk
    BY <1>1 DEF FirstWalk, Passed, IsJoined
  <1>6. ReturnedIsConnected
    <2>1. Count({}) = 0
      BY CountFacts
    <2>2. 0 <= max_peer_edges
      BY <1>1, CountFacts DEF max_peer_edges, public_peers
    <2> QED
      BY <2>1, <2>2 DEF ReturnedIsConnected, WithinLimits, SearchInit
  <1> QED
    BY <1>3, <1>4, <1>5, <1>6 DEF WalkInv

\* The walk goes on before any of its edges is stored.
LEMMA VisitKeeps == WalkInv /\ (\E p \in Peers : Visit(p)) => WalkInv'
  <1> SUFFICES ASSUME WalkInv, NEW p \in Peers, Visit(p) PROVE WalkInv'
    OBVIOUS
  <1>1. /\ p \in neighbors /\ walk' = Append(walk, p) /\ search = "trying"
        /\ UNCHANGED <<private_peers, stored, peer_edges, lists, search>>
    BY DEF Visit
  <1>2. WalkType /\ IsPath /\ stored = 0
    BY <1>1 DEF WalkInv, WalkType, StoredIsEnded
  <1>3. /\ Len(walk) \in Nat /\ Len(walk') = Len(walk) + 1 /\ walk' \in Seq(Peers)
        /\ walk'[Len(walk) + 1] = p /\ \A k \in 1..Len(walk) : walk'[k] = walk[k]
    BY <1>1, <1>2 DEF WalkType
  <1>4. public_peers' = public_peers
    BY <1>1, LimitsKept
  <1>5. WalkType'
    BY <1>1, <1>2, <1>4 DEF WalkType
  <1>6. IsPath'
    <2>1. \A k \in 1..Len(walk) : walk[k] # p
      BY <1>1 DEF neighbors, visited
    <2>2. walk # <<>> => {walk[Len(walk)], p} \cap public_peers # {}
      BY <1>1 DEF neighbors
    <2>3. \A j, k \in 1..Len(walk') : walk'[j] = walk'[k] => j = k
      BY <1>2, <1>3, <2>1 DEF IsPath
    <2>4. ASSUME NEW k \in 1..Len(walk'), k + 1 \in 1..Len(walk')
          PROVE  {walk'[k], walk'[k + 1]} \cap public_peers # {}
      <3>1. CASE k + 1 \in 1..Len(walk)
        BY <1>2, <1>3, <3>1 DEF IsPath
      <3>2. CASE k = Len(walk)
        BY <1>3, <2>2, <3>2
      <3> QED
        BY <1>3, <2>4, <3>1, <3>2
    <2> QED
      BY <1>4, <2>3, <2>4 DEF IsPath
  <1>7. StoredIsEnded'
    BY <1>1, <1>2 DEF StoredIsEnded
  <1>8. ListsAreExact' /\ ReturnedIsConnected'
    BY <1>1, GraphKept DEF WalkInv, ReturnedIsConnected
  <1>9. ASSUME FirstWalk PROVE FirstWalk'
    <2>1. \A S \in SUBSET Peers : S \cap Passed' # {} => Passed' \subseteq S
      <3>1. \A x \in Passed' : x = walk'[1]
        BY <1>1, <1>2 DEF Passed
      <3> QED
        BY <3>1
    <2> QED
      BY <1>1, <1>2, <1>9, <2>1 DEF FirstWalk, IsJoined
  <1> QED
    BY <1>1, <1>5, <1>6, <1>7, <1>8, <1>9, GraphKept DEF WalkInv

\* The next edge of the walk has two ends, one of them public.
LEMMA EdgeFacts ==
    ASSUME WalkInv, WalkEnded, ~IsStored,
           NEW a, NEW b, a = walk[stored + 1], b = walk[stored + 2]
    PROVE  /\ IsKept /\ stored + 1 \in 1..Len(walk) /\ stored + 2 \in 1..Len(walk)
           /\ a \in Peers /\ b \in Peers /\ a # b
           /\ {a, b} \cap public_peers # {}
  <1>1. IsKept /\ stored + 1 # Len(walk)
    BY DEF IsStored
  <1>2. walk \in Seq(Peers) /\ Len(walk) \in Nat /\ Len(walk) # 0 /\ stored \in Nat
        /\ (stored > 0 => stored < Len(walk))
    BY DEF WalkInv, WalkType, WalkEnded
  <1>3. stored + 1 \in 1..Len(walk) /\ stored + 2 \in 1..Len(walk)
    BY <1>1, <1>2
  <1>4. a \in Peers /\ b \in Peers
    BY <1>2, <1>3
  <1>5. a # b
    BY <1>2, <1>3 DEF WalkInv, IsPath
  <1>6. {a, b} \cap public_peers # {}
    <2>1. (stored + 1) + 1 = stored + 2
      BY <1>2
    <2> QED
      BY <1>3, <2>1 DEF WalkInv, IsPath
  <1> QED
    BY <1>1, <1>3, <1>4, <1>5, <1>6

\* _store_edge keeps the graph within its limits and the lists exact.
LEMMA StoreKeepsGraph ==
    ASSUME WalkInv, UNCHANGED <<private_peers, search>>, search = "trying",
           NEW a \in Peers, NEW b \in Peers, a # b, {a, b} \cap public_peers # {},
           StoreEdge(a, b)
    PROVE  /\ peer_edges' \in [Peers -> SUBSET Peers]
           /\ \A p \in Peers : peer_edges[p] \subseteq peer_edges'[p]
           /\ ListsAreExact' /\ ReturnedIsConnected'
           /\ IsJoined(public_peers) => IsJoined(public_peers)'
  <1> DEFINE fits == Count(peer_edges[a]) < max_peer_edges
                       /\ Count(peer_edges[b]) < max_peer_edges
  <1>1. CASE ~fits
    <2>1. UNCHANGED <<peer_edges, lists>>
      BY <1>1 DEF StoreEdge
    <2> QED
      BY <2>1, GraphKept DEF WalkInv, WalkType, ReturnedIsConnected
  <1>2. CASE fits
    <2>1. peer_edges' = [peer_edges EXCEPT ![a] = @ \cup {b}, ![b] = @ \cup {a}]
          /\ UpdatePeerStatus({a, b})
      BY <1>2 DEF StoreEdge
    <2>2. /\ peer_edges \in [Peers -> SUBSET Peers] /\ private_peers \in SUBSET Peers
          /\ ListsAreExact /\ WithinLimits
      BY DEF WalkInv, WalkType, ReturnedIsConnected
    <2>3. /\ peer_edges' \in [Peers -> SUBSET Peers]
          /\ peer_edges'[a] = peer_edges[a] \cup {b}
               /\ peer_edges'[b] = peer_edges[b] \cup {a}
          /\ \A p \in Peers \ {a, b} : peer_edges'[p] = peer_edges[p]
      BY <2>1, <2>2
    <2>4. \A p \in Peers : peer_edges[p] \subseteq peer_edges'[p]
      BY <2>3
    <2>5. /\ public_peers' = public_peers /\ max_peer_edges' = max_peer_edges
          /\ ok_peer_edges' = ok_peer_edges /\ min_peer_edges' = min_peer_edges
      BY LimitsKept
    <2>6. /\ min_peer_edges = 1 /\ ok_peer_edges \in Nat \ {0} /\ max_peer_edges \in Nat
      BY <2>2, LimitFacts
    <2>7. \A p \in Peers :
            /\ Count(peer_edges[p]) \in Nat /\ Count(peer_edges'[p]) \in Nat
            /\ Count(peer_edges[p]) = 0 <=> peer_edges[p] = {}
            /\ Count(peer_edges'[p]) = 0 <=> peer_edges'[p] = {}
      BY <2>3, CountFacts
    <2>8. \A p \in {a, b} :
            /\ Count(peer_edges[p]) < max_peer_edges
            /\ Count(peer_edges[p]) <= Count(peer_edges'[p])
            /\ Count(peer_edges'[p]) <= max_peer_edges
            /\ peer_edges'[p] # {}
      <3>1. Count(peer_edges[a] \cup {b}) \in {Count(peer_edges[a]),
              Count(peer_edges[a]) + 1}
            /\ Count(peer_edges[b] \cup {a}) \in {Count(peer_edges[b]),
                 Count(peer_edges[b]) + 1}
        BY <2>2, CountFacts
      <3>2. b \in peer_edges'[a] /\ a \in peer_edges'[b]
        BY <2>3
      <3>3. Count(peer_edges[a]) \in Nat /\ Count(peer_edges[b]) \in Nat
        BY <2>7
      <3>4. /\ Count(peer_edges[a]) <= Count(peer_edges'[a])
            /\ Count(peer_edges'[a]) <= max_peer_edges
        BY <1>2, <2>3, <2>6, <3>1, <3>3
      <3>5. /\ Count(peer_edges[b]) <= Count(peer_edges'[b])
            /\ Count(peer_edges'[b]) <= max_peer_edges
        BY <1>2, <2>3, <2>6, <3>1, <3>3
      <3> QED
        BY <1>2, <3>2, <3>4, <3>5
    <2>9. WithinLimits'
      <3>1. \A p \in Peers : Count(peer_edges'[p]) <= max_peer_edges
        BY <2>2, <2>3, <2>8 DEF WithinLimits
      <3>2. ASSUME NEW p \in Peers, NEW q \in peer_edges'[p]
            PROVE  p \in peer_edges'[q] /\ {p, q} \cap public_peers # {}
        <4>1. CASE q \in peer_edges[p]
          BY <2>2, <2>4, <4>1 DEF WithinLimits
        <4>2. CASE q \notin peer_edges[p]
          <5>1. (p = a /\ q = b) \/ (p = b /\ q = a)
            BY <2>3, <4>2
          <5> QED
            BY <2>3, <5>1
        <4> QED
          BY <4>1, <4>2
      <3> QED
        BY <2>5, <3>1, <3>2 DEF WithinLimits
    <2>10. IsJoined(public_peers) => IsJoined(public_peers)'
      <3>1. \A S \in SUBSET Peers : IsClosed(S)' => IsClosed(S)
        BY <2>4 DEF IsClosed
      <3> QED
        BY <2>5, <3>1 DEF IsJoined
    <2>11. ListsAreExact'
      <3> DEFINE full == {p \in {a, b} : Count(peer_edges'[p]) >= max_peer_edges}
                 ok == {p \in {a, b} : Count(peer_edges'[p]) >= ok_peer_edges} \ full
                 min == {p \in {a,
                   b} : Count(peer_edges'[p]) >= min_peer_edges} \ (full \cup ok)
      <3>1. /\ full_peers' = full_peers \cup full
            /\ ok_peers' = (ok_peers \ full) \cup ok
            /\ min_peers' = (min_peers \ (full \cup ok)) \cup min
        BY <2>1 DEF UpdatePeerStatus
      <3>2. ASSUME NEW p \in Peers
            PROVE  /\ p \in full_peers' <=>
                        peer_edges'[p] # {} /\ Count(peer_edges'[p]) >= max_peer_edges
                   /\ p \in ok_peers' <=>
                        /\ peer_edges'[p] # {} /\ Count(peer_edges'[p]) < max_peer_edges
                        /\ Count(peer_edges'[p]) >= ok_peer_edges
                   /\ p \in min_peers' <=>
                        /\ peer_edges'[p] # {} /\ Count(peer_edges'[p]) < max_peer_edges
                        /\ Count(peer_edges'[p]) < ok_peer_edges
        <4>1. CASE p \in {a, b}
          BY <2>2, <2>6, <2>7, <2>8, <3>1, <4>1 DEF ListsAreExact
        <4>2. CASE p \notin {a, b}
          BY <2>2, <2>3, <3>1, <4>2 DEF ListsAreExact
        <4> QED
          BY <4>1, <4>2
      <3>3. full_peers' \subseteq Peers /\ ok_peers' \subseteq Peers
              /\ min_peers' \subseteq Peers
        BY <2>2, <3>1 DEF ListsAreExact
      <3> HIDE DEF full, ok, min
      <3> QED
        BY <2>5, <3>2, <3>3 DEF ListsAreExact
    <2> QED
      BY <2>3, <2>9, <2>10, <2>11 DEF ReturnedIsConnected
  <1> QED
    BY <1>1, <1>2

\* The first walk grows by an edge.
LEMMA StoreNextKeeps == WalkInv /\ StoreNext => WalkInv'
  <1> SUFFICES ASSUME WalkInv, StoreNext PROVE WalkInv'
    OBVIOUS
  <1> DEFINE a == walk[stored + 1]
             b == walk[stored + 2]
  <1>1. /\ WalkEnded /\ ~IsStored /\ StoreEdge(a, b) /\ stored' = stored + 1
        /\ UNCHANGED <<private_peers, walk, search>>
    BY DEF StoreNext
  <1>2. /\ IsKept /\ stored + 1 \in 1..Len(walk) /\ stored + 2 \in 1..Len(walk)
        /\ a \in Peers /\ b \in Peers /\ a # b /\ {a, b} \cap public_peers # {}
    BY <1>1, EdgeFacts
  <1>3. /\ peer_edges' \in [Peers -> SUBSET Peers]
        /\ \A p \in Peers : peer_edges[p] \subseteq peer_edges'[p]
        /\ ListsAreExact' /\ ReturnedIsConnected'
        /\ IsJoined(public_peers) => IsJoined(public_peers)'
    BY <1>1, <1>2, StoreKeepsGraph DEF WalkEnded
  <1>4. public_peers' = public_peers
    BY <1>1, LimitsKept
  <1>5. WalkType /\ Len(walk) \in Nat /\ stored \in Nat
    BY DEF WalkInv, WalkType
  <1>6. WalkType' /\ IsPath'
    BY <1>1, <1>2, <1>3, <1>4 DEF WalkInv, WalkType, IsPath
  <1>7. StoredIsEnded'
    BY <1>1, <1>2, <1>4 DEF StoredIsEnded, WalkEnded, neighbors, visited, IsKept,
       IsComplete
  <1>8. ASSUME FirstWalk PROVE FirstWalk'
    <2>1. Passed' = Passed \cup {b} /\ a \in Passed /\ b \notin Passed
      <3>1. a \in Passed
        BY <1>2 DEF Passed
      <3>2. b \notin Passed
        BY <1>2, <1>5 DEF Passed, WalkInv, IsPath
      <3>3. \A j \in 1..Len(walk) : j <= stored' + 1 <=> j <= stored + 1
              \/ j = stored + 2
        BY <1>1, <1>5
      <3>4. Passed' = Passed \cup {b}
        BY <1>1, <1>2, <3>3 DEF Passed
      <3> QED
        BY <3>1, <3>2, <3>4
    <2>2. peer_edges[b] = {}
      BY <1>2, <1>8, <2>1 DEF FirstWalk
    <2>3. Count(peer_edges[a]) < max_peer_edges /\ Count(peer_edges[b]) < max_peer_edges
      <3>1. max_peer_edges \in Nat /\ max_peer_edges >= 2
        BY <1>2, <1>5, LimitFacts DEF WalkType
      <3>2. \E c \in Peers : peer_edges[a] \subseteq {c}
        <4>1. CASE stored = 0
          BY <1>2, <1>8, <4>1 DEF FirstWalk
        <4>2. CASE stored > 0
          <5>1. walk[stored] \in Peers
            BY <1>5, <4>2 DEF WalkType
          <5> QED
            BY <1>8, <4>2, <5>1 DEF FirstWalk
        <4> QED
          BY <1>5, <4>1, <4>2
      <3>3. PICK c \in Peers : peer_edges[a] \subseteq {c}
        BY <3>2
      <3>4. Count({}) = 0 /\ Count({} \cup {c}) = Count({}) + 1
        BY CountFacts
      <3>5. peer_edges[a] = {} \/ peer_edges[a] = {} \cup {c}
        BY <3>3
      <3> QED
        BY <2>2, <3>1, <3>4, <3>5
    <2>4. peer_edges' = [peer_edges EXCEPT ![a] = @ \cup {b}, ![b] = @ \cup {a}]
      BY <1>1, <2>3 DEF StoreEdge
    <2>5. /\ peer_edges'[a] = peer_edges[a] \cup {b} /\ peer_edges'[b] = {a}
          /\ \A p \in Peers \ {a, b} : peer_edges'[p] = peer_edges[p]
      BY <1>2, <1>5, <2>2, <2>4 DEF WalkType
    <2>6. \A p \in Peers : p \notin Passed' => peer_edges'[p] = {}
      BY <1>8, <2>1, <2>5 DEF FirstWalk
    <2>7. peer_edges'[walk'[stored' + 1]] \subseteq {walk'[stored']}
      <3>1. walk'[stored' + 1] = b /\ walk'[stored'] = a
        BY <1>1, <1>5
      <3> QED
        BY <2>5, <3>1
    <2>8. IsJoined(Passed)'
      <3>1. ASSUME NEW S \in SUBSET Peers, IsClosed(S)', S \cap Passed' # {}
            PROVE  Passed' \subseteq S
        <4>1. IsClosed(S)
          BY <1>3, <3>1 DEF IsClosed
        <4>2. a \in S <=> b \in S
          BY <2>5, <3>1 DEF IsClosed
        <4>3. S \cap Passed # {} => Passed \subseteq S
          BY <1>8, <4>1 DEF FirstWalk, IsJoined
        <4> QED
          BY <2>1, <3>1, <4>2, <4>3
      <3> QED
        BY <3>1 DEF IsJoined
    <2> QED
      BY <1>1, <1>5, <2>6, <2>7, <2>8 DEF FirstWalk
  <1> QED
    BY <1>3, <1>6, <1>7, <1>8 DEF WalkInv

\* At the end of a try the public cells are linked, or nothing was ever stored.
LEMMA EndFacts ==
    ASSUME WalkInv, WalkEnded, IsStored
    PROVE  IsJoined(public_peers) \/ (~IsKept /\ \A p \in Peers : peer_edges[p] = {})
  <1>1. CASE IsJoined(public_peers)
    BY <1>1
  <1>2. CASE FirstWalk /\ ~IsKept
    <2>1. stored = 0
      BY <1>2 DEF WalkInv, WalkType, StoredIsEnded
    <2> QED
      BY <1>2, <2>1 DEF FirstWalk
  <1>3. CASE FirstWalk /\ IsKept
    <2>1. walk \in Seq(Peers) /\ Len(walk) \in Nat /\ walk # <<>> /\ neighbors = {}
          /\ Len(walk) # 0
      BY DEF WalkInv, WalkType, WalkEnded
    <2>2. stored + 1 = Len(walk)
      BY <1>3 DEF IsStored
    <2>3. Passed = visited
      BY <2>2 DEF Passed, visited
    <2>4. public_peers \subseteq visited
      BY <2>1 DEF neighbors, public_peers
    <2> QED
      BY <1>3, <2>3, <2>4 DEF FirstWalk, IsJoined
  <1> QED
    BY <1>2, <1>3 DEF WalkInv

\* If every cell is on a list then the graph is connected: a private cell has
\* an edge, whose other end is public.
LEMMA ListedIsConnected ==
    ASSUME WalkInv, IsJoined(public_peers) \/ \A p \in Peers : peer_edges[p] = {},
           full_peers \cup ok_peers \cup min_peers = Peers
    PROVE  Connected
  <1>1. \A p \in Peers : peer_edges[p] # {}
    BY DEF WalkInv, ListsAreExact
  <1>2. /\ public_peers # {} /\ public_peers \subseteq Peers
        /\ peer_edges \in [Peers -> SUBSET Peers] /\ WithinLimits
    BY DEF WalkInv, WalkType, ReturnedIsConnected, public_peers
  <1>3. IsJoined(public_peers)
    BY <1>1, <1>2
  <1>4. ASSUME NEW S \in SUBSET Peers, S # {}, IsClosed(S)
        PROVE  S = Peers
    <2>1. S \cap public_peers # {}
      <3>1. PICK p \in S : TRUE
        BY <1>4
      <3>2. PICK q \in peer_edges[p] : TRUE
        BY <1>1
      <3>3. q \in S
        BY <1>4 DEF IsClosed
      <3>4. {p, q} \cap public_peers # {}
        BY <1>2 DEF WithinLimits
      <3> QED
        BY <3>3, <3>4
    <2>2. public_peers \subseteq S
      BY <1>3, <1>4, <2>1 DEF IsJoined
    <2>3. ASSUME NEW p \in Peers PROVE p \in S
      <3>1. PICK q \in peer_edges[p] : TRUE
        BY <1>1
      <3>2. /\ q \in Peers /\ p \in peer_edges[q] /\ {p, q} \cap public_peers # {}
        BY <1>2 DEF WithinLimits
      <3> QED
        BY <1>4, <2>2, <3>2 DEF IsClosed
    <2> QED
      BY <2>3
  <1> QED
    BY <1>4 DEF Connected

\* The cells of two lists.
LEMMA CountUnion ==
    ASSUME NEW S \in SUBSET Peers, NEW T \in SUBSET Peers, S \cap T = {}
    PROVE  Count(S \cup T) = Count(S) + Count(T)
  <1>1. IsFiniteSet(S) /\ IsFiniteSet(T) /\ Count(S) \in Nat /\ Count(T) \in Nat
    BY CountFacts
  <1>2. Count(S \cup T) = Count(S) + Count(T) - Count(S \cap T)
    BY <1>1, FS_Union DEF Count
  <1>3. Count(S \cap T) = 0
    BY CountFacts
  <1> QED
    BY <1>1, <1>2, <1>3

\* Since no cell is on two lists, test_partial says that every cell is on one.
LEMMA EnoughIsAll ==
    ASSUME WalkInv, test_partial
    PROVE  full_peers \cup ok_peers \cup min_peers = Peers
  <1>1. /\ full_peers \in SUBSET Peers /\ ok_peers \in SUBSET Peers
             /\ min_peers \in SUBSET Peers
    BY DEF WalkInv, ListsAreExact
  <1>2. /\ full_peers \cap ok_peers = {}
             /\ (full_peers \cup ok_peers) \cap min_peers = {}
    <2>1. \A p \in Peers : Count(peer_edges[p]) \in Nat
      BY CountFacts DEF WalkInv, WalkType
    <2>2. max_peer_edges \in Int /\ ok_peer_edges \in Int
      <3>1. Count(Peers) \in Nat /\ Count(public_peers) \in Nat
              /\ Count(private_peers) \in Nat
        BY CountFacts DEF WalkInv, WalkType, public_peers
      <3> QED
        BY <3>1 DEF max_peer_edges, ok_peer_edges
    <2> QED
      BY <2>1, <2>2 DEF WalkInv, ListsAreExact
  <1>3. /\ Count(full_peers) \in Nat /\ Count(ok_peers) \in Nat
             /\ Count(min_peers) \in Nat
        /\ Count(Peers) \in Nat
    BY <1>1, CountFacts
  <1>4. Count(full_peers \cup ok_peers) = Count(full_peers) + Count(ok_peers)
    BY <1>1, <1>2, CountUnion
  <1> DEFINE all == (full_peers \cup ok_peers) \cup min_peers
  <1>5. full_peers \cup ok_peers \in SUBSET Peers /\ all \in SUBSET Peers
    BY <1>1
  <1>6. Count(all) = Count(full_peers \cup ok_peers) + Count(min_peers)
    BY <1>1, <1>2, CountUnion
  <1>7. Count(all) >= Count(Peers)
    BY <1>3, <1>4, <1>6 DEF test_partial
  <1>8. Count(all) \in Nat /\ Count(all) <= Count(Peers)
        /\ (Count(all) = Count(Peers) => all = Peers)
    BY <1>5, CountFacts
  <1> QED
    BY <1>3, <1>7, <1>8

\* A try that returns does so with a connected graph.
LEMMA EndKeeps ==
    ASSUME WalkInv, WalkEnded, IsStored, EndTry,
           search' = "returned" => test_partial
    PROVE  WalkInv'
  <1>1. /\ UNCHANGED <<private_peers, peer_edges, lists>> /\ walk' = <<>> /\ stored' = 0
    BY DEF EndTry
  <1>2. public_peers' = public_peers
    BY <1>1, LimitsKept
  <1>3. WalkType' /\ IsPath' /\ StoredIsEnded'
    BY <1>1, <1>2 DEF WalkInv, WalkType, IsPath, StoredIsEnded
  <1>4. ListsAreExact' /\ WithinLimits'
    BY <1>1, GraphKept DEF WalkInv, ReturnedIsConnected
  <1>5. IsJoined(public_peers) \/ \A p \in Peers : peer_edges[p] = {}
    BY EndFacts
  <1>6. IsJoined(public_peers)' \/ FirstWalk'
    <2>1. CASE IsJoined(public_peers)
      BY <1>1, <2>1, GraphKept
    <2>2. CASE \A p \in Peers : peer_edges[p] = {}
      BY <1>1, <2>2 DEF FirstWalk, Passed, IsJoined
    <2> QED
      BY <1>5, <2>1, <2>2
  <1>7. search' = "returned" => Connected'
    BY <1>1, <1>5, EnoughIsAll, ListedIsConnected, GraphKept
  <1> QED
    BY <1>3, <1>4, <1>6, <1>7 DEF WalkInv, ReturnedIsConnected

\* Enough edges for every cell are also some for every cell.
LEMMA TryCompleteKeeps == WalkInv /\ TryComplete => WalkInv'
  <1> SUFFICES ASSUME WalkInv, TryComplete PROVE WalkInv'
    OBVIOUS
  <1>1. WalkEnded /\ IsStored /\ EndTry
    BY DEF TryComplete
  <1>2. search' = "returned" => Count(ok_peers) + Count(full_peers) >= Count(Peers)
    BY DEF TryComplete
  <1>3. /\ Count(full_peers) \in Nat /\ Count(ok_peers) \in Nat
             /\ Count(min_peers) \in Nat
        /\ Count(Peers) \in Nat
    BY CountFacts DEF WalkInv, ListsAreExact
  <1>4. search' = "returned" => test_partial
    BY <1>2, <1>3 DEF test_partial
  <1> QED
    BY <1>1, <1>4, EndKeeps

\* A walk that cannot go on ends the search only if test_partial says so.
LEMMA TryIncompleteKeeps == WalkInv /\ TryIncomplete => WalkInv'
  <1> SUFFICES ASSUME WalkInv, TryIncomplete PROVE WalkInv'
    OBVIOUS
  <1>1. WalkEnded /\ IsStored /\ EndTry
    BY DEF TryIncomplete
  <1>2. search' = "returned" => test_partial
    BY DEF TryIncomplete
  <1> QED
    BY <1>1, <1>2, EndKeeps

\* Every step preserves the invariant.
LEMMA SearchStep == WalkInv /\ [SearchNext]_searchVars => WalkInv'
  <1> SUFFICES ASSUME WalkInv, [SearchNext]_searchVars PROVE WalkInv'
    OBVIOUS
  <1>1. CASE SearchNext
    BY <1>1, VisitKeeps, StoreNextKeeps, TryCompleteKeeps, TryIncompleteKeeps DEF
       SearchNext
  <1>2. CASE UNCHANGED searchVars
    <2>1. UNCHANGED <<private_peers, walk, stored, peer_edges, lists, search>>
      BY <1>2 DEF searchVars
    <2>2. public_peers' = public_peers
      BY <2>1, LimitsKept
    <2>3. WalkType' /\ IsPath' /\ StoredIsEnded'
      BY <2>1, <2>2 DEF WalkInv, WalkType, IsPath, StoredIsEnded, IsKept, IsComplete,
         neighbors, visited
    <2>4. FirstWalk => FirstWalk'
      <3>1. Passed' = Passed
        BY <2>1 DEF Passed
      <3>2. \A S : IsClosed(S)' = IsClosed(S)
        BY <2>1 DEF IsClosed
      <3> QED
        BY <2>1, <3>1, <3>2 DEF FirstWalk, IsJoined
    <2> QED
      BY <2>1, <2>3, <2>4, GraphKept DEF WalkInv, ReturnedIsConnected
  <1> QED
    BY <1>1, <1>2

\* The inductive invariant holds throughout, for any number of cells, public and
\* private, and of tries (RandomDeploymentGraph.generate_edges).
THEOREM WalkInvCorrect == SearchSpec => []WalkInv
  BY InitSearch, SearchStep, PTL DEF SearchSpec

\* For any number of cells, the random search keeps to its limits and returns
\* early only with a backbone that links every cell to every other
\* (RandomDeploymentGraph.generate_edges, _store_edge).
THEOREM ConnectedCorrect == SearchSpec => []ReturnedIsConnected
  <1>1. WalkInv => ReturnedIsConnected
    BY DEF WalkInv
  <1> QED
    BY <1>1, WalkInvCorrect, PTL

-----------------------------------------------------------------------------
(* The graphs of the strategies: who is near whom.                         *)

\* Every set of numbers but the empty one has a least element: what the proofs
\* below use where an induction is needed.
LEMMA LeastNumber ==
    ASSUME NEW T \in SUBSET Nat, T # {}
    PROVE  \E m \in T : \A k \in T : m <= k
  <1> DEFINE R == OpToRel(<, Nat)
  <1>1. IsWellFoundedOn(R, Nat)
    BY NatLessThanWellFounded
  <1>2. \A k, m \in Nat : k < m => <<k, m>> \in R
    BY DEF OpToRel
  <1> HIDE DEF R
  <1>3. PICK m \in T : \A k \in T : ~ (<<k, m>> \in R)
    BY <1>1, WFMin
  <1>4. \A k \in T : ~(k < m)
    BY <1>2, <1>3
  <1> QED
    BY <1>4

\* Quotient and remainder.
LEMMA DivMod ==
    ASSUME NEW x \in Nat, NEW y \in Nat \ {0}
    PROVE  /\ x \div y \in Nat
           /\ x % y \in Nat /\ x % y < y
           /\ x = y * (x \div y) + (x % y)
  OBVIOUS

\* The remainder of what is at most the divisor.
LEMMA ModSmall ==
    ASSUME NEW c \in Nat \ {0}, NEW x \in 0..c
    PROVE  x % c = IF x = c THEN 0 ELSE x
  OBVIOUS

\* The index on the left is one of the ring's (peer_left).
LEMMA LeftType ==
    ASSUME NEW c \in Nat \ {0}, NEW x \in 0..(c - 1)
    PROVE  /\ peer_left(x, c) \in 0..(c - 1)
           /\ peer_left(x, c) = IF x = 0 THEN c - 1 ELSE x - 1
  BY DEF peer_left

\* So is the index on the right (peer_right).
LEMMA RightType ==
    ASSUME NEW c \in Nat \ {0}, NEW x \in 0..(c - 1)
    PROVE  /\ peer_right(x, c) \in 0..(c - 1)
           /\ peer_right(x, c) = IF x = c - 1 THEN 0 ELSE x + 1
  <1>3. peer_right(x, c) = IF x + 1 = c THEN 0 ELSE x + 1
    BY DEF peer_right
  <1> QED
    BY <1>3

\* And the one across, half of the ring away (peer_across).
LEMMA AcrossType ==
    ASSUME NEW c \in Nat, c >= 2, NEW x \in 0..(c - 1)
    PROVE  /\ peer_across(x, c) \in 0..(c - 1)
           /\ peer_across(x, c) = IF x < c \div 2 THEN x + (c \div 2) ELSE x - (c \div 2)
           /\ c \div 2 \in Nat
           /\ 2 * (c \div 2) = c \/ 2 * (c \div 2) + 1 = c
           /\ c % 2 = 0 <=> 2 * (c \div 2) = c
  <1> DEFINE h == c \div 2
  <1>1. h \in Nat /\ h >= 1 /\ (2 * h = c \/ 2 * h + 1 = c) /\ (c % 2 = 0 <=> 2 * h = c)
    OBVIOUS
  <1>2. peer_across(x, c) = IF x + 1 <= h THEN (x + h) % c ELSE x - h
    BY DEF peer_across
  <1> HIDE DEF h
  <1>3. CASE x < h
    <2>3. peer_across(x, c) = x + h
      BY <1>1, <1>2, <1>3
    <2> QED
      BY <1>1, <1>3, <2>3
  <1>4. CASE ~(x < h)
    <2>1. peer_across(x, c) = x - h
      BY <1>1, <1>2, <1>4
    <2> QED
      BY <1>1, <1>4, <2>1
  <1> QED
    BY <1>3, <1>4

\* Across is mutual, unless the ring is odd, whose last cell has nobody across.
LEMMA AcrossInvolutive ==
    ASSUME NEW c \in Nat, c >= 2, NEW x \in 0..(c - 1), c % 2 = 0 \/ x # c - 1
    PROVE  /\ peer_across(peer_across(x, c), c) = x
           /\ c % 2 = 0 \/ peer_across(x, c) # c - 1
  <1> DEFINE y == peer_across(x, c)
  <1>1. y \in 0..(c - 1)
    BY AcrossType
  <1>2. y = IF x < c \div 2 THEN x + (c \div 2) ELSE x - (c \div 2)
    BY AcrossType
  <1>3. peer_across(y, c) = IF y < c \div 2 THEN y + (c \div 2) ELSE y - (c \div 2)
    BY <1>1, AcrossType
  <1> HIDE DEF y
  <1> DEFINE h == c \div 2
  <1> HIDE DEF h
  <1>5. /\ y = IF x < h THEN x + h ELSE x - h
        /\ peer_across(y, c) = IF y < h THEN y + h ELSE y - h
        /\ h \in Nat /\ (2 * h = c \/ 2 * h + 1 = c) /\ (c % 2 = 0 <=> 2 * h = c)
    BY <1>2, <1>3 DEF h
  <1>6. peer_across(y, c) = x /\ (c % 2 = 0 \/ y # c - 1)
    BY <1>5
  <1> QED
    BY <1>6 DEF y

\* The cell at index y is one of the neighbours generated for the one at x.
IsNear(strategy, c, x, y) ==
    \E k \in 1..peers_count(strategy, x, c) :
        <<peer_left(x, c), peer_right(x, c), peer_across(x, c)>>[k] = y

\* Spelled out: left, right if there are three cells or more, across.
LEMMA NearCases ==
    ASSUME NEW strategy \in {"CROSSED", "CIRCULAR"},
           NEW c \in Nat, c >= 2, NEW x \in 0..(c - 1), NEW y
    PROVE  /\ peers_count(strategy, x, c) \in 1..3
           /\ strategy = "CIRCULAR" => peers_count(strategy, x, c) <= 2
           /\ IsNear(strategy, c, x, y) <=>
                \/ y = peer_left(x, c)
                \/ c > 2 /\ y = peer_right(x, c)
                \/ /\ strategy = "CROSSED" /\ c > 3 /\ (c % 2 = 0 \/ x # c - 1)
                   /\ y = peer_across(x, c)
  <1> DEFINE p == peers_count(strategy, x, c)
             g == <<peer_left(x, c), peer_right(x, c), peer_across(x, c)>>
  <1>1. p = IF c = 2 THEN 1
            ELSE IF strategy = "CROSSED" /\ c > 3 /\ (c % 2 = 0 \/ x # c - 1) THEN 3 ELSE 2
    <2>1. CASE strategy = "CIRCULAR"
      BY <2>1 DEF peers_count, circular_count
    <2>2. CASE strategy = "CROSSED" /\ c = 2
      BY <2>2 DEF peers_count, crossed_count
    <2>3. CASE strategy = "CROSSED" /\ c = 3
      BY <2>3 DEF peers_count, crossed_count
    <2>4. CASE strategy = "CROSSED" /\ c > 3
      BY <2>4 DEF peers_count, crossed_count
    <2> QED
      BY <2>1, <2>2, <2>3, <2>4
  <1>2. /\ g[1] = peer_left(x, c)
        /\ g[2] = peer_right(x, c)
        /\ g[3] = peer_across(x, c)
    OBVIOUS
  <1>3. IsNear(strategy, c, x, y) <=> \E k \in 1..p : g[k] = y
    BY DEF IsNear
  <1> HIDE DEF g, p
  <1> QED
    BY <1>1, <1>2, <1>3 DEF p

\* A neighbour's index is one of the ring's.
LEMMA NearInRange ==
    ASSUME NEW strategy \in {"CROSSED", "CIRCULAR"},
           NEW c \in Nat, c >= 2, NEW x \in 0..(c - 1), NEW y,
           IsNear(strategy, c, x, y)
    PROVE  y \in 0..(c - 1)
  <1>1. /\ peer_left(x, c) \in 0..(c - 1)
        /\ peer_right(x, c) \in 0..(c - 1)
        /\ peer_across(x, c) \in 0..(c - 1)
    BY LeftType, RightType, AcrossType
  <1> QED
    BY <1>1, NearCases

\* Who is near is near back.
LEMMA NearSymmetric ==
    ASSUME NEW strategy \in {"CROSSED", "CIRCULAR"},
           NEW c \in Nat, c >= 2, NEW x \in 0..(c - 1), NEW y \in 0..(c - 1),
           IsNear(strategy, c, x, y)
    PROVE  IsNear(strategy, c, y, x)
  <1>1. /\ peer_left(x, c) = IF x = 0 THEN c - 1 ELSE x - 1
        /\ peer_left(y, c) = IF y = 0 THEN c - 1 ELSE y - 1
    BY LeftType
  <1>2. /\ peer_right(x, c) = IF x = c - 1 THEN 0 ELSE x + 1
        /\ peer_right(y, c) = IF y = c - 1 THEN 0 ELSE y + 1
    BY RightType
  <1>3. CASE y = peer_left(x, c)
    <2>1. x = peer_right(y, c)
      BY <1>1, <1>2, <1>3
    <2>2. c = 2 => x = peer_left(y, c)
      BY <1>1, <1>3
    <2>3. x = peer_left(y, c) \/ (c > 2 /\ x = peer_right(y, c))
      BY <2>1, <2>2
    <2> QED
      BY <2>3, NearCases
  <1>4. CASE c > 2 /\ y = peer_right(x, c)
    <2>1. x = peer_left(y, c)
      BY <1>1, <1>2, <1>4
    <2> QED
      BY <2>1, NearCases
  <1>5. CASE /\ strategy = "CROSSED" /\ c > 3 /\ (c % 2 = 0 \/ x # c - 1)
             /\ y = peer_across(x, c)
    <2>1. x = peer_across(y, c) /\ (c % 2 = 0 \/ y # c - 1)
      BY <1>5, AcrossInvolutive
    <2> QED
      BY <1>5, <2>1, NearCases
  <1> QED
    BY <1>3, <1>4, <1>5, NearCases

\* The public cells are a ring.
LEMMA NearIsRing ==
    ASSUME NEW strategy \in {"CROSSED", "CIRCULAR"},
           NEW c \in Nat, c >= 2,
           NEW S \in SUBSET (0..(c - 1)), S # {},
           \A x \in S : \A y \in 0..(c - 1) : IsNear(strategy, c, x, y) => y \in S
    PROVE  S = 0..(c - 1)
  <1>1. \A x \in S : peer_left(x, c) \in S
    BY LeftType, NearCases
  <1>2. 0 \in S
    <2>1. PICK m \in S : \A k \in S : m <= k
      BY LeastNumber
    <2>2. m # 0 => peer_left(m, c) = m - 1
      BY LeftType
    <2> QED
      BY <1>1, <2>1, <2>2
  <1>3. \A x \in S : x < c - 1 => x + 1 \in S
    <2>1. SUFFICES ASSUME NEW x \in S, x < c - 1 PROVE x + 1 \in S
      OBVIOUS
    <2>2. peer_right(x, c) = x + 1 /\ x + 1 \in 0..(c - 1)
      BY <2>1, RightType
    <2>3. IsNear(strategy, c, x + 1, x)
      <3>1. peer_left(x + 1, c) = x
        BY <2>2, LeftType
      <3> QED
        BY <2>2, <3>1, NearCases
    <2>4. IsNear(strategy, c, x, x + 1)
      BY <2>2, <2>3, NearSymmetric
    <2> QED
      BY <2>2, <2>4
  <1>4. SUFFICES ASSUME S # 0..(c - 1) PROVE FALSE
    OBVIOUS
  <1> DEFINE T == (0..(c - 1)) \ S
  <1>5. PICK m \in T : \A k \in T : m <= k
    <2>1. T # {}
      BY <1>4, Zenon
    <2>2. T \in SUBSET Nat
      OBVIOUS
    <2> HIDE DEF T
    <2> QED
      BY <2>1, <2>2, LeastNumber
  <1>6. m # 0 /\ m \in 0..(c - 1) /\ m \notin S
    BY <1>2
  <1>7. m - 1 \in 0..(c - 1) /\ m - 1 \notin T
    BY <1>5, <1>6
  <1>8. m - 1 \in S /\ m - 1 < c - 1
    BY <1>7
  <1> QED
    BY <1>3, <1>8

-----------------------------------------------------------------------------
(* The parts of the private cells.                                         *)

\* There is a public cell, and the lists have a length.
SizesMatch(public, private) == Len(public) \in Nat \ {0} /\ Len(private) \in Nat

\* A part is as large as the quotient, or one larger.
LEMMA PartitionSize ==
    ASSUME NEW public, NEW private, SizesMatch(public, private), NEW x \in Nat
    PROVE  /\ partition_size(public, private, x) \in Nat
           /\ partition_size(public, private, x) =
                (Len(private) \div Len(public))
                    + (IF x < (Len(private) % Len(public)) THEN 1 ELSE 0)
  <1> DEFINE q == Len(private) \div Len(public)
             r == Len(private) % Len(public)
  <1>1. q \in Nat /\ r \in Nat
    BY DEF SizesMatch
  <1>2. partition_size(public, private, x) = q + (IF x < r THEN 1 ELSE 0)
    BY DEF partition_size
  <1> HIDE DEF q, r
  <1>3. partition_size(public, private, x) \in Nat
    BY <1>1, <1>2
  <1> QED
    BY <1>2, <1>3 DEF q, r

\* The sizes of the first k parts add up to k quotients and the remainders
\* among them.
LEMMA PartitionStart ==
    ASSUME NEW public, NEW private, SizesMatch(public, private)
    PROVE  /\ partition_start(public, private, 0) = 0
           /\ \A k \in Nat : partition_start(public, private, k + 1) =
                partition_start(public, private, k) + partition_size(public, private, k)
           /\ \A k \in Nat : partition_start(public, private, k) \in Nat
           /\ partition_start(public, private, Len(public)) = Len(private)
  <1> DEFINE c == Len(public)
             q == Len(private) \div c
             r == Len(private) % c
             size(k) == partition_size(public, private, k)
             P(s) == s = [k \in Nat |-> IF k = 0 THEN 0 ELSE s[k - 1] + size(k - 1)]
             g == [k \in Nat |-> k * q + (IF k < r THEN k ELSE r)]
             start == CHOOSE s : P(s)
  <1>1. /\ q \in Nat /\ r \in Nat /\ r < c /\ c \in Nat
        /\ Len(private) = c * q + r
    BY DEF SizesMatch
  <1>2. \A k \in Nat : size(k) \in Nat /\ size(k) = q + (IF k < r THEN 1 ELSE 0)
    BY PartitionSize
  <1> HIDE DEF size, q, r, c
  <1>3. ASSUME NEW k \in Nat
        PROVE  g[k] = IF k = 0 THEN 0 ELSE g[k - 1] + size(k - 1)
    <2>1. CASE k = 0
      BY <1>1, <2>1
    <2>2. CASE k # 0
      <3>1. k - 1 \in Nat /\ k * q = (k - 1) * q + q /\ (k - 1) * q \in Nat
        BY <1>1, <2>2
      <3>2. size(k - 1) = q + (IF k - 1 < r THEN 1 ELSE 0)
        BY <1>2, <3>1
      <3> QED
        BY <1>1, <3>1, <3>2
    <2> QED
      BY <2>1, <2>2
  <1>4. P(g)
    BY <1>3
  <1>5. \A k : partition_start(public, private, k) = start[k]
    BY DEF partition_start, size
  <1>6. P(start)
    <2> HIDE DEF P
    <2> QED
      BY <1>4
  <1> HIDE DEF start
  <1>7. /\ start[0] = 0
        /\ \A k \in Nat : start[k + 1] = start[k] + size(k)
    <2>1. \A k \in Nat : start[k] = IF k = 0 THEN 0 ELSE start[k - 1] + size(k - 1)
      BY <1>6
    <2> QED
      BY <2>1
  <1>8. \A k \in Nat : start[k] = g[k]
    <2> DEFINE T == {k \in Nat : start[k] # g[k]}
    <2>1. SUFFICES ASSUME T # {} PROVE FALSE
      OBVIOUS
    <2>2. PICK m \in T : \A k \in T : m <= k
      <3>1. T \in SUBSET Nat
        OBVIOUS
      <3> HIDE DEF T
      <3> QED
        BY <2>1, <3>1, LeastNumber
    <2> HIDE DEF g
    <2>4. m # 0
      BY <1>3, <1>7
    <2>5. m - 1 \in Nat /\ m - 1 \notin T /\ (m - 1) + 1 = m
      BY <2>2, <2>4
    <2>6. start[m - 1] = g[m - 1]
      BY <2>5
    <2>7. start[m] = start[m - 1] + size(m - 1)
      BY <1>7, <2>5
    <2>8. g[m] = g[m - 1] + size(m - 1)
      BY <1>3, <2>4
    <2> QED
      BY <2>6, <2>7, <2>8
  <1>9. \A k \in Nat : g[k] \in Nat
    BY <1>1
  <1>10. g[c] = Len(private)
    BY <1>1
  <1> HIDE DEF g
  <1> QED
    BY <1>1, <1>5, <1>7, <1>8, <1>9, <1>10 DEF c, size

\* A later part does not begin earlier. The least part that does would be
\* after the end of the one before it.
LEMMA StartsIncrease ==
    ASSUME NEW public, NEW private, SizesMatch(public, private),
           NEW k \in Nat, NEW m \in Nat, k <= m
    PROVE  partition_start(public, private, k) <= partition_start(public, private, m)
  <1> DEFINE start(x) == partition_start(public, private, x)
             T == {x \in Nat : x >= k /\ start(x) < start(k)}
  <1>1. \A x \in Nat : start(x) \in Nat
    BY PartitionStart
  <1>2. \A x \in Nat : start(x + 1) >= start(x)
    <2>1. SUFFICES ASSUME NEW x \in Nat PROVE start(x + 1) >= start(x)
      OBVIOUS
    <2> DEFINE size == partition_size(public, private, x)
    <2>2. size \in Nat
      BY PartitionSize
    <2>3. start(x + 1) = start(x) + size
      BY PartitionStart
    <2> HIDE DEF start, size
    <2> QED
      BY <1>1, <2>2, <2>3
  <1> HIDE DEF start
  <1>3. SUFFICES ASSUME start(m) < start(k) PROVE FALSE
    <2>1. start(k) <= start(m)
      BY <1>1
    <2> QED
      BY <2>1 DEF start
  <1>4. PICK x \in T : \A y \in T : x <= y
    <2>1. T \in SUBSET Nat /\ m \in T
      BY <1>3
    <2> HIDE DEF T
    <2> QED
      BY <2>1, LeastNumber
  <1>6. x # k
    BY <1>1
  <1>7. x - 1 \in Nat /\ x - 1 >= k /\ (x - 1) + 1 = x
    BY <1>6
  <1>8. ~(start(x - 1) < start(k))
    BY <1>4, <1>7
  <1>9. start(x) >= start(x - 1)
    BY <1>2, <1>7
  <1> QED
    BY <1>1, <1>8, <1>9

\* Every private cell is served by exactly one public cell, however the division
\* comes out (CrossedDeploymentStrategy._generate_deployment).
THEOREM ServedByOne ==
    ASSUME NEW public, NEW private, SizesMatch(public, private),
           NEW y \in 0..(Len(private) - 1)
    PROVE  /\ \E x \in 0..(Len(public) - 1) : serves(public, private, x, y)
           /\ \A w, x \in 0..(Len(public) - 1) :
                serves(public, private, w, y) /\ serves(public, private, x, y) => w = x
  <1> DEFINE c == Len(public)
             start(x) == partition_start(public, private, x)
             size(x) == partition_size(public, private, x)
  <1>1. \A x : serves(public, private, x, y) <=> y >= start(x) /\ y < start(x) + size(x)
    BY DEF serves
  <1>2. /\ start(0) = 0 /\ start(c) = Len(private)
        /\ \A x \in Nat : start(x) \in Nat /\ size(x) \in Nat
        /\ \A x \in Nat : start(x + 1) = start(x) + size(x)
    <2>1. \A x \in Nat : size(x) \in Nat
      BY PartitionSize
    <2> QED
      BY <2>1, PartitionStart
  <1>3. \A w, x \in Nat : w <= x => start(w) <= start(x)
    BY StartsIncrease
  <1>4. c \in Nat \ {0} /\ Len(private) \in Nat /\ y \in Nat /\ y < Len(private)
    BY DEF SizesMatch
  <1> HIDE DEF c, start, size
  <1>5. \E x \in 0..(c - 1) : y >= start(x) /\ y < start(x) + size(x)
    <2> DEFINE T == {x \in Nat : start(x) > y}
    <2>1. PICK x \in T : \A w \in T : x <= w
      <3>1. T \in SUBSET Nat
        OBVIOUS
      <3>2. c \in T
        BY <1>2, <1>4
      <3> HIDE DEF T
      <3> QED
        BY <3>1, <3>2, LeastNumber
    <2>3. x # 0
      BY <1>2
    <2>4. c \in T
      BY <1>2, <1>4
    <2>5. x <= c
      BY <2>1, <2>4
    <2>6. x - 1 \in Nat /\ x - 1 \in 0..(c - 1) /\ (x - 1) + 1 = x
      BY <1>4, <2>3, <2>5
    <2>7. ~(start(x - 1) > y)
      BY <2>1, <2>6
    <2>8. start(x) = start(x - 1) + size(x - 1) /\ start(x - 1) \in Nat
      BY <1>2, <2>6
    <2> QED
      BY <2>6, <2>7, <2>8
  <1>6. ASSUME NEW w \in Nat, NEW x \in Nat, w < x,
               y >= start(w), y < start(w) + size(w),
               y >= start(x), y < start(x) + size(x)
        PROVE  FALSE
    <2>1. w + 1 \in Nat /\ w + 1 <= x
      BY <1>6
    <2>2. start(w + 1) <= start(x) /\ start(w + 1) = start(w) + size(w)
      BY <1>2, <1>3, <2>1
    <2>3. start(w) \in Nat /\ size(w) \in Nat /\ start(x) \in Nat
      BY <1>2
    <2>4. start(w) + size(w) <= start(x)
      BY <2>2
    <2> QED
      BY <1>6, <2>3, <2>4
  <1>7. \A w, x \in 0..(c - 1) :
           /\ y >= start(w) /\ y < start(w) + size(w)
           /\ y >= start(x) /\ y < start(x) + size(x)
           => w = x
    <2>1. SUFFICES ASSUME NEW w \in 0..(c - 1), NEW x \in 0..(c - 1),
                          y >= start(w), y < start(w) + size(w),
                          y >= start(x), y < start(x) + size(x)
                   PROVE  w = x
      OBVIOUS
    <2>3. ~(w < x) /\ ~(x < w)
      BY <1>6, <2>1
    <2> QED
      BY <2>3
  <1>8. \E x \in 0..(c - 1) : serves(public, private, x, y)
    BY <1>1, <1>5
  <1>9. \A w, x \in 0..(c - 1) :
            serves(public, private, w, y) /\ serves(public, private, x, y) => w = x
    BY <1>1, <1>7
  <1> QED
    BY <1>8, <1>9 DEF c

\* A public cell serves as many private cells as its part has.
LEMMA ServedCount ==
    ASSUME NEW public, NEW private, SizesMatch(public, private),
           NEW x \in 0..(Len(public) - 1)
    PROVE  LET Served == {y \in 0..(Len(private) - 1) : serves(public, private, x, y)}
           IN  /\ IsFiniteSet(Served)
               /\ Cardinality(Served) = partition_size(public, private, x)
  <1> DEFINE Served == {y \in 0..(Len(private) - 1) : serves(public, private, x, y)}
             s == partition_start(public, private, x)
             z == partition_size(public, private, x)
  <1>1. x \in Nat /\ x + 1 \in Nat /\ x + 1 <= Len(public) /\ Len(public) \in Nat
        /\ Len(private) \in Nat
    OBVIOUS
  <1>2. s \in Nat /\ z \in Nat
    BY <1>1, PartitionStart, PartitionSize
  <1>3. s + z <= Len(private)
    <2>1. partition_start(public, private, x + 1) = s + z
      BY PartitionStart
    <2>2. partition_start(public, private, x + 1)
            <= partition_start(public, private, Len(public))
      BY StartsIncrease
    <2>3. partition_start(public, private, Len(public)) = Len(private)
      BY PartitionStart
    <2> QED
      BY <2>1, <2>2, <2>3
  <1>4. \A y : serves(public, private, x, y) <=> y >= s /\ y < s + z
    BY DEF serves
  <1> HIDE DEF s, z
  <1>5. Served = s..(s + z - 1)
    BY <1>2, <1>3, <1>4
  <1>6. IsFiniteSet(s..(s + z - 1)) /\ Cardinality(s..(s + z - 1)) = z
    <2>1. s \in Int /\ s + z - 1 \in Int
      BY <1>2
    <2>2. /\ IsFiniteSet(s..(s + z - 1))
          /\ Cardinality(s..(s + z - 1)) =
                IF s > s + z - 1 THEN 0 ELSE (s + z - 1) - s + 1
      BY <2>1, FS_Interval
    <2> QED
      BY <1>2, <2>2
  <1> HIDE DEF Served
  <1>7. IsFiniteSet(Served) /\ Cardinality(Served) = z
    BY <1>5, <1>6
  <1> QED
    BY <1>7 DEF Served, z

-----------------------------------------------------------------------------
(* Lists of cells.                                                         *)

\* A finite set, as a list of its elements.
LEMMA ListOfSet ==
    ASSUME NEW S, IsFiniteSet(S)
    PROVE  /\ SetToSeq(S) \in Seq(S)
           /\ Len(SetToSeq(S)) = Cardinality(S)
           /\ \A x : x \in S <=> \E k \in 1..Len(SetToSeq(S)) : SetToSeq(S)[k] = x
           /\ \A k, m \in 1..Len(SetToSeq(S)) : SetToSeq(S)[k] = SetToSeq(S)[m] => k = m
  <1> DEFINE c == Cardinality(S)
             P(f) == f \in [1..c -> S] /\ IsInjective(f)
             s == CHOOSE f \in [1..c -> S] : IsInjective(f)
  <1>1. c \in Nat /\ ExistsBijection(1..c, S)
    BY FS_CardinalityType
  <1>2. PICK f \in Bijection(1..c, S) : TRUE
    BY <1>1 DEF ExistsBijection
  <1>3. f \in [1..c -> S] /\ IsInjective(f)
    BY DEF Bijection, Injection
  <1>4. s \in [1..c -> S] /\ IsInjective(s)
    BY <1>3
  <1>5. SetToSeq(S) = s
    BY DEF SetToSeq
  <1> HIDE DEF s
  <1>6. s \in Injection(1..c, S)
    BY <1>4 DEF Injection
  <1>7. s \in Surjection(1..c, S)
    <2>1. Cardinality(1..c) = c
      <3>1. 1 \in Int /\ c \in Int
        BY <1>1
      <3>2. Cardinality(1..c) = IF 1 > c THEN 0 ELSE c - 1 + 1
        BY <3>1, FS_Interval
      <3> QED
        BY <1>1, <3>2
    <2> QED
      BY <1>6, <2>1, FS_Injection
  <1>8. s \in Seq(S) /\ Len(s) = c
    BY <1>1, <1>4
  <1>9. \A x : x \in S => \E k \in 1..c : s[k] = x
    BY <1>7 DEF Surjection
  <1>11. \A k, m \in 1..c : s[k] = s[m] => k = m
    BY <1>4 DEF IsInjective
  <1> HIDE DEF c
  <1> QED
    BY <1>5, <1>8, <1>9, <1>11 DEF c

\* The elements of a list.
LEMMA ElementsFinite ==
    ASSUME NEW S, NEW s \in Seq(S)
    PROVE  /\ IsFiniteSet(ToSet(s)) /\ Cardinality(ToSet(s)) <= Len(s)
           /\ \A x : x \in ToSet(s) <=> \E k \in 1..Len(s) : s[k] = x
           /\ ToSet(s) \subseteq S
           /\ Len(s) \in Nat
  <1>2. \A x : x \in ToSet(s) <=> \E k \in 1..Len(s) : s[k] = x
    BY DEF ToSet
  <1>3. s \in Surjection(1..Len(s), ToSet(s))
    BY <1>2 DEF Surjection
  <1>4. IsFiniteSet(1..Len(s)) /\ Cardinality(1..Len(s)) = Len(s)
    <2>2. /\ IsFiniteSet(1..Len(s))
          /\ Cardinality(1..Len(s)) = IF 1 > Len(s) THEN 0 ELSE Len(s) - 1 + 1
      BY FS_Interval
    <2> QED
      BY <2>2
  <1>5. IsFiniteSet(ToSet(s)) /\ Cardinality(ToSet(s)) <= Cardinality(1..Len(s))
    BY <1>3, <1>4, FS_Surjection
  <1> QED
    BY <1>2, <1>4, <1>5

\* What it says of two lists that they are the cells of a UVN.
LEMMA ShuffledFacts ==
    ASSUME NEW public, NEW private, AreShuffled(public, private)
    PROVE  /\ public \in Seq(PeerIds) /\ private \in Seq(PeerIds)
           /\ Len(public) \in Nat /\ Len(private) \in Nat
           /\ \A k \in 1..Len(public) : public[k] \in PeerIds
           /\ \A k \in 1..Len(private) : private[k] \in PeerIds
           /\ \A k, m \in 1..Len(public) : public[k] = public[m] => k = m
           /\ \A k, m \in 1..Len(private) : private[k] = private[m] => k = m
           /\ \A k \in 1..Len(public), m \in 1..Len(private) : public[k] # private[m]
  <1>1. /\ public \in Seq(PeerIds) /\ private \in Seq(PeerIds)
        /\ DOMAIN public = 1..Len(public) /\ DOMAIN private = 1..Len(private)
        /\ Len(public) \in Nat /\ Len(private) \in Nat
    BY DEF AreShuffled
  <1>3. /\ \A k, m \in 1..Len(public) : public[k] = public[m] => k = m
        /\ \A k, m \in 1..Len(private) : private[k] = private[m] => k = m
    BY DEF AreShuffled, IsInjective
  <1>4. \A k \in 1..Len(public), m \in 1..Len(private) : public[k] # private[m]
    <2>1. ToSet(public) \cap ToSet(private) = {}
      BY DEF AreShuffled
    <2> QED
      BY <1>1, <2>1, ElementsFinite
  <1> QED
    BY <1>1, <1>3, <1>4

\* The list of a public cell's public neighbours.
LEMMA PublicNeighbors ==
    ASSUME NEW public \in Seq(PeerIds), NEW strategy \in {"CROSSED", "CIRCULAR"},
           NEW x \in 0..(Len(public) - 1)
    PROVE  LET s == public_neighbors(strategy, public, x)
           IN  /\ s \in Seq(PeerIds)
               /\ Len(s) <= (IF strategy = "CROSSED" THEN 3 ELSE 2)
               /\ \A b : b \in ToSet(s) <=>
                    \E y \in 0..(Len(public) - 1) :
                        /\ Len(public) >= 2
                        /\ IsNear(strategy, Len(public), x, y)
                        /\ b = public[y + 1]
  <1> DEFINE c == Len(public)
             s == public_neighbors(strategy, public, x)
             g == <<peer_left(x, c), peer_right(x, c), peer_across(x, c)>>
             p == peers_count(strategy, x, c)
  <1>1. c \in Nat /\ \A k \in 1..c : public[k] \in PeerIds
    OBVIOUS
  <1>2. CASE c < 2
    <2>1. s = <<>>
      BY <1>2 DEF public_neighbors
    <2>2. \A b : b \notin ToSet(<<>>)
      BY DEF ToSet
    <2>4. ~(c >= 2)
      BY <1>2
    <2> HIDE DEF c, s
    <2>5. /\ s \in Seq(PeerIds) /\ Len(s) <= (IF strategy = "CROSSED" THEN 3 ELSE 2)
          /\ \A b : b \notin ToSet(s)
      BY <2>1, <2>2
    <2> QED
      BY <2>4, <2>5 DEF c, s
  <1>3. CASE c >= 2
    <2>1. s = [k \in 1..p |-> public[g[k] + 1]]
      BY <1>3 DEF public_neighbors
    <2>2. /\ p \in 1..3
          /\ strategy = "CIRCULAR" => p <= 2
      BY <1>1, <1>3, NearCases
    <2>3. \A k \in 1..3 : g[k] \in 0..(c - 1)
      <3>1. /\ peer_left(x, c) \in 0..(c - 1)
            /\ peer_right(x, c) \in 0..(c - 1)
            /\ peer_across(x, c) \in 0..(c - 1)
        <4>1. c \in Nat \ {0} /\ x \in 0..(c - 1)
          OBVIOUS
        <4> HIDE DEF c
        <4> QED
          BY <1>3, <4>1, LeftType, RightType, AcrossType
      <3>2. g[1] = peer_left(x, c) /\ g[2] = peer_right(x, c) /\ g[3] = peer_across(x, c)
        OBVIOUS
      <3> HIDE DEF g, c
      <3> QED
        BY <3>1, <3>2
    <2>4. \A y : IsNear(strategy, c, x, y) <=> \E k \in 1..p : g[k] = y
      BY DEF IsNear
    <2> HIDE DEF g, p, s, c
    <2>5. \A k \in 1..p : s[k] = public[g[k] + 1] /\ g[k] + 1 \in 1..c
      <3>1. SUFFICES ASSUME NEW k \in 1..p
                     PROVE  s[k] = public[g[k] + 1] /\ g[k] + 1 \in 1..c
        OBVIOUS
      <3>2. g[k] \in 0..(c - 1)
        BY <2>2, <2>3
      <3> QED
        BY <1>1, <2>1, <3>2
    <2>6. s \in Seq(PeerIds) /\ Len(s) = p
      <3>1. \A k \in 1..p : s[k] \in PeerIds
        BY <1>1, <2>5
      <3> QED
        BY <2>1, <2>2, <3>1
    <2>7. \A b : b \in ToSet(s) <=> \E k \in 1..p : s[k] = b
      BY <2>6, ElementsFinite
    <2>8. \A b : b \in ToSet(s) <=>
                \E y \in 0..(c - 1) : IsNear(strategy, c, x, y) /\ b = public[y + 1]
      <3>1. \A b : b \in ToSet(s) <=> \E k \in 1..p : public[g[k] + 1] = b
        BY <2>5, <2>7
      <3>2. \A k \in 1..p : g[k] \in 0..(c - 1)
        BY <2>2, <2>3
      <3> QED
        BY <2>4, <3>1, <3>2
    <2>9. Len(s) <= (IF strategy = "CROSSED" THEN 3 ELSE 2)
      BY <2>2, <2>6
    <2> QED
      BY <1>3, <2>6, <2>8, <2>9 DEF c, s
  <1> QED
    BY <1>2, <1>3

-----------------------------------------------------------------------------
(* The graph of the strategies "crossed" and "circular".                   *)

\* What a graph lists for a cell.
Entries == [peer : PeerIds, peers : Seq(PeerIds)]

\* The private cells that a public cell serves, and the reverse.
Served(public, private, x) ==
    {private[k] : k \in {m \in 1..Len(private) : serves(public, private, x, m - 1)}}
Servers(public, private, y) ==
    {public[k] : k \in {m \in 1..Len(public) : serves(public, private, m - 1, y)}}

\* A set of cells that was made a list, and a set again, is the same.
LEMMA ElementsOfList ==
    ASSUME NEW S \in SUBSET PeerIds, IsFiniteSet(S)
    PROVE  SetToSeq(S) \in Seq(PeerIds) /\ ToSet(SetToSeq(S)) = S
  <1>1. /\ SetToSeq(S) \in Seq(S)
        /\ \A x : x \in S <=> \E k \in 1..Len(SetToSeq(S)) : SetToSeq(S)[k] = x
    BY ListOfSet
  <1> DEFINE s == SetToSeq(S)
  <1>2. s \in Seq(S) /\ \A x : x \in S <=> \E k \in 1..Len(s) : s[k] = x
    BY <1>1
  <1> HIDE DEF s
  <1>3. \A x : x \in ToSet(s) <=> x \in S
    BY <1>2, ElementsFinite
  <1>4. ToSet(s) = S
    BY <1>3
  <1>5. s \in Seq(PeerIds)
    <2>1. Len(s) \in Nat /\ s = [k \in 1..Len(s) |-> s[k]] /\ \A k \in 1..Len(s) : s[k] \in PeerIds
      BY <1>2
    <2> QED
      BY <2>1
  <1> QED
    BY <1>4, <1>5 DEF s

\* Both are finite sets of cells.
LEMMA ServedAndServers ==
    ASSUME NEW public, NEW private, AreShuffled(public, private), NEW x
    PROVE  /\ Served(public, private, x) \in SUBSET PeerIds
           /\ IsFiniteSet(Served(public, private, x))
           /\ Servers(public, private, x) \in SUBSET PeerIds
           /\ IsFiniteSet(Servers(public, private, x))
  <1>1. /\ IsFiniteSet(ToSet(public)) /\ ToSet(public) \subseteq PeerIds
        /\ IsFiniteSet(ToSet(private)) /\ ToSet(private) \subseteq PeerIds
        /\ \A k \in 1..Len(public) : public[k] \in ToSet(public)
        /\ \A k \in 1..Len(private) : private[k] \in ToSet(private)
    BY ShuffledFacts, ElementsFinite
  <1>2. /\ Served(public, private, x) \in SUBSET ToSet(private)
        /\ Servers(public, private, x) \in SUBSET ToSet(public)
    BY <1>1 DEF Served, Servers
  <1> QED
    BY <1>1, <1>2, FS_Subset

\* The entries of the graph: the public cells', then the private ones'
\* (CrossedDeploymentStrategy._generate_deployment).
LEMMA CrossedGraph ==
    ASSUME NEW public, NEW private, AreShuffled(public, private),
           NEW strategy \in {"CROSSED", "CIRCULAR"}
    PROVE  LET g == crossed_graph(strategy, public, private)
           IN  /\ g \in Seq(Entries)
               /\ Len(g) = Len(public) + Len(private)
               /\ \A k \in 1..Len(public) :
                    /\ g[k].peer = public[k]
                    /\ ToSet(g[k].peers) = ToSet(public_neighbors(strategy, public, k - 1))
                                             \cup Served(public, private, k - 1)
               /\ \A k \in 1..Len(private) :
                    /\ g[Len(public) + k].peer = private[k]
                    /\ ToSet(g[Len(public) + k].peers) = Servers(public, private, k - 1)
  <1> DEFINE near(k) == public_neighbors(strategy, public, k - 1)
             list(k) == IF private = <<>> THEN near(k)
                        ELSE SetToSeq(ToSet(near(k)) \cup Served(public, private, k - 1))
             one == [k \in 1..Len(public) |-> [peer |-> public[k], peers |-> list(k)]]
             two == [k \in 1..Len(private) |->
                        [peer |-> private[k], peers |-> SetToSeq(Servers(public, private, k - 1))]]
             g == crossed_graph(strategy, public, private)
  <1>1. /\ Len(public) \in Nat /\ Len(private) \in Nat
        /\ \A k \in 1..Len(public) : public[k] \in PeerIds
        /\ \A k \in 1..Len(private) : private[k] \in PeerIds
    BY ShuffledFacts
  <1>2. ASSUME NEW k \in 1..Len(public)
        PROVE  /\ list(k) \in Seq(PeerIds)
               /\ ToSet(list(k)) = ToSet(near(k)) \cup Served(public, private, k - 1)
    <2>1. near(k) \in Seq(PeerIds)
      <3>1. k - 1 \in 0..(Len(public) - 1) /\ public \in Seq(PeerIds)
        BY ShuffledFacts
      <3> QED
        BY <3>1, PublicNeighbors
    <2> DEFINE N == ToSet(near(k))
               T == Served(public, private, k - 1)
    <2>2. /\ N \in SUBSET PeerIds /\ IsFiniteSet(N)
          /\ T \in SUBSET PeerIds /\ IsFiniteSet(T)
      BY <2>1, ElementsFinite, ServedAndServers
    <2>3. private = <<>> => T = {}
      BY DEF Served
    <2> HIDE DEF near, N, T
    <2>4. N \cup T \in SUBSET PeerIds /\ IsFiniteSet(N \cup T)
      BY <2>2, FS_Union
    <2>5. SetToSeq(N \cup T) \in Seq(PeerIds) /\ ToSet(SetToSeq(N \cup T)) = N \cup T
      BY <2>4, ElementsOfList
    <2>6. list(k) = IF private = <<>> THEN near(k) ELSE SetToSeq(N \cup T)
      BY DEF N, T
    <2> HIDE DEF list
    <2>7. list(k) \in Seq(PeerIds) /\ ToSet(list(k)) = N \cup T
      BY <2>1, <2>3, <2>5, <2>6 DEF N
    <2> QED
      BY <2>7 DEF N, T
  <1>3. ASSUME NEW k \in 1..Len(private)
        PROVE  /\ SetToSeq(Servers(public, private, k - 1)) \in Seq(PeerIds)
               /\ ToSet(SetToSeq(Servers(public, private, k - 1))) = Servers(public, private, k - 1)
    BY ServedAndServers, ElementsOfList
  <1>4. g = one \o two
    BY DEF crossed_graph, Served, Servers
  <1> HIDE DEF list, near
  <1>5. /\ one \in Seq(Entries) /\ Len(one) = Len(public)
        /\ two \in Seq(Entries) /\ Len(two) = Len(private)
    <2>1. \A k \in 1..Len(public) : [peer |-> public[k], peers |-> list(k)] \in Entries
      BY <1>1, <1>2 DEF Entries
    <2>2. \A k \in 1..Len(private) :
            [peer |-> private[k], peers |-> SetToSeq(Servers(public, private, k - 1))] \in Entries
      BY <1>1, <1>3 DEF Entries
    <2> QED
      BY <2>1, <2>2
  <1>6. /\ g \in Seq(Entries)
        /\ Len(g) = Len(public) + Len(private)
        /\ \A k \in 1..(Len(public) + Len(private)) :
             g[k] = IF k <= Len(public) THEN one[k] ELSE two[k - Len(public)]
    <2> HIDE DEF one, two, g
    <2>1. /\ one \o two \in Seq(Entries)
          /\ Len(one \o two) = Len(one) + Len(two)
          /\ \A k \in 1..(Len(one) + Len(two)) :
               (one \o two)[k] = IF k <= Len(one) THEN one[k] ELSE two[k - Len(one)]
      <3> HIDE DEF Entries
      <3> QED
        BY <1>5, ConcatProperties
    <2> QED
      BY <1>4, <1>5, <2>1
  <1>7. ASSUME NEW k \in 1..Len(public)
        PROVE  g[k].peer = public[k] /\ g[k].peers = list(k)
    <2>1. g[k] = one[k]
      <3> HIDE DEF one, two, g
      <3> QED
        BY <1>6
    <2> HIDE DEF g
    <2> QED
      BY <2>1
  <1>8. ASSUME NEW k \in 1..Len(private)
        PROVE  /\ g[Len(public) + k].peer = private[k]
               /\ g[Len(public) + k].peers = SetToSeq(Servers(public, private, k - 1))
    <2>1. g[Len(public) + k] = two[k]
      <3> HIDE DEF one, two, g
      <3> QED
        BY <1>6
    <2> HIDE DEF g
    <2> QED
      BY <2>1
  <1> HIDE DEF g, one, two
  <1>9. ASSUME NEW k \in 1..Len(public)
        PROVE  /\ g[k].peer = public[k]
               /\ ToSet(g[k].peers) = ToSet(near(k)) \cup Served(public, private, k - 1)
    BY <1>2, <1>7
  <1>10. ASSUME NEW k \in 1..Len(private)
         PROVE  /\ g[Len(public) + k].peer = private[k]
                /\ ToSet(g[Len(public) + k].peers) = Servers(public, private, k - 1)
    BY <1>3, <1>8
  <1> QED
    BY <1>6, <1>9, <1>10 DEF g, near

\* A graph lists b for a.
Lists(g, a, b) == \E m \in 1..Len(g) : a = g[m].peer /\ b \in ToSet(g[m].peers)

\* Two public cells are neighbours.
PublicLink(strategy, public, a, b) ==
    \E x, y \in 0..(Len(public) - 1) :
        /\ a = public[x + 1] /\ b = public[y + 1]
        /\ Len(public) >= 2 /\ IsNear(strategy, Len(public), x, y)

\* The public cell a serves the private cell b.
ServingLink(public, private, a, b) ==
    \E x \in 0..(Len(public) - 1), y \in 0..(Len(private) - 1) :
        a = public[x + 1] /\ b = private[y + 1] /\ serves(public, private, x, y)

\* Who serves and who is served, by index.
LEMMA ServedElements ==
    ASSUME NEW public, NEW private, AreShuffled(public, private), NEW b
    PROVE  /\ \A x : b \in Served(public, private, x) <=>
                \E y \in 0..(Len(private) - 1) : b = private[y + 1] /\ serves(public, private, x, y)
           /\ \A y : b \in Servers(public, private, y) <=>
                \E x \in 0..(Len(public) - 1) : b = public[x + 1] /\ serves(public, private, x, y)
  <1>2. ASSUME NEW x
        PROVE  b \in Served(public, private, x) <=>
                \E y \in 0..(Len(private) - 1) : b = private[y + 1] /\ serves(public, private, x, y)
    <2>1. b \in Served(public, private, x) <=>
            \E m \in 1..Len(private) : serves(public, private, x, m - 1) /\ b = private[m]
      BY DEF Served
    <2> QED
      BY <2>1
  <1>3. ASSUME NEW y
        PROVE  b \in Servers(public, private, y) <=>
                \E x \in 0..(Len(public) - 1) : b = public[x + 1] /\ serves(public, private, x, y)
    <2>1. b \in Servers(public, private, y) <=>
            \E m \in 1..Len(public) : serves(public, private, m - 1, y) /\ b = public[m]
      BY DEF Servers
    <2> QED
      BY <2>1
  <1> QED
    BY <1>2, <1>3

\* The graph lists neighbours, and the two ends of serving for each other, and
\* nothing else.
LEMMA CrossedLinks ==
    ASSUME NEW public, NEW private, AreShuffled(public, private),
           NEW strategy \in {"CROSSED", "CIRCULAR"}, NEW a, NEW b
    PROVE  Lists(crossed_graph(strategy, public, private), a, b) <=>
             \/ PublicLink(strategy, public, a, b)
             \/ ServingLink(public, private, a, b)
             \/ ServingLink(public, private, b, a)
  <1> DEFINE g == crossed_graph(strategy, public, private)
             c == Len(public)
  <1>1. c \in Nat /\ Len(private) \in Nat /\ public \in Seq(PeerIds)
    BY ShuffledFacts
  <1>2. /\ Len(g) = c + Len(private)
        /\ \A k \in 1..c :
             /\ g[k].peer = public[k]
             /\ ToSet(g[k].peers) = ToSet(public_neighbors(strategy, public, k - 1))
                                      \cup Served(public, private, k - 1)
        /\ \A k \in 1..Len(private) :
             /\ g[c + k].peer = private[k]
             /\ ToSet(g[c + k].peers) = Servers(public, private, k - 1)
    <2>1. Len(g) = c + Len(private)
      BY CrossedGraph
    <2>2. \A k \in 1..c :
            /\ g[k].peer = public[k]
            /\ ToSet(g[k].peers) = ToSet(public_neighbors(strategy, public, k - 1))
                                     \cup Served(public, private, k - 1)
      BY CrossedGraph
    <2>3. \A k \in 1..Len(private) :
            /\ g[c + k].peer = private[k]
            /\ ToSet(g[c + k].peers) = Servers(public, private, k - 1)
      BY CrossedGraph
    <2> QED
      BY <2>1, <2>2, <2>3
  <1> HIDE DEF g
  <1>3. ASSUME NEW x \in 0..(c - 1)
        PROVE  /\ g[x + 1].peer = public[x + 1]
               /\ b \in ToSet(g[x + 1].peers) <=>
                    \/ \E y \in 0..(c - 1) :
                         c >= 2 /\ IsNear(strategy, c, x, y) /\ b = public[y + 1]
                    \/ \E y \in 0..(Len(private) - 1) :
                         b = private[y + 1] /\ serves(public, private, x, y)
    <2>2. /\ g[x + 1].peer = public[x + 1]
          /\ ToSet(g[x + 1].peers) = ToSet(public_neighbors(strategy, public, x))
                                       \cup Served(public, private, x)
      BY <1>2
    <2>3. b \in ToSet(public_neighbors(strategy, public, x)) <=>
            \E y \in 0..(c - 1) : c >= 2 /\ IsNear(strategy, c, x, y) /\ b = public[y + 1]
      BY <1>1, PublicNeighbors
    <2>4. b \in Served(public, private, x) <=>
            \E y \in 0..(Len(private) - 1) : b = private[y + 1] /\ serves(public, private, x, y)
      BY ServedElements
    <2> QED
      BY <2>2, <2>3, <2>4
  <1>4. ASSUME NEW y \in 0..(Len(private) - 1)
        PROVE  /\ g[c + y + 1].peer = private[y + 1]
               /\ b \in ToSet(g[c + y + 1].peers) <=>
                    \E x \in 0..(c - 1) : b = public[x + 1] /\ serves(public, private, x, y)
    <2>1. y + 1 \in 1..Len(private) /\ (y + 1) - 1 = y /\ c + (y + 1) = c + y + 1
      OBVIOUS
    <2>2. /\ g[c + y + 1].peer = private[y + 1]
          /\ ToSet(g[c + y + 1].peers) = Servers(public, private, y)
      BY <1>2, <2>1
    <2>3. b \in Servers(public, private, y) <=>
            \E x \in 0..(c - 1) : b = public[x + 1] /\ serves(public, private, x, y)
      BY ServedElements
    <2> QED
      BY <2>2, <2>3
  <1>5. ASSUME Lists(g, a, b)
        PROVE  \/ PublicLink(strategy, public, a, b)
               \/ ServingLink(public, private, a, b)
               \/ ServingLink(public, private, b, a)
    <2>1. PICK m \in 1..Len(g) : a = g[m].peer /\ b \in ToSet(g[m].peers)
      BY <1>5 DEF Lists
    <2>2. CASE m <= c
      <3>1. PICK x \in 0..(c - 1) : m = x + 1
        <4>1. m - 1 \in 0..(c - 1) /\ m = (m - 1) + 1
          BY <2>2
        <4> QED
          BY <4>1
      <3>2. a = public[x + 1]
        BY <1>3, <2>1, <3>1
      <3>3. \/ \E y \in 0..(c - 1) : c >= 2 /\ IsNear(strategy, c, x, y) /\ b = public[y + 1]
            \/ \E y \in 0..(Len(private) - 1) :
                 b = private[y + 1] /\ serves(public, private, x, y)
        BY <1>3, <2>1, <3>1
      <3> QED
        BY <3>2, <3>3 DEF PublicLink, ServingLink
    <2>3. CASE ~(m <= c)
      <3>1. PICK y \in 0..(Len(private) - 1) : m = c + y + 1
        <4>1. m - c - 1 \in 0..(Len(private) - 1) /\ m = c + (m - c - 1) + 1
          BY <1>2, <2>3
        <4> QED
          BY <4>1
      <3>2. a = private[y + 1]
        BY <1>4, <2>1, <3>1
      <3>3. \E x \in 0..(c - 1) : b = public[x + 1] /\ serves(public, private, x, y)
        BY <1>4, <2>1, <3>1
      <3> QED
        BY <3>2, <3>3 DEF ServingLink
    <2> QED
      BY <2>2, <2>3
  <1>6. ASSUME PublicLink(strategy, public, a, b) PROVE Lists(g, a, b)
    <2>1. PICK x \in 0..(c - 1), y \in 0..(c - 1) :
            a = public[x + 1] /\ b = public[y + 1] /\ c >= 2 /\ IsNear(strategy, c, x, y)
      BY <1>6 DEF PublicLink
    <2>2. g[x + 1].peer = a /\ b \in ToSet(g[x + 1].peers) /\ x + 1 \in 1..Len(g)
      BY <1>2, <1>3, <2>1
    <2> QED
      BY <2>2 DEF Lists
  <1>7. ASSUME ServingLink(public, private, a, b) PROVE Lists(g, a, b)
    <2>1. PICK x \in 0..(c - 1), y \in 0..(Len(private) - 1) :
            a = public[x + 1] /\ b = private[y + 1] /\ serves(public, private, x, y)
      BY <1>7 DEF ServingLink
    <2>2. g[x + 1].peer = a /\ b \in ToSet(g[x + 1].peers) /\ x + 1 \in 1..Len(g)
      <3>1. \E z \in 0..(Len(private) - 1) :
              b = private[z + 1] /\ serves(public, private, x, z)
        BY <2>1
      <3>2. b \in ToSet(g[x + 1].peers)
        BY <1>3, <3>1
      <3> QED
        BY <1>2, <2>1, <3>2
    <2> QED
      BY <2>2 DEF Lists
  <1>8. ASSUME ServingLink(public, private, b, a) PROVE Lists(g, a, b)
    <2>1. PICK x \in 0..(c - 1), y \in 0..(Len(private) - 1) :
            b = public[x + 1] /\ a = private[y + 1] /\ serves(public, private, x, y)
      BY <1>8 DEF ServingLink
    <2>2. /\ g[c + y + 1].peer = a /\ b \in ToSet(g[c + y + 1].peers)
          /\ c + y + 1 \in 1..Len(g)
      <3>3. c + y + 1 \in 1..Len(g)
        BY <1>2
      <3> QED
        BY <1>4, <2>1, <3>3
    <2> QED
      BY <2>2 DEF Lists
  <1> QED
    BY <1>5, <1>6, <1>7, <1>8 DEF g

-----------------------------------------------------------------------------
(* The graph of the strategy "full-mesh", and of all of them.              *)

\* All cells, in the order in which fullmesh_graph lists them.
Cells(public, private) == public \o private

\* They are listed once each.
LEMMA CellsFacts ==
    ASSUME NEW public, NEW private, AreShuffled(public, private)
    PROVE  LET cells == Cells(public, private)
           IN  /\ cells \in Seq(PeerIds)
               /\ Len(cells) = Len(public) + Len(private) /\ Len(cells) \in Nat
               /\ \A k \in 1..Len(public) : cells[k] = public[k]
               /\ \A k \in 1..Len(private) : cells[Len(public) + k] = private[k]
               /\ \A k, m \in 1..Len(cells) : cells[k] = cells[m] => k = m
               /\ ToSet(cells) = ToSet(public) \cup ToSet(private)
  <1> DEFINE cells == public \o private
             c == Len(public)
             v == Len(private)
  <1>1. /\ public \in Seq(PeerIds) /\ private \in Seq(PeerIds) /\ c \in Nat /\ v \in Nat
        /\ \A k, m \in 1..c : public[k] = public[m] => k = m
        /\ \A k, m \in 1..v : private[k] = private[m] => k = m
        /\ \A k \in 1..c, m \in 1..v : public[k] # private[m]
    BY ShuffledFacts
  <1>2. /\ cells \in Seq(PeerIds) /\ Len(cells) = c + v
        /\ \A k \in 1..(c + v) : cells[k] = IF k <= c THEN public[k] ELSE private[k - c]
    BY <1>1
  <1> HIDE DEF cells, c, v
  <1>3. /\ \A k \in 1..c : cells[k] = public[k]
        /\ \A k \in 1..v : cells[c + k] = private[k]
    BY <1>1, <1>2
  <1>4. ASSUME NEW k \in 1..(c + v), NEW m \in 1..(c + v), cells[k] = cells[m]
        PROVE  k = m
    <2>1. CASE k <= c /\ m <= c
      BY <1>1, <1>2, <1>4, <2>1
    <2>2. CASE k <= c /\ ~(m <= c)
      BY <1>1, <1>2, <1>4, <2>2
    <2>3. CASE ~(k <= c) /\ m <= c
      BY <1>1, <1>2, <1>4, <2>3
    <2>4. CASE ~(k <= c) /\ ~(m <= c)
      <3>1. k - c \in 1..v /\ m - c \in 1..v
        BY <1>1, <2>4
      <3>2. k - c = m - c
        BY <1>1, <1>2, <1>4, <2>4, <3>1
      <3> QED
        BY <1>1, <3>2
    <2> QED
      BY <2>1, <2>2, <2>3, <2>4
  <1>5. \A x : x \in ToSet(cells) <=> x \in ToSet(public) \cup ToSet(private)
    <2>1. /\ \A x : x \in ToSet(cells) <=> \E k \in 1..(c + v) : cells[k] = x
          /\ \A x : x \in ToSet(public) <=> \E k \in 1..c : public[k] = x
          /\ \A x : x \in ToSet(private) <=> \E k \in 1..v : private[k] = x
      <3>1. \A s \in Seq(PeerIds) : \A x : x \in ToSet(s) <=> \E k \in 1..Len(s) : s[k] = x
        BY ElementsFinite
      <3>2. /\ cells \in Seq(PeerIds) /\ Len(cells) = c + v
            /\ public \in Seq(PeerIds) /\ private \in Seq(PeerIds)
        BY <1>1, <1>2
      <3> QED
        BY <3>1, <3>2 DEF c, v
    <2>2. ASSUME NEW x, NEW k \in 1..(c + v), cells[k] = x
          PROVE  (\E m \in 1..c : public[m] = x) \/ (\E m \in 1..v : private[m] = x)
      <3>1. CASE k <= c
        BY <1>1, <1>2, <2>2
      <3>2. CASE ~(k <= c)
        <4>1. k - c \in 1..v
          BY <1>1, <3>2
        <4> QED
          BY <1>2, <2>2, <4>1
      <3> QED
        BY <3>1, <3>2
    <2>3. ASSUME NEW x, NEW k \in 1..c, public[k] = x
          PROVE  \E m \in 1..(c + v) : cells[m] = x
      BY <1>1, <1>3, <2>3
    <2>4. ASSUME NEW x, NEW k \in 1..v, private[k] = x
          PROVE  \E m \in 1..(c + v) : cells[m] = x
      <3>1. c + k \in 1..(c + v)
        BY <1>1
      <3> QED
        BY <1>3, <2>4, <3>1
    <2> QED
      BY <2>1, <2>2, <2>3, <2>4
  <1>6. ToSet(cells) = ToSet(public) \cup ToSet(private)
    BY <1>5
  <1>7. \A k, m \in 1..(c + v) : cells[k] = cells[m] => k = m
    BY <1>4
  <1>8. /\ cells \in Seq(PeerIds)
        /\ Len(cells) = c + v /\ Len(cells) \in Nat
        /\ \A k \in 1..c : cells[k] = public[k]
        /\ \A k \in 1..v : cells[c + k] = private[k]
        /\ \A k, m \in 1..Len(cells) : cells[k] = cells[m] => k = m
        /\ ToSet(cells) = ToSet(public) \cup ToSet(private)
    BY <1>1, <1>2, <1>3, <1>6, <1>7
  <1> QED
    BY <1>8 DEF Cells, cells, c, v

\* Two different cells, one of which has a public address.
MeshLink(public, private, a, b) ==
    /\ a # b
    /\ a \in ToSet(public) \cup ToSet(private)
    /\ b \in ToSet(public) \cup ToSet(private)
    /\ a \notin ToSet(private) \/ b \notin ToSet(private)

\* The entries and the links of the graph of FullMeshDeploymentStrategy.
LEMMA MeshGraph ==
    ASSUME NEW public, NEW private, AreShuffled(public, private)
    PROVE  LET g == fullmesh_graph(public, private)
           IN  /\ g \in Seq(Entries)
               /\ Len(g) = Len(Cells(public, private))
               /\ \A k \in 1..Len(g) : g[k].peer = Cells(public, private)[k]
               /\ \A a, b : Lists(g, a, b) <=> MeshLink(public, private, a, b)
  <1> DEFINE cells == Cells(public, private)
             linked(a) == {b \in ToSet(cells) \ {a} :
                             a \notin ToSet(private) \/ b \notin ToSet(private)}
             g == fullmesh_graph(public, private)
  <1>1. /\ cells \in Seq(PeerIds) /\ Len(cells) \in Nat
        /\ ToSet(cells) = ToSet(public) \cup ToSet(private)
        /\ \A k \in 1..Len(cells) : cells[k] \in PeerIds
    <2>1. cells \in Seq(PeerIds) /\ ToSet(cells) = ToSet(public) \cup ToSet(private)
      BY CellsFacts
    <2> HIDE DEF cells
    <2> QED
      BY <2>1
  <1>2. g = [k \in 1..Len(cells) |-> [peer |-> cells[k], peers |-> SetToSeq(linked(cells[k]))]]
    BY DEF fullmesh_graph, Cells
  <1> HIDE DEF cells, g
  <1>3. IsFiniteSet(ToSet(cells)) /\ ToSet(cells) \subseteq PeerIds
        /\ \A x : x \in ToSet(cells) <=> \E k \in 1..Len(cells) : cells[k] = x
    BY <1>1, ElementsFinite
  <1>4. ASSUME NEW a
        PROVE  SetToSeq(linked(a)) \in Seq(PeerIds) /\ ToSet(SetToSeq(linked(a))) = linked(a)
    <2>1. linked(a) \in SUBSET ToSet(cells)
      OBVIOUS
    <2> HIDE DEF linked
    <2>2. linked(a) \in SUBSET PeerIds /\ IsFiniteSet(linked(a))
      BY <1>3, <2>1, FS_Subset
    <2> QED
      BY <2>2, ElementsOfList
  <1>5. \A a, b : b \in linked(a) <=>
            /\ a # b /\ b \in ToSet(cells)
            /\ a \notin ToSet(private) \/ b \notin ToSet(private)
    OBVIOUS
  <1> HIDE DEF linked
  <1>6. g \in Seq(Entries) /\ Len(g) = Len(cells)
    <2>1. \A k \in 1..Len(cells) :
            [peer |-> cells[k], peers |-> SetToSeq(linked(cells[k]))] \in Entries
      BY <1>1, <1>4 DEF Entries
    <2> QED
      BY <1>2, <2>1
  <1>7. \A k \in 1..Len(cells) : g[k].peer = cells[k] /\ g[k].peers = SetToSeq(linked(cells[k]))
    BY <1>2
  <1>8. ASSUME NEW a, NEW b
        PROVE  Lists(g, a, b) <=> a \in ToSet(cells) /\ b \in linked(a)
    <2>1. Lists(g, a, b) <=> \E m \in 1..Len(cells) : a = g[m].peer /\ b \in ToSet(g[m].peers)
      BY <1>6 DEF Lists
    <2>2. \A m \in 1..Len(cells) : ToSet(g[m].peers) = linked(cells[m])
      BY <1>4, <1>7
    <2>3. Lists(g, a, b) <=> \E m \in 1..Len(cells) : a = cells[m] /\ b \in linked(cells[m])
      BY <1>7, <2>1, <2>2
    <2> QED
      BY <1>3, <2>3
  <1>9. \A a, b : Lists(g, a, b) <=> MeshLink(public, private, a, b)
    BY <1>1, <1>5, <1>8 DEF MeshLink
  <1> QED
    BY <1>6, <1>7, <1>9 DEF g, cells

\* The graph of any strategy has one entry for each cell.
LEMMA DeployedGraph ==
    ASSUME NEW public, NEW private, AreShuffled(public, private),
           NEW strategy \in Strategies, public # <<>>
    PROVE  LET g == Deploy(strategy, public, private).graph
           IN  /\ g \in Seq(Entries)
               /\ Len(g) = Len(Cells(public, private))
               /\ \A k \in 1..Len(g) : g[k].peer = Cells(public, private)[k]
  <1> DEFINE d == Deploy(strategy, public, private)
             cells == Cells(public, private)
  <1>1. CASE strategy = "FULL_MESH"
    <2>1. d.graph = fullmesh_graph(public, private)
      BY <1>1 DEF Deploy
    <2> QED
      BY <2>1, MeshGraph
  <1>2. CASE strategy \in {"CROSSED", "CIRCULAR"}
    <2> DEFINE g == crossed_graph(strategy, public, private)
    <2>1. d.graph = g
      BY <1>2 DEF Deploy
    <2>2. /\ g \in Seq(Entries)
          /\ Len(g) = Len(public) + Len(private)
          /\ \A k \in 1..Len(public) : g[k].peer = public[k]
          /\ \A k \in 1..Len(private) : g[Len(public) + k].peer = private[k]
      BY <1>2, CrossedGraph
    <2>3. /\ Len(cells) = Len(public) + Len(private)
          /\ \A k \in 1..Len(public) : cells[k] = public[k]
          /\ \A k \in 1..Len(private) : cells[Len(public) + k] = private[k]
          /\ Len(public) \in Nat /\ Len(private) \in Nat
      BY CellsFacts
    <2> HIDE DEF g, cells, d
    <2>4. ASSUME NEW k \in 1..Len(g) PROVE g[k].peer = cells[k]
      <3>1. CASE k <= Len(public)
        BY <2>2, <2>3, <3>1
      <3>2. CASE ~(k <= Len(public))
        <4>1. k - Len(public) \in 1..Len(private) /\ Len(public) + (k - Len(public)) = k
          BY <2>2, <3>2
        <4> QED
          BY <2>2, <2>3, <4>1
      <3> QED
        BY <3>1, <3>2
    <2>5. Len(g) = Len(cells)
      BY <2>2, <2>3
    <2> QED
      BY <2>1, <2>2, <2>4, <2>5 DEF d, cells
  <1> QED
    BY <1>1, <1>2 DEF Strategies

\* What DeploymentAssumption asks of a graph holds of those that the
\* strategies make (DeploymentStrategy.deploy).
THEOREM DeployIsDeployable ==
    ASSUME NEW public, NEW private, AreShuffled(public, private), NEW strategy \in Strategies
    PROVE  IsDeployable(Deploy(strategy, public, private))
  <1> DEFINE g == Deploy(strategy, public, private).graph
             cells == Cells(public, private)
  <1>1. Seq(Entries) = Graph
    BY DEF Entries, Graph
  <1>2. CASE public = <<>>
    <2>1. g = <<>>
      BY <1>2 DEF Deploy
    <2>2. g \in Seq(Entries) /\ 1..Len(g) = {}
      BY <2>1
    <2> QED
      BY <1>1, <2>2 DEF IsDeployable
  <1>3. CASE public # <<>>
    <2>1. /\ g \in Seq(Entries) /\ Len(g) = Len(cells)
          /\ \A k \in 1..Len(g) : g[k].peer = cells[k]
      BY <1>3, DeployedGraph
    <2>2. \A k, m \in 1..Len(cells) : cells[k] = cells[m] => k = m
      BY CellsFacts
    <2> HIDE DEF g, cells
    <2>3. g \in Graph /\ \A k, m \in 1..Len(g) : g[k].peer = g[m].peer => k = m
      BY <1>1, <2>1, <2>2
    <2> QED
      BY <2>3 DEF IsDeployable, g
  <1> QED
    BY <1>2, <1>3

-----------------------------------------------------------------------------
(* The links that a graph of a strategy asks for.                          *)

\* What a strategy asks for, from a to b.
Link(strategy, public, private, a, b) ==
    \/ strategy = "FULL_MESH" /\ MeshLink(public, private, a, b)
    \/ strategy # "FULL_MESH" /\ PublicLink(strategy, public, a, b)
    \/ strategy # "FULL_MESH" /\ ServingLink(public, private, a, b)
    \/ strategy # "FULL_MESH" /\ ServingLink(public, private, b, a)

\* The graph of a strategy lists that.
LEMMA DeployLists ==
    ASSUME NEW public, NEW private, AreShuffled(public, private),
           NEW strategy \in Strategies, public # <<>>, NEW a, NEW b
    PROVE  Lists(Deploy(strategy, public, private).graph, a, b)
             <=> Link(strategy, public, private, a, b)
  <1> DEFINE g == Deploy(strategy, public, private).graph
  <1>1. CASE strategy = "FULL_MESH"
    <2>1. g = fullmesh_graph(public, private)
      BY <1>1 DEF Deploy
    <2>2. Lists(g, a, b) <=> MeshLink(public, private, a, b)
      BY <2>1, MeshGraph
    <2> QED
      BY <1>1, <2>2 DEF Link
  <1>2. CASE strategy \in {"CROSSED", "CIRCULAR"}
    <2>1. g = crossed_graph(strategy, public, private)
      BY <1>2 DEF Deploy
    <2>2. Lists(g, a, b) <=>
             \/ PublicLink(strategy, public, a, b)
             \/ ServingLink(public, private, a, b)
             \/ ServingLink(public, private, b, a)
      BY <1>2, <2>1, CrossedLinks
    <2> QED
      BY <1>2, <2>2 DEF Link
  <1> QED
    BY <1>1, <1>2 DEF Strategies

\* Every link is asked for at both ends.
LEMMA LinkSymmetric ==
    ASSUME NEW public, NEW private, AreShuffled(public, private),
           NEW strategy \in Strategies, NEW a, NEW b,
           Link(strategy, public, private, a, b)
    PROVE  Link(strategy, public, private, b, a)
  <1>1. CASE strategy = "FULL_MESH"
    BY <1>1 DEF Link, MeshLink
  <1>2. CASE strategy # "FULL_MESH" /\ PublicLink(strategy, public, a, b)
    <2>1. PICK x \in 0..(Len(public) - 1), y \in 0..(Len(public) - 1) :
            /\ a = public[x + 1] /\ b = public[y + 1]
            /\ Len(public) >= 2 /\ IsNear(strategy, Len(public), x, y)
      BY <1>2 DEF PublicLink
    <2>2. strategy \in {"CROSSED", "CIRCULAR"} /\ Len(public) \in Nat
      BY <1>2 DEF Strategies
    <2>3. IsNear(strategy, Len(public), y, x)
      BY <2>1, <2>2, NearSymmetric
    <2>4. PublicLink(strategy, public, b, a)
      BY <2>1, <2>3 DEF PublicLink
    <2> QED
      BY <1>2, <2>4 DEF Link
  <1> QED
    BY <1>1, <1>2 DEF Link

\* The elements of the two lists, by index.
LEMMA IndexedElements ==
    ASSUME NEW public, NEW private, AreShuffled(public, private)
    PROVE  /\ \A a : a \in ToSet(public) <=> \E x \in 0..(Len(public) - 1) : a = public[x + 1]
           /\ \A a : a \in ToSet(private) <=> \E y \in 0..(Len(private) - 1) : a = private[y + 1]
           /\ ToSet(public) \cap ToSet(private) = {}
           /\ IsFiniteSet(ToSet(public)) /\ IsFiniteSet(ToSet(private))
  <1>1. public \in Seq(PeerIds) /\ private \in Seq(PeerIds)
        /\ ToSet(public) \cap ToSet(private) = {}
    BY DEF AreShuffled
  <1>2. ASSUME NEW s \in Seq(PeerIds), NEW a
        PROVE  /\ a \in ToSet(s) <=> \E x \in 0..(Len(s) - 1) : a = s[x + 1]
               /\ IsFiniteSet(ToSet(s))
    <2>1. /\ a \in ToSet(s) <=> \E k \in 1..Len(s) : s[k] = a
          /\ Len(s) \in Nat /\ IsFiniteSet(ToSet(s))
      BY ElementsFinite
    <2> QED
      BY <2>1
  <1> QED
    BY <1>1, <1>2

\* A link is between cells, and one end is public.
LEMMA LinkEnds ==
    ASSUME NEW public, NEW private, AreShuffled(public, private),
           NEW strategy \in Strategies, NEW a, NEW b,
           Link(strategy, public, private, a, b)
    PROVE  /\ a \in ToSet(public) \cup ToSet(private)
           /\ b \in ToSet(public) \cup ToSet(private)
           /\ a \in ToSet(public) \/ b \in ToSet(public)
  <1>1. CASE strategy = "FULL_MESH"
    BY <1>1 DEF Link, MeshLink
  <1>2. CASE PublicLink(strategy, public, a, b)
    BY <1>2, IndexedElements DEF PublicLink
  <1>3. CASE ServingLink(public, private, a, b)
    BY <1>3, IndexedElements DEF ServingLink
  <1>4. CASE ServingLink(public, private, b, a)
    BY <1>4, IndexedElements DEF ServingLink
  <1> QED
    BY <1>1, <1>2, <1>3, <1>4 DEF Link

\* Every private cell has a link with a public one.
LEMMA PrivateIsServed ==
    ASSUME NEW public, NEW private, AreShuffled(public, private),
           NEW strategy \in Strategies, public # <<>>, NEW a \in ToSet(private)
    PROVE  \E b \in ToSet(public) : Link(strategy, public, private, a, b)
  <1>1. Len(public) \in Nat \ {0} /\ Len(private) \in Nat
    OBVIOUS
  <1>2. CASE strategy = "FULL_MESH"
    <2>1. public[1] \in ToSet(public)
      BY IndexedElements
    <2>2. public[1] # a /\ public[1] \notin ToSet(private)
      BY <2>1, IndexedElements
    <2>3. MeshLink(public, private, a, public[1])
      BY <2>1, <2>2 DEF MeshLink
    <2> QED
      BY <1>2, <2>1, <2>3 DEF Link
  <1>3. CASE strategy # "FULL_MESH"
    <2>1. PICK y \in 0..(Len(private) - 1) : a = private[y + 1]
      BY IndexedElements
    <2>2. PICK x \in 0..(Len(public) - 1) : serves(public, private, x, y)
      BY <1>1, ServedByOne DEF SizesMatch
    <2>3. ServingLink(public, private, public[x + 1], a)
      BY <2>1, <2>2 DEF ServingLink
    <2>4. public[x + 1] \in ToSet(public)
      BY IndexedElements
    <2> QED
      BY <1>3, <2>3, <2>4 DEF Link
  <1> QED
    BY <1>2, <1>3

\* The public cells are linked among themselves.
LEMMA PublicAreLinked ==
    ASSUME NEW public, NEW private, AreShuffled(public, private),
           NEW strategy \in Strategies, NEW S,
           NEW a \in S \cap ToSet(public),
           \A x \in S : \A y : Link(strategy, public, private, x, y) => y \in S
    PROVE  ToSet(public) \subseteq S
  <1>1. Len(public) \in Nat
    OBVIOUS
  <1>2. CASE strategy = "FULL_MESH"
    <2>1. \A b \in ToSet(public) : b # a => MeshLink(public, private, a, b)
      BY IndexedElements DEF MeshLink
    <2> QED
      BY <1>2, <2>1 DEF Link
  <1>3. CASE strategy # "FULL_MESH"
    <2>1. strategy \in {"CROSSED", "CIRCULAR"}
      BY <1>3 DEF Strategies
    <2> DEFINE c == Len(public)
               T == {x \in 0..(c - 1) : public[x + 1] \in S}
    <2>2. PICK x \in 0..(c - 1) : a = public[x + 1]
      BY IndexedElements
    <2>3. x \in T
      BY <2>2
    <2>4. CASE c < 2
      <3>1. \A y \in 0..(c - 1) : y = x
        BY <2>4
      <3> QED
        BY <3>1, IndexedElements
    <2>5. CASE c >= 2
      <3>1. ASSUME NEW w \in T, NEW y \in 0..(c - 1), IsNear(strategy, c, w, y)
            PROVE  y \in T
        <4>1. PublicLink(strategy, public, public[w + 1], public[y + 1])
          BY <2>5, <3>1 DEF PublicLink
        <4>2. public[y + 1] \in S
          BY <1>3, <4>1 DEF Link
        <4> QED
          BY <4>2
      <3>2. T \in SUBSET (0..(c - 1)) /\ T # {}
        BY <2>3
      <3> HIDE DEF T
      <3>3. T = 0..(c - 1)
        BY <1>1, <2>1, <2>5, <3>1, <3>2, NearIsRing
      <3>4. \A y \in 0..(c - 1) : public[y + 1] \in S
        BY <3>3 DEF T
      <3>5. \A b : b \in ToSet(public) <=> \E y \in 0..(c - 1) : b = public[y + 1]
        BY IndexedElements
      <3> QED
        BY <3>4, <3>5
    <2> QED
      BY <2>4, <2>5
  <1> QED
    BY <1>2, <1>3

\* No set of cells but all of them is closed under the links of a strategy, for
\* any cells in any order (CrossedDeploymentStrategy._generate_deployment,
\* FullMeshDeploymentStrategy._generate_deployment).
THEOREM LinksConnect ==
    ASSUME NEW public, NEW private, AreShuffled(public, private),
           NEW strategy \in Strategies, public # <<>>,
           NEW S \in SUBSET (ToSet(public) \cup ToSet(private)), S # {},
           \A x \in S : \A y : Link(strategy, public, private, x, y) => y \in S
    PROVE  S = ToSet(public) \cup ToSet(private)
  <1>1. \E a \in S : a \in ToSet(public)
    <2>1. PICK b \in S : TRUE
      OBVIOUS
    <2>2. b \in ToSet(private) => \E a \in ToSet(public) : a \in S
      BY PrivateIsServed
    <2> QED
      BY <2>2
  <1>2. ToSet(public) \subseteq S
    BY <1>1, PublicAreLinked
  <1>3. ASSUME NEW b \in ToSet(private) PROVE b \in S
    <2>1. PICK a \in ToSet(public) : Link(strategy, public, private, b, a)
      BY PrivateIsServed
    <2>2. Link(strategy, public, private, a, b)
      BY <2>1, LinkSymmetric
    <2> QED
      BY <1>2, <2>2
  <1> QED
    BY <1>2, <1>3

\* A public cell has at most three links with public cells (CROSSED) or two
\* (CIRCULAR).
LEMMA PublicDegree ==
    ASSUME NEW public, NEW private, AreShuffled(public, private),
           NEW strategy \in {"CROSSED", "CIRCULAR"}, NEW a \in ToSet(public)
    PROVE  LET T == {b \in ToSet(public) : Link(strategy, public, private, a, b)}
           IN  /\ IsFiniteSet(T)
               /\ Cardinality(T) <= (IF strategy = "CROSSED" THEN 3 ELSE 2)
  <1> DEFINE T == {b \in ToSet(public) : Link(strategy, public, private, a, b)}
             c == Len(public)
  <1>1. c \in Nat /\ public \in Seq(PeerIds) /\ private \in Seq(PeerIds)
        /\ \A k, m \in 1..c : public[k] = public[m] => k = m
    BY ShuffledFacts
  <1>2. PICK x \in 0..(c - 1) : a = public[x + 1]
    BY IndexedElements
  <1> DEFINE s == public_neighbors(strategy, public, x)
  <1>3. /\ s \in Seq(PeerIds)
        /\ Len(s) <= (IF strategy = "CROSSED" THEN 3 ELSE 2)
        /\ \A b : b \in ToSet(s) <=>
             \E y \in 0..(c - 1) : c >= 2 /\ IsNear(strategy, c, x, y) /\ b = public[y + 1]
    BY <1>1, PublicNeighbors
  <1> HIDE DEF s
  <1>4. IsFiniteSet(ToSet(s)) /\ Cardinality(ToSet(s)) <= Len(s) /\ Len(s) \in Nat
    BY <1>3, ElementsFinite
  <1>5. ASSUME NEW b \in ToSet(public), Link(strategy, public, private, a, b)
        PROVE  b \in ToSet(s)
    <2>2. ~ServingLink(public, private, a, b) /\ ~ServingLink(public, private, b, a)
      BY IndexedElements DEF ServingLink
    <2>3. PublicLink(strategy, public, a, b)
      BY <1>5, <2>2 DEF Link
    <2>4. PICK w \in 0..(c - 1), y \in 0..(c - 1) :
            a = public[w + 1] /\ b = public[y + 1] /\ c >= 2 /\ IsNear(strategy, c, w, y)
      BY <2>3 DEF PublicLink
    <2>5. w = x
      <3>1. w + 1 \in 1..c /\ x + 1 \in 1..c
        OBVIOUS
      <3>2. w + 1 = x + 1
        BY <1>1, <1>2, <2>4, <3>1
      <3> QED
        BY <3>2
    <2> QED
      BY <1>3, <2>4, <2>5
  <1>6. T \in SUBSET ToSet(s)
    BY <1>5
  <1> HIDE DEF T
  <1>7. IsFiniteSet(T) /\ Cardinality(T) <= Cardinality(ToSet(s))
    BY <1>4, <1>6, FS_Subset
  <1>8. Cardinality(T) \in Nat /\ Cardinality(ToSet(s)) \in Nat
    BY <1>4, <1>7, FS_CardinalityType
  <1>9. Cardinality(T) <= (IF strategy = "CROSSED" THEN 3 ELSE 2)
    BY <1>3, <1>4, <1>7, <1>8
  <1> QED
    BY <1>7, <1>9 DEF T

\* A private cell has one link.
LEMMA PrivateDegree ==
    ASSUME NEW public, NEW private, AreShuffled(public, private),
           NEW strategy \in {"CROSSED", "CIRCULAR"}, public # <<>>, NEW a \in ToSet(private)
    PROVE  \E s \in ToSet(public) : \A b \in ToSet(public) :
                Link(strategy, public, private, a, b) <=> b = s
  <1>1. PICK s \in ToSet(public) : Link(strategy, public, private, a, s)
    BY PrivateIsServed DEF Strategies
  <1>2. SizesMatch(public, private)
    BY DEF SizesMatch
  <1>3. ASSUME NEW b \in ToSet(public), Link(strategy, public, private, a, b)
        PROVE  \E x \in 0..(Len(public) - 1), y \in 0..(Len(private) - 1) :
                 b = public[x + 1] /\ a = private[y + 1] /\ serves(public, private, x, y)
    <2>1. ~PublicLink(strategy, public, a, b) /\ ~ServingLink(public, private, a, b)
      BY IndexedElements DEF PublicLink, ServingLink
    <2> QED
      BY <1>3, <2>1 DEF Link, ServingLink
  <1>4. ASSUME NEW b \in ToSet(public), Link(strategy, public, private, a, b)
        PROVE  b = s
    <2>1. PICK w \in 0..(Len(public) - 1), y \in 0..(Len(private) - 1) :
            b = public[w + 1] /\ a = private[y + 1] /\ serves(public, private, w, y)
      BY <1>3, <1>4
    <2>2. PICK x \in 0..(Len(public) - 1), z \in 0..(Len(private) - 1) :
            s = public[x + 1] /\ a = private[z + 1] /\ serves(public, private, x, z)
      BY <1>1, <1>3
    <2>3. y = z
      <3>1. Len(private) \in Nat /\ \A k, m \in 1..Len(private) : private[k] = private[m] => k = m
        BY ShuffledFacts
      <3>2. y + 1 \in 1..Len(private) /\ z + 1 \in 1..Len(private)
        OBVIOUS
      <3>3. y + 1 = z + 1
        BY <2>1, <2>2, <3>1, <3>2
      <3> QED
        BY <3>3
    <2>4. w = x
      BY <1>2, <2>1, <2>2, <2>3, ServedByOne
    <2> QED
      BY <2>1, <2>2, <2>4
  <1> QED
    BY <1>1, <1>4

\* The private cells that a public cell serves are as many as its part has.
LEMMA ServedDegree ==
    ASSUME NEW public, NEW private, AreShuffled(public, private),
           NEW strategy \in {"CROSSED", "CIRCULAR"}, public # <<>>,
           NEW a \in ToSet(public)
    PROVE  LET T == {b \in ToSet(private) : Link(strategy, public, private, a, b)}
           IN  /\ IsFiniteSet(T)
               /\ Cardinality(T) - (Len(private) \div Len(public)) \in {0, 1}
  <1> DEFINE T == {b \in ToSet(private) : Link(strategy, public, private, a, b)}
             c == Len(public)
             v == Len(private)
  <1>1. SizesMatch(public, private) /\ c \in Nat \ {0} /\ v \in Nat
    BY DEF SizesMatch
  <1>2. PICK x \in 0..(c - 1) : a = public[x + 1]
    BY IndexedElements
  <1> DEFINE Y == {y \in 0..(v - 1) : serves(public, private, x, y)}
             z == partition_size(public, private, x)
  <1>3. IsFiniteSet(Y) /\ Cardinality(Y) = z
    BY <1>1, ServedCount
  <1>4. z - (v \div c) \in {0, 1}
    <2>2. z = (v \div c) + (IF x < (v % c) THEN 1 ELSE 0)
      BY <1>1, PartitionSize
    <2> QED
      BY <2>2
  <1>5. ASSUME NEW b \in ToSet(private)
        PROVE  Link(strategy, public, private, a, b) <=> \E y \in Y : b = private[y + 1]
    <2>1. ~PublicLink(strategy, public, a, b) /\ ~ServingLink(public, private, b, a)
      BY IndexedElements DEF PublicLink, ServingLink
    <2>2. Link(strategy, public, private, a, b) <=> ServingLink(public, private, a, b)
      BY <2>1 DEF Link
    <2>3. ASSUME ServingLink(public, private, a, b)
          PROVE  \E y \in Y : b = private[y + 1]
      <3>1. PICK w \in 0..(c - 1), y \in 0..(v - 1) :
              a = public[w + 1] /\ b = private[y + 1] /\ serves(public, private, w, y)
        BY <2>3 DEF ServingLink
      <3>2. w = x
        <4>1. \A k, m \in 1..c : public[k] = public[m] => k = m
          BY ShuffledFacts
        <4>2. w + 1 \in 1..c /\ x + 1 \in 1..c
          OBVIOUS
        <4>3. w + 1 = x + 1
          BY <1>2, <3>1, <4>1, <4>2
        <4> QED
          BY <4>3
      <3> QED
        BY <3>1, <3>2
    <2>4. ASSUME NEW y \in Y, b = private[y + 1]
          PROVE  ServingLink(public, private, a, b)
      BY <1>2, <2>4 DEF ServingLink
    <2> QED
      BY <2>2, <2>3, <2>4
  <1>6. \A y \in Y : private[y + 1] \in ToSet(private)
    BY IndexedElements
  <1>7. \A y, w \in Y : private[y + 1] = private[w + 1] => y = w
    <2>1. \A k, m \in 1..v : private[k] = private[m] => k = m
      BY ShuffledFacts
    <2>3. ASSUME NEW y \in Y, NEW w \in Y, private[y + 1] = private[w + 1] PROVE y = w
      <3>1. y + 1 = w + 1 /\ y \in Int /\ w \in Int
        BY <2>1, <2>3
      <3> QED
        BY <3>1
    <2> QED
      BY <2>3
  <1>8. T = {b \in ToSet(private) : \E y \in Y : b = private[y + 1]}
    BY <1>5
  <1> HIDE DEF T, Y, z
  <1> DEFINE f == [y \in Y |-> private[y + 1]]
  <1>9. f \in Bijection(Y, T)
    <2>1. \A y \in Y : f[y] = private[y + 1] /\ f[y] \in T
      BY <1>6, <1>8
    <2>2. f \in [Y -> T]
      BY <2>1
    <2>3. \A y, w \in Y : f[y] = f[w] => y = w
      BY <1>7
    <2>4. \A b \in T : \E y \in Y : f[y] = b
      BY <1>8
    <2> HIDE DEF f
    <2> QED
      BY <2>2, <2>3, <2>4 DEF Bijection, Injection, Surjection, IsInjective
  <1>10. IsFiniteSet(T) /\ Cardinality(T) = Cardinality(Y)
    <2>1. ExistsBijection(Y, T)
      BY <1>9 DEF ExistsBijection
    <2> QED
      BY <1>3, <2>1, FS_Bijection
  <1>11. IsFiniteSet(T) /\ Cardinality(T) - (v \div c) \in {0, 1}
    BY <1>3, <1>4, <1>10
  <1> QED
    BY <1>11 DEF T

\* The links of a cell, counted as pairs or as cells.
LEMMA PairsOfCell ==
    ASSUME NEW a, NEW T, NEW E, IsFiniteSet(T),
           \A b \in T : <<a, b>> \in E,
           \A p \in E : \E b \in T : p = <<a, b>>
    PROVE  Cardinality(E) = Cardinality(T)
  <1> DEFINE f == [b \in T |-> <<a, b>>]
  <1>2. \A b, c \in T : f[b] = f[c] => b = c
    OBVIOUS
  <1>3. \A p \in E : \E b \in T : f[b] = p
    OBVIOUS
  <1>4. f \in [T -> E]
    OBVIOUS
  <1> HIDE DEF f
  <1>5. f \in Bijection(T, E)
    BY <1>2, <1>3, <1>4 DEF Bijection, Injection, Surjection, IsInjective
  <1>6. ExistsBijection(T, E)
    BY <1>5 DEF ExistsBijection
  <1> QED
    BY <1>6, FS_Bijection

-----------------------------------------------------------------------------
(* The links that a deployment makes.                                      *)

\* The walk of the graph has passed the neighbour p[2] of p[1].
IsVisited(p) ==
    \E m \in 1..Len(graph) :
        /\ p[1] = graph[m].peer
        /\ \E k \in 1..Len(graph[m].peers) :
            p[2] = graph[m].peers[k] /\ (m < n \/ (m = n /\ k < i))

\* The links are those that the walk has passed, between cells that have an
\* entry.
LinksVisited == \A p \in peer_ids \X peer_ids : p \in DOMAIN peers_map <=> IsVisited(p)

\* peer_config comes after the walk, and misses what is not there.
ConfigsFollow ==
    /\ state \in {"configured", "key_error"} => n = Len(graph) + 1
    /\ state = "key_error" => \E p \in DOMAIN peers_map : <<p[2], p[1]>> \notin DOMAIN peers_map

\* The inductive invariant about the links.
LinkInv == deployment \in Deployments /\ LinksVisited /\ ConfigsFollow

\* The walk begins without links.
LEMMA InitLinkInv == Init => LinkInv
  <1> SUFFICES ASSUME Init PROVE LinkInv
    OBVIOUS
  <1>1. deployment \in Deployments /\ n = 1 /\ i = 1 /\ DOMAIN peers_map = {} /\ state = "deploying"
    BY DEF Init
  <1>3. \A p : ~IsVisited(p)
    BY <1>1 DEF IsVisited
  <1>4. LinksVisited
    BY <1>1, <1>3 DEF LinksVisited
  <1> QED
    BY <1>1, <1>4 DEF LinkInv, ConfigsFollow

\* The links visited before a step are those after it.
LEMMA SameLinks ==
    ASSUME LinkInv, deployment' = deployment, peers_map' = peers_map,
           \A p \in peer_ids \X peer_ids : IsVisited(p)' <=> IsVisited(p)
    PROVE  deployment' \in Deployments /\ LinksVisited'
  <1>1. peer_ids' = peer_ids
    BY DEF graph, peer_ids
  <1> QED
    BY <1>1 DEF LinkInv, LinksVisited

\* A step that links a peer to its next neighbour visits that link.
LEMMA ConnectLinkInv ==
    ASSUME IInv, LinkInv, AtNeighbor, graph[n].peers[i] \in peer_ids, NEW val,
           Connect(graph[n].peer, graph[n].peers[i], val),
           UNCHANGED <<deployment, n, state>>
    PROVE  LinkInv'
  <1> DEFINE a == graph[n].peer
             b == graph[n].peers[i]
  <1>1. /\ TypeOK /\ n \in 1..Len(graph) /\ i \in 1..Len(graph[n].peers)
        /\ n \in Nat /\ i \in Nat
    <2>1. TypeOK /\ n \in 1..(Len(graph) + 1) /\ i \in Nat \ {0}
      BY DEF IInv, TypeOK
    <2>2. n \in 1..Len(graph) /\ n \in Nat
      BY <2>1 DEF AtNeighbor
    <2>3. Len(graph[n].peers) \in Nat /\ i <= Len(graph[n].peers)
      BY DEF AtNeighbor
    <2> QED
      BY <2>1, <2>2, <2>3
  <1>2. DOMAIN peers_map' = DOMAIN peers_map \cup {<<a, b>>} /\ i' = i + 1 /\ n' = n
    BY DEF Connect, Put
  <1>3. graph' = graph /\ peer_ids' = peer_ids
    BY DEF graph, peer_ids
  <1>5. ASSUME NEW p \in peer_ids \X peer_ids
        PROVE  IsVisited(p)' <=> IsVisited(p) \/ p = <<a, b>>
    <2>1. IsVisited(p)' <=>
            \E m \in 1..Len(graph) :
                /\ p[1] = graph[m].peer
                /\ \E k \in 1..Len(graph[m].peers) :
                    p[2] = graph[m].peers[k] /\ (m < n \/ (m = n /\ k < i + 1))
      BY <1>2, <1>3 DEF IsVisited
    <2>2. \A k \in Nat : k < i + 1 <=> k < i \/ k = i
      BY <1>1
    <2>4. ASSUME IsVisited(p)' PROVE IsVisited(p) \/ p = <<a, b>>
      <3>1. PICK m \in 1..Len(graph) :
                /\ p[1] = graph[m].peer
                /\ \E k \in 1..Len(graph[m].peers) :
                    p[2] = graph[m].peers[k] /\ (m < n \/ (m = n /\ k < i + 1))
        BY <2>1, <2>4
      <3>2. PICK k \in 1..Len(graph[m].peers) :
                p[2] = graph[m].peers[k] /\ (m < n \/ (m = n /\ k < i + 1))
        BY <3>1
      <3>3. CASE m = n /\ k = i
        BY <3>1, <3>2, <3>3
      <3>4. CASE ~(m = n /\ k = i)
        <4>1. m < n \/ (m = n /\ k < i)
          BY <2>2, <3>2, <3>4
        <4> QED
          BY <3>1, <3>2, <4>1 DEF IsVisited
      <3> QED
        BY <3>3, <3>4
    <2>5. ASSUME IsVisited(p) PROVE IsVisited(p)'
      <3>1. PICK m \in 1..Len(graph) :
                /\ p[1] = graph[m].peer
                /\ \E k \in 1..Len(graph[m].peers) :
                    p[2] = graph[m].peers[k] /\ (m < n \/ (m = n /\ k < i))
        BY <2>5 DEF IsVisited
      <3>2. PICK k \in 1..Len(graph[m].peers) :
                p[2] = graph[m].peers[k] /\ (m < n \/ (m = n /\ k < i))
        BY <3>1
      <3>3. m < n \/ (m = n /\ k < i + 1)
        BY <2>2, <3>2
      <3> QED
        BY <2>1, <3>1, <3>2, <3>3
    <2>6. ASSUME p = <<a, b>> PROVE IsVisited(p)'
      BY <1>1, <2>1, <2>6
    <2> QED
      BY <2>4, <2>5, <2>6
  <1>6. LinksVisited'
    <2> HIDE DEF a, b
    <2> QED
      BY <1>2, <1>3, <1>5 DEF LinkInv, LinksVisited
  <1>7. ConfigsFollow'
    BY DEF AtNeighbor, ConfigsFollow
  <1> QED
    BY <1>6, <1>7 DEF LinkInv

\* A neighbour without an entry makes no link.
LEMMA SkipUnknownLinkInv == IInv /\ LinkInv /\ SkipUnknown => LinkInv'
  <1> SUFFICES ASSUME IInv, LinkInv, SkipUnknown PROVE LinkInv'
    OBVIOUS
  <1>1. /\ AtNeighbor /\ graph[n].peers[i] \notin peer_ids /\ i' = i + 1
        /\ UNCHANGED <<deployment, n, next_ip, allocated, peers_map, state>>
    BY DEF SkipUnknown
  <1>2. TypeOK /\ i \in Nat /\ graph' = graph
    BY <1>1 DEF IInv, TypeOK, graph
  <1>3. ASSUME NEW p \in peer_ids \X peer_ids PROVE IsVisited(p)' <=> IsVisited(p)
    <2>1. \A m \in 1..Len(graph) : \A k \in 1..Len(graph[m].peers) : k \in Nat
      OBVIOUS
    <2>2. \A k \in Nat : k < i + 1 <=> k < i \/ k = i
      BY <1>2
    <2>3. p[2] # graph[n].peers[i]
      BY <1>1
    <2>4. IsVisited(p)' <=>
            \E m \in 1..Len(graph) :
                /\ p[1] = graph[m].peer
                /\ \E k \in 1..Len(graph[m].peers) :
                    p[2] = graph[m].peers[k] /\ (m < n \/ (m = n /\ k < i + 1))
      BY <1>1, <1>2 DEF IsVisited
    <2> QED
      BY <2>1, <2>2, <2>3, <2>4 DEF IsVisited
  <1>4. deployment' \in Deployments /\ LinksVisited'
    BY <1>1, <1>3, SameLinks
  <1>5. ConfigsFollow'
    BY <1>1 DEF AtNeighbor, ConfigsFollow
  <1> QED
    BY <1>4, <1>5 DEF LinkInv

\* Going to the next cell passes no neighbour.
LEMMA NextPeerLinkInv == IInv /\ LinkInv /\ NextPeer => LinkInv'
  <1> SUFFICES ASSUME IInv, LinkInv, NextPeer PROVE LinkInv'
    OBVIOUS
  <1>1. /\ state = "deploying" /\ n <= Len(graph) /\ i > Len(graph[n].peers)
        /\ n' = n + 1 /\ i' = 1
        /\ UNCHANGED <<deployment, next_ip, allocated, peers_map, state>>
    BY DEF NextPeer
  <1>2. TypeOK /\ i \in Nat /\ n \in Nat /\ graph' = graph
    <2>1. TypeOK /\ i \in Nat /\ n \in 1..(Len(graph) + 1)
      BY DEF IInv, TypeOK
    <2> QED
      BY <1>1, <2>1 DEF graph
  <1>3. ASSUME NEW p \in peer_ids \X peer_ids PROVE IsVisited(p)' <=> IsVisited(p)
    <2>1. IsVisited(p)' <=>
            \E m \in 1..Len(graph) :
                /\ p[1] = graph[m].peer
                /\ \E k \in 1..Len(graph[m].peers) :
                    p[2] = graph[m].peers[k] /\ (m < n + 1 \/ (m = n + 1 /\ k < 1))
      BY <1>1, <1>2 DEF IsVisited
    <2>2. \A m \in 1..Len(graph) : \A k \in 1..Len(graph[m].peers) :
            m < n + 1 \/ (m = n + 1 /\ k < 1) <=> m < n \/ (m = n /\ k < i)
      <3>1. SUFFICES ASSUME NEW m \in 1..Len(graph), NEW k \in 1..Len(graph[m].peers)
                     PROVE  m < n + 1 \/ (m = n + 1 /\ k < 1) <=> m < n \/ (m = n /\ k < i)
        OBVIOUS
      <3>3. m = n => k < i
        BY <1>1, <1>2
      <3> QED
        BY <1>2, <3>3
    <2> QED
      BY <2>1, <2>2 DEF IsVisited
  <1>4. deployment' \in Deployments /\ LinksVisited'
    BY <1>1, <1>3, SameLinks
  <1>5. ConfigsFollow'
    BY <1>1 DEF ConfigsFollow
  <1> QED
    BY <1>4, <1>5 DEF LinkInv

\* The steps that only change the state.
LEMMA StateLinkInv ==
    ASSUME LinkInv, UNCHANGED <<deployment, n, i, peers_map>>, ConfigsFollow'
    PROVE  LinkInv'
  <1>1. \A p \in peer_ids \X peer_ids : IsVisited(p)' <=> IsVisited(p)
    <2>1. graph' = graph
      BY DEF graph
    <2> QED
      BY <2>1 DEF IsVisited
  <1>2. deployment' \in Deployments /\ LinksVisited'
    BY <1>1, SameLinks
  <1> QED
    BY <1>2 DEF LinkInv

\* Every step preserves the invariant.
LEMMA LinkInvStep == IInv /\ LinkInv /\ [Next]_vars => LinkInv'
  <1> SUFFICES ASSUME IInv, LinkInv, [Next]_vars PROVE LinkInv'
    OBVIOUS
  <1>1. CASE SkipUnknown
    BY <1>1, SkipUnknownLinkInv
  <1>2. CASE Reuse
    BY <1>2, ConnectLinkInv DEF Reuse
  <1>3. CASE Allocate
    BY <1>3, ConnectLinkInv DEF Allocate
  <1>4. CASE AllocateFails
    <2>1. state' \in {"exceeded", "misaligned"}
      BY <1>4 DEF AllocateFails
    <2>2. ConfigsFollow'
      BY <2>1 DEF ConfigsFollow
    <2> QED
      BY <1>4, <2>2, StateLinkInv DEF AllocateFails
  <1>5. CASE NextPeer
    BY <1>5, NextPeerLinkInv
  <1>6. CASE PeerConfigs
    <2>1. n = Len(graph) + 1
      <3>1. TypeOK /\ n \in 1..(Len(graph) + 1) /\ n > Len(graph)
        BY <1>6 DEF IInv, TypeOK, PeerConfigs
      <3> QED
        BY <3>1
    <2>2. graph' = graph
      BY <1>6 DEF PeerConfigs, graph
    <2>3. ConfigsFollow'
      BY <1>6, <2>1, <2>2 DEF PeerConfigs, ConfigsFollow
    <2> QED
      BY <1>6, <2>3, StateLinkInv DEF PeerConfigs
  <1>7. CASE UNCHANGED vars
    <2>1. ConfigsFollow'
      <3>1. graph' = graph /\ n' = n /\ state' = state /\ peers_map' = peers_map
        BY <1>7 DEF vars, graph
      <3> QED
        BY <3>1 DEF LinkInv, ConfigsFollow
    <2> QED
      BY <1>7, <2>1, StateLinkInv DEF vars
  <1> QED
    BY <1>1, <1>2, <1>3, <1>4, <1>5, <1>6, <1>7 DEF Next

\* For any graphs, the links of a deployment are the neighbours that its walk has
\* passed, no more and no less, whether their addresses were new or were found
\* (DeploymentStrategy.deploy, P2pLinkAllocationMap).
THEOREM LinkInvCorrect == Spec => []LinkInv
  <1>1. Spec => []IInv
    BY IInvCorrect
  <1>2. Init => LinkInv
    BY InitLinkInv
  <1>3. IInv /\ LinkInv /\ [Next]_vars => LinkInv'
    BY LinkInvStep
  <1> QED
    BY <1>1, <1>2, <1>3, PTL DEF Spec

\* When the graph has been walked, what is linked is what it lists.
LEMMA LinkedAsListed ==
    ASSUME IInv, LinkInv, state \in {"configured", "key_error"}
    PROVE  /\ DOMAIN peers_map \subseteq peer_ids \X peer_ids
           /\ \A a, b \in peer_ids : <<a, b>> \in DOMAIN peers_map <=> Lists(graph, a, b)
  <1>1. DOMAIN peers_map \subseteq peer_ids \X peer_ids /\ TypeOK
    BY DEF IInv, TypeOK
  <1>2. n = Len(graph) + 1
    BY DEF LinkInv, ConfigsFollow
  <1>3. ASSUME NEW a \in peer_ids, NEW b \in peer_ids
        PROVE  <<a, b>> \in DOMAIN peers_map <=> Lists(graph, a, b)
    <2>1. <<a, b>> \in DOMAIN peers_map <=> IsVisited(<<a, b>>)
      BY DEF LinkInv, LinksVisited
    <2>2. \A m \in 1..Len(graph) : m < n
      BY <1>2
    <2>3. \A m \in 1..Len(graph) :
            b \in ToSet(graph[m].peers) <=> \E k \in 1..Len(graph[m].peers) : b = graph[m].peers[k]
      <3>1. \A m \in 1..Len(graph) : graph[m].peers \in Seq(PeerIds)
        BY <1>1, GraphTypes
      <3>2. \A s \in Seq(PeerIds) : \A x : x \in ToSet(s) <=> \E k \in 1..Len(s) : s[k] = x
        BY ElementsFinite
      <3> QED
        BY <3>1, <3>2
    <2>4. IsVisited(<<a, b>>) <=>
            \E m \in 1..Len(graph) :
                a = graph[m].peer /\ \E k \in 1..Len(graph[m].peers) : b = graph[m].peers[k]
      BY <2>2 DEF IsVisited
    <2> QED
      BY <2>1, <2>3, <2>4 DEF Lists
  <1> QED
    BY <1>1, <1>3

\* Who is listed lists back.
GraphIsSymmetric == \A a, b \in peer_ids : Lists(graph, a, b) => Lists(graph, b, a)

\* If every listed neighbour lists the peer back, no configuration misses the
\* other end of a link, whatever strategy made the graph
\* (P2pVpnConfig.peer_config).
THEOREM SymmetricGraphsConfigure == Spec => [](GraphIsSymmetric => state # "key_error")
  <1>1. IInv /\ LinkInv => (GraphIsSymmetric => state # "key_error")
    <2>1. SUFFICES ASSUME IInv, LinkInv, GraphIsSymmetric, state = "key_error" PROVE FALSE
      OBVIOUS
    <2>2. PICK p \in DOMAIN peers_map : <<p[2], p[1]>> \notin DOMAIN peers_map
      BY <2>1 DEF LinkInv, ConfigsFollow
    <2>3. /\ DOMAIN peers_map \subseteq peer_ids \X peer_ids
          /\ \A a, b \in peer_ids : <<a, b>> \in DOMAIN peers_map <=> Lists(graph, a, b)
      BY <2>1, LinkedAsListed
    <2> QED
      BY <2>1, <2>2, <2>3 DEF GraphIsSymmetric
  <1> QED
    BY <1>1, IInvCorrect, LinkInvCorrect, PTL

-----------------------------------------------------------------------------
(* The backbones of the strategies.                                        *)

\* The cells and the links of a graph that a strategy made.
LEMMA GeneratedGraph ==
    ASSUME IInv, NEW public, NEW private, AreShuffled(public, private),
           NEW strategy \in Strategies, public # <<>>,
           deployment = Deploy(strategy, public, private)
    PROVE  /\ peer_ids = ToSet(public) \cup ToSet(private)
           /\ deployment.private = ToSet(private)
           /\ deployment.strategy = strategy
           /\ \A a, b : Lists(graph, a, b) <=> Link(strategy, public, private, a, b)
  <1> DEFINE cells == Cells(public, private)
  <1>1. /\ graph = Deploy(strategy, public, private).graph
        /\ deployment.private = ToSet(private) /\ deployment.strategy = strategy
    BY DEF graph, Deploy
  <1>2. Len(graph) = Len(cells) /\ \A k \in 1..Len(graph) : graph[k].peer = cells[k]
    BY <1>1, DeployedGraph
  <1>3. cells \in Seq(PeerIds) /\ ToSet(cells) = ToSet(public) \cup ToSet(private)
    BY CellsFacts
  <1> HIDE DEF cells
  <1>4. \A x : x \in ToSet(cells) <=> \E k \in 1..Len(cells) : cells[k] = x
    BY <1>3, ElementsFinite
  <1>5. peer_ids = ToSet(cells)
    <2>1. \A x : x \in peer_ids <=> \E k \in 1..Len(graph) : graph[k].peer = x
      BY DEF peer_ids
    <2>2. \A x : x \in peer_ids <=> x \in ToSet(cells)
      BY <1>2, <1>4, <2>1
    <2> QED
      BY <2>2
  <1> QED
    BY <1>1, <1>3, <1>5, DeployLists

\* The links of a configured backbone have the promised shape.
LEMMA ShapeIsDocumented ==
    ASSUME IInv, LinkInv, state = "configured",
           NEW public, NEW private, AreShuffled(public, private),
           NEW strategy \in {"CROSSED", "CIRCULAR"}, public # <<>>,
           deployment = Deploy(strategy, public, private)
    PROVE  DocumentedShape
  <1> DEFINE P == ToSet(public)
             V == ToSet(private)
             D == DOMAIN peers_map
             link(a, b) == Link(strategy, public, private, a, b)
             links(a, S) == {p \in D : p[1] = a /\ p[2] \in S}
  <1>1. /\ peer_ids = P \cup V
        /\ deployment.private = V
        /\ deployment.strategy = strategy
        /\ \A a, b : Lists(graph, a, b) <=> link(a, b)
    BY GeneratedGraph DEF Strategies
  <1>2. P \cap V = {}
    BY IndexedElements
  <1>3. D \in SUBSET (peer_ids \X peer_ids)
        /\ \A a, b \in peer_ids : <<a, b>> \in D <=> link(a, b)
    BY <1>1, LinkedAsListed
  <1>4. ASSUME NEW a \in peer_ids, NEW S \in SUBSET peer_ids,
               IsFiniteSet({b \in S : link(a, b)})
        PROVE  Cardinality(links(a, S)) = Cardinality({b \in S : link(a, b)})
    <2> DEFINE T == {b \in S : link(a, b)}
               E == links(a, S)
    <2>1. \A b \in T : <<a, b>> \in E
      BY <1>3
    <2>2. \A p \in E : \E b \in T : p = <<a, b>>
      <3>1. SUFFICES ASSUME NEW p \in E PROVE \E b \in T : p = <<a, b>>
        OBVIOUS
      <3>2. p = <<a, p[2]>> /\ p \in D /\ p[2] \in S
        BY <1>3
      <3>3. p[2] \in T
        BY <1>3
      <3> QED
        BY <3>2, <3>3
    <2>3. IsFiniteSet(T)
      BY <1>4
    <2> HIDE DEF T, E
    <2>4. Cardinality(E) = Cardinality(T)
      BY <2>1, <2>2, <2>3, PairsOfCell
    <2> QED
      BY <2>4 DEF T, E
  <1>5. peer_ids \ deployment.private = P /\ peer_ids \cap deployment.private = V
    BY <1>1, <1>2
  <1>6. ASSUME NEW a \in P
        PROVE  Cardinality(links(a, P)) <= (IF strategy = "CROSSED" THEN 3 ELSE 2)
    <2> DEFINE T == {b \in P : link(a, b)}
    <2>1. IsFiniteSet(T) /\ Cardinality(T) <= (IF strategy = "CROSSED" THEN 3 ELSE 2)
      BY PublicDegree
    <2>2. Cardinality(links(a, P)) = Cardinality(T)
      BY <1>1, <1>4, <2>1
    <2> HIDE DEF T, links
    <2> QED
      BY <2>1, <2>2
  <1>7. ASSUME NEW a \in V
        PROVE  Cardinality(links(a, P)) = 1
    <2> DEFINE T == {b \in P : link(a, b)}
    <2>1. PICK s \in P : \A b \in P : link(a, b) <=> b = s
      BY PrivateDegree
    <2>2. T = {s}
      BY <2>1
    <2>3. IsFiniteSet(T) /\ Cardinality(T) = 1
      BY <2>2, FS_Singleton
    <2>4. Cardinality(links(a, P)) = Cardinality(T)
      BY <1>1, <1>4, <2>3
    <2> QED
      BY <2>3, <2>4
  <1> DEFINE q == Len(private) \div Len(public)
  <1>8. ASSUME NEW a \in P
        PROVE  Cardinality(links(a, V)) \in {q, q + 1}
    <2> DEFINE T == {b \in V : link(a, b)}
    <2>1. IsFiniteSet(T) /\ Cardinality(T) - q \in {0, 1}
      BY ServedDegree
    <2>2. Cardinality(links(a, V)) = Cardinality(T)
      BY <1>1, <1>4, <2>1
    <2>3. Cardinality(T) \in Nat
      BY <2>1, FS_CardinalityType
    <2>4. q \in Nat
      OBVIOUS
    <2> HIDE DEF T, q, links
    <2> QED
      BY <2>1, <2>2, <2>3, <2>4
  <1>9. q \in Nat
    OBVIOUS
  <1> HIDE DEF q, P, V
  <1>10. \A a \in P, b \in P : Cardinality(links(a, V)) <= Cardinality(links(b, V)) + 1
    BY <1>8, <1>9
  <1> QED
    BY <1>1, <1>5, <1>6, <1>7, <1>10 DEF DocumentedShape

\* A deployment of a graph that a strategy made is as documented.
LEMMA GeneratedAsDocumented ==
    ASSUME IInv, LinkInv, GraphsAreGenerated
    PROVE  BackboneAsDocumented
  <1> SUFFICES ASSUME deployment.strategy # "STATIC"
               PROVE  /\ state # "key_error"
                      /\ state = "configured" =>
                            /\ AllLinked
                            /\ \A p \in DOMAIN peers_map :
                                 ~({p[1], p[2]} \subseteq deployment.private)
                            /\ deployment.strategy \in {"CROSSED", "CIRCULAR"} => DocumentedShape
                            /\ deployment.strategy = "FULL_MESH" => FullyMeshed
    BY DEF BackboneAsDocumented
  <1>1. PICK strategy \in Strategies, public \in Seq(PeerIds), private \in Seq(PeerIds) :
            AreShuffled(public, private) /\ deployment = Deploy(strategy, public, private)
    BY DEF GraphsAreGenerated, LinkInv
  <1>2. DOMAIN peers_map \subseteq peer_ids \X peer_ids
    BY DEF IInv, TypeOK
  <1>3. CASE public = <<>>
    <2>1. graph = <<>>
      BY <1>1, <1>3 DEF graph, Deploy
    <2>2. peer_ids = {}
      BY <2>1 DEF peer_ids
    <2>3. DOMAIN peers_map = {}
      BY <1>2, <2>2
    <2>4. state # "key_error"
      BY <2>3 DEF LinkInv, ConfigsFollow
    <2>5. AllLinked
      BY <2>2 DEF AllLinked
    <2>6. DocumentedShape
      BY <2>2 DEF DocumentedShape
    <2>7. FullyMeshed
      BY <2>2 DEF FullyMeshed
    <2> QED
      BY <2>3, <2>4, <2>5, <2>6, <2>7
  <1>4. CASE public # <<>>
    <2> DEFINE link(a, b) == Link(strategy, public, private, a, b)
    <2>1. /\ peer_ids = ToSet(public) \cup ToSet(private)
          /\ deployment.private = ToSet(private)
          /\ deployment.strategy = strategy
          /\ \A a, b : Lists(graph, a, b) <=> link(a, b)
      BY <1>1, <1>4, GeneratedGraph
    <2>2. state \in {"configured", "key_error"} =>
            \A a, b \in peer_ids : <<a, b>> \in DOMAIN peers_map <=> link(a, b)
      BY <2>1, LinkedAsListed
    <2>3. state # "key_error"
      <3>1. SUFFICES ASSUME state = "key_error" PROVE FALSE
        OBVIOUS
      <3>2. PICK p \in DOMAIN peers_map : <<p[2], p[1]>> \notin DOMAIN peers_map
        BY <3>1 DEF LinkInv, ConfigsFollow
      <3>3. p = <<p[1], p[2]>> /\ p[1] \in peer_ids /\ p[2] \in peer_ids
        BY <1>2
      <3>4. link(p[1], p[2])
        BY <2>2, <3>1, <3>3
      <3>5. link(p[2], p[1])
        BY <1>1, <3>4, LinkSymmetric
      <3> QED
        BY <2>2, <3>1, <3>2, <3>3, <3>5
    <2>4. ASSUME state = "configured" PROVE AllLinked
      <3>1. SUFFICES ASSUME NEW S \in SUBSET peer_ids, S # {},
                            \A p \in DOMAIN peers_map : p[1] \in S => p[2] \in S
                     PROVE  S = peer_ids
        BY DEF AllLinked
      <3>2. ASSUME NEW x \in S, NEW y, link(x, y) PROVE y \in S
        <4>1. x \in peer_ids /\ y \in peer_ids
          BY <1>1, <2>1, <3>2, LinkEnds
        <4>2. <<x, y>> \in DOMAIN peers_map
          BY <2>2, <2>4, <3>2, <4>1
        <4> QED
          BY <3>1, <4>2
      <3>3. S \in SUBSET (ToSet(public) \cup ToSet(private))
        BY <2>1
      <3>4. S = ToSet(public) \cup ToSet(private)
        BY <1>1, <1>4, <3>1, <3>2, <3>3, LinksConnect
      <3> QED
        BY <2>1, <3>4
    <2>5. ASSUME state = "configured", NEW p \in DOMAIN peers_map
          PROVE  ~({p[1], p[2]} \subseteq deployment.private)
      <3>1. p = <<p[1], p[2]>> /\ p[1] \in peer_ids /\ p[2] \in peer_ids
        BY <1>2
      <3>2. link(p[1], p[2])
        BY <2>2, <2>5, <3>1
      <3>3. p[1] \in ToSet(public) \/ p[2] \in ToSet(public)
        BY <1>1, <3>2, LinkEnds
      <3>4. ToSet(public) \cap ToSet(private) = {}
        BY <1>1, IndexedElements
      <3> QED
        BY <2>1, <3>3, <3>4
    <2>6. ASSUME state = "configured", deployment.strategy \in {"CROSSED", "CIRCULAR"}
          PROVE  DocumentedShape
      BY <1>1, <1>4, <2>1, <2>6, ShapeIsDocumented
    <2>7. ASSUME state = "configured", deployment.strategy = "FULL_MESH"
          PROVE  FullyMeshed
      <3>1. strategy = "FULL_MESH"
        BY <2>1, <2>7
      <3>2. ASSUME NEW a \in peer_ids, NEW b \in peer_ids, a # b,
                   ~({a, b} \subseteq deployment.private)
            PROVE  <<a, b>> \in DOMAIN peers_map
        <4>1. MeshLink(public, private, a, b)
          BY <2>1, <3>2 DEF MeshLink
        <4>2. link(a, b)
          BY <3>1, <4>1 DEF Link
        <4> QED
          BY <2>2, <2>7, <4>2
      <3> QED
        BY <3>2 DEF FullyMeshed
    <2> QED
      BY <2>3, <2>4, <2>5, <2>6, <2>7
  <1> QED
    BY <1>3, <1>4

\* Whatever the cells of a UVN and however they are shuffled, the backbone that
\* is made of a strategy's graph links all cells, has the promised shape, and
\* every peer's configuration finds the other end of its links
\* (CrossedDeploymentStrategy._generate_deployment, P2pVpnConfig.peer_config).
THEOREM BackboneCorrect ==
    ASSUME GraphsAreGenerated
    PROVE  Spec => []BackboneAsDocumented
  <1>1. IInv /\ LinkInv => BackboneAsDocumented
    BY GeneratedAsDocumented
  <1> QED
    BY <1>1, IInvCorrect, LinkInvCorrect, PTL

==============================================================================
