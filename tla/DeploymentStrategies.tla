------------------------ MODULE DeploymentStrategies -------------------------
(***************************************************************************)
(* The graphs that the deterministic deployment strategies make of the     *)
(* cells with a public address (public) and of those without (private):    *)
(* registry/deployment_strategy/{crossed,circular,fullmesh}_*.py.  The     *)
(* strategies shuffle the cells first; here the shuffled lists are the     *)
(* inputs.  The strategy "random" is module RandomDeployment.              *)
(***************************************************************************)
EXTENDS FiniteSets, Naturals, Sequences, SequencesExt

\* Indices are those of the code, from 0; the lists are from 1.
peer_right(peer_i, count) == (peer_i + 1) % count
peer_left(peer_i, count) == IF peer_i = 0 THEN count - 1 ELSE peer_i - 1

peer_across(peer_i, count) ==
    LET offset == count \div 2
    IN  IF peer_i + 1 <= offset THEN (peer_i + offset) % count ELSE peer_i - offset

crossed_count(peer_i, count) ==
    CASE count = 2 -> 1
      [] count = 3 -> 2
      [] count > 3 -> IF count % 2 = 0 \/ peer_i # count - 1 THEN 3 ELSE 2

circular_count(peer_i, count) == IF count = 2 THEN 1 ELSE 2

peers_count(strategy, peer_i, count) ==
    IF strategy = "CROSSED" THEN crossed_count(peer_i, count) ELSE circular_count(peer_i, count)

\* The neighbours, among the public cells, of the public cell at an index.
public_neighbors(strategy, public, peer_i) ==
    LET count == Len(public)
        generators == <<peer_left(peer_i, count), peer_right(peer_i, count),
                        peer_across(peer_i, count)>>
    IN  IF count < 2 THEN <<>>
        ELSE [k \in 1..peers_count(strategy, peer_i, count) |-> public[generators[k] + 1]]

\* Mutation of partition_size: the remainder is lost.
partition_size_floor(public, private, pub_i) == Len(private) \div Len(public)

\* The number of private cells that the public cell at an index serves: the
\* remainder of the division goes to the first ones. (With fewer private
\* cells than public ones, the quotient is 0 and the code says so.)
partition_size(public, private, pub_i) ==
    Len(private) \div Len(public)
        + (IF pub_i < Len(private) % Len(public) THEN 1 ELSE 0)

\* Where the private cells of a public cell begin: the sizes add up.
partition_start(public, private, pub_i) ==
    LET start[k \in Nat] ==
            IF k = 0 THEN 0 ELSE start[k - 1] + partition_size(public, private, k - 1)
    IN  start[pub_i]

\* The public cell, by its index, that serves the private cell at an index.
serves(public, private, pub_i, priv_i) ==
    LET start == partition_start(public, private, pub_i)
    IN  priv_i >= start /\ priv_i < start + partition_size(public, private, pub_i)

\* CrossedDeploymentStrategy._generate_deployment. With private cells, the
\* neighbours come from a set, and are in no particular order.
crossed_graph(strategy, public, private) ==
    LET served(pub_i) ==
            {private[k] : k \in {m \in 1..Len(private) : serves(public, private, pub_i, m - 1)}}
        servers(priv_i) ==
            {public[k] : k \in {m \in 1..Len(public) : serves(public, private, m - 1, priv_i)}}
    IN  [k \in 1..Len(public) |->
            [peer |-> public[k],
             peers |-> IF private = <<>>
                       THEN public_neighbors(strategy, public, k - 1)
                       ELSE SetToSeq(ToSet(public_neighbors(strategy, public, k - 1))
                                       \cup served(k - 1))]]
        \o
        [k \in 1..Len(private) |-> [peer |-> private[k], peers |-> SetToSeq(servers(k - 1))]]

\* FullMeshDeploymentStrategy._generate_deployment.
fullmesh_graph(public, private) ==
    LET peers == public \o private
        linked(a) == {b \in ToSet(peers) \ {a} :
                        a \notin ToSet(private) \/ b \notin ToSet(private)}
    IN  [k \in 1..Len(peers) |->
            [peer |-> peers[k], peers |-> SetToSeq(linked(peers[k]))]]

\* DeploymentStrategy.deploy: without public cells there is nothing to deploy.
Deploy(strategy, public, private) ==
    [strategy |-> strategy,
     private |-> ToSet(private),
     graph |-> IF public = <<>> THEN <<>>
               ELSE IF strategy = "FULL_MESH" THEN fullmesh_graph(public, private)
               ELSE crossed_graph(strategy, public, private)]

=============================================================================
