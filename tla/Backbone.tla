------------------------------ MODULE Backbone -------------------------------
(***************************************************************************)
(* The backbone that the deployment of a strategy's graph makes: module    *)
(* Deployment, given the graphs of module DeploymentStrategies, and what   *)
(* the documentation promises of the result.                               *)
(***************************************************************************)
EXTENDS Deployment, DeploymentStrategies

Strategies == {"CROSSED", "CIRCULAR", "FULL_MESH"}

\* The two shuffled lists of a UVN's cells: no cell is listed twice.
AreShuffled(public, private) ==
    /\ public \in Seq(PeerIds) /\ private \in Seq(PeerIds)
    /\ IsInjective(public) /\ IsInjective(private)
    /\ ToSet(public) \cap ToSet(private) = {}

\* Every graph that is deployed is given, or made by a strategy.
GraphsAreGenerated ==
    \A d \in Deployments : d.strategy # "STATIC" =>
        \E strategy \in Strategies, public \in Seq(PeerIds), private \in Seq(PeerIds) :
            AreShuffled(public, private) /\ d = Deploy(strategy, public, private)

-----------------------------------------------------------------------------
(* Properties.                                                             *)

\* Every cell reaches every other, directly or over others: no link leaves a
\* set of cells only if it is all of them.
AllLinked ==
    \A S \in SUBSET peer_ids :
        S # {} /\ (\A p \in DOMAIN peers_map : p[1] \in S => p[2] \in S) => S = peer_ids

\* The shape that the documentation promises for "crossed" and "circular": at
\* most 3 (2) links between public cells for each, private cells with one
\* link, and divided evenly.
DocumentedShape ==
    LET public == peer_ids \ deployment.private
        links(a, S) == {p \in DOMAIN peers_map : p[1] = a /\ p[2] \in S}
        served(a) == Cardinality(links(a, deployment.private))
    IN  /\ \A a \in public :
            Cardinality(links(a, public)) <= (IF deployment.strategy = "CROSSED" THEN 3 ELSE 2)
        /\ \A a \in peer_ids \cap deployment.private : Cardinality(links(a, public)) = 1
        /\ \A a, b \in public : served(a) <= served(b) + 1

\* The same for "full-mesh": every cell is connected to every other cell with a
\* public address.
FullyMeshed ==
    \A a, b \in peer_ids :
        a # b /\ ~({a, b} \subseteq deployment.private) => <<a, b>> \in DOMAIN peers_map

\* What a strategy makes of any UVN with a public cell: no peer's configuration
\* misses the other end of a link (peer_config never raises KeyError), and a
\* finished deployment links all of the cells, directly or over others, with
\* no link between two cells without an address and in the promised shape.
BackboneAsDocumented ==
    deployment.strategy # "STATIC" =>
        /\ state # "key_error"
        /\ state = "configured" =>
            /\ AllLinked
            /\ \A p \in DOMAIN peers_map : ~({p[1], p[2]} \subseteq deployment.private)
            /\ deployment.strategy \in {"CROSSED", "CIRCULAR"} => DocumentedShape
            /\ deployment.strategy = "FULL_MESH" => FullyMeshed

=============================================================================
