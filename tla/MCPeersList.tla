---------------------------- MODULE MCPeersList -----------------------------
(***************************************************************************)
(* Instances of PeersList: two cells, each with a network of its own, and  *)
(* a banned one, seen from the registry's agent or from a cell's.          *)
(***************************************************************************)
EXTENDS PeersList, TLC

CONSTANTS c1, c2, cx, l1, l2

MCAllowedLans == (c1 :> {l1}) @@ (c2 :> {l2}) @@ (cx :> {})

\* A cell announces its network or none, and any state of the two.
MCCellInfos ==
    [c \in Cells |->
        [registry_id : ConfigIds,
         routed : {{}, MCAllowedLans[c]},
         known : UNION {[L -> BOOLEAN] : L \in SUBSET {l1, l2}}]]

\* For a cell's agent: the other cell knows nothing, or reaches both, or
\* only its own network.
MCFewCellInfos ==
    [c \in Cells |->
        [registry_id : ConfigIds,
         routed : {{}, MCAllowedLans[c]},
         known : {NoNetworks, [l \in {l1, l2} |-> TRUE], [l \in {l1, l2} |-> l = l2]}]]

=============================================================================
