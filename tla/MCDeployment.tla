---------------------------- MODULE MCDeployment -----------------------------
(***************************************************************************)
(* Every redeployment of a small UVN by the deterministic strategies, and  *)
(* of graphs that only the strategy "static" can be given.                 *)
(***************************************************************************)
EXTENDS Backbone

CONSTANTS
    MaxShuffled,  \* the cells of UVNs for which every shuffle is explored
    MaxCells      \* the cells of the largest UVN

MCPeerIds == 1..MaxCells

Shuffled ==
    {Deploy(s, public, private) :
        <<s, public, private>> \in
            UNION {Strategies \X SetToSeqs(1..size \ priv) \X SetToSeqs(priv) :
                    <<size, priv>> \in {x \in (1..MaxShuffled) \X SUBSET (1..MaxShuffled) :
                                            x[2] \subseteq 1..x[1]}}}

\* Larger UVNs: the cells are in order, the last ones are private.
Larger ==
    {Deploy(s, [k \in 1..(size - priv) |-> k], [k \in 1..priv |-> size - priv + k]) :
        s \in Strategies, size \in (MaxShuffled + 1)..MaxCells, priv \in 0..MaxShuffled}

GeneratedDeployments == Shuffled \cup Larger

\* Graphs of the strategy "static": links in one direction, to a cell that
\* is not listed, to the cell itself, or twice.
StaticDeployments ==
    {[strategy |-> "STATIC",
      private |-> {},
      graph |-> [k \in 1..3 |-> [peer |-> k, peers |-> lists[k]]]] :
        lists \in [1..3 -> {<<>>, <<2>>, <<3, 2>>, <<2, 5, 3, 1>>, <<3, 3>>}]}

AllDeployments == UNION {GeneratedDeployments, StaticDeployments}

=============================================================================
