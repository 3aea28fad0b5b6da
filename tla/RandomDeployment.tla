--------------------------- MODULE RandomDeployment --------------------------
(***************************************************************************)
(* The deployment strategy "random" (RandomDeploymentGraph): up to         *)
(* max_tries times, a random walk that visits every cell at most once, and *)
(* never goes from a private cell to a private cell, is added to a graph   *)
(* in which every cell has a limited number of edges.                      *)
(*                                                                         *)
(* A step picks the next cell of the walk, stores one edge of it, or ends  *)
(* the try.  Two ways to end the search are told apart: "returned" early,  *)
(* and "exhausted", when the loop ends by itself after the last try, with  *)
(* the same result for the caller.                                         *)
(***************************************************************************)
EXTENDS FiniteSets, Naturals, Sequences

CONSTANTS
    Peers,       \* the cells
    Privates,    \* how many of them may be without a public address
    MaxTries     \* max_tries: 100000 in the code

ASSUME RandomAssumption ==
    /\ IsFiniteSet(Peers)
    /\ Privates \subseteq 0..(Cardinality(Peers) - 1)
    /\ MaxTries \in Nat \ {0}

VARIABLES
    private_peers,
    tries,       \* tries left
    walk,        \* the cells that the walk has visited, in order
    stored,      \* how many of its edges went through _store_edge
    peer_edges,
    full_peers, ok_peers, min_peers,
    search       \* whether the search goes on, or how it ended

lists == <<full_peers, ok_peers, min_peers>>
searchVars == <<private_peers, tries, walk, stored, peer_edges, lists, search>>

Count(S) == Cardinality(S)
public_peers == Peers \ private_peers

\* RandomDeploymentStrategy._generate_deployment: the number of edges that a
\* cell must have, should have, and may have at most.
min_peer_edges == IF Count(Peers) <= 1 THEN 0 ELSE 1
ok_peer_edges ==
    CASE Count(Peers) <= 1 -> 0
      [] Count(Peers) \in {2, 3} -> Count(Peers) - 1
      [] Count(Peers) > 3 -> 2
max_peer_edges ==
    CASE Count(Peers) <= 1 -> 0
      [] Count(Peers) \in {2, 3} -> Count(Peers)
      [] Count(Peers) > 3 ->
            IF Count(public_peers) < Count(private_peers)
            THEN 3 + Count(private_peers) - Count(public_peers)
            ELSE 3

SearchInit ==
    /\ private_peers \in {S \in SUBSET Peers : Count(S) \in Privates}
    /\ tries = MaxTries
    /\ walk = <<>> /\ stored = 0
    /\ peer_edges = [p \in Peers |-> {}]
    /\ full_peers = {} /\ ok_peers = {} /\ min_peers = {}
    /\ search = "trying"

-----------------------------------------------------------------------------
(* _generate_new_spanning_tree                                             *)

visited == {walk[k] : k \in 1..Len(walk)}

neighbors ==
    IF walk = <<>> \/ walk[Len(walk)] \in public_peers
    THEN Peers \ visited
    ELSE public_peers \ visited

Visit(p) ==
    /\ search = "trying" /\ p \in neighbors
    /\ walk' = Append(walk, p)
    /\ UNCHANGED <<private_peers, tries, stored, peer_edges, lists, search>>

\* The walk is complete, or raises IncompleteSpanTree.
WalkEnded == search = "trying" /\ walk # <<>> /\ neighbors = {}
IsComplete == visited = Peers

-----------------------------------------------------------------------------
(* _store_edge                                                             *)

\* _update_peer_status, for both ends of an edge.
UpdatePeerStatus(S) ==
    LET count(p) == Count(peer_edges'[p])
        full == {p \in S : count(p) >= max_peer_edges}
        ok == {p \in S : count(p) >= ok_peer_edges} \ full
        min == {p \in S : count(p) >= min_peer_edges} \ (full \cup ok)
    IN  /\ full_peers' = full_peers \cup full
        /\ ok_peers' = (ok_peers \ full) \cup ok
        /\ min_peers' = (min_peers \ (full \cup ok)) \cup min

\* An edge to a full cell is dropped.
StoreEdge(a, b) ==
    IF Count(peer_edges[a]) < max_peer_edges /\ Count(peer_edges[b]) < max_peer_edges
    THEN /\ peer_edges' = [peer_edges EXCEPT ![a] = @ \cup {b}, ![b] = @ \cup {a}]
         /\ UpdatePeerStatus({a, b})
    ELSE UNCHANGED <<peer_edges, lists>>

-----------------------------------------------------------------------------
(* generate_edges                                                          *)

\* An incomplete walk is kept only if private cells are not fewer than public
\* ones.
IsKept == IsComplete \/ Count(private_peers) >= Count(public_peers)
IsStored == IsKept => stored + 1 = Len(walk)

StoreNext ==
    /\ WalkEnded /\ ~IsStored
    /\ StoreEdge(walk[stored + 1], walk[stored + 2])
    /\ stored' = stored + 1
    /\ UNCHANGED <<private_peers, tries, walk, search>>

\* Mutation of test_partial: one cell may be missing.
test_partial_but_one ==
    Count(ok_peers) + Count(full_peers) + Count(min_peers) + 1 >= Count(Peers)

test_partial == Count(ok_peers) + Count(full_peers) + Count(min_peers) >= Count(Peers)

\* The next try begins, unless the search is over.
EndTry ==
    /\ tries' = tries - 1
    /\ walk' = <<>> /\ stored' = 0
    /\ UNCHANGED <<private_peers, peer_edges, lists>>

\* A complete walk: return if every cell has enough edges.
TryComplete ==
    /\ WalkEnded /\ IsStored /\ IsComplete
    /\ search' = LET enough == Count(ok_peers) + Count(full_peers) >= Count(Peers)
                 IN  CASE enough -> "returned"
                       [] ~enough /\ tries = 1 -> "exhausted"
                       [] OTHER -> "trying"
    /\ EndTry

\* A walk that is kept in part is enough if every cell has some edge. After the
\* last try, the missing edges are an error.
TryIncomplete ==
    /\ WalkEnded /\ IsStored /\ ~IsComplete
    /\ search' = CASE test_partial /\ (IsKept \/ tries = 1) -> "returned"
                   [] ~test_partial /\ tries = 1 -> "error"
                   [] OTHER -> "trying"
    /\ EndTry

SearchNext ==
    \/ \E p \in Peers : Visit(p)
    \/ StoreNext
    \/ TryComplete
    \/ TryIncomplete

SearchSpec == SearchInit /\ [][SearchNext]_searchVars

-----------------------------------------------------------------------------
(* Properties.                                                             *)

\* The graph keeps to its limits: edges go both ways, no cell has more than
\* the maximum, and one end of an edge has a public address.
WithinLimits ==
    \A p \in Peers :
        /\ Count(peer_edges[p]) <= max_peer_edges
        /\ \A q \in peer_edges[p] : p \in peer_edges[q] /\ {p, q} \cap public_peers # {}

\* No edge leaves S.
IsClosed(S) == \A p \in S : peer_edges[p] \subseteq S

\* There is a path from every cell to every other.
Connected == \A S \in SUBSET Peers : S # {} /\ IsClosed(S) => S = Peers

\* generate_edges keeps to its limits at every step, and returns early only
\* with a backbone that links every cell to every other, although walks are
\* kept in part, and edges are dropped at full cells.
ReturnedIsConnected ==
    WithinLimits /\ (search = "returned" => Connected)

=============================================================================
