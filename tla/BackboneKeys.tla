----------------------------- MODULE BackboneKeys ----------------------------
(***************************************************************************)
(* The keys of the backbone VPN: for every link of the deployment, two key *)
(* pairs and a preshared key (P2pVpnKeyMaterial and the maps it is made    *)
(* of, registry/vpn_keymat.py), and how a command of the registry replaces *)
(* them and writes them into the packages of the cells.                    *)
(*                                                                         *)
(* The registry has the keys twice: as rows of its database, and, during a *)
(* command, as maps in memory, loaded when the command starts.  Each row   *)
(* is written in a transaction of its own, because new_child() is called   *)
(* without a cursor, also inside of a transaction: a command that dies can *)
(* leave a link with one of its two key pairs.                             *)
(*                                                                         *)
(* Abstractions: the n-th key made for a place is the number n.  Of        *)
(* generate_artifacts, what concerns the backbone is kept; module          *)
(* RegistryAdmin has the rest.  Which links are deployed is arbitrary:     *)
(* module Deployment has the strategies.  Commands run one at a time.      *)
(***************************************************************************)
EXTENDS Naturals, Sequences

CONSTANTS
    Cells,   \* ids of the cells
    Pairs,   \* the pairs of cells that may have a link, by pair_key
    MaxKeys  \* bound on the keys made for one place

ASSUME BackboneAssumption ==
    /\ Cells \subseteq Nat /\ MaxKeys \in Nat
    /\ Pairs \subseteq {q \in Cells \X Cells : q[1] < q[2]}

pair_key(a, b) == IF a > b THEN <<b, a>> ELSE <<a, b>>

NoKey == 0
NoKeys == [q \in Pairs |-> <<>>]
NoPsks == [q \in Pairs |-> NoKey]
NoPackage == <<>>
NoCommand == [step |-> "none", kind |-> "none", edges |-> {}, keys |-> NoKeys, psks |-> NoPsks,
              changed |-> FALSE, todo |-> {}]

VARIABLES
    edges,     \* the links of the deployment in the registry's row
    keys,      \* the rows of key pairs of a link, not dropped
    psks,      \* the row of the preshared key of a link, not dropped
    made,      \* how many keys were made for each place of a link
    cmd,       \* the running command: its step, and its maps in memory
    packages,  \* the keys in the package of a cell
    last       \* the kind of the last command, and how it ended

rows == <<edges, keys, psks, made>>
vars == <<rows, cmd, packages, last>>

-----------------------------------------------------------------------------
(* The maps.                                                               *)

\* Mutation of pick: the first key belongs to the cell that is asked for.
pick_first(a, b, target, val) == val[IF a = target THEN 1 ELSE 2]

\* PairedValuesMap.pick: the key of the peer "target".
pick(a, b, target, val) == val[IF pair_key(a, b)[1] = target THEN 1 ELSE 2]

\* get_peer_material, for the package of c: its own private keys, the public
\* keys at the other ends, and the preshared keys.
peer_material(c) ==
    [q \in {r \in Pairs : cmd.keys[r] # <<>> /\ (c = r[1] \/ c = r[2])} |->
        LET other == IF c = q[1] THEN q[2] ELSE q[1]
        IN  [own |-> pick(c, other, c, cmd.keys[q]),
             other |-> pick(c, other, other, cmd.keys[q]),
             psk |-> cmd.psks[q]]]

\* generate_val has made one of two keys, which is not in the map yet.
Halfway(q) == Len(keys[q]) = 1 /\ cmd.keys[q] = <<>>

-----------------------------------------------------------------------------
(* The steps of a command.                                                 *)

Step(step) == cmd.step = step
Goes(step) == cmd' = [cmd EXCEPT !.step = step]

Ends(how) ==
    /\ cmd' = NoCommand
    /\ last' = [kind |-> cmd.kind, how |-> how]

\* A command that changes nothing of the backbone ("other"), that changes
\* nothing at all ("none"), or that replaces the deployment by the links E:
\* redeploy, or generate_artifacts if cells have changed. The maps are loaded.
Start(kind, E) ==
    /\ Step("none")
    /\ kind # "redeploy" => E = edges
    /\ cmd' = [step |-> IF kind = "redeploy" THEN "drop_keys" ELSE "assert",
               kind |-> kind, edges |-> E, keys |-> keys, psks |-> psks,
               changed |-> kind # "none", todo |-> {}]
    /\ last' = [kind |-> kind, how |-> "running"]
    /\ UNCHANGED <<rows, packages>>

\* pair_keys.drop_keys(delete=True): the map is cleared, and what was in it
\* deleted from the database.
DropPairKeys ==
    /\ Step("drop_keys")
    /\ LET dropped == {q \in Pairs : cmd.keys[q] # <<>>}
       IN  keys' = [q \in Pairs |-> IF q \in dropped THEN <<>> ELSE keys[q]]
    /\ cmd' = [cmd EXCEPT !.step = "drop_psks", !.keys = NoKeys]
    /\ UNCHANGED <<edges, psks, made, packages, last>>

\* preshared_keys.drop_keys(delete=True)
DropPsks ==
    /\ Step("drop_psks")
    /\ LET dropped == {q \in Pairs : cmd.psks[q] # NoKey}
       IN  psks' = [q \in Pairs |-> IF q \in dropped THEN NoKey ELSE psks[q]]
    /\ cmd' = [cmd EXCEPT !.step = "save", !.psks = NoPsks]
    /\ UNCHANGED <<edges, keys, made, packages, last>>

\* _save: the registry's row has the new deployment.
SaveDeployment ==
    /\ Step("save")
    /\ edges' = cmd.edges
    /\ Goes("assert")
    /\ UNCHANGED <<keys, psks, made, packages, last>>

Next_number(q, i) == made[q][i] + 1

\* PairedVpnKeysMap.generate_val, one of its two calls of new_child. The map
\* gets the keys when there are both.
MakeKey(q) ==
    /\ Step("assert")
    /\ q \in cmd.edges /\ cmd.keys[q] = <<>>
    /\ \A r \in Pairs \ {q} : ~Halfway(r)
    /\ LET i == Len(keys[q]) + 1
           new == Append(keys[q], Next_number(q, i))
       IN  /\ Next_number(q, i) <= MaxKeys
           /\ keys' = [keys EXCEPT ![q] = new]
           /\ made' = [made EXCEPT ![q][i] = @ + 1]
           /\ cmd' = [cmd EXCEPT !.keys[q] = IF i = 2 THEN new ELSE <<>>, !.changed = TRUE]
    /\ UNCHANGED <<edges, psks, packages, last>>

\* PresharedKeysMap.generate_val, after the key pairs of the same link.
MakePsk(q) ==
    /\ Step("assert")
    /\ q \in cmd.edges /\ cmd.keys[q] # <<>> /\ cmd.psks[q] = NoKey
    /\ \A r \in Pairs : ~Halfway(r)
    /\ Next_number(q, 3) <= MaxKeys
    /\ psks' = [psks EXCEPT ![q] = Next_number(q, 3)]
    /\ made' = [made EXCEPT ![q][3] = @ + 1]
    /\ cmd' = [cmd EXCEPT !.psks[q] = Next_number(q, 3), !.changed = TRUE]
    /\ UNCHANGED <<edges, keys, packages, last>>

\* peer_config picks both keys of a link: the list has only one of them.
AssertRaises(q) ==
    /\ Step("assert")
    /\ q \in cmd.edges /\ Len(cmd.keys[q]) = 1 /\ cmd.psks[q] # NoKey
    /\ \A r \in Pairs : ~Halfway(r)
    /\ Ends("IndexError")
    /\ UNCHANGED <<rows, packages>>

\* All links have their keys. Without a change, no packages are written.
AssertDone ==
    /\ Step("assert")
    /\ \A q \in cmd.edges : Len(cmd.keys[q]) = 2 /\ cmd.psks[q] # NoKey
    /\ IF cmd.changed
       THEN /\ packages' = [c \in Cells |-> NoPackage]
            /\ cmd' = [cmd EXCEPT !.step = "package", !.todo = Cells]
            /\ UNCHANGED last
       ELSE Ends("unchanged") /\ UNCHANGED packages
    /\ UNCHANGED rows

\* Packager.generate_cell_agent_package, with generate_cell_database.
Package(c) ==
    /\ Step("package") /\ c \in cmd.todo
    /\ packages' = [packages EXCEPT ![c] = peer_material(c)]
    /\ IF cmd.todo = {c} THEN Ends("ok")
       ELSE cmd' = [cmd EXCEPT !.todo = @ \ {c}] /\ UNCHANGED last
    /\ UNCHANGED rows

\* The command is interrupted, or fails.
Die ==
    /\ ~Step("none")
    /\ Ends("died")
    /\ UNCHANGED <<rows, packages>>

-----------------------------------------------------------------------------
(* The specification.                                                      *)

Init ==
    /\ edges = {} /\ keys = NoKeys /\ psks = NoPsks
    /\ made = [q \in Pairs |-> <<0, 0, 0>>]
    /\ cmd = NoCommand
    /\ packages = [c \in Cells |-> NoPackage]
    /\ last = [kind |-> "none", how |-> "ok"]

Next ==
    \/ \E kind \in {"redeploy", "other", "none"}, E \in SUBSET Pairs : Start(kind, E)
    \/ DropPairKeys
    \/ DropPsks
    \/ SaveDeployment
    \/ \E q \in Pairs : MakeKey(q)
    \/ \E q \in Pairs : MakePsk(q)
    \/ \E q \in Pairs : AssertRaises(q)
    \/ AssertDone
    \/ \E c \in Cells : Package(c)
    \/ Die

Spec == Init /\ [][Next]_vars

-----------------------------------------------------------------------------
(* Properties.                                                             *)

\* The two ends of a link agree: what one has as its own key the other has as
\* the key of its peer, and the preshared keys are equal.
Agree(one, two, q) ==
    /\ one[q].own = two[q].other
    /\ one[q].other = two[q].own
    /\ one[q].psk = two[q].psk /\ one[q].psk # NoKey

\* The packages that lie in the registry fit together, also after commands that
\* died at any step; and after one that ended well there is the material of
\* every link of the deployment at both of its ends.
PackagesFit ==
    /\ \A q \in Pairs :
        q \in DOMAIN packages[q[1]] \cap DOMAIN packages[q[2]] =>
            Agree(packages[q[1]], packages[q[2]], q)
    /\ last.how = "ok" =>
        \A c \in Cells : DOMAIN packages[c] = {q \in edges : c \in {q[1], q[2]}}

\* A link that a dead command left with half of its keys makes every command
\* fail, except a redeployment: that one repairs it.
RedeployRepairs == last.how = "IndexError" => last.kind # "redeploy"

\* No key outlives the link it was made for: every row belongs to a link of
\* the deployment, whatever died between the deletion of the old keys, the
\* change of the deployment and the making of the new ones.
StoredAreDeployed == \A q \in Pairs : keys[q] # <<>> \/ psks[q] # NoKey => q \in edges

=============================================================================
