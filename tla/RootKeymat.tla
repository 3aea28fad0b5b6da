----------------------------- MODULE RootKeymat ------------------------------
(***************************************************************************)
(* The key material of the root VPN, over which a registry pushes          *)
(* configurations to the agents of its cells (registry/vpn_keymat.py), and *)
(* the commands of the registry that change it (registry/registry.py).     *)
(*                                                                         *)
(* A key has at most two rows in the database: the current one, which goes *)
(* into the packages of the cells, and a dropped one, which cells still    *)
(* use after a rekeying and which the registry's agent prefers until its   *)
(* sync has pushed the new ones.  The table refuses a second dropped row.  *)
(*                                                                         *)
(* An action is one command of the command line, in a process of its own:  *)
(* the change, then generate_artifacts.  A command that raises an          *)
(* exception leaves what it had committed.                                 *)
(*                                                                         *)
(* Abstractions: a key is a number, in the order in which the keys of a    *)
(* peer are made; the preshared key of a cell and the root is not kept     *)
(* apart, because every operation does to it what it does to the cell's    *)
(* key; keys of other VPNs, and settings, are left out.                    *)
(***************************************************************************)
EXTENDS Naturals

CONSTANTS
    Cells,    \* cells that are or may be defined; an id is never reused
    Root,     \* the peer 0: the registry
    MaxKeys   \* bound on the keys that are made for a peer

ASSUME KeymatAssumption ==
    /\ Root \notin Cells
    /\ MaxKeys \in Nat

Peers == Cells \cup {Root}
NoKey == 0
NoPackage == [own |-> NoKey, root |-> NoKey]

VARIABLES
    status,    \* of a cell: undefined, active, banned or deleted
    cur,       \* the row of a peer's key with dropped = FALSE
    old,       \* the row of a peer's key with dropped = TRUE
    made,      \* how many keys were made for a peer
    rekeyed,   \* rekeyed_root_config_id is set
    packages,  \* the keys in the package of a cell
    agents,    \* the keys that a cell's agent has installed
    result     \* how the last command ended

vars == <<status, cur, old, made, rekeyed, packages, agents, result>>

\* uvn.cells and uvn.all_cells, for the statuses st.
active_in(st) == {c \in Cells : st[c] = "active"}
all_cells_in(st) == {c \in Cells : st[c] \in {"active", "banned"}}

active == active_in(status)
all_cells == all_cells_in(status)

-----------------------------------------------------------------------------
(* What the registry's agent reads.                                        *)

\* The key of root_vpn_config: with prefer_dropped during a rekeying.
RegistryKey(p) == IF rekeyed /\ old[p] # NoKey THEN old[p] ELSE cur[p]

\* The tunnel between the registry and the agent of a cell works.
Reachable(c) ==
    /\ c \in all_cells
    /\ agents[c] # NoPackage
    /\ agents[c] = [own |-> RegistryKey(c), root |-> RegistryKey(Root)]

peers_with_dropped_key == {c \in Cells : old[c] # NoKey}

\* rekeyed_cells looks every peer with a dropped key up in uvn.cells, and
\* next() raises StopIteration for one that is not there.
rekeyed_cells_raises == ~(peers_with_dropped_key \subseteq active)

\* The registry's agent can be started for a sync: it has a key for every
\* cell, and spin_until_consistent has cells to push a rekeying to.
SyncStarts ==
    /\ \A c \in all_cells : RegistryKey(c) # NoKey
    /\ rekeyed => ~rekeyed_cells_raises /\ peers_with_dropped_key # {}

-----------------------------------------------------------------------------
(* Parts of the commands.                                                  *)

\* The keys of the peers in S leave the current rows: those of peers in
\* "delete" are deleted, the others become dropped ones.
Drops(S, delete) == {p \in S \ delete : cur[p] # NoKey}
conflict(S, delete) == \E p \in Drops(S, delete) : old[p] # NoKey

\* Mutation of dropped_rows: the rows dropped by earlier commands are lost.
dropped_rows_only(S, delete) == [p \in Peers |-> IF p \in Drops(S, delete) THEN cur[p] ELSE NoKey]

dropped_rows(S, delete) == [p \in Peers |-> IF p \in Drops(S, delete) THEN cur[p] ELSE old[p]]
current_rows(S) == [p \in Peers |-> IF p \in S THEN NoKey ELSE cur[p]]

\* assert_keys makes the missing keys of the root and of the active cells.
asserts_key(p, st) == p = Root \/ p \in active_in(st)

\* purge_keys, then assert_keys, on the rows that a command left.
generated_rows(rows, st) ==
    [p \in Peers |->
        IF asserts_key(p, st) /\ rows[p] = NoKey THEN made[p] + 1
        ELSE IF p \in Cells \ all_cells_in(st) THEN NoKey
        ELSE rows[p]]

\* Mutation of package: it is written before the keys are made.
early_package(c, rows) == [own |-> cur[c], root |-> cur[Root]]

package(c, rows) == [own |-> rows[c], root |-> rows[Root]]

\* Registry.generate_artifacts, for the statuses and rows that a command has
\* left. The configuration of the root VPN needs the key of banned cells too,
\* and none is made for them: the new rows are saved, the packages are not.
GenerateArtifacts(st, rows) ==
    LET new == generated_rows(rows, st)
    IN  /\ status' = st
        /\ cur' = new
        /\ made' = [p \in Peers |-> IF new[p] > made[p] THEN new[p] ELSE made[p]]
        /\ IF \E c \in all_cells_in(st) : new[c] = NoKey
           THEN result' = "MissingKeyMaterial" /\ UNCHANGED packages
           ELSE /\ result' = "ok"
                /\ packages' = [c \in Cells |-> IF c \in active_in(st) THEN package(c, new)
                                                ELSE NoPackage]

\* A command that ends before anything is committed.
Ends(how) ==
    /\ result' = how
    /\ UNCHANGED <<status, cur, old, made, rekeyed, packages, agents>>

\* The bound: a command that may make a key of every peer.
MayMakeKeys == \A p \in Peers : made[p] < MaxKeys

-----------------------------------------------------------------------------
(* The commands.                                                           *)

\* Registry.create: the UVN has no cells yet, and a root key.
Init ==
    /\ status = [c \in Cells |-> "undefined"]
    /\ cur = [p \in Peers |-> IF p = Root THEN 1 ELSE NoKey]
    /\ old = [p \in Peers |-> NoKey]
    /\ made = cur
    /\ rekeyed = FALSE
    /\ packages = [c \in Cells |-> NoPackage]
    /\ agents = [c \in Cells |-> NoPackage]
    /\ result = "ok"

SetStatus(c, from, to) ==
    /\ MayMakeKeys
    /\ status[c] = from
    /\ GenerateArtifacts([status EXCEPT ![c] = to], cur)
    /\ UNCHANGED <<old, rekeyed, agents>>

AddCell(c) == SetStatus(c, "undefined", "active")
Ban(c) == SetStatus(c, "active", "banned")
Unban(c) == SetStatus(c, "banned", "active")

\* The active cells with a dropped key, in the map of keys to delete.
already_dropped == active \cap peers_with_dropped_key

\* rekey_uvn(root_vpn=True)
RekeyUvn ==
    /\ MayMakeKeys
    /\ \/ /\ active # {} /\ rekeyed_cells_raises
          /\ Ends("StopIteration")
       \/ /\ active = {} \/ ~rekeyed_cells_raises
          /\ conflict(Peers, already_dropped)
          /\ Ends("IntegrityError")
       \/ /\ active = {} \/ ~rekeyed_cells_raises
          /\ ~conflict(Peers, already_dropped)
          /\ old' = dropped_rows(Peers, already_dropped)
          /\ rekeyed' = TRUE
          /\ GenerateArtifacts(status, current_rows(Peers))
          /\ UNCHANGED agents

\* purge_gone_peers, given the active cells but c: c and all cells that are
\* not active.
gone_peers(c) == Cells \ (active \ {c})

\* rekey_cell(c, root_vpn=True). Without a change there is nothing to generate.
RekeyCell(c) ==
    /\ MayMakeKeys
    /\ c \in all_cells
    /\ \/ /\ active = {} /\ rekeyed
          /\ \A p \in gone_peers(c) : cur[p] = NoKey
          /\ Ends("ok")
       \/ /\ active # {} /\ rekeyed_cells_raises
          /\ Ends("StopIteration")
       \/ /\ active = {} \/ ~rekeyed_cells_raises
          /\ conflict(gone_peers(c), already_dropped)
          /\ Ends("IntegrityError")
       \/ /\ active = {} \/ ~rekeyed_cells_raises
          /\ ~conflict(gone_peers(c), already_dropped)
          /\ active # {} \/ ~rekeyed \/ \E p \in gone_peers(c) : cur[p] # NoKey
          /\ old' = dropped_rows(gone_peers(c), already_dropped)
          /\ rekeyed' = TRUE
          /\ GenerateArtifacts(status, current_rows(gone_peers(c)))
          /\ UNCHANGED agents

\* delete_cell(c). A conflict is found when the rows are saved: with a cell
\* that was banned, after the cell is gone. Its rows, and those that such a
\* failure left of another cell, are not kept as dropped ones. With such rows
\* it depends on the order of the ids if the cell's own ones can conflict.
DeleteCell(c) ==
    /\ MayMakeKeys
    /\ c \in all_cells
    /\ \/ /\ active \ {c} # {} /\ rekeyed_cells_raises
          /\ Ends("StopIteration")
       \/ /\ active \ {c} = {} \/ ~rekeyed_cells_raises
          /\ \/ conflict(gone_peers(c), {c})
             \/ conflict({c}, active) /\ \E d \in Cells \ all_cells : cur[d] # NoKey
          /\ status' = [status EXCEPT ![c] = IF c \in active THEN "active" ELSE "deleted"]
          /\ result' = "IntegrityError"
          /\ UNCHANGED <<cur, old, made, rekeyed, packages, agents>>
       \/ /\ active \ {c} = {} \/ ~rekeyed_cells_raises
          /\ ~conflict(gone_peers(c), {c})
          /\ old' = dropped_rows(gone_peers(c), {c} \cup (Cells \ all_cells))
          /\ GenerateArtifacts([status EXCEPT ![c] = "deleted"], current_rows(gone_peers(c)))
          /\ UNCHANGED <<rekeyed, agents>>

\* Registry.drop_rekeyed, at the end of a sync that pushed a rekeying.
DropRekeyed ==
    /\ rekeyed
    /\ SyncStarts
    /\ old' = [p \in Peers |-> NoKey]
    /\ rekeyed' = FALSE
    /\ UNCHANGED <<status, cur, made, packages, agents, result>>

\* The package of a cell reaches its host, through a sync or by hand.
InstallPackage(c) ==
    /\ packages[c] # NoPackage
    /\ agents[c] # packages[c]
    /\ agents' = [agents EXCEPT ![c] = packages[c]]
    /\ UNCHANGED <<status, cur, old, made, rekeyed, packages, result>>

Next ==
    \/ \E c \in Cells : AddCell(c)
    \/ \E c \in Cells : Ban(c)
    \/ \E c \in Cells : Unban(c)
    \/ RekeyUvn
    \/ \E c \in Cells : RekeyCell(c)
    \/ \E c \in Cells : DeleteCell(c)
    \/ DropRekeyed
    \/ \E c \in Cells : InstallPackage(c)

Spec == Init /\ [][Next]_vars

-----------------------------------------------------------------------------
(* Properties.                                                             *)

Keys == Nat \ {NoKey}

\* Every variable has its type; a package that is written has all its keys.
TypeOK ==
    /\ status \in [Cells -> {"undefined", "active", "banned", "deleted"}]
    /\ cur \in [Peers -> Nat]
    /\ old \in [Peers -> Nat]
    /\ made \in [Peers -> Nat]
    /\ rekeyed \in BOOLEAN
    /\ packages \in [Cells -> [own : Keys, root : Keys] \cup {NoPackage}]
    /\ agents \in [Cells -> [own : Keys, root : Keys] \cup {NoPackage}]
    /\ result \in {"ok", "StopIteration", "IntegrityError", "MissingKeyMaterial"}

\* The older configuration is used whenever it is available: a dropped key is
\* there only during a rekeying.  It is not so after a deletion.
OldKeysOnlyWhileRekeyed == ~rekeyed => \A p \in Peers : old[p] = NoKey

\* The only command that leaves a dropped key without a rekeying is the
\* deletion of a cell while another one is banned.
StrayRowsOnlyByDeletion ==
    [][OldKeysOnlyWhileRekeyed =>
            \/ OldKeysOnlyWhileRekeyed'
            \/ all_cells' # active' /\ ~(all_cells \subseteq all_cells')]_vars

\* Without such keys, no command cuts a cell off: if the registry reaches the
\* agent of a cell with the keys it has installed, it still does after any
\* command, however often keys were replaced, until a sync drops the old ones.
CommandsKeepReachable ==
    [][OldKeysOnlyWhileRekeyed /\ (rekeyed => rekeyed') /\ agents' = agents =>
            \A c \in Cells : Reachable(c) /\ c \in active' => Reachable(c)']_vars

\* A sync that can start pushes to every cell the keys that the registry will
\* use after it, also when an earlier command failed half way.
SyncPushesCurrent ==
    SyncStarts => \A c \in active : packages[c] = [own |-> cur[c], root |-> cur[Root]]

=============================================================================
