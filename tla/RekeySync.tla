----------------------------- MODULE RekeySync -----------------------------
(***************************************************************************)
(* `uno sync` on a UVN with new root VPN keys: spin_until_consistent and   *)
(* the handlers it relies on (src/uno/agent/agent.py), between the agent   *)
(* of the registry and those of the cells.                                 *)
(*                                                                         *)
(* A rekeying leaves the old key of a cell in the registry's database as a *)
(* dropped row.  The sync runs the root VPN with the old keys, waits until *)
(* it has seen all cells (stage 0), publishes the packages when they are   *)
(* all connected, waits until exactly the rekeyed cells are offline (stage *)
(* 1), which it takes as their having installed the new keys, drops the    *)
(* old keys, reloads itself with the new ones, publishes again, and ends   *)
(* when all cells report the registry's configuration.                     *)
(*                                                                         *)
(* Keys and configurations are numbered by the command that made them.     *)
(* Cells crash and restart, fail to extract a package, or are cut off; the *)
(* sync is interrupted or times out and is run again; another command may  *)
(* rekey a cell while it runs.                                             *)
(***************************************************************************)
EXTENDS Naturals, FiniteSets

CONSTANTS
    Cells,
    MaxConfig,      \* bound: configurations that are made
    MaxSyncs,       \* bound: syncs that are started
    MaxCrashes,     \* bound: crashes of cell agents, all cells together
    MaxFailures     \* bound: packages that cannot be extracted

ASSUME BoundsAssumption ==
    /\ MaxConfig \in Nat \ {0}
    /\ MaxSyncs \in Nat
    /\ MaxCrashes \in Nat
    /\ MaxFailures \in Nat

None == 0

VARIABLES
    \* The registry's directory.
    config,         \* config_id in the row of the registry
    packaged,       \* config_id of the packages in cells/
    made,           \* the last configuration that was made
    cur, old,       \* per cell: its current key, and its dropped one or None
    rekeyed,        \* rekeyed_root_config_id is not None
    \* The registry's agent.
    run,            \* "off", "push", "reload", "final" or "done"
    id, using,      \* configuration and keys loaded when it was opened
    targets,        \* rekeyed_cells, cached
    stage,
    status, seen,   \* per cell: the status of the peer, its registry_id
    pub,            \* per cell: the sample of BACKBONE, if any
    due, batch,     \* a poll follows the spin that published; the cells whose
                    \* going offline was read in that same spin
    \* The agents of the cells.
    up,             \* "up", "reloading", "imported" or "down"
    db, files,      \* the configuration in the database, and in id.yaml
    held,           \* the package that is being installed
    consumed,       \* the current sample was taken
    \* Counters, and what went wrong.
    syncs, crashes, failures,
    abandoned,      \* a sync ended after its packages were published
    lost,           \* cells that were away while new keys were pushed, or
                    \* that failed to install them
    meddled         \* cells that were rekeyed while new keys were pushed

registry == <<config, packaged, made, cur, old, rekeyed>>
agent == <<run, id, using, targets, stage, status, seen, pub, due, batch>>
cells == <<up, db, files, held, consumed>>
faults == <<syncs, crashes, failures, abandoned, lost, meddled>>
vars == <<registry, agent, cells, faults>>

\* What a package, and the database of a cell, hold.
Package(c) == [config |-> packaged, key |-> cur[c]]

Running == run \in {"push", "final"}

\* The tunnel of the root VPN works, and the agents see each other.
Connected(c) ==
    /\ Running
    /\ up[c] = "up"
    /\ db[c].key = using[c]

online(st) == {c \in Cells : st[c] = "ONLINE"}
offline_cells == {c \in Cells : status[c] = "OFFLINE"}
AllCellsConnected(st) == online(st) = Cells

NoPackage == [config |-> None, key |-> None]
NoSamples == [c \in Cells |-> [id |-> None, package |-> NoPackage]]

Init ==
    /\ config = 1 /\ packaged = 1 /\ made = 1
    /\ cur = [c \in Cells |-> 1]
    /\ old = [c \in Cells |-> None]
    /\ rekeyed = FALSE
    /\ run = "off"
    /\ id = None /\ using = old /\ targets = {} /\ stage = 0
    /\ status = [c \in Cells |-> "DECLARED"]
    /\ seen = [c \in Cells |-> None]
    /\ pub = NoSamples
    /\ due = FALSE /\ batch = {}
    /\ up = [c \in Cells |-> "up"]
    /\ db = [c \in Cells |-> [config |-> 1, key |-> 1]]
    /\ files = [c \in Cells |-> 1]
    /\ held = [c \in Cells |-> NoPackage]
    /\ consumed = [c \in Cells |-> FALSE]
    /\ syncs = 0 /\ crashes = 0 /\ failures = 0
    /\ abandoned = FALSE /\ lost = {} /\ meddled = {}

-----------------------------------------------------------------------------
(* Another process: rekey_cell or rekey_uvn, and generate_artifacts.       *)

Rekey(S) ==
    /\ made < MaxConfig
    /\ made' = made + 1
    /\ cur' = [c \in Cells |-> IF c \in S THEN made' ELSE cur[c]]
    /\ old' = [c \in Cells |-> IF c \in S /\ old[c] = None THEN cur[c] ELSE old[c]]
    /\ rekeyed' = TRUE
    /\ config' = made'
    /\ packaged' = made'
    /\ meddled' = IF run = "push" THEN meddled \cup S ELSE meddled
    /\ UNCHANGED <<agent, cells, syncs, crashes, failures, abandoned, lost>>

-----------------------------------------------------------------------------
(* The agent of the registry.                                              *)

\* _write_agent_configs: the packages as they are on disk now, under the
\* configuration id that this agent has loaded.
Samples == [c \in Cells |-> [id |-> id, package |-> Package(c)]]

\* Mutation of StartSamples: the packages are published at once in both modes.
StartSamplesImmediate == [c \in Cells |-> [id |-> config, package |-> Package(c)]]

\* sync_mode: during a rekeying the packages are published when all cells are
\* connected, otherwise at once.
StartSamples ==
    IF rekeyed THEN NoSamples ELSE [c \in Cells |-> [id |-> config, package |-> Package(c)]]

\* Agent.open and running_contexts: with the old keys during a rekeying.
Opens ==
    /\ run' = IF rekeyed THEN "push" ELSE "final"
    /\ id' = config
    /\ targets' = {c \in Cells : old[c] # None}
    /\ using' = [c \in Cells |-> IF rekeyed /\ old[c] # None THEN old[c] ELSE cur[c]]
    /\ stage' = 0
    /\ status' = [c \in Cells |-> "DECLARED"]
    /\ seen' = [c \in Cells |-> None]
    /\ pub' = StartSamples
    /\ due' = FALSE
    /\ batch' = {}
    /\ consumed' = [c \in Cells |-> FALSE]
    /\ UNCHANGED <<registry, up, db, files, held>>

\* agent_sync; `assert len(self.registry.rekeyed_cells) > 0`
StartSync ==
    /\ run \in {"off", "done"}
    /\ syncs < MaxSyncs
    /\ rekeyed => \E c \in Cells : old[c] # None
    /\ syncs' = syncs + 1
    /\ Opens
    /\ UNCHANGED <<crashes, failures, abandoned, lost, meddled>>

\* agent_action, after AgentReload.
Reload ==
    /\ run = "reload"
    /\ rekeyed => \E c \in Cells : old[c] # None
    /\ Opens
    /\ UNCHANGED faults

\* on_event_all_cells_connected: the packages are published to all cells. Some
\* may just have gone, which the registry reads with the rest of the samples
\* that it took, before the poll, or later.
Publish ==
    LET gone == {c \in Cells : ~Connected(c)}
    IN  /\ pub' = Samples
        /\ due' = TRUE
        /\ batch' \in SUBSET gone
        /\ consumed' = [c \in Cells |-> FALSE]
        /\ lost' = lost \cup gone

\* on_data for the cell's CELL_ID sample, and the events it leads to.
SeeOnline(c) ==
    /\ Connected(c)
    /\ status[c] # "ONLINE" \/ seen[c] # db[c].config
    /\ status' = [status EXCEPT ![c] = "ONLINE"]
    /\ seen' = [seen EXCEPT ![c] = db[c].config]
    /\ IF run = "push" /\ AllCellsConnected(status') /\ ~AllCellsConnected(status)
       THEN Publish
       ELSE UNCHANGED <<pub, due, batch, consumed, lost>>
    /\ UNCHANGED <<registry, run, id, using, targets, stage, up, db, files, held,
                   syncs, crashes, failures, abandoned, meddled>>

\* on_instance_offline, on_remote_writers_status
SeeOffline(c) ==
    /\ Running
    /\ status[c] = "ONLINE"
    /\ ~Connected(c)
    /\ due => c \in batch
    /\ status' = [status EXCEPT ![c] = "OFFLINE"]
    /\ UNCHANGED <<registry, run, id, using, targets, stage, seen, pub, due, batch, cells, faults>>

\* The agent and its participant are closed, and what it published is gone.
Closes ==
    /\ id' = None
    /\ using' = [c \in Cells |-> None]
    /\ targets' = {}
    /\ stage' = 0
    /\ status' = [c \in Cells |-> "DECLARED"]
    /\ seen' = [c \in Cells |-> None]
    /\ pub' = NoSamples
    /\ due' = FALSE
    /\ batch' = {}

PollDone == due' = FALSE /\ batch' = {}

\* _until_rekeyed_config_pushed, stage 0
PollConnected ==
    /\ run = "push" /\ stage = 0
    /\ AllCellsConnected(status)
    /\ stage' = 1
    /\ PollDone
    /\ UNCHANGED <<registry, run, id, using, targets, status, seen, pub, cells, faults>>

\* Mutation of RekeyedCellsOffline: a part of the cells is enough.
SomeCellsOffline == offline_cells # {} /\ offline_cells \subseteq targets

\* Mutation of RekeyedCellsOffline: all cells have to go offline.
AllCellsOffline == offline_cells = Cells

RekeyedCellsOffline == offline_cells = targets

\* Mutation of SavedConfig: the configuration before the rekeying.
RekeyedConfig == id - 1

\* The config_id that is written back with the registry.
SavedConfig == id

\* _until_rekeyed_config_pushed, stage 1: drop_rekeyed deletes all dropped
\* rows there are, and saving the registry writes back the row that this
\* agent has loaded; both are committed together.
PollSwitch ==
    /\ run = "push" /\ stage = 1
    /\ RekeyedCellsOffline
    /\ old' = [c \in Cells |-> None]
    /\ rekeyed' = FALSE
    /\ config' = SavedConfig
    /\ run' = "reload"
    /\ Closes
    /\ UNCHANGED <<packaged, made, cur, cells, faults>>

\* _until_rekeyed_config_pushed has to wait.
PollWaits ==
    /\ run = "push" /\ due
    /\ IF stage = 0 THEN ~AllCellsConnected(status) ELSE ~RekeyedCellsOffline
    /\ PollDone
    /\ UNCHANGED <<registry, run, id, using, targets, stage, status, seen, pub, cells, faults>>

\* _until_consistent, with --consistent-config
PollConsistent ==
    /\ run = "final"
    /\ \A c \in Cells : status[c] = "ONLINE" /\ seen[c] = id
    /\ run' = "done"
    /\ Closes
    /\ UNCHANGED <<registry, cells, faults>>

\* The sync times out, is interrupted or crashes.
Abandon ==
    /\ run \in {"push", "reload", "final"}
    /\ run' = "off"
    /\ Closes
    /\ abandoned' = (abandoned \/ (run = "push" /\ pub # NoSamples))
    /\ UNCHANGED <<registry, cells, syncs, crashes, failures, lost, meddled>>

-----------------------------------------------------------------------------
(* The agent of a cell.                                                    *)

\* on_data for BACKBONE: a sample with another configuration than the one in
\* id.yaml, by its id and by its package.
Takes(c) ==
    /\ Connected(c)
    /\ pub[c].id # None
    /\ ~consumed[c]
    /\ pub[c].id # files[c]

\* _on_agent_config_received, and AgentReload out of _spin.
Receive(c) ==
    /\ Takes(c)
    /\ pub[c].package.config # files[c]
    /\ held' = [held EXCEPT ![c] = pub[c].package]
    /\ up' = [up EXCEPT ![c] = "reloading"]
    /\ consumed' = [consumed EXCEPT ![c] = TRUE]
    /\ UNCHANGED <<registry, agent, db, files, faults>>

\* The package cannot be extracted or opened: the error is logged.
ReceiveFails(c) ==
    /\ Takes(c)
    /\ failures < MaxFailures
    /\ failures' = failures + 1
    /\ consumed' = [consumed EXCEPT ![c] = TRUE]
    /\ UNCHANGED <<registry, agent, up, db, files, held, syncs, crashes, abandoned, lost, meddled>>

\* Agent.reload: Database.import_other ...
ImportOther(c) ==
    /\ up[c] = "reloading"
    /\ db' = [db EXCEPT ![c] = held[c]]
    /\ up' = [up EXCEPT ![c] = "imported"]
    /\ UNCHANGED <<registry, agent, files, held, consumed, faults>>

\* ... then extract_cell_agent_package and Agent.open; the new participant
\* has taken no sample yet.
ExtractAndOpen(c) ==
    /\ up[c] = "imported"
    /\ files' = [files EXCEPT ![c] = held[c].config]
    /\ held' = [held EXCEPT ![c] = NoPackage]
    /\ up' = [up EXCEPT ![c] = "up"]
    /\ consumed' = [consumed EXCEPT ![c] = FALSE]
    /\ UNCHANGED <<registry, agent, db, faults>>

\* The agent or its host crashes, or is cut off from the registry.
CellCrash(c) ==
    /\ up[c] # "down"
    /\ crashes < MaxCrashes
    /\ crashes' = crashes + 1
    /\ up' = [up EXCEPT ![c] = "down"]
    /\ held' = [held EXCEPT ![c] = NoPackage]
    /\ lost' = IF (run = "push" /\ pub # NoSamples) \/ up[c] = "reloading" THEN lost \cup {c}
               ELSE lost
    /\ UNCHANGED <<registry, agent, db, files, consumed, syncs, failures, abandoned, meddled>>

CellRestart(c) ==
    /\ up[c] = "down"
    /\ up' = [up EXCEPT ![c] = "up"]
    /\ consumed' = [consumed EXCEPT ![c] = FALSE]
    /\ UNCHANGED <<registry, agent, db, files, held, faults>>

-----------------------------------------------------------------------------
Next ==
    \/ \E c \in Cells : Rekey({c})
    \/ Rekey(Cells)
    \/ StartSync
    \/ Reload
    \/ \E c \in Cells : SeeOnline(c)
    \/ \E c \in Cells : SeeOffline(c)
    \/ PollConnected
    \/ PollSwitch
    \/ PollWaits
    \/ PollConsistent
    \/ Abandon
    \/ \E c \in Cells : Receive(c)
    \/ \E c \in Cells : ReceiveFails(c)
    \/ \E c \in Cells : ImportOther(c)
    \/ \E c \in Cells : ExtractAndOpen(c)
    \/ \E c \in Cells : CellCrash(c)
    \/ \E c \in Cells : CellRestart(c)

Spec == Init /\ [][Next]_vars

\* The agents keep running: the registry's one spins and polls at least once
\* a second, the middleware reports what it sees and delivers what is
\* published, a cell goes on with its reload, and systemd restarts its agent.
\* Nothing forces anyone to start a sync.
Fairness ==
    /\ WF_vars(Reload)
    /\ WF_vars(PollConnected)
    /\ WF_vars(PollSwitch)
    /\ WF_vars(PollWaits)
    /\ WF_vars(PollConsistent)
    /\ \A c \in Cells :
        /\ WF_vars(SeeOnline(c))
        /\ WF_vars(SeeOffline(c))
        /\ WF_vars(Receive(c))
        /\ WF_vars(ImportOther(c))
        /\ WF_vars(ExtractAndOpen(c))
        /\ WF_vars(CellRestart(c))

FairSpec == Spec /\ Fairness

-----------------------------------------------------------------------------
(* Properties.                                                             *)

\* Every variable has its type.
TypeOK ==
    /\ {config, packaged, made} \subseteq 1..MaxConfig
    /\ cur \in [Cells -> 1..MaxConfig]
    /\ old \in [Cells -> 0..MaxConfig]
    /\ rekeyed \in BOOLEAN
    /\ run \in {"off", "push", "reload", "final", "done"}
    /\ id \in 0..MaxConfig
    /\ using \in [Cells -> 0..MaxConfig]
    /\ targets \subseteq Cells
    /\ stage \in {0, 1}
    /\ due \in BOOLEAN
    /\ batch \subseteq Cells
    /\ status \in [Cells -> {"DECLARED", "ONLINE", "OFFLINE"}]
    /\ seen \in [Cells -> 0..MaxConfig]
    /\ up \in [Cells -> {"up", "reloading", "imported", "down"}]
    /\ db \in [Cells -> [config : 1..MaxConfig, key : 1..MaxConfig]]
    /\ files \in [Cells -> 1..MaxConfig]
    /\ abandoned \in BOOLEAN
    /\ lost \subseteq Cells
    /\ meddled \subseteq Cells

\* The key of a cell, once it is through with a reload.
KeyAtHand(c) == IF up[c] = "reloading" THEN held[c].key ELSE db[c].key

\* The cells that will not reach the registry once it has dropped the old keys.
DependsOnOld == {c \in Cells : KeyAtHand(c) # cur[c]}

KeySwitch == INSTANCE KeySwitch WITH
    depends <- DependsOnOld,
    given_up <- lost \cup meddled

\* spin_until_consistent implements the promise of KeySwitch: the old keys are
\* dropped only when every cell has its new keys, installed or at hand, unless
\* it was away or rekeyed again while they were pushed, or fails to install them.
Implements == KeySwitch!Spec

\* A sync in stage 0 waits for cells that do not have the keys it uses only if
\* an earlier sync was given up after it had published, if a cell got lost
\* after this one did, or if one was rekeyed while new keys were pushed: nothing
\* else makes the cells switch too early, after which no sync can ever reach
\* them all.
WedgedOnlyByFault ==
    run = "push" /\ stage = 0 /\ ~due /\ ~abandoned /\ lost \cup meddled = {} =>
        \A c \in Cells : KeyAtHand(c) = using[c]

\* The registry announces the configuration of its packages; only a command
\* that runs during the push is undone by the row that the sync saves.
AnnouncesPackages == meddled = {} => config = packaged

Troubled == abandoned \/ failures > 0 \/ lost # {} \/ meddled # {}

\* A sync ends: it switches the UVN to its new keys and sees all cells adopt
\* the configuration, however often cells crash before the new keys are pushed
\* or after the switch, also half way through a reload.
SyncEnds == run \in {"push", "reload", "final"} ~> run \in {"off", "done"} \/ Troubled

=============================================================================
