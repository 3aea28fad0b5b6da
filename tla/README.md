# uno: TLA+ models, checks and proofs

uno builds and runs *Unified Virtual Networks* (UVNs): several private LANs, each
behind a host that runs a *cell*, are joined over WireGuard links.  A *registry*
administers the UVN, computes the links between cells (the *backbone*) and pushes new
configurations; an *agent* on each cell (and, while it pushes, on the registry) keeps
track of the others over DDS topics; *particles* are single mobile hosts behind a cell.

This directory holds TLA+ modules for the parts of that program whose correctness
depends on order, concurrency, failure or arithmetic, TLC configurations that check
them, and TLAPS proofs for every value of the constants.  `PROJECT.json` maps each
definition to the lines it models, and lists runs, mutants, hazards and theorems.

## 1. The system

| Part | State | Operations | Interacts with |
|---|---|---|---|
| Peers list (`agent/uvn_peers_list.py`, `uvn_peer.py`, `lan_status.py`) | status, configuration, attached and known networks, VPN state per peer; five summary flags | load and reset, `online`, `offline`, `update_peer`, `update_all`, `_process_updates` | fed by the agent's handlers; tells its listeners; kept in the database |
| Agent handlers (`agent/agent.py`, `middleware/`) | none of its own | one handler per DDS event, VPN statistics, tester result, local routes, received packages | peers list, files, own samples, tester |
| Threads (`agent/triggerable.py`, `uvn_peers_tester.py`, `routes_monitor.py`, `middleware/connext/`) | semaphore, flags, conditions, file of the last routes | `trigger`, `start`, `stop`, `run`, `spin` | the main loop waits for the conditions that the others set |
| Backbone deployment (`registry/deployment.py`, `core/paired_map.py`, `registry/deployment_strategy/`, links of `registry/vpn_config.py`) | links, addresses, next address | `deploy`, `assert_pair`, `peer_config` | called by the registry, keys from the key material |
| Root VPN key material (`registry/vpn_keymat.py`, `wg_key.py`, central part of `vpn_config.py`) | current and dropped key rows | `assert_keys`, `drop_keys`, `purge_gone_peers`, `clean_dropped_keys` | the registry chooses between an old and a new key per cell |
| Backbone key material (`vpn_keymat.py`, `core/paired_map.py`) | two key pairs and a preshared key per link, as rows and as maps in memory | load, delete, assert, export | made after every new deployment, written into packages |
| Identities (`registry/id_db.py`, `keys_backend_dds.py`, `certificate_authority.py`) | CA, keys, certificates and permissions as files | generate, export, extract, import | packages; the cells' agents |
| Registry administration (`registry/registry.py`, `uvn.py`, `cell.py`, `particle.py`, `user.py`) | cells, particles, users, configuration id, rekey in progress | add, update, ban, unban, delete, rekey, redeploy, `generate_artifacts` | database, key material, deployment, packages |
| Object store (`registry/database.py`, `versioned.py`, `database_object.py`) | rows, counter of ids, objects and saved flags in memory, cache | `save`, `load`, `delete`, transactions, import | everything persistent |
| Sync (`Agent.spin_until_consistent`, backbone and uvn-info topics) | stage, configuration pushed | start, stages 0 and 1, reload, timeout | peers list, key material, cell agents |
| Agent life cycle (`agent/agent.py`, `agent_service.py`, `agent_static_service.py`) | contexts entered, markers, PID files | start, stop, reload, `uno service up` and `down` | network setup, router, web server |
| Network setup (`agent/uvn_net.py`, `core/wg.py`) | iptables chains and rules, WireGuard interfaces, backup, marker | start and stop as scripts of commands | the kernel; a host that had rules before |
| Router, web pages, command line, cloud, helpers | files | rendering, parsing, calls of other programs | the agent and the registry |

What is hard in it:

* **Order of events.** DDS delivers samples, lost instances and matched writers in any
  order, and a crash leaves rows in the database that the next process resets.  The
  summary flags are recomputed only when a *tracked change* says they may differ.
* **Threads.** The tester and the routes monitor run beside the main loop; they share
  flags, partly under a lock, a bounded semaphore outside of it, and a condition that
  the main loop resets before it looks.
* **Processes.** A command and an agent have one SQLite file open; two agents may start
  at once; `uno service` changes what an agent is about to use.
* **Failure between two steps.** A rekey replaces the keys the control channel itself
  runs on; commands, syncs, scripts of `iptables` and the generation of files may stop
  anywhere, and what was left to do is in no file.
* **Boundaries.** Address ranges that run out, odd and even numbers of cells, private
  cells that outnumber public ones, a random search that gives up.

The properties that make each part correct are those of section 3; what is exposed to
which of these is the list of hazards in `PROJECT.json`.

## 2. Modules

| Module | Models | Used by |
|---|---|---|
| `PeersList` | peers list, the agent's handlers and listeners, the tester as the list sees it | `MCPeersList`, `PeersListProofs` |
| `Triggerable` | main thread and a service thread, one shared access per step | `RoutesMonitor`, `NetworkProofs` |
| `RoutesMonitor` | the three threads of an agent, extends `Triggerable` | `NetworkProofs`, its own run |
| `Deployment` | walk over a graph, allocation of link addresses, interface configuration | `Backbone`, `DeploymentProofs` |
| `DeploymentStrategies` | the graphs of *crossed*, *circular*, *full-mesh* as functions of the shuffled cells | `Backbone` |
| `Backbone` | a deployment of those graphs, and what is documented of the result | `MCDeployment`, `DeploymentProofs` |
| `RandomDeployment` | the search of *random*, cell by cell and edge by edge | `MCRandomDeployment`, `DeploymentProofs` |
| `RootKeymat` | key rows of the root VPN and the registry's commands on them | `MCRootKeymat`, `RootKeymatProofs` |
| `KeySwitch` | what a rekeying promises: the abstract specification | `RekeySync` |
| `RekeySync` | a sync between the registry's agent and the cells' agents, shown to implement `KeySwitch` | `RekeySyncProofs`, its own run |
| `RegistryAdmin` | all commands of the administration and the steps of `generate_artifacts` | `MCRegistryAdmin`, `RegistryProofs` |
| `ObjectStore` | objects, flags, cursors and transactions of the processes on one database | `MCObjectStore`, `RegistryProofs` |
| `BackboneKeys` | keys of the links, row by row, and the packages | `IdentityDatabase` |
| `IdentityDatabase` | identities, file by file, composed with `BackboneKeys` | `MCIdentityDatabase`, `IdentityDatabaseProofs` |
| `NetRules` | start and stop of the network, command by command | `MCNetRules`, `NetworkProofs` |
| `AgentServices` | agents of one host, static services, `uno service` | `MCAgentServices`, `AgentServicesProofs` |

**`PeersList`.** The peers are the registry, every cell (banned ones too) and every
particle, as `load_nested` creates them.  A handler is one action because
`participant.spin` runs one at a time; it assigns what `update_peer` assigns and then
conjoins `ProcessUpdates`, which is `_process_updates`: the tracked changes
(`StatusChanged`, `RoutedChanged`, `ConsistentChanged`, `ReachableChanged`), the five
flags, the events (`view` is what a listener that adds them up knows), and what the
agent's own listeners do with them (file of known networks, own sample, trigger).  The
two places where the code assigns around the setter, and so tracks nothing, are kept:
the reset of `registry_id`, and the `LanStatus` objects that are dropped.  `stale_db`
is what a killed process leaves behind.  A LAN stands for its descriptor; instance and
writer handles, always set and reset together, are one bit; a peer has one VPN
interface.  `Reload` and `Crash` may bring another configuration.

**`Triggerable`, `RoutesMonitor`.** `main` and `service` are program counters.  Time is
left out: a wait on the semaphore may time out whenever it is not available.
`requested` is a history variable: a call of `trigger()` that no handler has followed
yet.  `RoutesMonitor` adds the loop of the main thread (wait, reset the condition, list
the routes, compare with the file, notify) and the thread that reads `ip monitor`, whose
process may die.  Lines of output are one flag, because their content is not used.
`unseen` is a change that `ip monitor` has reported and no listing has followed.

**`Deployment`.** `n` and `i` are the two loops of `deploy`; an address is its offset in
the subnet.  The graph is an input, so the module is about every strategy; `SkipUnknown`,
`AllocateFails` and the result `key_error` are the code's ways around or out of a graph
it cannot deploy.

**`DeploymentStrategies`, `Backbone`, `RandomDeployment`.** The graphs of the deterministic
strategies are functions, with the shuffle as their input.  `Backbone` puts them into
`Deployment` and states what is documented of the backbones.  That cells are linked is
said of cuts (no set of cells that no link leaves, but all of them), which needs no
paths.  The random search picks one
cell of its walk, or stores one edge of it, per action; the walk is the random choice.

**`RootKeymat`.** An action is one command of the command line, which opens the registry
in a process of its own, changes it and calls `generate_artifacts`; `result` is how it
ended, and an exception leaves exactly what the command had committed.  `cur` and `old`
are the two rows that the table's unique index allows for a peer's key; `RegistryKey` is
what the registry's agent loads (the dropped row first, while `rekeyed`), and an agent is
`Reachable` when the keys it has installed are those.  A peer's keys are numbered in the
order in which they are made.  `rekey_uvn`, `rekey_cell` and `delete_cell` differ in the
peers they purge (all; all but the other active cells) and in the map of keys to delete
instead of drop; each has its own ways to fail (`StopIteration` from `rekeyed_cells`,
`IntegrityError` from the index).  `SyncStarts` is what a sync needs before it can push;
`DropRekeyed` is its end, and a package may be installed at any time, through a sync or
by hand, so nothing here relies on the order that a sync keeps.

**`KeySwitch`, `RekeySync`.** `KeySwitch` has three variables: whether old keys are in
use, the cells that depend on them, and the cells that were given up.  `RekeySync` has
the registry's directory, its agent with the stages of `spin_until_consistent`, and the
agents of the cells, which receive a package, import the database of it
(`ImportOther`), extract the rest and open it (`ExtractAndOpen`), and reload.  Cells
crash and restart between any two of these steps, connections are lost, an extraction
fails, a sync is abandoned, and another command rekeys a cell in the meantime.  Keys and
configurations are numbered by the command that made them.

**`RegistryAdmin`.** A command commits its change, and then `generate_artifacts` goes
through its steps, each of which is committed on its own: `new_child()` without a cursor
commits the transaction of its caller.  What is left to do is in the memory of the
process (`cmd`), so a process that dies loses it, and the next one starts from the rows.
A cell has one LAN and is public; a deployment is the set of cells it links.

**`ObjectStore`.** One connection per process, with what is pending on it; `inst` are
the objects in memory and their `saved` flags, the cached ones, which `load` returns
again, and the one that the process has made.  A save walks over nested objects:
`SaveBegin` collects those that changed (`collect_changes`), `SaveOne` stores one of them
and `SaveEnd` ends the call, and each may be the step at which the process dies or an
exception is raised.  A call either joins the transaction of its caller or commits
everything that is pending.  SQLite is external and modelled by what `database.py` relies
on: one writer, and readers that see what is committed.  Only one process imports
(`Importers`): an agent imports the database of its own directory, and `OneAgent` of
`AgentServices` is why there is one.

**`BackboneKeys`, `IdentityDatabase`.** The n-th key made for a place is the number n; a
certificate and the permissions are the number of the key they were made from.  A
command runs through the links, then through the peers, then writes the packages.  A cell
extracts its package into `.id-import` (`Extract`) and then copies the files one by one:
for the UVN the certificate and the files of the root, for itself the certificate, the
key and the permissions, for every other cell the certificate (`ImportCert`,
`ImportRootFile`, `ImportKey`, `ImportPermissions`).  `import` is the file that is copied
next; `ImportDies` leaves what was copied as it is, and a later install begins again with
`.id-import`, over which it extracts its own package.

**`NetRules`.** `_start` and `_stop` are loops over the keys of `_iptables_rules`: the two
rules of the whole host, then the LANs, then the VPN interfaces, which are numbered in
this order; `at` is the key a loop is at, `depth` how many rules of each key were
recorded, and `left`, on the way back, how many of the current key are still to be
deleted.  Every external command is one action, and may fail or be the last one.  An
interface has eight rules, of which those for Docker and for NAT are only installed where
the code does; a rule that the code repeats for several networks stands for all of them.
The kernel's tables are what the commands depend on: a chain is created once, deleted
only when empty and unreferenced; a rule that is deleted must exist.  A process may also
find the network running on the word of its marker and take it over.

**`AgentServices`.** A process enters contexts (`depth`) and leaves them in reverse; each
step is one access to a file or service that processes share.  The commands
`uno service up` and `down` run beside them.  Both look for a running agent with
`external_agent_process`, in three steps: the PID file is read (`ReadPid`, `CliReadPid`),
the process that it names is looked for (`TestPid`, `CliTestPid`), and if it is gone the
file is deleted, whatever is in it by then (`ClearStalePid`, `CliClearStalePid`).  A
process may be killed or interrupted between any two steps, also when it is stopping
already: a second SIGINT, from outside (`InterruptStop`) or from `uno service down`
(`DownAgent`), skips what is left of the context that is being left.  A command that
cannot start a service, or is interrupted, stops those that it is through with
(`RollBack`).  A service that cannot be stopped ends in an error, except the network,
which only logs it when it is told to assert that it is stopped (`logged` in `cli`).

Definitions whose comment begins with "Mutation" are variants of the one below them,
each with a plausible mistake; `PROJECT.json` pairs them with the property that notices.

## 3. Runs

All of them hold.

| Run | Question | Properties |
|---|---|---|
| `peers_registry` | are the flags that a sync waits for right, in every order of samples, losses, stops and crashes? | `RoutedDiscoveredAccurate`, `ConsistentConfigAccurate`, `FullyRoutedNotMissed` |
| `peers_cell` | do a cell's listeners, its own sample and its file of known networks follow the list, and is an attached network in the end tested? | `ListenersInSync`, `ReachableIsPublished`, `KnownNetworksFileAccurate`, `AttachedIsTested` |
| `threads` | is no wakeup and no change of the routes lost between three threads, and does the agent stop? | `WakeupNotLost`, `ChangeNotLost`, `TriggerServed`, `ChangeIsListed`, `AgentStops` |
| `links` | have the backbones of the strategies the documented shape, and are addresses, ports and refusals right for them and for graphs an administrator may write? | `AddressesUnique`, `LinkEndsAgree`, `RefusedOnlyWhenFull`, `BackboneAsDocumented` |
| `random_graph` | is a graph that the random search returns early connected and within its limits? | `ReturnedIsConnected` |
| `keys` | does a sync push the keys that the registry will use, whatever failed before it, and does any command cut off an agent before the sync? | `SyncPushesCurrent`, `CommandsKeepReachable` |
| `sync` | are old keys dropped only when no cell needs them, what makes a sync wait for ever, does it end? | `Implements`, `WedgedOnlyByFault`, `AnnouncesPackages`, `SyncEnds` |
| `registry` | what does a command that ends well leave behind, and what can the failed ones before it have spoilt? | `OkIsPackaged`, `FaultFreeIsSound`, `PackagesConsistent` |
| `store` | is an object that says it is saved what its row says, and are transactions and imports atomic? | `CleanIsStored`, `TransactionIsAtomic`, `ImportIsAtomic` |
| `identity` | do the packages of neighbours fit, is every failure explained by something half made, and are identities kept? | `PackagesFit`, `FailsOnlyIfBroken`, `AgentsIdentified` |
| `net` | is a started network complete, a stopped one gone, no VPN up on a host that forwards by default, and a fresh start accepted? | `StartedIsComplete`, `StopCleansUp`, `VpnProtected`, `FreshStartAccepted` |
| `services` | is there one agent, does it have its services, and are they left as they were found? | `OneAgent`, `RunningHasServices`, `StaticServicesRestored`, `DownIsDown` |

Several properties have a premise on history variables (`raced`, `overlap`, `torn`,
`faulted`, `broken`, `abandoned`, `lost`, `meddled`, `stale`, `skipped`, `identified`).  Each
names the one kind of event after which (for `identified`: before which) the promise fails
in this code, and so says that nothing else breaks it.  These events, and what else was met while modelling, are in the modules as
the code has them:

*Peers, threads, links*

* A particle that was once online stays ONLINE while the agent runs (`agent.py:790-796`:
  the assignment of OFFLINE needs the status to be OFFLINE already);
  `PeersList!UpdatePeerVpnStats`.
* The flag for a fully routed UVN stays set when a cell stops reporting a network
  (`uvn_peers_list.py:522`); `FullyRoutedNotMissed` is the direction that holds.
* A timeout between the flag and the release lets `trigger()` exceed the bound of the
  semaphore, which raises (`triggerable.py:47`).
* A route that changes after the first poll and before `ip monitor` listens is not
  reported until the next change (`routes_monitor.py:83`); when the process dies, its
  reader spins on the end of the output.
* The random search may give up and leave a private cell without a link
  (`random_deployment_strategy.py:116`), and may give a private cell 3 links, where the
  repository's README promises 2 (line 382).

*Keys and sync*

* Deleting a cell that was rekeyed makes every sync fail (`StopIteration`,
  `registry.py:934`); a second `rekey_uvn` before a sync fails (`IntegrityError`,
  `registry.py:966`); `rekey_uvn` with a banned cell ends in `MissingKeyMaterial` after the
  new keys were saved (`registry.py:904`, `vpn_config.py:265`).
* Deleting a cell drops the keys of banned cells without a rekeying being recorded
  (`registry.py:1038`).  The properties of `keys` are stated for states without such rows,
  `OldKeysOnlyWhileRekeyed`, and the theorem `StrayRowsExplained` says that nothing else
  makes them.
* A sync takes the rekeyed cells being OFFLINE for their having installed the new keys;
  a cell that is merely away is given up.  One that is rekeyed by another command during
  the push is too, and the row that the sync saves at its end, all properties of it,
  undoes that command's configuration.
* After a sync that was abandoned once it had published, cells have keys that the next
  sync does not use, and no sync can reach them all.
* A crash between the import of the database and the extraction of the package leaves a
  cell with the new database and the old `id.yaml`.

*Registry and database*

* A command that dies after its change leaves the need of a redeployment in no row: the
  deployment stays stale, and with a linked cell that is no longer active, later
  commands end in `KeyError` until one redeploys.
* Cells are not compared with banned ones when LANs are validated (`uvn.py:215`), the
  allowed addresses of the backbone never shrink, an update of a particle changes
  nothing, changing an owner always raises `TypeError` (`database_object.py:575`), and a
  banned user may be given new cells.
* `load` returns the cached instance whatever its row says, and a new object is never
  cached; a save that is rolled back leaves the saved flags set; a delete without a
  transaction holds the lock until the next one; a failed import copies its backup over
  the file, and with it undoes what others have committed.
* Half of the keys of a link makes every command end in `IndexError` until a
  redeployment, which replaces the keys of all links.  A death while the root CA is made
  makes every later command end in `FileExistsError` (`certificate_authority.py:52`), one
  between a certificate and its permissions makes every packaging fail.

*Host*

* `uno service down` on a host where nothing was started flushes the host's own rules:
  the test for the backup is inverted (`uvn_net.py:108`).  A stop sets the policy of
  FORWARD to ACCEPT, whatever it was before.  After a start that died, the next one is
  refused until `uno service down`, and every such attempt leaves one more copy of the
  rule for TCP.
* Two agents that look for the PID file before either writes it both run.  So do two of
  which the first wrote its PID between another process's test of a stale one and the
  deletion of the file (`agent.py:574-584`); the other may be an agent, `uno service up` or
  `uno service down`.  `raced` is that two processes, at least one of them an agent, were
  between a look at the file and its use at the same time, and `OneAgent` says that
  nothing else lets a second agent in.
* A lighttpd whose agent was killed blocks later starts, and the failing start removes its
  PID file.
* A failed or interrupted `up` stops services that were active before it, and may do so
  under an agent that uses them; a `down` that waited 30 s for the agent in vain goes on
  stopping services below it.  Both count as `torn`, like a death between the stop of a
  service and the deletion of its marker.
* `uno service down` interrupts an agent that is stopping once more, which leaves a context
  half undone: `overlap`, like any command that meets an agent which starts or stops.
* A network that does not stop is only logged (`uvn_net.py:98-139`): `uno service down`
  then reports no error with the network partly up, and `DownIsDown` excepts this case, for
  the network only.

*Identities*

* A first install that dies leaves a cell with a part of its identity, and nothing tells
  the agent (`keys_backend_dds.py:218-230`); `AgentsIdentified` promises a complete one from
  the first install that has ended on (`identified`), and at all times files that are those
  of the registry.

**Bounds and why they are enough.**

* Peers list: two cells that are not banned, with one network each, and a banned one, two
  configurations, samples with every combination of known networks (for a cell's agent,
  three of them). The flags are counts and unions over cells, so two cells have the cases
  all, some and none; a second configuration is enough to be inconsistent; the proofs
  cover the other numbers.
* Threads: one route, which is there or not; all that is compared is whether the set in
  the file differs from the one listed.
* Links: every shuffle and every choice of private cells up to 5 cells, then up to 8
  cells in order, which has every branch on parity and on the ratio of private to public
  cells; and graphs of three cells with five neighbour lists each (empty, one-sided,
  repeated, to itself, to a cell that is not deployed). The subnet of 32 addresses is
  filled exactly by a full mesh of six cells, and too small for the one of seven.
* Random search: 6 cells and 3 tries instead of 100000: with 6 cells every formula for the
  limits and every ratio of private to public cells occurs, and 3 walks are enough to fill
  cells up.  The proof covers the other numbers.
* Root keys: three cells and at most 3 keys for a peer. Two keys are the most a peer has
  at a time, so a third is that of a second rekeying; three cells are one that is rekeyed,
  one that is banned or deleted, and one that nothing happens to.
* Sync: two cells (one that follows and one that does not), three configurations (the
  first, a rekeying, and one more before, during or after its sync), two syncs, one crash
  and one failed extraction. The proofs cover the other numbers.
* Registry: two cells that may have the same LAN, one particle, one user besides the
  owner; no number bounds the sequence of commands. The proofs cover the other numbers.
* Store: a command and an agent, one field, ids up to 2, two changes of an object and
  three calls; two processes and three calls have a call inside of a transaction inside
  of which another process acts.
* Identities: two cells and one link, at most two keys of a kind: one that a command left
  behind and one that replaces it.  One of the cells installs its package (`Importers`):
  installs share nothing with each other, and that cell has every kind of file to copy (of
  itself, of the UVN, of another cell).  Installs may die any number of times.
* Network: one LAN, two VPN interfaces of which one masquerades, a host with Docker,
  three starts and one command that fails for no reason of the model: a start that fails,
  a repair and a third start, each cut short anywhere.  The proofs cover the other
  numbers.
* Services: two agents, two configurations, three openings of an agent, command or package
  (`MaxOpens`; two in behaviours with an overlap, `MaxOverlap`, of which only `OneAgent`
  still speaks) and two failures, crashes or interrupts out of turn (`MaxFaults`): one that
  leaves a stale file and one that hits what comes after it.  Behaviours end with the first
  race, since nothing is claimed after it.  The proofs cover the other numbers.

**Deadlock** is checked where the system never ends: for the peers list, whose agent can
always be started again, for the commands of `registry` and `identity`, and for `net`.  A
deployment, a search, a stopped agent and a finished sync end; `keys`, `services` and
`store` end only at their bounds `MaxKeys`, `MaxOpens` and `MaxCalls`, which are not the
program's: their configurations say so.

**Fairness.**

* `PeersList!Fairness`: the tester's loop always comes back to a test, at the latest when
  `max_trigger_delay` has passed, and the main loop waits on the tester's condition with
  all the others.  Nothing is assumed of peers or of the middleware.
* `Triggerable!Fairness`: a call that the main thread has begun goes on, and so does the
  service thread; no fairness is given to `Timeout`, `Trigger` or `Stop`, so neither a
  timeout nor another trigger is what saves a lost one.  `RoutesMonitor!AgentFairness`
  adds the reader's steps, the main loop, whose wait returns after a second at the
  latest, and the joins of a stop that has begun.  The kernel changes no route, and
  nobody stops the agent, by fairness.
* `RekeySync!Fairness`: the registry's agent polls at least once a second, the middleware
  reports liveliness and delivers reliably to a connected reader, a cell goes on with its
  reload, and systemd restarts its agent.  `SyncEnds` has the faults that may prevent it
  as an alternative (`Troubled`), and crashes of cells are not among them.

## 4. Proofs

TLC shows a property for the instance of its configuration; the theorems hold for every
number of cells, networks, addresses, graphs and commands within the named assumptions.

* `PeersListProofs` assumes `PeersAssumption` and `DataAssumption`: the identities are
  disjoint, the local peer is the registry or a cell that is not banned, there is a
  cell, sets of cells are finite.  Neither kind of property is inductive by itself:
  a flag that is only recomputed on a tracked change is right afterwards only if it was
  right before, and the changes made while events are suppressed have to be known.  The
  invariant adds `FreshWhenDeclared` (an agent that was not started has an empty list,
  empty events and no result) and `LocalUnhandled` (no event is about the local peer),
  and every flag is shown exact under the invariant, action by action.  That cardinality
  comparisons are equalities of sets rests on `FiniteSetTheorems`.
  What an agent writes on a tracked change only, the file of known networks and its own
  sample (`KnownNetworksFileAccurate`, `ReachableIsPublished`), is shown after `IInv`, and
  for the file needs `FreshWhenDeclared` once more: a cell with networks that goes online
  changes its own row, because it was empty, and so rewrites a file that an earlier run of
  the agent may have left.
* `NetworkProofs` has three parts.  `TypeOK` and `WakeupNotLost` of `Triggerable` together
  are inductive.  Every step of the composed agent of `RoutesMonitor` is a step of
  `Triggerable` or leaves its variables alone (`AgentImplementsTriggerable`), so that
  `WakeupNotLost` is taken over, and `ChangeNotLost` is proved together with the types of
  the other threads.
  The part about `NetRules` assumes `NetAssumption` only (numbers of interfaces, starts and
  faults are natural numbers).  What makes a repair possible is that a start or a stop that
  ends anywhere leaves of each interface a prefix of its rules, each at most once
  (`Prefix`): a start adds behind it because `-N` is refused when the chain is there, so
  that nothing is ahead of it (`Front`), and a stop deletes from the end (`StopRules`), so
  that the kernel refuses it only what is not there.  `MarkerIsTrue` is why a process may
  take over: the marker is written last, and `StopMemory` that a new process which stops
  records all rules before it deletes any.  `StopLinks` (no interface is left when the
  policy is reset) gives `VpnProtected`.
* `DeploymentProofs` assumes only that ids and the subnet's size are natural numbers and
  that no peer is listed twice.  The invariant `IInv` says which addresses a pair owns
  (the allocated values are disjoint pairs of one /31 network below `next_ip`), that
  every interface has the address its pair and its end determine, that the ports of a
  peer are below its position, and that addresses handed out count the pairs.
  The part about `RandomDeployment` assumes `RandomAssumption` (finitely many cells, one of
  them public).  A walk ends only where no public cell is left to visit, so the first one
  that is kept links all public cells; none of its edges is dropped, because no cell is
  full (`FirstWalk`).  Later edges only add to that, and once the lists, which are disjoint
  (`ListsAreExact`), count every cell, every private cell has an edge, whose other end is
  public.
  The part about `Backbone` is for any number of cells and any shuffle; `BackboneCorrect`
  assumes `GraphsAreGenerated`, that every graph to deploy is given by an administrator or
  made by a strategy of two lists without repetitions.  The strategies' graphs are
  characterized first, from whom they list (`Lists`) to whom a strategy links (`Link`):
  the sizes of the partition add up to the number of private cells (`PartitionStart`), so
  that each is served once (`ServedByOne`); the ring's left, right and across are mutual
  where they are used (`NearSymmetric`), and going left visits all of it (`NearIsRing`).
  The invariant `LinkInv` then says that a deployment makes the links its walk has passed
  and no others.  `LinkInvCorrect` and `SymmetricGraphsConfigure` hold for any graph, also
  one of an administrator, and the latter for those of the random search, whose edges go
  both ways (`WithinLimits`).
  Three of these facts are inductions on a number.  They are proved from
  `NatLessThanWellFounded` and `WFMin` of the library, without its induction theorems: if
  a claim failed, there would be a least number for which it does (`LeastNumber`).  What
  the recursive function of `partition_start` is equal to is stated in closed form, as
  quotients and the remainders among them.
* `RootKeymatProofs` assumes `KeymatAssumption` only (the root is not a cell).  Packages
  and rows are written at different moments of a command that may fail between them, so
  `SyncPushesCurrent` is not inductive; `PackagesOrMissing` is: packages are those of the
  current rows unless a banned cell has no key, and then a sync cannot start, because the
  registry either has no key for that cell or cannot find it among its active cells.
  `ActiveKeys` (the root and every active cell have a key) is what excludes the other
  cells.  `CommandsKeepReachable` is about two states, and rests on what a command may do
  to a row: it is kept, or dropped from a peer without a dropped one while a rekeying is
  recorded, or deleted from a peer that has one or is not active any more (`Purges`); the
  key that the registry's agent uses is then the same before and after
  (`PurgesKeepKeys`).
* `RekeySyncProofs` assumes `BoundsAssumption`.  `SyncImplements` is the refinement of
  `KeySwitch`.  That the switch drops no key that is needed (`SwitchIsSafe`) is not a
  matter of the state in which it happens alone: the invariant `SInv` keeps, through the
  push, that a cell that is not given up was published its current key and, until it has
  it at hand, is connected and seen ONLINE (`PushTracksCells`), that there is only a push
  while a rekeying is recorded, without which no key is dropped (`PushIsRekeyed`), that
  the configuration a push writes back is that of the packages (`PushKeepsConfig`), and
  that keys are ordered by their numbers.  `FaultFreeKeys` is
  what `WedgedOnlyByFault` needs.
* `RegistryProofs` has two parts.  The one about `RegistryAdmin` assumes `OwnerAssumption`.
  The invariant `RInv` adds to the properties what holds in the middle of a command: what
  its memory says of the rows (`Sound`, `PackagesMade`) and that owners exist
  (`OwnersExist`), so that deleting a user never leaves a cell behind.
  The one about `ObjectStore` is for any number of processes, ids, values and calls.
  `CleanIsStored` speaks of processes at rest; the invariant `StoreInv` says the same of
  every moment of every call (`HeldIsSeen`), with respect to the version that the process
  sees: what is pending on its connection, or what it had before an import began to delete
  rows (`Seen`).  What a process has pending outside of a call can only be deletions
  (`LooseDeletes`), which is what the second half of `TransactionIsAtomic` rests on, and as
  long as no other process commits, the backup of an import is the file (`BackupIsFile`),
  which gives `ImportIsAtomic`.
* `AgentServicesProofs` assumes `NamesAssumption` (the names of markers and states are
  different).  None of the four properties is inductive.  `Inv` says which process the PID
  file belongs to (`OwnsPid`: a process that has looked and not written yet is alone, and a
  command that is about to delete a stale file is alone with it, unless two raced), that a
  command does not run beside an agent that starts (`CliAlone`, unless
  they overlapped), what an entered context stands for (`EnteredIsUp`, `WebIsUp`), when a
  marker may be believed (`MarkerIsTrue`: always but between the stop of a service and the
  deletion of its file), what the contexts that were left have put back (`Restored`), and
  what `uno service down` has done so far (`DownDone`).
* `IdentityDatabaseProofs` assumes `BackboneAssumption` and `IdentityAssumption`.  The
  invariant has a part for each module: the maps in memory are those of the rows, the
  packages those of the maps, a redeployment has whole pairs (`BackboneKeys`); files fit
  the stage of the command, an identity that is half made is explained by `broken`, copies
  in packages are complete, and copies in a cell are those of its package up to the file
  that is copied next, or complete if an install has ended (`IdentityDatabase`).

Only model-checked: liveness (`AttachedIsTested`, `TriggerServed`, `ChangeIsListed`,
`AgentStops`, `SyncEnds`), which the prover cannot express under fairness.  Every other
property of section 3 is a theorem.

## 5. What is not modelled

* Formatting and rendering: router configuration, web pages and graphs, installation
  guides, archives, unit files, logging.
* Parsing of arguments and configuration files.
* Cryptography: keys, certificates and signatures are values; encryption of what is sent
  to a cloud, and the upload, are calls of other programs.
* DDS, SQLite, the kernel's tables and systemd are modelled by what the code relies on,
  not by their protocols.
* The VPN keys of particles: a central VPN for each cell, with the operations that
  `RootKeymat` has for the root VPN.
* `core/monitor_thread.py`, which has no user, and the integration tests.

## 6. Plan

Done: all modules of section 2 and the proofs of section 4.  Left: the keys of particle
VPNs, beside `RootKeymat`.
