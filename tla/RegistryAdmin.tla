--------------------------- MODULE RegistryAdmin ---------------------------
(***************************************************************************)
(* The administration of a UVN: the commands of the CLI that change the    *)
(* registry's database (add, configure, ban, unban and delete cells,       *)
(* particles and users; redeploy, rekey), and the generation of artifacts  *)
(* that follows each (Registry.generate_artifacts): a new backbone if the  *)
(* cells have changed, the keys, and one package for every active cell and *)
(* particle.                                                               *)
(*                                                                         *)
(* A command is one process.  It commits its own change first and          *)
(* generates the artifacts in a second transaction, which is none: every   *)
(* new_child() without a cursor commits what is pending, so each step of   *)
(* the generation is committed when the next begins.  What is left to do   *)
(* (the changed properties) is only in the memory of the process.  It may  *)
(* be killed, or fail, between any two steps, and the next command starts  *)
(* from the database alone.                                                *)
(*                                                                         *)
(* A cell has one LAN here and is public, and a deployment is the set of   *)
(* cells that it links: what the strategies make of a set is the module    *)
(* Deployment's subject, and that they connect it is checked there.        *)
(***************************************************************************)
EXTENDS FiniteSets, Naturals

CONSTANTS
    Cells,          \* names of cells
    Lans,           \* networks that a cell may have; two of them never overlap
    Particles,      \* names of particles
    Users,          \* users other than the UVN's owner
    Owner           \* the user who owns the UVN

ASSUME OwnerAssumption == Owner \notin Users

VARIABLES
    cell,           \* rows of table cells
    particle,       \* rows of table particles
    user,           \* rows of table users, the owner's excepted
    deployment,     \* the cells of the registry's stored backbone
    allowed_ips,    \* LANs in the stored settings of the backbone VPN
    packages,       \* what each file of the directory cells/ was made from
    particle_files, \* files of the directory particles/
    cmd,            \* the running command: its step and its memory
    last,           \* how the last command ended, or that it runs
    faulted         \* history: a command ended after its change and before its packages

db == <<cell, particle, user, deployment, allowed_ips>>
files == <<packages, particle_files>>
vars == <<cell, particle, user, deployment, allowed_ips, packages, particle_files,
          cmd, last, faulted>>

Status == {"absent", "active", "banned"}
Row == [status: Status, owner: Users \cup {Owner}]
CellRow == [status: Status, owner: Users \cup {Owner}, lan: Lans \cup {"none"}]
NoCell == [status |-> "absent", owner |-> Owner, lan |-> "none"]
NoParticle == [status |-> "absent", owner |-> Owner]

(* Uvn.cells, Uvn.all_cells and Uvn.particles, and what a package holds of them. *)
exists(table) == {x \in DOMAIN table : table[x].status # "absent"}
active(table) == {x \in DOMAIN table : table[x].status = "active"}
Snapshot == [lans |-> [c \in active(cell) |-> cell[c].lan], deployment |-> deployment]
NoPackage == [lans |-> << >>, deployment |-> {}]

Steps == {"idle", "purge", "save", "assert_keys", "save_again", "clean", "package",
          "package_particles"}

(***************************************************************************)
(* The memory of a command: uvn, the UVN or a cell or particle of it has   *)
(* changed and will be validated; deployment_config, a new backbone is     *)
(* needed; new, properties that are not saved yet.                         *)
(***************************************************************************)
Idle == [step |-> "idle", uvn |-> FALSE, deployment_config |-> FALSE,
         lans |-> << >>, deployment |-> {}, allowed_ips |-> {}]

TypeOK ==
    /\ cell \in [Cells -> CellRow]
    /\ particle \in [Particles -> Row]
    /\ user \in [Users -> Status]
    /\ deployment \subseteq Cells
    /\ allowed_ips \subseteq Lans
    /\ DOMAIN packages = Cells
    /\ particle_files \subseteq Particles
    /\ cmd.step \in Steps
    /\ cmd.uvn \in BOOLEAN
    /\ cmd.deployment_config \in BOOLEAN
    /\ last \in {"running", "ok", "unchanged", "refused", "error"}
    /\ faulted \in BOOLEAN

----------------------------------------------------------------------------
(* Registry.create() with a specification that names no cells. *)
Init ==
    /\ cell = [c \in Cells |-> NoCell]
    /\ particle = [p \in Particles |-> NoParticle]
    /\ user = [u \in Users |-> "absent"]
    /\ deployment = {}
    /\ allowed_ips = {}
    /\ packages = [c \in Cells |-> NoPackage]
    /\ particle_files = {}
    /\ cmd = Idle
    /\ last = "ok"
    /\ faulted = FALSE

known_user(u) == u = Owner \/ (u \in Users /\ user[u] # "absent")

(***************************************************************************)
(* What follows the action of a command (registry_action): if the registry *)
(* is dirty the artifacts are generated.  `updated_property("cells")`      *)
(* marks the deployment's configuration, and so does nothing else but a    *)
(* changed setting of the deployment.                                      *)
(***************************************************************************)
Dirty(uvn, deployment_config) ==
    /\ cmd' = [step |-> "purge", uvn |-> uvn, deployment_config |-> deployment_config,
               lans |-> << >>, deployment |-> deployment, allowed_ips |-> allowed_ips]
    /\ last' = "running"
    /\ UNCHANGED faulted

(* The action raised, and its transaction was rolled back; or nothing was dirty. *)
Refused == last' = "refused" /\ UNCHANGED <<db, cmd, faulted>>
Unchanged == last' = "unchanged" /\ UNCHANGED <<db, cmd, faulted>>

Command == cmd.step = "idle" /\ UNCHANGED files

(* Uvn.validate_cell: a cell is compared with the other active ones only. *)
clashes(table, c) == {d \in active(table) \ {c} : table[d].lan = table[c].lan}
Clashing(table) == \E c \in exists(table) : clashes(table, c) # {}

----------------------------------------------------------------------------
(* The commands.                                                           *)

(* Registry.add_cell: the new cell is saved, validated, and committed. *)
AddCell(c, l, u) ==
    /\ Command
    /\ cell[c].status = "absent"
    /\ known_user(u)
    /\ LET table == [cell EXCEPT ![c] = [status |-> "active", owner |-> u, lan |-> l]] IN
       \/ /\ clashes(table, c) # {}
          /\ Refused
       \/ /\ clashes(table, c) = {}
          /\ cell' = table
          /\ Dirty(TRUE, TRUE)
          /\ UNCHANGED <<particle, user, deployment, allowed_ips>>

(* Registry.update_cell: the new LAN stays in memory until the cell is saved. *)
UpdateCell(c, l) ==
    /\ Command
    /\ c \in exists(cell)
    /\ \/ cell[c].lan = l /\ Unchanged
       \/ /\ cell[c].lan # l
          /\ cmd' = [step |-> "purge", uvn |-> TRUE, deployment_config |-> TRUE,
                     lans |-> [d \in {c} |-> l], deployment |-> deployment,
                     allowed_ips |-> allowed_ips]
          /\ last' = "running"
          /\ UNCHANGED <<db, faulted>>

DeleteCell(c) ==
    /\ Command
    /\ c \in exists(cell)
    /\ cell' = [cell EXCEPT ![c] = NoCell]
    /\ Dirty(TRUE, TRUE)
    /\ UNCHANGED <<particle, user, deployment, allowed_ips>>

AddParticle(p, u) ==
    /\ Command
    /\ particle[p].status = "absent"
    /\ known_user(u)
    /\ particle' = [particle EXCEPT ![p] = [status |-> "active", owner |-> u]]
    /\ Dirty(TRUE, FALSE)
    /\ UNCHANGED <<cell, user, deployment, allowed_ips>>

DeleteParticle(p) ==
    /\ Command
    /\ p \in exists(particle)
    /\ particle' = [particle EXCEPT ![p] = NoParticle]
    /\ Dirty(TRUE, FALSE)
    /\ UNCHANGED <<cell, user, deployment, allowed_ips>>

AddUser(u) ==
    /\ Command
    /\ user[u] = "absent"
    /\ user' = [user EXCEPT ![u] = "active"]
    /\ Dirty(FALSE, FALSE)
    /\ UNCHANGED <<cell, particle, deployment, allowed_ips>>

owned(table, u) == {x \in exists(table) : table[x].owner = u}

(***************************************************************************)
(* Registry.delete_user.  It means to hand the user's objects to the UVN's *)
(* owner, but OwnableDatabaseObject._set_ownership passes an argument that *)
(* Database.set_ownership does not have: the TypeError rolls the deletion  *)
(* back.                                                                   *)
(***************************************************************************)
DeleteUser(u) ==
    /\ Command
    /\ user[u] # "absent"
    /\ IF owned(cell, u) \cup owned(particle, u) # {}
       THEN Refused
       ELSE /\ user' = [user EXCEPT ![u] = "absent"]
            /\ Dirty(FALSE, FALSE)
            /\ UNCHANGED <<cell, particle, deployment, allowed_ips>>

(* set_ownership() fails likewise for every object, and the UVN's owner may be  *)
(* neither deleted nor banned.                                                  *)
ChangeOwner == Command /\ Refused

(***************************************************************************)
(* Registry.ban, for one target: a user takes along the cells and          *)
(* particles that it owns.  Only what changes is saved, and only changed   *)
(* cells ask for a new backbone.                                           *)
(***************************************************************************)
Ban(cs, ps, us, status) ==
    LET new_cells == {c \in cs \cap exists(cell) : cell[c].status # status}
        new_particles == {p \in ps \cap exists(particle) : particle[p].status # status}
        new_users == {u \in us : user[u] # status}
    IN /\ Command
       /\ IF new_cells = {} /\ new_particles = {} /\ new_users = {}
          THEN Unchanged
          ELSE /\ cell' = [c \in Cells |->
                    IF c \in new_cells THEN [cell[c] EXCEPT !.status = status] ELSE cell[c]]
               /\ particle' = [p \in Particles |->
                    IF p \in new_particles THEN [particle[p] EXCEPT !.status = status]
                                           ELSE particle[p]]
               /\ user' = [u \in Users |-> IF u \in new_users THEN status ELSE user[u]]
               /\ Dirty(new_cells # {} \/ new_particles # {}, new_cells # {})
               /\ UNCHANGED <<deployment, allowed_ips>>

BanCell(c, status) == c \in exists(cell) /\ Ban({c}, {}, {}, status)
BanParticle(p, status) == p \in exists(particle) /\ Ban({}, {p}, {}, status)
BanUser(u, status) ==
    user[u] # "absent" /\ Ban(owned(cell, u), owned(particle, u), {u}, status)

(***************************************************************************)
(* registry config uvn: the UVN validates itself when it is configured,    *)
(* and a changed setting of the deployment asks for a new backbone.        *)
(***************************************************************************)
ConfigUvn(deployment_config) ==
    /\ Command
    /\ IF Clashing(cell) THEN Refused
                         ELSE Dirty(TRUE, deployment_config) /\ UNCHANGED db

(* registry rekey, config user, notify, export cloud: only the registry is dirty. *)
Rekey == Command /\ Dirty(FALSE, FALSE) /\ UNCHANGED db

(* registry redeploy: the new backbone is in memory before the artifacts are generated. *)
Redeploy ==
    /\ Command
    /\ cmd' = [step |-> "purge", uvn |-> FALSE, deployment_config |-> FALSE,
               lans |-> << >>, deployment |-> active(cell), allowed_ips |-> allowed_ips]
    /\ last' = "running"
    /\ UNCHANGED <<db, faulted>>

----------------------------------------------------------------------------
(* Registry.generate_artifacts.                                            *)

Goto(step) == cmd' = [cmd EXCEPT !.step = step]

(* The command ends with an exception, or its process dies. *)
Fails ==
    /\ cmd' = Idle
    /\ last' = "error"
    /\ faulted' = TRUE
    /\ UNCHANGED <<db, files>>

(* Mutation of Purge: a backbone is made once and kept. *)
PurgeDeployed ==
    /\ cmd.step = "purge"
    /\ cmd' = [cmd EXCEPT !.step = "save",
                          !.deployment = IF deployment = {} /\ cmd.deployment_config
                                         THEN active(cell) ELSE @]
    /\ UNCHANGED <<db, files, last, faulted>>

(* Keys of deleted peers are deleted; needs_redeployment and redeploy(). *)
Purge ==
    /\ cmd.step = "purge"
    /\ cmd' = [cmd EXCEPT !.step = "save",
                          !.deployment = IF cmd.deployment_config THEN active(cell) ELSE @]
    /\ UNCHANGED <<db, files, last, faulted>>

(* The cells as the objects in memory have them. *)
in_memory == [c \in Cells |->
    IF c \in DOMAIN cmd.lans THEN [cell[c] EXCEPT !.lan = cmd.lans[c]] ELSE cell[c]]

(***************************************************************************)
(* The first _save(): if the UVN is dirty it validates every cell, banned  *)
(* ones too.  All is committed as soon as the registry is saved, because   *)
(* its key material is then loaded anew (saved = True).                    *)
(***************************************************************************)
Save ==
    /\ cmd.step = "save"
    /\ IF cmd.uvn /\ Clashing(in_memory)
       THEN Fails
       ELSE /\ cell' = in_memory
            /\ deployment' = cmd.deployment
            /\ cmd' = [cmd EXCEPT !.step = "assert_keys", !.uvn = FALSE, !.lans = << >>]
            /\ UNCHANGED <<particle, user, allowed_ips, files, last, faulted>>

(* P2pVpnConfig.peer_config looks up the endpoint of every peer of every active *)
(* cell; the backbone is connected, so one is missing if only some are active.  *)
dangling(cells, dep) ==
    /\ Cardinality(dep) > 1
    /\ dep \cap cells # {}
    /\ ~ dep \subseteq cells

(* Mutation of AssertKeys: peers that are not active are passed over. *)
AssertKeysOfActive ==
    /\ cmd.step = "assert_keys"
    /\ LET lans == allowed_ips \cup {cell[c].lan : c \in active(cell)} IN
       cmd' = [cmd EXCEPT !.step = "save_again", !.allowed_ips = lans,
                          !.uvn = lans # allowed_ips]
    /\ UNCHANGED <<db, files, last, faulted>>

(* assert_keys(): the LANs of the cells are added to the settings of the backbone *)
(* VPN, which are part of the UVN, and missing keys are made.                     *)
AssertKeys ==
    /\ cmd.step = "assert_keys"
    /\ IF dangling(active(cell), deployment)
       THEN Fails
       ELSE /\ LET lans == allowed_ips \cup {cell[c].lan : c \in active(cell)} IN
               cmd' = [cmd EXCEPT !.step = "save_again", !.allowed_ips = lans,
                                  !.uvn = lans # allowed_ips]
            /\ UNCHANGED <<db, files, last, faulted>>

SaveAgain ==
    /\ cmd.step = "save_again"
    /\ IF cmd.uvn /\ Clashing(cell)
       THEN Fails
       ELSE /\ allowed_ips' = cmd.allowed_ips
            /\ Goto("clean")
            /\ UNCHANGED <<cell, particle, user, deployment, files, last, faulted>>

(* Mutation of CleanCells: old packages are overwritten one by one. *)
KeepCells ==
    /\ cmd.step = "clean"
    /\ Goto("package")
    /\ UNCHANGED <<db, files, last, faulted>>

CleanCells ==
    /\ cmd.step = "clean"
    /\ packages' = [c \in Cells |-> NoPackage]
    /\ Goto("package")
    /\ UNCHANGED <<db, particle_files, last, faulted>>

(* Packager.generate_cell_agent_package exports the tables of the database. *)
PackageCell(c) ==
    /\ cmd.step = "package"
    /\ c \in active(cell)
    /\ packages[c] = NoPackage
    /\ packages' = [packages EXCEPT ![c] = Snapshot]
    /\ UNCHANGED <<db, particle_files, cmd, last, faulted>>

CleanParticles ==
    /\ cmd.step = "package"
    /\ \A c \in active(cell) : packages[c] # NoPackage
    /\ particle_files' = {}
    /\ Goto("package_particles")
    /\ UNCHANGED <<db, packages, last, faulted>>

PackageParticle(p) ==
    /\ cmd.step = "package_particles"
    /\ p \in active(particle) \ particle_files
    /\ particle_files' = particle_files \cup {p}
    /\ UNCHANGED <<db, packages, cmd, last, faulted>>

Generated ==
    /\ cmd.step = "package_particles"
    /\ active(particle) \subseteq particle_files
    /\ cmd' = Idle
    /\ last' = "ok"
    /\ UNCHANGED <<db, files, faulted>>

(* The process is killed, the disk is full, a tool fails. *)
Dies == cmd.step # "idle" /\ Fails

----------------------------------------------------------------------------
Next ==
    \/ \E c \in Cells, l \in Lans : UpdateCell(c, l) \/ \E u \in Users \cup {Owner} : AddCell(c, l, u)
    \/ \E c \in Cells : DeleteCell(c)
    \/ \E p \in Particles, u \in Users \cup {Owner} : AddParticle(p, u)
    \/ \E p \in Particles : DeleteParticle(p)
    \/ \E u \in Users : AddUser(u) \/ DeleteUser(u)
    \/ \E s \in {"active", "banned"} :
          \/ \E c \in Cells : BanCell(c, s)
          \/ \E p \in Particles : BanParticle(p, s)
          \/ \E u \in Users : BanUser(u, s)
    \/ \E d \in BOOLEAN : ConfigUvn(d)
    \/ ChangeOwner \/ Rekey \/ Redeploy
    \/ Purge \/ Save \/ AssertKeys \/ SaveAgain \/ CleanCells
    \/ \E c \in Cells : PackageCell(c)
    \/ CleanParticles
    \/ \E p \in Particles : PackageParticle(p)
    \/ Generated
    \/ Dies

Spec == Init /\ [][Next]_vars

----------------------------------------------------------------------------
(* Properties.                                                             *)

idle == cmd.step = "idle"

\* After a command that ended well, whatever happened before it, there is a package
\* for each active cell and particle and no other, made from what is stored.
OkIsPackaged ==
    idle /\ last = "ok" =>
        /\ \A c \in Cells : packages[c] = IF c \in active(cell) THEN Snapshot ELSE NoPackage
        /\ particle_files = active(particle)

\* As long as no command has failed after it committed its change: the backbone links
\* exactly the active cells, and no LAN is that of two cells of which one is active.
FaultFreeIsSound ==
    idle /\ ~faulted => deployment = active(cell) /\ ~Clashing(cell)

\* The packages in the directory were all made from one configuration, and none has
\* a link to a cell that it does not know: also when the deployment is stale because
\* an earlier command died before it stored a new one.
PackagesConsistent ==
    /\ \A c, d \in Cells :
        packages[c] # NoPackage /\ packages[d] # NoPackage => packages[c] = packages[d]
    /\ \A c \in Cells : ~dangling(DOMAIN packages[c].lans, packages[c].deployment)

\* Every cell and every particle is owned by a user that exists.
OwnersExist ==
    /\ \A c \in exists(cell) : known_user(cell[c].owner)
    /\ \A p \in exists(particle) : known_user(particle[p].owner)

=============================================================================
