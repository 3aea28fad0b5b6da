--------------------------- MODULE RegistryProofs ---------------------------
(***************************************************************************)
(* The registry of a UVN: its administration and its database.             *)
(*                                                                         *)
(* The first part is about RegistryAdmin, with any number of cells,        *)
(* particles and users, and any sequence of commands, each of which may    *)
(* die between any two of its steps: every object has its owner, a         *)
(* registry whose commands have not died has the backbone of its active    *)
(* cells, and the packages in the directory are always those of one        *)
(* configuration.                                                          *)
(*                                                                         *)
(* The second part is about ObjectStore, with any number of processes that *)
(* have the database open, of which at most one imports another database:  *)
(* objects that say they are saved are, transactions are atomic as long as *)
(* their calls join them, and so is the import.                            *)
(***************************************************************************)
EXTENDS RegistryAdmin, ObjectStore, FiniteSetTheorems, TLAPS


-----------------------------------------------------------------------------
(* The administration of a registry.                                       *)

\* What a command has in memory between its steps.
Memory ==
    [step : Steps, uvn : BOOLEAN, deployment_config : BOOLEAN,
     lans : UNION {[S -> Lans] : S \in SUBSET Cells},
     deployment : SUBSET Cells, allowed_ips : SUBSET Lans]

\* The rows have their types, and every cell there is has a LAN.
RowsTyped ==
    /\ cell \in [Cells -> CellRow]
    /\ particle \in [Particles -> Row]
    /\ user \in [Users -> Status]
    /\ \A c \in exists(cell) : cell[c].lan \in Lans

\* The type of what is in the memory of a command and in the files.
RestTyped ==
    /\ deployment \subseteq Cells
    /\ allowed_ips \subseteq Lans
    /\ DOMAIN packages = Cells
    /\ particle_files \subseteq Particles
    /\ cmd \in Memory
    /\ DOMAIN cmd.lans \subseteq exists(cell)
    /\ last \in {"running", "ok", "unchanged", "refused", "error"}
    /\ faulted \in BOOLEAN

\* What a command still has to make up for, as long as none has died.
Sound ==
    ~faulted =>
        /\ cmd.step \notin {"purge", "save"} => deployment = active(cell) /\ ~Clashing(cell)
        /\ cmd.step = "purge" => cmd.deployment_config \/ cmd.deployment = active(cell)
        /\ cmd.step = "save" => cmd.deployment = active(cell)
        /\ cmd.step \in {"purge", "save"} => cmd.uvn \/ ~Clashing(in_memory)

\* From the check of the links to the last package the database is not changed.
PackagesMade ==
    /\ cmd.step \in {"save_again", "clean", "package", "package_particles"} =>
        ~dangling(active(cell), deployment)
    /\ cmd.step = "package" =>
        \A c \in Cells : packages[c] = NoPackage \/ (c \in active(cell) /\ packages[c] = Snapshot)
    /\ cmd.step = "package_particles" \/ (cmd.step = "idle" /\ last = "ok") =>
        \A c \in Cells : packages[c] = IF c \in active(cell) THEN Snapshot ELSE NoPackage
    /\ cmd.step = "package_particles" => particle_files \subseteq active(particle)
    /\ cmd.step = "idle" /\ last = "ok" => particle_files = active(particle)

\* The inductive invariant of the administration.
RInv == RowsTyped /\ RestTyped /\ OwnersExist /\ Sound /\ PackagesMade /\ PackagesConsistent

----------------------------------------------------------------------------
LEMMA NoLans == << >> \in UNION {[S -> Lans] : S \in SUBSET Cells} /\ DOMAIN << >> = {}
  <1>1. << >> \in [{} -> Lans]
    OBVIOUS
  <1> QED
    BY <1>1

LEMMA NothingDangles == ~dangling(DOMAIN NoPackage.lans, NoPackage.deployment)
  <1>1. Cardinality({}) = 0
    BY FS_EmptySet
  <1> QED
    BY <1>1 DEF dangling, NoPackage

LEMMA RInit == Init => RInv
  <1> SUFFICES ASSUME Init PROVE RInv
    OBVIOUS
  <1>1. exists(cell) = {} /\ active(cell) = {} /\ exists(particle) = {} /\ active(particle) = {}
    BY DEF Init, exists, active, NoCell, NoParticle
  <1>2. RowsTyped
    BY <1>1 DEF Init, RowsTyped, CellRow, Row, Status, NoCell, NoParticle
  <1>3. RestTyped
    BY <1>1, NoLans DEF Init, RestTyped, Idle, Memory, Steps
  <1>4. OwnersExist
    BY <1>1 DEF OwnersExist
  <1>5. Sound
    BY <1>1 DEF Init, Sound, Idle, Clashing
  <1>6. PackagesMade
    BY <1>1 DEF Init, PackagesMade, Idle
  <1>7. PackagesConsistent
    BY NothingDangles DEF Init, PackagesConsistent
  <1> QED
    BY <1>2, <1>3, <1>4, <1>5, <1>6, <1>7 DEF RInv

----------------------------------------------------------------------------
(* The commands.                                                           *)

\* Packages that are not touched stay as they are.
LEMMA KeptPackages == PackagesConsistent /\ packages' = packages => PackagesConsistent'
  BY DEF PackagesConsistent, dangling

\* Nothing is changed: the command is refused, or has nothing to do.
LEMMA RefusedStep == ASSUME RInv, Command, Refused \/ Unchanged PROVE RInv'
  <1> USE DEF RInv, Command, Refused, Unchanged, db, files
  <1>1. RowsTyped' /\ RestTyped' /\ OwnersExist'
    BY DEF RowsTyped, RestTyped, OwnersExist, known_user, exists
  <1>2. Sound' /\ PackagesMade'
    BY DEF Sound, PackagesMade, Clashing, clashes, active, exists, in_memory, Snapshot
  <1>3. PackagesConsistent'
    BY KeptPackages
  <1> QED
    BY <1>1, <1>2, <1>3

\* The change is committed, and the artifacts will be generated: with a new
\* backbone if the active cells have changed, and with validation if any has.
LEMMA DirtyStep ==
    ASSUME RInv, Command, NEW uvn \in BOOLEAN, NEW dc \in BOOLEAN, Dirty(uvn, dc),
           RowsTyped', OwnersExist', deployment' = deployment, allowed_ips' = allowed_ips,
           ~dc => active(cell)' = active(cell), ~uvn => cell' = cell
    PROVE  RInv'
  <1> USE DEF RInv
  <1>1. /\ cmd.step = "idle" /\ packages' = packages /\ particle_files' = particle_files
        /\ cmd' = [step |-> "purge", uvn |-> uvn, deployment_config |-> dc,
                   lans |-> << >>, deployment |-> deployment, allowed_ips |-> allowed_ips]
        /\ last' = "running" /\ faulted' = faulted
    BY DEF Command, Dirty, files
  <1>2. RestTyped'
    BY <1>1, NoLans DEF RestTyped, Memory, Steps
  <1>3. in_memory' = [c \in Cells |-> cell'[c]]
    BY <1>1, NoLans DEF in_memory
  <1>4. in_memory' = cell'
    BY <1>3 DEF RowsTyped
  <1>5. Sound'
    <2> SUFFICES ASSUME ~faulted PROVE /\ dc \/ deployment = active(cell)'
                                       /\ uvn \/ ~Clashing(in_memory')
      BY <1>1 DEF Sound, Clashing, clashes, active, exists
    <2>1. deployment = active(cell) /\ ~Clashing(cell)
      BY <1>1 DEF Sound
    <2>2. ~uvn => ~Clashing(in_memory')
      BY <1>4, <2>1
    <2> QED
      BY <2>1, <2>2
  <1>6. PackagesMade'
    BY <1>1 DEF PackagesMade
  <1>7. PackagesConsistent'
    BY <1>1, KeptPackages
  <1> QED
    BY <1>2, <1>5, <1>6, <1>7
LEMMA AddCellStep ==
    ASSUME RInv, NEW c \in Cells, NEW l \in Lans, NEW u \in Users \cup {Owner}, AddCell(c, l, u)
    PROVE  RInv'
  <1> DEFINE row == [status |-> "active", owner |-> u, lan |-> l]
  <1> DEFINE table == [cell EXCEPT ![c] = row]
  <1>1. CASE clashes(table, c) # {}
    BY <1>1, RefusedStep DEF AddCell
  <1>2. CASE clashes(table, c) = {}
    <2>1. /\ Command /\ known_user(u) /\ cell' = table /\ Dirty(TRUE, TRUE)
          /\ UNCHANGED <<particle, user, deployment, allowed_ips>>
      BY <1>2 DEF AddCell
    <2>2. row \in CellRow
      BY DEF CellRow, Status
    <2>3. /\ cell'[c] = row /\ \A d \in Cells \ {c} : cell'[d] = cell[d]
          /\ DOMAIN cell' = Cells /\ DOMAIN cell = Cells
      BY <2>1 DEF RInv, RowsTyped
    <2>4. RowsTyped'
      BY <2>1, <2>2, <2>3 DEF RInv, RowsTyped, exists
    <2>5. OwnersExist'
      BY <2>1, <2>3 DEF RInv, OwnersExist, exists, known_user
    <2> QED
      BY <2>1, <2>4, <2>5, DirtyStep
  <1> QED
    BY <1>1, <1>2

\* The new LAN is in memory: validated before it is stored.
LEMMA UpdateCellStep ==
    ASSUME RInv, NEW c \in Cells, NEW l \in Lans, UpdateCell(c, l)
    PROVE  RInv'
  <1>1. CASE cell[c].lan = l
    BY <1>1, RefusedStep DEF UpdateCell
  <1>2. CASE cell[c].lan # l
    <2> USE DEF RInv
    <2>1. /\ cmd.step = "idle" /\ UNCHANGED <<db, files, faulted>> /\ c \in exists(cell)
          /\ cmd' = [step |-> "purge", uvn |-> TRUE, deployment_config |-> TRUE,
                     lans |-> [d \in {c} |-> l], deployment |-> deployment,
                     allowed_ips |-> allowed_ips]
          /\ last' = "running"
      BY <1>2 DEF UpdateCell, Command
    <2>2. [d \in {c} |-> l] \in UNION {[S -> Lans] : S \in SUBSET Cells}
      <3>1. [d \in {c} |-> l] \in [{c} -> Lans] /\ {c} \in SUBSET Cells
        OBVIOUS
      <3> QED
        BY <3>1
    <2>3. RowsTyped' /\ OwnersExist'
      BY <2>1 DEF RowsTyped, OwnersExist, exists, known_user, db
    <2>4. RestTyped'
      BY <2>1, <2>2 DEF RestTyped, Memory, Steps, db, files, exists
    <2>5. Sound' /\ PackagesMade'
      BY <2>1 DEF Sound, PackagesMade
    <2>6. PackagesConsistent'
      BY <2>1, KeptPackages DEF files
    <2> QED
      BY <2>3, <2>4, <2>5, <2>6
  <1> QED
    BY <1>1, <1>2

LEMMA DeleteCellStep ==
    ASSUME RInv, NEW c \in Cells, DeleteCell(c)
    PROVE  RInv'
  <1>1. /\ Command /\ cell' = [cell EXCEPT ![c] = NoCell] /\ Dirty(TRUE, TRUE)
        /\ UNCHANGED <<particle, user, deployment, allowed_ips>>
    BY DEF DeleteCell
  <1>2. NoCell \in CellRow /\ NoCell.status = "absent"
    BY DEF NoCell, CellRow, Status
  <1>3. /\ cell'[c] = NoCell /\ \A d \in Cells \ {c} : cell'[d] = cell[d]
        /\ DOMAIN cell' = Cells /\ DOMAIN cell = Cells
    BY <1>1 DEF RInv, RowsTyped
  <1>4. RowsTyped'
    BY <1>1, <1>2, <1>3 DEF RInv, RowsTyped, exists
  <1>5. OwnersExist'
    BY <1>1, <1>2, <1>3 DEF RInv, OwnersExist, exists, known_user
  <1> QED
    BY <1>1, <1>4, <1>5, DirtyStep

LEMMA ParticleStep ==
    ASSUME RInv, NEW p \in Particles, NEW u \in Users \cup {Owner},
           AddParticle(p, u) \/ DeleteParticle(p)
    PROVE  RInv'
  <1>1. PICK row \in {[status |-> "active", owner |-> u], NoParticle} :
            /\ particle' = [particle EXCEPT ![p] = row]
            /\ row = NoParticle \/ known_user(u)
    BY DEF AddParticle, DeleteParticle
  <1>2. Command /\ Dirty(TRUE, FALSE) /\ UNCHANGED <<cell, user, deployment, allowed_ips>>
    BY DEF AddParticle, DeleteParticle
  <1>3. row \in Row /\ (row.status # "absent" => row.owner = u /\ known_user(u))
    BY <1>1 DEF NoParticle, Row, Status
  <1>4. /\ particle'[p] = row /\ \A d \in Particles \ {p} : particle'[d] = particle[d]
        /\ DOMAIN particle' = Particles /\ DOMAIN particle = Particles
    BY <1>1 DEF RInv, RowsTyped
  <1>5. RowsTyped'
    BY <1>1, <1>2, <1>3 DEF RInv, RowsTyped, exists
  <1>6. OwnersExist'
    BY <1>2, <1>3, <1>4 DEF RInv, OwnersExist, exists, known_user
  <1> QED
    BY <1>2, <1>5, <1>6, DirtyStep DEF active

\* A user who owns something is not deleted.
LEMMA UserStep ==
    ASSUME RInv, NEW u \in Users, AddUser(u) \/ DeleteUser(u)
    PROVE  RInv'
  <1>1. CASE Refused
    BY <1>1, RefusedStep DEF AddUser, DeleteUser
  <1>2. CASE ~Refused
    <2>1. /\ Command /\ Dirty(FALSE, FALSE) /\ UNCHANGED <<cell, particle, deployment, allowed_ips>>
          /\ \/ user' = [user EXCEPT ![u] = "active"]
             \/ /\ user' = [user EXCEPT ![u] = "absent"]
                /\ owned(cell, u) \cup owned(particle, u) = {}
      BY <1>2 DEF AddUser, DeleteUser
    <2>2. RowsTyped'
      BY <2>1 DEF RInv, RowsTyped, Status, exists
    <2>3. OwnersExist'
      BY <2>1 DEF RInv, RowsTyped, OwnersExist, known_user, owned, exists
    <2> QED
      BY <2>1, <2>2, <2>3, DirtyStep DEF active
  <1> QED
    BY <1>1, <1>2

\* Only the status of what exists is changed, and never to that of a deleted row.
LEMMA BanStep ==
    ASSUME RInv, NEW cs, NEW ps, NEW us, \A u \in us \cap Users : user[u] # "absent",
           NEW status \in {"active", "banned"}, Ban(cs, ps, us, status)
    PROVE  RInv'
  <1> DEFINE new_cells == {c \in cs \cap exists(cell) : cell[c].status # status}
  <1> DEFINE new_particles == {p \in ps \cap exists(particle) : particle[p].status # status}
  <1> DEFINE new_users == {u \in us : user[u] # status}
  <1>1. CASE new_cells = {} /\ new_particles = {} /\ new_users = {}
    BY <1>1, RefusedStep DEF Ban
  <1>2. CASE ~(new_cells = {} /\ new_particles = {} /\ new_users = {})
    <2>1. /\ Command
          /\ cell' = [c \in Cells |->
                IF c \in new_cells THEN [cell[c] EXCEPT !.status = status] ELSE cell[c]]
          /\ particle' = [p \in Particles |->
                IF p \in new_particles THEN [particle[p] EXCEPT !.status = status] ELSE particle[p]]
          /\ user' = [u \in Users |-> IF u \in new_users THEN status ELSE user[u]]
          /\ Dirty(new_cells # {} \/ new_particles # {}, new_cells # {})
          /\ UNCHANGED <<deployment, allowed_ips>>
      BY <1>2 DEF Ban
    <2>2. new_cells \subseteq exists(cell) /\ new_particles \subseteq exists(particle)
      OBVIOUS
    <2>3. \A u \in Users : u \in new_users => user[u] # "absent"
      OBVIOUS
    <2> HIDE DEF new_cells, new_particles, new_users
    <2>4. \A c \in Cells : /\ cell'[c] \in CellRow /\ cell'[c].owner = cell[c].owner
                           /\ cell'[c].lan = cell[c].lan
                           /\ cell'[c].status # "absent" => cell[c].status # "absent"
      BY <2>1, <2>2 DEF RInv, RowsTyped, CellRow, Status, exists
    <2>5. \A p \in Particles : /\ particle'[p] \in Row /\ particle'[p].owner = particle[p].owner
                               /\ particle'[p].status # "absent" => particle[p].status # "absent"
      BY <2>1, <2>2 DEF RInv, RowsTyped, Row, Status, exists
    <2>6. \A u \in Users : user'[u] \in Status /\ (user[u] # "absent" => user'[u] # "absent")
      BY <2>1, <2>3 DEF RInv, RowsTyped, Status
    <2>7. RowsTyped'
      BY <2>1, <2>4, <2>5, <2>6 DEF RInv, RowsTyped, exists
    <2>8. OwnersExist'
      BY <2>1, <2>4, <2>5, <2>6 DEF RInv, RowsTyped, OwnersExist, exists, known_user
    <2>9. new_cells = {} => cell' = cell
      BY <2>1 DEF RInv, RowsTyped
    <2> DEFINE uvn == new_cells # {} \/ new_particles # {}
    <2> DEFINE dc == new_cells # {}
    <2>10. uvn \in BOOLEAN /\ dc \in BOOLEAN /\ Dirty(uvn, dc) /\ (~uvn => ~dc)
      BY <2>1
    <2>11. ~dc => active(cell)' = active(cell)
      BY <2>9 DEF active
    <2>12. ~uvn => cell' = cell
      BY <2>9
    <2> HIDE DEF uvn, dc
    <2> QED
      BY <2>1, <2>7, <2>8, <2>10, <2>11, <2>12, DirtyStep
  <1> QED
    BY <1>1, <1>2

LEMMA BansStep ==
    ASSUME RInv, NEW s \in {"active", "banned"},
           \/ \E c \in Cells : BanCell(c, s)
           \/ \E p \in Particles : BanParticle(p, s)
           \/ \E u \in Users : BanUser(u, s)
    PROVE  RInv'
  <1>1. CASE \E c \in Cells : BanCell(c, s)
    BY <1>1, BanStep DEF BanCell
  <1>2. CASE \E p \in Particles : BanParticle(p, s)
    BY <1>2, BanStep DEF BanParticle
  <1>3. CASE \E u \in Users : BanUser(u, s)
    <2>1. PICK u \in Users : BanUser(u, s)
      BY <1>3
    <2>2. \A v \in {u} \cap Users : user[v] # "absent"
      BY <2>1 DEF BanUser
    <2> QED
      BY <2>1, <2>2, BanStep DEF BanUser
  <1> QED
    BY <1>1, <1>2, <1>3

\* Commands that change no row.
LEMMA KeptRows == RInv /\ UNCHANGED db => RowsTyped' /\ OwnersExist'
  BY DEF RInv, RowsTyped, OwnersExist, known_user, exists, db

LEMMA OtherCommandStep ==
    ASSUME RInv, (\E d \in BOOLEAN : ConfigUvn(d)) \/ ChangeOwner \/ Rekey \/ Redeploy
    PROVE  RInv'
  <1>1. CASE \E d \in BOOLEAN : ConfigUvn(d)
    <2>1. PICK d \in BOOLEAN : ConfigUvn(d)
      BY <1>1
    <2>2. CASE Clashing(cell)
      BY <2>1, <2>2, RefusedStep DEF ConfigUvn
    <2>3. CASE ~Clashing(cell)
      <3>1. Command /\ Dirty(TRUE, d) /\ UNCHANGED db
        BY <2>1, <2>3 DEF ConfigUvn
      <3>2. RowsTyped' /\ OwnersExist'
        BY <3>1, KeptRows
      <3>3. UNCHANGED <<cell, deployment, allowed_ips>>
        BY <3>1 DEF db
      <3>4. active(cell)' = active(cell)
        BY <3>3 DEF active
      <3> QED
        BY <3>1, <3>2, <3>3, <3>4, DirtyStep
    <2> QED
      BY <2>2, <2>3
  <1>2. CASE ChangeOwner
    BY <1>2, RefusedStep DEF ChangeOwner
  <1>3. CASE Rekey
    <2>1. Command /\ Dirty(FALSE, FALSE) /\ UNCHANGED db
      BY <1>3 DEF Rekey
    <2>2. RowsTyped' /\ OwnersExist'
      BY <2>1, KeptRows
    <2>3. UNCHANGED <<cell, deployment, allowed_ips>>
      BY <2>1 DEF db
    <2>4. active(cell)' = active(cell)
      BY <2>3 DEF active
    <2> QED
      BY <2>1, <2>2, <2>3, <2>4, DirtyStep
  <1>4. CASE Redeploy
    <2> USE DEF RInv
    <2>1. /\ cmd.step = "idle" /\ UNCHANGED <<db, files, faulted>> /\ last' = "running"
          /\ cmd' = [step |-> "purge", uvn |-> FALSE, deployment_config |-> FALSE,
                     lans |-> << >>, deployment |-> active(cell), allowed_ips |-> allowed_ips]
      BY <1>4 DEF Redeploy, Command
    <2>2. RowsTyped' /\ OwnersExist'
      BY <2>1, KeptRows
    <2>3. active(cell) \subseteq Cells
      BY DEF RowsTyped, active
    <2>4. RestTyped'
      BY <2>1, <2>3, NoLans DEF RestTyped, Memory, Steps, db, files
    <2>5. in_memory' = cell
      BY <2>1, NoLans DEF in_memory, RowsTyped, db
    <2>6. active(cell)' = active(cell)
      BY <2>1 DEF active, db
    <2>7. Clashing(in_memory)' <=> Clashing(cell)
      BY <2>5 DEF Clashing, clashes, active, exists
    <2>8. Sound'
      BY <2>1, <2>6, <2>7 DEF Sound
    <2>9. PackagesMade'
      BY <2>1 DEF PackagesMade
    <2>10. PackagesConsistent'
      BY <2>1, KeptPackages DEF files
    <2> QED
      BY <2>2, <2>4, <2>8, <2>9, <2>10
  <1> QED
    BY <1>1, <1>2, <1>3, <1>4

----------------------------------------------------------------------------
(* The generation of artifacts.                                            *)

\* A command that fails after its change is remembered as a fault.
LEMMA FailsStep == ASSUME RInv, Fails PROVE RInv'
  <1> USE DEF RInv
  <1>1. RowsTyped' /\ OwnersExist'
    BY KeptRows DEF Fails
  <1>2. RestTyped'
    BY NoLans DEF Fails, RestTyped, Idle, Memory, Steps, db, files
  <1>3. Sound' /\ PackagesMade'
    BY DEF Fails, Sound, PackagesMade, Idle
  <1>4. PackagesConsistent'
    BY KeptPackages DEF Fails, files
  <1> QED
    BY <1>1, <1>2, <1>3, <1>4

LEMMA PurgeStep == ASSUME RInv, Purge PROVE RInv'
  <1> USE DEF RInv
  <1>1. /\ cmd.step = "purge" /\ UNCHANGED <<db, files, last, faulted>>
        /\ cmd' = [cmd EXCEPT !.step = "save",
                              !.deployment = IF cmd.deployment_config THEN active(cell) ELSE @]
    BY DEF Purge
  <1>2. RowsTyped' /\ OwnersExist' /\ PackagesConsistent'
    BY <1>1, KeptRows, KeptPackages DEF files
  <1>3. active(cell) \subseteq Cells /\ active(cell)' = active(cell)
    BY <1>1 DEF RowsTyped, active, db
  <1>4. RestTyped'
    BY <1>1, <1>3 DEF RestTyped, Memory, Steps, db, files, exists
  <1>5. /\ cmd'.step = "save" /\ cmd'.lans = cmd.lans /\ cmd'.uvn = cmd.uvn
        /\ cmd'.deployment = IF cmd.deployment_config THEN active(cell) ELSE cmd.deployment
    BY <1>1 DEF RestTyped, Memory
  <1>6. Clashing(in_memory)' <=> Clashing(in_memory)
    BY <1>1, <1>5 DEF Clashing, clashes, active, exists, in_memory, db
  <1>7. Sound'
    BY <1>1, <1>3, <1>5, <1>6 DEF Sound
  <1>8. PackagesMade'
    BY <1>5 DEF PackagesMade
  <1> QED
    BY <1>2, <1>4, <1>7, <1>8

\* What is stored is what was validated.
LEMMA SaveStep == ASSUME RInv, Save PROVE RInv'
  <1>1. CASE cmd.uvn /\ Clashing(in_memory)
    BY <1>1, FailsStep DEF Save
  <1>2. CASE ~(cmd.uvn /\ Clashing(in_memory))
    <2> USE DEF RInv
    <2>1. /\ cmd.step = "save" /\ cell' = in_memory /\ deployment' = cmd.deployment
          /\ cmd' = [cmd EXCEPT !.step = "assert_keys", !.uvn = FALSE, !.lans = << >>]
          /\ UNCHANGED <<particle, user, allowed_ips, files, last, faulted>>
      BY <1>2 DEF Save
    <2>2. \A c \in Cells : cell[c] \in CellRow /\ (c \in DOMAIN cmd.lans => cmd.lans[c] \in Lans)
      BY DEF RowsTyped, RestTyped, Memory
    <2>3. \A c \in Cells : /\ in_memory[c] \in CellRow
                           /\ in_memory[c].status = cell[c].status
                           /\ in_memory[c].owner = cell[c].owner
                           /\ in_memory[c].lan \in {cell[c].lan} \cup Lans
      BY <2>2 DEF in_memory, CellRow
    <2>4. DOMAIN in_memory = Cells /\ DOMAIN cell = Cells /\ in_memory \in [Cells -> CellRow]
      BY <2>3 DEF in_memory, RowsTyped
    <2>5. exists(cell)' = exists(cell) /\ active(cell)' = active(cell)
      BY <2>1, <2>3, <2>4 DEF exists, active
    <2>6. RowsTyped'
      BY <2>1, <2>3, <2>4, <2>5 DEF RowsTyped, exists
    <2>7. OwnersExist'
      BY <2>1, <2>3, <2>4, <2>5 DEF OwnersExist, exists, known_user
    <2>8. RestTyped'
      BY <2>1, NoLans DEF RestTyped, Memory, Steps, files
    <2>9. cmd'.step = "assert_keys"
      BY <2>1 DEF RestTyped, Memory
    <2>10. Sound'
      <3> SUFFICES ASSUME ~faulted PROVE deployment' = active(cell)' /\ ~Clashing(cell)'
        BY <2>1, <2>9 DEF Sound
      <3>1. cmd.deployment = active(cell) /\ ~Clashing(in_memory)
        BY <1>2, <2>1 DEF Sound
      <3>2. Clashing(cell)' <=> Clashing(in_memory)
        BY <2>1 DEF Clashing, clashes, active, exists
      <3> QED
        BY <2>1, <2>5, <3>1, <3>2
    <2>11. PackagesMade'
      BY <2>9 DEF PackagesMade
    <2>12. PackagesConsistent'
      BY <2>1, KeptPackages DEF files
    <2> QED
      BY <2>6, <2>7, <2>8, <2>10, <2>11, <2>12
  <1> QED
    BY <1>1, <1>2

\* A step that changes neither the cells nor the backbone nor files, after the
\* first save.
LEMMA LaterStep ==
    ASSUME RInv, cmd.step \notin {"purge", "save"}, UNCHANGED <<cell, particle, user, deployment>>,
           RestTyped', faulted' = faulted,
           cmd'.step \notin {"purge", "save"}, PackagesMade', PackagesConsistent'
    PROVE  RInv'
  <1> USE DEF RInv
  <1>1. RowsTyped' /\ OwnersExist'
    BY DEF RowsTyped, OwnersExist, known_user, exists
  <1>2. Sound'
    BY DEF Sound, Clashing, clashes, active, exists
  <1> QED
    BY <1>1, <1>2

LEMMA AssertKeysStep == ASSUME RInv, AssertKeys PROVE RInv'
  <1>1. CASE dangling(active(cell), deployment)
    BY <1>1, FailsStep DEF AssertKeys
  <1>2. CASE ~dangling(active(cell), deployment)
    <2> USE DEF RInv
    <2> DEFINE lans == allowed_ips \cup {cell[c].lan : c \in active(cell)}
    <2>1. /\ cmd.step = "assert_keys" /\ UNCHANGED <<db, files, last, faulted>>
          /\ cmd' = [cmd EXCEPT !.step = "save_again", !.allowed_ips = lans, !.uvn = lans # allowed_ips]
      BY <1>2 DEF AssertKeys
    <2>2. lans \in SUBSET Lans
      BY DEF RowsTyped, RestTyped, active, exists
    <2>3. (lans # allowed_ips) \in BOOLEAN
      OBVIOUS
    <2> HIDE DEF lans
    <2>4. RestTyped'
      BY <2>1, <2>2, <2>3 DEF RestTyped, Memory, Steps, db, files, exists
    <2>5. cmd'.step = "save_again"
      BY <2>1 DEF RestTyped, Memory
    <2>6. PackagesMade'
      BY <1>2, <2>1, <2>5 DEF PackagesMade, dangling, active, db
    <2>7. PackagesConsistent'
      BY <2>1, KeptPackages DEF files
    <2> QED
      BY <2>1, <2>4, <2>5, <2>6, <2>7, LaterStep DEF db
  <1> QED
    BY <1>1, <1>2

LEMMA SaveAgainStep == ASSUME RInv, SaveAgain PROVE RInv'
  <1>1. CASE cmd.uvn /\ Clashing(cell)
    BY <1>1, FailsStep DEF SaveAgain
  <1>2. CASE ~(cmd.uvn /\ Clashing(cell))
    <2> USE DEF RInv
    <2>1. /\ cmd.step = "save_again" /\ allowed_ips' = cmd.allowed_ips
          /\ cmd' = [cmd EXCEPT !.step = "clean"]
          /\ UNCHANGED <<cell, particle, user, deployment, files, last, faulted>>
      BY <1>2 DEF SaveAgain, Goto
    <2>2. RestTyped' /\ cmd'.step = "clean"
      BY <2>1 DEF RestTyped, Memory, Steps, files, exists
    <2>3. PackagesMade'
      BY <2>1, <2>2 DEF PackagesMade, dangling, active
    <2>4. PackagesConsistent'
      BY <2>1, KeptPackages DEF files
    <2> QED
      BY <2>1, <2>2, <2>3, <2>4, LaterStep
  <1> QED
    BY <1>1, <1>2

LEMMA CleanCellsStep == ASSUME RInv, CleanCells PROVE RInv'
  <1> USE DEF RInv
  <1>1. /\ cmd.step = "clean" /\ packages' = [c \in Cells |-> NoPackage]
        /\ cmd' = [cmd EXCEPT !.step = "package"]
        /\ UNCHANGED <<db, particle_files, last, faulted>>
    BY DEF CleanCells, Goto
  <1>2. RestTyped' /\ cmd'.step = "package"
    BY <1>1 DEF RestTyped, Memory, Steps, db, exists
  <1>3. PackagesMade'
    BY <1>1, <1>2 DEF PackagesMade, dangling, active, db
  <1>4. PackagesConsistent'
    BY <1>1, NothingDangles DEF PackagesConsistent, dangling
  <1> QED
    BY <1>1, <1>2, <1>3, <1>4, LaterStep DEF db

\* A package is made from the same state of the database as all others.
LEMMA PackageCellStep == ASSUME RInv, NEW c \in Cells, PackageCell(c) PROVE RInv'
  <1> USE DEF RInv
  <1>1. /\ cmd.step = "package" /\ c \in active(cell) /\ cmd' = cmd
        /\ packages' = [packages EXCEPT ![c] = Snapshot]
        /\ UNCHANGED <<db, particle_files, last, faulted>>
    BY DEF PackageCell
  <1>2. RestTyped'
    BY <1>1 DEF RestTyped, db, exists
  <1>3. Snapshot' = Snapshot /\ active(cell)' = active(cell)
    BY <1>1 DEF Snapshot, active, db
  <1>4. \A d \in Cells : packages'[d] = IF d = c THEN Snapshot ELSE packages[d]
    BY <1>1 DEF RestTyped
  <1>5. \A d \in Cells : packages'[d] = NoPackage \/ (d \in active(cell) /\ packages'[d] = Snapshot)
    BY <1>1, <1>4 DEF PackagesMade
  <1>6. ~dangling(active(cell), deployment) /\ ~dangling(active(cell)', deployment')
    BY <1>1, <1>3 DEF PackagesMade, db
  <1>7. PackagesMade'
    BY <1>1, <1>3, <1>5, <1>6 DEF PackagesMade
  <1>8. ~dangling(DOMAIN Snapshot.lans, Snapshot.deployment)
    BY <1>6 DEF Snapshot
  <1>9. PackagesConsistent'
    <2>1. ASSUME NEW d \in Cells PROVE ~dangling(DOMAIN packages'[d].lans, packages'[d].deployment)
      BY <1>5, <1>8, NothingDangles
    <2>2. \A d, e \in Cells : packages'[d] # NoPackage /\ packages'[e] # NoPackage =>
                                  packages'[d] = packages'[e]
      BY <1>5
    <2> QED
      BY <2>1, <2>2 DEF PackagesConsistent, dangling
  <1> QED
    BY <1>1, <1>2, <1>7, <1>9, LaterStep DEF db

LEMMA CleanParticlesStep == ASSUME RInv, CleanParticles PROVE RInv'
  <1> USE DEF RInv
  <1>1. /\ cmd.step = "package" /\ \A c \in active(cell) : packages[c] # NoPackage
        /\ particle_files' = {} /\ cmd' = [cmd EXCEPT !.step = "package_particles"]
        /\ UNCHANGED <<db, packages, last, faulted>>
    BY DEF CleanParticles, Goto
  <1>2. RestTyped' /\ cmd'.step = "package_particles"
    BY <1>1 DEF RestTyped, Memory, Steps, db, exists
  <1>3. Snapshot' = Snapshot /\ active(cell)' = active(cell)
    BY <1>1 DEF Snapshot, active, db
  <1>4. PackagesMade'
    <2>1. ~dangling(active(cell)', deployment')
      BY <1>1, <1>3 DEF PackagesMade, db
    <2>2. \A c \in Cells : packages[c] = IF c \in active(cell) THEN Snapshot ELSE NoPackage
      BY <1>1 DEF PackagesMade
    <2> QED
      BY <1>1, <1>2, <1>3, <2>1, <2>2 DEF PackagesMade
  <1>5. PackagesConsistent'
    BY <1>1, KeptPackages
  <1> QED
    BY <1>1, <1>2, <1>4, <1>5, LaterStep DEF db

LEMMA PackageParticleStep == ASSUME RInv, NEW p \in Particles, PackageParticle(p) PROVE RInv'
  <1> USE DEF RInv
  <1>1. /\ cmd.step = "package_particles" /\ p \in active(particle) /\ cmd' = cmd
        /\ particle_files' = particle_files \cup {p}
        /\ UNCHANGED <<db, packages, last, faulted>>
    BY DEF PackageParticle
  <1>2. RestTyped'
    BY <1>1 DEF RestTyped, db, exists
  <1>3. Snapshot' = Snapshot /\ active(cell)' = active(cell) /\ active(particle)' = active(particle)
    BY <1>1 DEF Snapshot, active, db
  <1>4. ~dangling(active(cell)', deployment')
    BY <1>1, <1>3 DEF PackagesMade, db
  <1>5. PackagesMade'
    BY <1>1, <1>3, <1>4 DEF PackagesMade
  <1>6. PackagesConsistent'
    BY <1>1, KeptPackages
  <1> QED
    BY <1>1, <1>2, <1>5, <1>6, LaterStep DEF db

LEMMA GeneratedStep == ASSUME RInv, Generated PROVE RInv'
  <1> USE DEF RInv
  <1>1. /\ cmd.step = "package_particles" /\ active(particle) \subseteq particle_files
        /\ cmd' = Idle /\ last' = "ok" /\ UNCHANGED <<db, files, faulted>>
    BY DEF Generated
  <1>2. RestTyped' /\ cmd'.step = "idle"
    BY <1>1, NoLans DEF RestTyped, Idle, Memory, Steps, db, files
  <1>3. Snapshot' = Snapshot /\ active(cell)' = active(cell) /\ active(particle)' = active(particle)
    BY <1>1 DEF Snapshot, active, db
  <1>4. PackagesMade'
    BY <1>1, <1>2, <1>3 DEF PackagesMade, files
  <1>5. PackagesConsistent'
    BY <1>1, KeptPackages DEF files
  <1> QED
    BY <1>1, <1>2, <1>4, <1>5, LaterStep DEF db

LEMMA RStep == RInv /\ [Next]_vars => RInv'
  <1> SUFFICES ASSUME RInv, [Next]_vars PROVE RInv'
    OBVIOUS
  <1>1. CASE UNCHANGED vars
    <2>1. RowsTyped' /\ OwnersExist' /\ PackagesConsistent'
      BY <1>1, KeptRows, KeptPackages DEF vars, db, RInv
    <2>2. RestTyped'
      BY <1>1 DEF vars, RInv, RestTyped, exists
    <2>3. Sound'
      BY <1>1 DEF vars, RInv, Sound, Clashing, clashes, active, exists, in_memory
    <2>4. PackagesMade'
      BY <1>1 DEF vars, RInv, PackagesMade, active, Snapshot, dangling
    <2> QED
      BY <2>1, <2>2, <2>3, <2>4 DEF RInv
  <1>2. CASE Next
    <2>1. ASSUME NEW u \in Users \cup {Owner}, NEW p \in Particles, DeleteParticle(p) PROVE RInv'
      BY <2>1, ParticleStep
    <2>2. ASSUME NEW p \in Particles, DeleteParticle(p) PROVE RInv'
      BY <2>1, <2>2
    <2> QED
      BY <1>2, <2>2, AddCellStep, UpdateCellStep, DeleteCellStep, ParticleStep, UserStep, BansStep,
         OtherCommandStep, PurgeStep, SaveStep, AssertKeysStep, SaveAgainStep, CleanCellsStep,
         PackageCellStep, CleanParticlesStep, PackageParticleStep, GeneratedStep, FailsStep
      DEF Next, Dies
  <1> QED
    BY <1>1, <1>2

LEMMA RInvariant == Spec => []RInv
  BY RInit, RStep, PTL DEF Spec

----------------------------------------------------------------------------
\* The variables keep their types whatever commands do, fail or die.
THEOREM TypeCorrect == Spec => []TypeOK
  <1>1. RInv => TypeOK
    BY DEF RInv, RowsTyped, RestTyped, Memory, TypeOK
  <1> QED
    BY <1>1, RInvariant, PTL

\* Every cell and every particle is owned by a user that exists: a user is never
\* deleted from under what it owns (registry.py delete_user).
THEOREM OwnersCorrect == Spec => []OwnersExist
  <1>1. RInv => OwnersExist
    BY DEF RInv
  <1> QED
    BY <1>1, RInvariant, PTL

\* A command that ended well has written the package of every active cell and
\* particle from what is stored, and no other, whatever happened before
\* (registry.py generate_artifacts).
THEOREM PackagedCorrect == Spec => []OkIsPackaged
  <1>1. RInv => OkIsPackaged
    BY DEF RInv, PackagesMade, OkIsPackaged, idle
  <1> QED
    BY <1>1, RInvariant, PTL

\* As long as no command has died half way, the backbone is that of the active
\* cells, and the LANs do not clash (registry.py needs_redeployment, uvn.py
\* validate_cell).
THEOREM SoundCorrect == Spec => []FaultFreeIsSound
  <1>1. RInv => FaultFreeIsSound
    BY DEF RInv, Sound, FaultFreeIsSound, idle
  <1> QED
    BY <1>1, RInvariant, PTL

\* The packages in the directory are of one configuration, none with a link to a
\* cell that it does not know, also after commands that died (vpn_config.py
\* peer_config).
THEOREM ConsistentCorrect == Spec => []PackagesConsistent
  <1>1. RInv => PackagesConsistent
    BY DEF RInv
  <1> QED
    BY <1>1, RInvariant, PTL

-----------------------------------------------------------------------------
(* The object store of ObjectStore.tla.  An object that is saved agrees    *)
(* with what its process sees of the file at every moment (HeldIsSeen),    *)
(* while calls are half way and writes are pending: this, and not the      *)
(* property, is inductive.                                                 *)

\* The columns of a row.
Columns == [Fields -> Nat]

\* The rows of a database, by id.
Rows == UNION {[S -> Columns] : S \in SUBSET Ids}

\* A version of the file: the committed one, or the uncommitted one of a
\* connection.
Version == [rows : Rows, next : Nat]

\* What a process refers to its objects with.
Handles == Ids \cup {Created}

\* An object in memory.
Object == [id : Ids \cup {NoId}, val : Columns, saved : BOOLEAN, loaded : BOOLEAN]

\* The objects that a process has.
Objects == UNION {[S -> Object] : S \in SUBSET Handles}

\* The call of Database.save.
Frame == [on : BOOLEAN, own : BOOLEAN, todo : SUBSET Handles]

\* The type invariant. The bounds on changes and calls are not needed.
StoreType ==
    /\ file \in Version /\ pending \in Version
    /\ writer \in Procs \cup {NoProc}
    /\ inst \in [Procs -> Objects]
    /\ txn \in [Procs -> BOOLEAN]
    /\ saving \in [Procs -> Frame]
    /\ next_read \in [Procs -> 0 .. (MaxId - 1) \cup {NoId}]
    /\ imp \in [Procs -> {"no", "copied", "dropped"}]
    /\ backup \in [Procs -> Version]
    /\ sets \in Nat /\ calls \in Nat
    /\ stale \in [Procs -> SUBSET Ids]
    /\ loose \in [Procs -> BOOLEAN]
    /\ split \in [Procs -> BOOLEAN]
    /\ written \in [Procs -> SUBSET Ids]
    /\ meanwhile \in [Procs -> BOOLEAN]

\* import_other is never called inside of another call, and has the lock from
\* the moment it deletes the rows; a save without a transaction of its own is
\* inside of the caller's.
FramesNest == \A p \in Procs :
    /\ imp[p] # "no" => p \in Importers /\ ~txn[p] /\ ~saving[p].on
    /\ imp[p] = "dropped" => writer = p
    /\ saving[p].on => saving[p].todo \subseteq DOMAIN inst[p]
    /\ saving[p].on /\ ~saving[p].own => txn[p]

\* An object that is saved was loaded, or inserted, and has an id then.
FlagsAgree == \A p \in Procs : \A h \in DOMAIN inst[p] :
    /\ inst[p][h].saved => inst[p][h].loaded
    /\ inst[p][h].loaded => inst[p][h].id \in Ids

\* A call is in progress that commits or rolls back when it ends.
Calling(p) == txn[p] \/ saving[p].on

\* What an agent has pending outside of calls was done by delete_where: rows
\* are missing, the others and the counter are those of the file.
LooseDeletes == \A p \in Importers :
    writer = p /\ ~Calling(p) /\ imp[p] # "dropped" =>
        /\ pending.next = file.next
        /\ \A k \in DOMAIN pending.rows :
             k \in DOMAIN file.rows /\ pending.rows[k] = file.rows[k]

\* The version that the objects of a process are compared with: what its
\* connection reads, except that import_other has only deleted what is there.
Seen(p) == IF imp[p] = "dropped" THEN file ELSE View(p)

\* An object of a row that did not change below it has such a row, and the
\* values of the row if it is saved. This is what CleanIsStored says of a
\* process at rest, for every moment of every call.
Held(p) == \A h \in DOMAIN inst[p] :
    inst[p][h].loaded /\ inst[p][h].id \notin stale[p] =>
        /\ inst[p][h].id \in DOMAIN Seen(p).rows
        /\ inst[p][h].saved => Seen(p).rows[inst[p][h].id] = inst[p][h].val

\* The same for every process.
HeldIsSeen == \A p \in Procs : Held(p)

\* The rows of f outside of S are in g, too.
Follows(f, g, S) == \A k \in Ids \ S :
    k \in DOMAIN f.rows => k \in DOMAIN g.rows /\ g.rows[k] = f.rows[k]

\* As long as no other process commits, the copy that import_other made is the
\* file, and nothing that it does changes the counters.
BackupIsFile == \A p \in Procs : imp[p] # "no" /\ ~meanwhile[p] =>
    /\ file = backup[p]
    /\ imp[p] = "dropped" => pending.next = backup[p].next

\* The inductive invariant of the object store.
StoreInv ==
    /\ StoreType /\ FramesNest /\ FlagsAgree /\ TransactionIsAtomic
    /\ LooseDeletes /\ HeldIsSeen /\ BackupIsFile

-----------------------------------------------------------------------------
(* Facts about the versions of the file and the objects in memory.         *)

\* The ids are numbers, and the reference to a new object is none of them.
LEMMA IdsFacts == /\ Uvn \in Ids /\ CellIds \subseteq Ids /\ Ids \subseteq Nat
                  /\ NoId \notin Ids /\ Created = NoId /\ NoId \in Nat /\ MaxId \in Nat
                       /\ 1 \in CellIds
  BY StoreAssumption DEF Uvn, CellIds, Ids, NoId, Created

\* What the elements of these sets of functions are, and which functions are
\* elements of them.
LEMMA RowsFacts ==
    ASSUME NEW r \in Rows
    PROVE  /\ DOMAIN r \subseteq Ids
           /\ r = [k \in DOMAIN r |-> r[k]]
           /\ \A k \in DOMAIN r : r[k] \in Columns
  BY DEF Rows

\* The converse.
LEMMA RowsIntro ==
    ASSUME NEW S \in SUBSET Ids, NEW r \in [S -> Columns]
    PROVE  r \in Rows
  BY DEF Rows

\* The same for the objects of a process.
LEMMA ObjectsFacts ==
    ASSUME NEW m \in Objects
    PROVE  /\ DOMAIN m \subseteq Handles
           /\ m = [k \in DOMAIN m |-> m[k]]
           /\ \A k \in DOMAIN m : m[k] \in Object
  BY DEF Objects

\* The converse.
LEMMA ObjectsIntro ==
    ASSUME NEW S \in SUBSET Handles, NEW r \in [S -> Object]
    PROVE  r \in Objects
  BY DEF Objects

\* A version is its two fields.
LEMMA VersionFacts ==
    ASSUME NEW v \in Version
    PROVE  v = [rows |-> v.rows, next |-> v.next] /\ v.rows \in Rows /\ v.next \in Nat
  BY DEF Version

\* No backup is an empty version.
LEMMA NoBackupVersion == NoBackup \in Version
  <1>1. [k \in {} |-> 0] \in [{} -> Columns]
    OBVIOUS
  <1>2. [k \in {} |-> 0] \in Rows
    BY <1>1, RowsIntro
  <1> QED BY <1>2 DEF NoBackup, Version

\* A database that was just opened satisfies the invariant.
LEMMA InitStore == StoreInit => StoreInv
  <1> SUFFICES ASSUME StoreInit PROVE StoreInv
    OBVIOUS
  <1>1. [k \in {Uvn, 1} |-> [f \in Fields |-> 0]] \in Rows
    <2>1. {Uvn, 1} \in SUBSET Ids
      BY IdsFacts
    <2>2. [k \in {Uvn, 1} |-> [f \in Fields |-> 0]] \in [{Uvn, 1} -> Columns]
      BY DEF Columns
    <2> QED BY <2>1, <2>2, RowsIntro
  <1>2. file \in Version
    BY <1>1 DEF StoreInit, Version
  <1>3. [h \in {} |-> 0] \in Objects
    <2>1. [h \in {} |-> 0] \in [{} -> Object]
      OBVIOUS
    <2> QED BY <2>1, ObjectsIntro
  <1>4. StoreType
    BY <1>2, <1>3, NoBackupVersion DEF StoreInit, StoreType, NoSave, Frame
  <1>5. FramesNest /\ LooseDeletes /\ BackupIsFile
    BY DEF StoreInit, FramesNest, LooseDeletes, BackupIsFile, NoSave
  <1>6. FlagsAgree /\ HeldIsSeen
    BY DEF StoreInit, FlagsAgree, HeldIsSeen, Held
  <1>7. TransactionIsAtomic
    BY StoreAssumption DEF StoreInit, TransactionIsAtomic
  <1> QED BY <1>4, <1>5, <1>6, <1>7 DEF StoreInv

\* create_or_update makes a version out of a version.
LEMMA StoredVersion ==
    ASSUME NEW v \in Version, NEW id \in Ids, NEW val \in Columns,
           NEW S \in SUBSET (DOMAIN v.rows \cup {id}), NEW n \in Nat
    PROVE  [rows |-> [k \in S |-> IF k = id THEN val ELSE v.rows[k]],
             next |-> n] \in Version
  <1>1. v.rows \in Rows
    BY VersionFacts
  <1>2. DOMAIN v.rows \subseteq Ids /\ \A k \in DOMAIN v.rows : v.rows[k] \in Columns
    BY <1>1, RowsFacts
  <1> DEFINE r == [k \in S |-> IF k = id THEN val ELSE v.rows[k]]
  <1>3. r \in [S -> Columns] /\ S \in SUBSET Ids
    BY <1>2
  <1>4. r \in Rows
    BY <1>3, RowsIntro
  <1> QED BY <1>4 DEF Version

\* The deletion of rows makes a version, too, and leaves the other rows alone.
LEMMA RestrictFacts ==
    ASSUME NEW v \in Version, NEW S \in SUBSET DOMAIN v.rows
    PROVE  LET new == [v EXCEPT !.rows = Restrict(@, S)]
           IN  /\ new \in Version
               /\ DOMAIN new.rows = S
               /\ \A k \in S : new.rows[k] = v.rows[k]
               /\ new.next = v.next
  <1>1. v.rows \in Rows /\ v.next \in Nat /\ v = [rows |-> v.rows, next |-> v.next]
    BY VersionFacts
  <1>2. DOMAIN v.rows \subseteq Ids /\ \A k \in DOMAIN v.rows : v.rows[k] \in Columns
    BY <1>1, RowsFacts
  <1> DEFINE r == [k \in S |-> v.rows[k]]
  <1>3. r \in [S -> Columns] /\ S \in SUBSET Ids
    BY <1>2
  <1>4. r \in Rows
    BY <1>3, RowsIntro
  <1>5. [v EXCEPT !.rows = Restrict(@, S)] = [rows |-> r, next |-> v.next]
    BY <1>1 DEF Restrict
  <1> QED BY <1>4, <1>5 DEF Version

\* Two versions have the same rows but for those that Changed names.
LEMMA ChangedFacts ==
    ASSUME NEW f \in Version, NEW g \in Version
    PROVE  /\ Changed(f, g) \subseteq Ids
           /\ \A S : Changed(f, g) \subseteq S => Follows(f, g, S) /\ Follows(g, f, S)
  BY DEF Changed, Follows

\* The imported rows are rows.
LEMMA ImportedRows == imported \in Rows
  <1>1. imported \in [Ids -> Columns] /\ Ids \in SUBSET Ids
    BY StoreAssumption DEF imported, Columns
  <1> QED BY <1>1, RowsIntro

\* The objects of a process that a step leaves alone still agree with what it
\* sees, if the rows that changed are stale now.
LEMMA HeldStays ==
    ASSUME StoreType, FlagsAgree, NEW q \in Procs, Held(q), inst'[q] = inst[q],
           stale[q] \subseteq stale'[q], Follows(Seen(q), Seen(q)', stale'[q])
    PROVE  Held(q)'
  BY DEF Held, Follows, FlagsAgree

\* The same, if the step only takes objects away.
LEMMA HeldShrinks ==
    ASSUME StoreType, FlagsAgree, NEW q \in Procs, Held(q),
           DOMAIN inst'[q] \subseteq DOMAIN inst[q],
           \A h \in DOMAIN inst'[q] : inst'[q][h] = inst[q][h],
           stale[q] \subseteq stale'[q], Follows(Seen(q), Seen(q)', stale'[q])
    PROVE  Held(q)'
  BY DEF Held, Follows, FlagsAgree

\* What a connection reads is a version.
LEMMA ViewVersion ==
    ASSUME StoreType, NEW p \in Procs
    PROVE  View(p) \in Version
  BY DEF StoreType, View

\* An object made from a row is saved and has the values of the row.
LEMMA DeserializedFacts ==
    \A id, row : LET o == deserialized(id, row)
                 IN  o.id = id /\ o.val = row /\ o.loaded /\ o.saved
  BY DEF deserialized

-----------------------------------------------------------------------------
(* The steps of a process.                                                 *)

\* An object that is loaded has the values of its row, and a cached one is not
\* touched.
LEMMA LoadKeeps ==
    ASSUME StoreInv, NEW p \in Procs, NEW ids \in {{Uvn}, CellIds}, Load(p, ids)
    PROVE  StoreInv'
  <1>1. View(p) \in Version /\ View(p).rows \in Rows
          /\ DOMAIN View(p).rows \subseteq Ids
        /\ \A k \in DOMAIN View(p).rows : View(p).rows[k] \in Columns
    BY ViewVersion, VersionFacts, RowsFacts DEF StoreInv
  <1>2. DOMAIN inst[p] \subseteq Handles
          /\ \A g \in DOMAIN inst[p] : inst[p][g] \in Object
    BY ObjectsFacts DEF StoreInv, StoreType
  <1> DEFINE missing == (ids \cap DOMAIN View(p).rows) \ DOMAIN inst[p]
  <1>3. inst' = [inst EXCEPT ![p] = [h \in DOMAIN inst[p] \cup missing |->
            IF h \in missing THEN deserialized(h, View(p).rows[h]) ELSE inst[p][h]]]
    BY DEF Load
  <1>4. missing \subseteq DOMAIN View(p).rows
    OBVIOUS
  <1>5. stale'[p] = stale[p] \ (missing \ {inst[p][h].id : h \in DOMAIN inst[p]})
    BY DEF Load, StoreInv, StoreType
  <1>6. /\ DOMAIN inst'[p] = DOMAIN inst[p] \cup missing
        /\ \A h \in DOMAIN inst[p] : inst'[p][h] = inst[p][h]
        /\ \A h \in missing : inst'[p][h] = deserialized(h, View(p).rows[h])
    BY <1>3 DEF StoreInv, StoreType
  <1> HIDE DEF missing
  <1>7. \A q \in Procs \ {p} : inst'[q] = inst[q]
    BY <1>3
  <1>8. inst'[p] \in Objects
    <2>1. \A h \in missing : deserialized(h, View(p).rows[h]) \in Object
      BY <1>1, <1>4 DEF deserialized, Object
    <2>2. [h \in DOMAIN inst[p] \cup missing |->
              IF h \in missing THEN deserialized(h, View(p).rows[h]) ELSE inst[p][h]]
          \in [DOMAIN inst[p] \cup missing -> Object]
      BY <1>2, <2>1
    <2>3. DOMAIN inst[p] \cup missing \in SUBSET Handles
      BY <1>1, <1>2, <1>4 DEF Handles
    <2> QED BY <1>3, <2>2, <2>3, ObjectsIntro DEF StoreInv, StoreType
  <1>9. StoreType'
    <2>1. inst' \in [Procs -> Objects]
      BY <1>3, <1>8 DEF StoreInv, StoreType
    <2>2. /\ file' \in Version /\ pending' \in Version
          /\ writer' \in Procs \cup {NoProc}
          /\ next_read' \in [Procs -> 0 .. (MaxId - 1) \cup {NoId}]
          /\ imp' \in [Procs -> {"no", "copied", "dropped"}]
          /\ backup' \in [Procs -> Version]
          /\ sets' \in Nat /\ calls' \in Nat
          /\ stale' \in [Procs -> SUBSET Ids]
          /\ written' \in [Procs -> SUBSET Ids]
      BY DEF StoreInv, StoreType, Load, store, frames
    <2>3. /\ txn' \in [Procs -> BOOLEAN]
          /\ saving' \in [Procs -> Frame]
          /\ loose' \in [Procs -> BOOLEAN] /\ split' \in [Procs -> BOOLEAN]
               /\ meanwhile' \in [Procs -> BOOLEAN]
      BY DEF StoreInv, StoreType, Load, frames
    <2> QED BY <2>1, <2>2, <2>3 DEF StoreType
  <1>10. FramesNest'
    BY DEF StoreInv, Load, store, frames, FramesNest
  <1>11. FlagsAgree'
    <2>1. \A h \in missing : /\ deserialized(h, View(p).rows[h]).id \in Ids
                            /\ deserialized(h, View(p).rows[h]).loaded
      BY <1>1, <1>4 DEF deserialized
    <2>2. \A h \in DOMAIN inst'[p] : /\ inst'[p][h].saved => inst'[p][h].loaded
                                     /\ inst'[p][h].loaded => inst'[p][h].id \in Ids
      BY <1>6, <2>1 DEF StoreInv, FlagsAgree
    <2>3. \A q \in Procs \ {p} : \A h \in DOMAIN inst'[q] :
                                   /\ inst'[q][h].saved => inst'[q][h].loaded
                                   /\ inst'[q][h].loaded => inst'[q][h].id \in Ids
      BY <1>7 DEF StoreInv, FlagsAgree
    <2> QED BY <2>2, <2>3 DEF FlagsAgree
  <1>12. TransactionIsAtomic'
    BY DEF StoreInv, Load, store, frames, Free, AtRest, TransactionIsAtomic
  <1>13. LooseDeletes'
    BY DEF StoreInv, Load, store, frames, LooseDeletes, Calling
  <1>14. HeldIsSeen'
    <2> SUFFICES ASSUME NEW q \in Procs PROVE Held(q)'
      BY DEF HeldIsSeen
    <2> USE DEF StoreInv
    <2>1. Held(q)
      BY DEF HeldIsSeen
    <2>2. CASE q # p
      <3>1. inst'[q] = inst[q] /\ stale'[q] = stale[q] /\ Seen(q)' = Seen(q)
        BY <2>2 DEF Load, Seen, View, store, frames
      <3> QED BY <2>1, <3>1 DEF Held
    <2>3. CASE q = p
      <3>1. imp[p] = "no" /\ Seen(p) = View(p) /\ Seen(p)' = View(p)
        BY DEF Load, Free, Seen, View, store, frames
      <3>2. \A h \in missing : inst'[p][h].id = h /\ inst'[p][h].val = View(p).rows[h]
        BY <1>6, DeserializedFacts
      <3>3. \A h \in DOMAIN inst[p] : inst[p][h].id \notin stale'[p] =>
              inst[p][h].id \notin stale[p]
        BY <1>5
      <3> QED BY <1>4, <1>6, <2>1, <2>3, <3>1, <3>2, <3>3 DEF Held
    <2> QED BY <2>2, <2>3
  <1>15. BackupIsFile'
    BY DEF StoreInv, Load, store, frames, BackupIsFile
  <1> QED BY <1>9, <1>10, <1>11, <1>12, <1>13, <1>14, <1>15 DEF StoreInv

\* An object that is changed is not saved, and neither is the parent of a new one.
LEMMA SetFieldKeeps ==
    ASSUME StoreInv, NEW p \in Procs, NEW h \in Handles, NEW f \in Fields,
           SetField(p, h, f)
    PROVE  StoreInv'
  <1>1. DOMAIN inst[p] \subseteq Handles
          /\ \A g \in DOMAIN inst[p] : inst[p][g] \in Object
    BY ObjectsFacts DEF StoreInv, StoreType
  <1>2. inst' = [inst EXCEPT ![p] = marked(set_value(inst[p], h, f, sets + 1), h)]
          /\ h \in DOMAIN inst[p] /\ sets + 1 \in Nat
    BY DEF StoreInv, StoreType, SetField, has
  <1> DEFINE new == set_value(inst[p], h, f, sets + 1)
  <1>3. /\ DOMAIN new = DOMAIN inst[p]
        /\ \A k \in DOMAIN new : k # h => new[k] = inst[p][k]
        /\ new[h] = [inst[p][h] EXCEPT !.val[f] = sets + 1]
    BY <1>2 DEF set_value
  <1>4. \A k \in DOMAIN new : new[k] \in Object /\ new[k].id = inst[p][k].id
          /\ new[k].saved = inst[p][k].saved /\ new[k].loaded = inst[p][k].loaded
    <2>1. [inst[p][h].val EXCEPT ![f] = sets + 1] \in Columns
      BY <1>1, <1>2 DEF Object, Columns
    <2> QED BY <1>1, <1>3, <2>1 DEF Object
  <1>5. /\ DOMAIN inst'[p] = DOMAIN inst[p]
        /\ \A k \in DOMAIN inst[p] : inst'[p][k] = IF k = h \/ (k = Uvn /\ h = Created)
             THEN [new[k] EXCEPT !.saved = FALSE] ELSE new[k]
        /\ inst'[p] = [k \in DOMAIN inst'[p] |-> inst'[p][k]]
    <2>1. inst'[p] = marked(new, h)
      BY <1>2 DEF StoreInv, StoreType
    <2> QED BY <1>3, <2>1 DEF marked
  <1>6. \A k \in DOMAIN inst[p] : inst'[p][k] \in Object
          /\ inst'[p][k].id = inst[p][k].id /\ inst'[p][k].loaded = inst[p][k].loaded
          /\ (inst'[p][k].saved => inst[p][k].saved /\ inst'[p][k].val = inst[p][k].val)
    <2> TAKE k \in DOMAIN inst[p]
    <2>1. new[k] \in Object /\ (k # h => new[k] = inst[p][k])
      BY <1>3, <1>4
    <2>2. [new[k] EXCEPT !.saved = FALSE] \in Object
      BY <2>1 DEF Object
    <2>3. CASE inst'[p][k] = [new[k] EXCEPT !.saved = FALSE]
      BY <1>3, <1>4, <2>2, <2>3
    <2>4. CASE inst'[p][k] = new[k] /\ k # h
      BY <1>3, <1>4, <2>4
    <2> QED BY <1>5, <2>3, <2>4
  <1>7. inst'[p] \in Objects
    <2>1. inst'[p] \in [DOMAIN inst[p] -> Object]
      BY <1>5, <1>6
    <2> QED BY <1>1, <2>1, ObjectsIntro
  <1>8. \A q \in Procs \ {p} : inst'[q] = inst[q]
    BY <1>2
  <1>9. StoreType'
    <2>1. inst' \in [Procs -> Objects]
      BY <1>2, <1>7 DEF StoreInv, StoreType
    <2>2. sets' \in Nat /\ calls' \in Nat
      BY DEF StoreInv, StoreType, SetField
    <2>3. /\ file' \in Version /\ pending' \in Version
          /\ writer' \in Procs \cup {NoProc}
          /\ next_read' \in [Procs -> 0 .. (MaxId - 1) \cup {NoId}]
          /\ imp' \in [Procs -> {"no", "copied", "dropped"}]
          /\ backup' \in [Procs -> Version]
          /\ stale' \in [Procs -> SUBSET Ids]
          /\ written' \in [Procs -> SUBSET Ids]
      BY DEF StoreInv, StoreType, SetField, store, frames, ghosts
    <2>4. /\ txn' \in [Procs -> BOOLEAN]
          /\ saving' \in [Procs -> Frame]
          /\ loose' \in [Procs -> BOOLEAN] /\ split' \in [Procs -> BOOLEAN]
               /\ meanwhile' \in [Procs -> BOOLEAN]
      BY DEF StoreInv, StoreType, SetField, frames, ghosts
    <2> QED BY <2>1, <2>2, <2>3, <2>4 DEF StoreType
  <1>10. FramesNest'
    BY <1>5 DEF StoreInv, SetField, store, frames, FramesNest
  <1>11. FlagsAgree'
    BY <1>5, <1>6, <1>8 DEF StoreInv, FlagsAgree
  <1>12. TransactionIsAtomic'
    BY DEF StoreInv, SetField, store, frames, ghosts, Free, AtRest, TransactionIsAtomic
  <1>13. LooseDeletes'
    BY DEF StoreInv, SetField, store, frames, LooseDeletes, Calling
  <1>14. HeldIsSeen'
    <2> SUFFICES ASSUME NEW q \in Procs PROVE Held(q)'
      BY DEF HeldIsSeen
    <2> USE DEF StoreInv
    <2>1. Held(q)
      BY DEF HeldIsSeen
    <2>2. CASE q # p
      <3>1. inst'[q] = inst[q] /\ stale'[q] = stale[q] /\ Seen(q)' = Seen(q)
        BY <2>2 DEF SetField, Seen, View, store, frames, ghosts
      <3> QED BY <2>1, <3>1 DEF Held
    <2>3. CASE q = p
      <3>1. stale'[p] = stale[p] /\ Seen(p)' = Seen(p)
        BY DEF SetField, Seen, View, store, frames, ghosts
      <3> QED BY <1>5, <1>6, <2>1, <2>3, <3>1 DEF Held
    <2> QED BY <2>2, <2>3
  <1>15. BackupIsFile'
    BY DEF StoreInv, SetField, store, frames, ghosts, BackupIsFile
  <1> QED BY <1>9, <1>10, <1>11, <1>12, <1>13, <1>14, <1>15 DEF StoreInv

\* A transaction begins with nothing pending, except what is loose.
LEMMA BeginKeeps ==
    ASSUME StoreInv, NEW p \in Procs, Begin(p)
    PROVE  StoreInv'
  <1>1. StoreType'
    BY DEF StoreInv, Begin, store, memory, CountCall, StoreType
  <1>2. FramesNest'
    BY DEF StoreInv, Begin, store, memory, Free, AtRest, FramesNest
  <1>3. FlagsAgree'
    BY DEF StoreInv, Begin, memory, FlagsAgree
  <1>4. TransactionIsAtomic'
    BY DEF StoreInv, Begin, store, Free, AtRest, TransactionIsAtomic, StoreType
  <1>5. LooseDeletes'
    BY DEF StoreInv, Begin, store, LooseDeletes, Calling
  <1>6. HeldIsSeen'
    BY DEF StoreInv, Begin, store, memory, View, HeldIsSeen, Held, Seen
  <1>7. BackupIsFile'
    BY DEF StoreInv, Begin, store, BackupIsFile
  <1> QED BY <1>1, <1>2, <1>3, <1>4, <1>5, <1>6, <1>7 DEF StoreInv

\* The commit shows the pending version to all; what a process sees of its own
\* writes stays the same.
LEMMA EndKeeps ==
    ASSUME StoreInv, NEW p \in Procs, End(p)
    PROVE  StoreInv'
  <1>1. file' \in Version /\ pending' \in Version
          /\ Changed(file, pending) \subseteq Ids
    BY ChangedFacts DEF StoreInv, StoreType, End, Commit, store
  <1>2. StoreType'
    <2>1. file' \in Version /\ pending' \in Version
      BY <1>1
    <2>2. stale' \in [Procs -> SUBSET Ids]
      BY <1>1 DEF StoreInv, StoreType, End, CommitSeen, NowStale
    <2>3. /\ writer' \in Procs \cup {NoProc}
          /\ inst' \in [Procs -> Objects]
          /\ next_read' \in [Procs -> 0 .. (MaxId - 1) \cup {NoId}]
          /\ imp' \in [Procs -> {"no", "copied", "dropped"}]
          /\ backup' \in [Procs -> Version]
          /\ sets' \in Nat /\ calls' \in Nat
          /\ written' \in [Procs -> SUBSET Ids]
      BY DEF StoreInv, StoreType, End, store, memory, Commit
    <2>4. /\ txn' \in [Procs -> BOOLEAN]
          /\ saving' \in [Procs -> Frame]
          /\ loose' \in [Procs -> BOOLEAN] /\ split' \in [Procs -> BOOLEAN]
               /\ meanwhile' \in [Procs -> BOOLEAN]
      BY DEF StoreInv, StoreType, End, CommitSeen
    <2> QED BY <2>1, <2>2, <2>3, <2>4 DEF StoreType
  <1>3. FramesNest'
    BY DEF StoreInv, End, store, memory, Free, Commit, FramesNest
  <1>4. FlagsAgree'
    BY DEF StoreInv, End, memory, FlagsAgree
  <1>5. TransactionIsAtomic'
    BY StoreAssumption DEF StoreInv, End, store, Free, AtRest, Commit, CommitSeen,
       TransactionIsAtomic, StoreType
  <1>6. LooseDeletes'
    BY DEF StoreInv, End, store, Commit, LooseDeletes, Calling
  <1>7. HeldIsSeen'
    <2> SUFFICES ASSUME NEW q \in Procs PROVE Held(q)'
      BY DEF HeldIsSeen
    <2> USE DEF StoreInv
    <2>1. Held(q)
      BY DEF HeldIsSeen
    <2>2. CASE q # p
      <3>1. CASE writer = p
        <4>1. inst'[q] = inst[q] /\ stale'[q] = stale[q] \cup Changed(file, pending)
          BY <2>2, <3>1 DEF End, CommitSeen, memory, NowStale
        <4>2. Seen(q) = file /\ Seen(q)' = pending
          BY <2>2, <3>1 DEF End, Seen, View, Commit
        <4>3. Follows(file, pending, stale'[q])
          BY <4>1, ChangedFacts DEF StoreType
        <4> QED BY <2>1, <4>1, <4>2, <4>3, HeldStays
      <3>2. CASE writer # p
        <4>1. inst'[q] = inst[q] /\ stale'[q] = stale[q] /\ Seen(q)' = Seen(q)
          BY <3>2 DEF End, Seen, View, Commit, CommitSeen, memory, store
        <4> QED BY <2>1, <4>1 DEF Held
      <3> QED BY <3>1, <3>2
    <2>3. CASE q = p
      <3>1. inst'[q] = inst[q] /\ stale'[q] = stale[q] /\ Seen(q)' = Seen(q)
        BY <2>3 DEF End, Free, Seen, View, Commit, CommitSeen, memory, store, NowStale
      <3> QED BY <2>1, <3>1 DEF Held
    <2> QED BY <2>2, <2>3
  <1>8. BackupIsFile'
    BY DEF StoreInv, End, store, Free, Commit, CommitSeen, BackupIsFile, StoreType
  <1> QED BY <1>2, <1>3, <1>4, <1>5, <1>6, <1>7, <1>8 DEF StoreInv

\* Only objects of the process are collected.
LEMMA SaveBeginKeeps ==
    ASSUME StoreInv, NEW p \in Procs, NEW h \in Handles, NEW how \in {"own", "joined"},
           SaveBegin(p, h, how)
    PROVE  StoreInv'
  <1>1. DOMAIN inst[p] \subseteq Handles
          /\ \A g \in DOMAIN inst[p] : inst[p][g] \in Object
    BY ObjectsFacts DEF StoreInv, StoreType
  <1>2. collect_changes(p, h) \subseteq DOMAIN inst[p]
          /\ collect_changes(p, h) \subseteq Handles
    BY <1>1 DEF collect_changes, has
  <1>3. (how = "own") \in BOOLEAN /\ (how # "own" => txn[p])
    BY DEF SaveBegin, Cursors
  <1>4. saving' = [saving EXCEPT ![p] =
          [on |-> TRUE, own |-> how = "own", todo |-> collect_changes(p, h)]]
    BY DEF SaveBegin
  <1>5. [on |-> TRUE, own |-> how = "own", todo |-> collect_changes(p, h)] \in Frame
    BY <1>2 DEF Frame
  <1>6. StoreType'
    <2>1. saving' \in [Procs -> Frame]
      BY <1>4, <1>5 DEF StoreInv, StoreType
    <2>2. /\ file' \in Version /\ pending' \in Version
          /\ writer' \in Procs \cup {NoProc}
          /\ inst' \in [Procs -> Objects]
          /\ next_read' \in [Procs -> 0 .. (MaxId - 1) \cup {NoId}]
          /\ imp' \in [Procs -> {"no", "copied", "dropped"}]
          /\ backup' \in [Procs -> Version]
          /\ sets' \in Nat /\ calls' \in Nat
          /\ stale' \in [Procs -> SUBSET Ids]
          /\ written' \in [Procs -> SUBSET Ids]
      BY DEF StoreInv, StoreType, SaveBegin, store, memory, ghosts, CountCall
    <2>3. /\ txn' \in [Procs -> BOOLEAN]
          /\ loose' \in [Procs -> BOOLEAN] /\ split' \in [Procs -> BOOLEAN]
               /\ meanwhile' \in [Procs -> BOOLEAN]
      BY DEF StoreInv, StoreType, SaveBegin, ghosts
    <2> QED BY <2>1, <2>2, <2>3 DEF StoreType
  <1>7. FramesNest'
    <2>1. saving'[p].todo = collect_changes(p, h) /\ (~saving'[p].own => txn[p])
      BY <1>3, <1>4 DEF StoreInv, StoreType
    <2> QED BY <1>2, <2>1 DEF StoreInv, FramesNest, SaveBegin, Free, store, memory
  <1>8. FlagsAgree'
    BY DEF StoreInv, SaveBegin, memory, FlagsAgree
  <1>9. TransactionIsAtomic'
    BY DEF StoreInv, SaveBegin, store, ghosts, Free, AtRest, TransactionIsAtomic
  <1>10. LooseDeletes'
    BY DEF StoreInv, SaveBegin, store, LooseDeletes, Calling
  <1>11. HeldIsSeen'
    BY DEF StoreInv, SaveBegin, store, memory, ghosts, View, HeldIsSeen, Held, Seen
  <1>12. BackupIsFile'
    BY DEF StoreInv, SaveBegin, store, ghosts, BackupIsFile
  <1> QED BY <1>6, <1>7, <1>8, <1>9, <1>10, <1>11, <1>12 DEF StoreInv

\* A new object is neither loaded nor saved.
LEMMA NewKeeps ==
    ASSUME StoreInv, NEW p \in Procs, NEW how \in {"own", "joined"}, New(p, how)
    PROVE  StoreInv'
  <1>1. DOMAIN inst[p] \subseteq Handles
          /\ \A g \in DOMAIN inst[p] : inst[p][g] \in Object
    BY ObjectsFacts DEF StoreInv, StoreType
  <1>2. (how = "own") \in BOOLEAN /\ (how # "own" => txn[p]) /\ Created \in Handles
    BY DEF New, Cursors, Handles
  <1> DEFINE new == [id |-> NoId, val |-> [f \in Fields |-> sets + 1], saved |-> FALSE,
                      loaded |-> FALSE]
  <1>3. inst' = [inst EXCEPT ![p] =
          [h \in DOMAIN inst[p] \cup {Created} |-> IF h = Created THEN new
          ELSE inst[p][h]]]
    BY DEF New
  <1>4. [f \in Fields |-> sets + 1] \in Columns
    BY DEF StoreInv, StoreType, Columns
  <1>5. new \in Object /\ ~new.loaded /\ ~new.saved
    BY <1>4 DEF Object
  <1> HIDE DEF new
  <1>6. /\ DOMAIN inst'[p] = DOMAIN inst[p] \cup {Created}
        /\ inst'[p][Created] = new
        /\ \A h \in DOMAIN inst[p] : h # Created => inst'[p][h] = inst[p][h]
        /\ inst'[p] = [h \in DOMAIN inst'[p] |-> inst'[p][h]]
    BY <1>3 DEF StoreInv, StoreType
  <1>7. inst'[p] \in Objects
    <2>1. inst'[p] \in [DOMAIN inst[p] \cup {Created} -> Object]
      BY <1>1, <1>5, <1>6
    <2>2. DOMAIN inst[p] \cup {Created} \in SUBSET Handles
      BY <1>1, <1>2
    <2> QED BY <2>1, <2>2, ObjectsIntro
  <1>8. saving' = [saving EXCEPT ![p] =
          [on |-> TRUE, own |-> how = "own", todo |-> {Created}]]
    BY DEF New
  <1>9. [on |-> TRUE, own |-> how = "own", todo |-> {Created}] \in Frame
    BY <1>2 DEF Frame
  <1>10. StoreType'
    <2>1. inst' \in [Procs -> Objects]
      BY <1>3, <1>7 DEF StoreInv, StoreType
    <2>2. saving' \in [Procs -> Frame]
      BY <1>8, <1>9 DEF StoreInv, StoreType
    <2>3. sets' \in Nat /\ calls' \in Nat
      BY DEF StoreInv, StoreType, New, CountCall
    <2>4. /\ file' \in Version /\ pending' \in Version
          /\ writer' \in Procs \cup {NoProc}
          /\ next_read' \in [Procs -> 0 .. (MaxId - 1) \cup {NoId}]
          /\ imp' \in [Procs -> {"no", "copied", "dropped"}]
          /\ backup' \in [Procs -> Version]
          /\ stale' \in [Procs -> SUBSET Ids]
          /\ written' \in [Procs -> SUBSET Ids]
      BY DEF StoreInv, StoreType, New, store, ghosts
    <2>5. /\ txn' \in [Procs -> BOOLEAN]
          /\ loose' \in [Procs -> BOOLEAN] /\ split' \in [Procs -> BOOLEAN]
               /\ meanwhile' \in [Procs -> BOOLEAN]
      BY DEF StoreInv, StoreType, New, ghosts
    <2> QED BY <2>1, <2>2, <2>3, <2>4, <2>5 DEF StoreType
  <1>11. FramesNest'
    <2>1. saving'[p].todo = {Created} /\ (~saving'[p].own => txn[p])
      BY <1>2, <1>8 DEF StoreInv, StoreType
    <2> QED BY <1>6, <2>1 DEF StoreInv, FramesNest, New, Free, store
  <1>12. FlagsAgree'
    <2>1. \A q \in Procs \ {p} : inst'[q] = inst[q]
      BY <1>3
    <2> QED BY <1>5, <1>6, <2>1 DEF StoreInv, FlagsAgree
  <1>13. TransactionIsAtomic'
    BY DEF StoreInv, New, store, ghosts, Free, AtRest, TransactionIsAtomic
  <1>14. LooseDeletes'
    BY DEF StoreInv, New, store, LooseDeletes, Calling
  <1>15. HeldIsSeen'
    <2> SUFFICES ASSUME NEW q \in Procs PROVE Held(q)'
      BY DEF HeldIsSeen
    <2> USE DEF StoreInv
    <2>1. Held(q)
      BY DEF HeldIsSeen
    <2>2. CASE q # p
      <3>1. inst'[q] = inst[q] /\ stale'[q] = stale[q] /\ Seen(q)' = Seen(q)
        BY <2>2 DEF New, Seen, View, store, ghosts
      <3> QED BY <2>1, <3>1 DEF Held
    <2>3. CASE q = p
      <3>1. stale'[p] = stale[p] /\ Seen(p)' = Seen(p)
        BY DEF New, Seen, View, store, ghosts
      <3> QED BY <1>5, <1>6, <2>1, <2>3, <3>1 DEF Held
    <2> QED BY <2>2, <2>3
  <1>16. BackupIsFile'
    BY DEF StoreInv, New, store, ghosts, BackupIsFile
  <1> QED BY <1>10, <1>11, <1>12, <1>13, <1>14, <1>15, <1>16 DEF StoreInv

\* The counter that was read is below the bound.
LEMMA ReadNextIdKeeps ==
    ASSUME StoreInv, NEW p \in Procs, ReadNextId(p)
    PROVE  StoreInv'
  <1>1. View(p).next \in Nat /\ View(p).next < MaxId
    BY ViewVersion, VersionFacts DEF StoreInv, ReadNextId
  <1>2. View(p).next \in 0 .. (MaxId - 1)
    BY <1>1, StoreAssumption
  <1>3. StoreType'
    <2>1. next_read' \in [Procs -> 0 .. (MaxId - 1) \cup {NoId}]
      BY <1>2 DEF StoreInv, StoreType, ReadNextId
    <2>2. /\ file' \in Version /\ pending' \in Version
          /\ writer' \in Procs \cup {NoProc}
          /\ inst' \in [Procs -> Objects]
          /\ imp' \in [Procs -> {"no", "copied", "dropped"}]
          /\ backup' \in [Procs -> Version]
          /\ sets' \in Nat /\ calls' \in Nat
          /\ stale' \in [Procs -> SUBSET Ids]
          /\ written' \in [Procs -> SUBSET Ids]
      BY DEF StoreInv, StoreType, ReadNextId, store, memory, ghosts
    <2>3. /\ txn' \in [Procs -> BOOLEAN]
          /\ saving' \in [Procs -> Frame]
          /\ loose' \in [Procs -> BOOLEAN] /\ split' \in [Procs -> BOOLEAN]
               /\ meanwhile' \in [Procs -> BOOLEAN]
      BY DEF StoreInv, StoreType, ReadNextId, ghosts
    <2> QED BY <2>1, <2>2, <2>3 DEF StoreType
  <1>4. FramesNest'
    BY DEF StoreInv, ReadNextId, store, memory, FramesNest
  <1>5. FlagsAgree'
    BY DEF StoreInv, ReadNextId, memory, FlagsAgree
  <1>6. TransactionIsAtomic'
    BY DEF StoreInv, ReadNextId, store, ghosts, Free, AtRest, TransactionIsAtomic
  <1>7. LooseDeletes'
    BY DEF StoreInv, ReadNextId, store, LooseDeletes, Calling
  <1>8. HeldIsSeen'
    BY DEF StoreInv, ReadNextId, store, memory, ghosts, View, HeldIsSeen, Held, Seen
  <1>9. BackupIsFile'
    BY DEF StoreInv, ReadNextId, store, ghosts, BackupIsFile
  <1> QED BY <1>3, <1>4, <1>5, <1>6, <1>7, <1>8, <1>9 DEF StoreInv

\* A saved object has the values that were just written to its row. Another
\* object with the same id is stale now, and no third one has the row.
LEMMA SaveOneKeeps ==
    ASSUME StoreInv, NEW p \in Procs, NEW h \in Handles, SaveOne(p, h)
    PROVE  StoreInv'
  <1>1. View(p) \in Version /\ View(p).rows \in Rows
          /\ DOMAIN View(p).rows \subseteq Ids
        /\ \A k \in DOMAIN View(p).rows : View(p).rows[k] \in Columns
    BY ViewVersion, VersionFacts, RowsFacts DEF StoreInv
  <1>2. DOMAIN inst[p] \subseteq Handles
          /\ \A g \in DOMAIN inst[p] : inst[p][g] \in Object
    BY ObjectsFacts DEF StoreInv, StoreType
  <1> DEFINE o == inst[p][h]
             id == IF o.id = NoId THEN next_read[p] + 1 ELSE o.id
  <1>3. h \in DOMAIN inst[p] /\ o \in Object /\ imp[p] = "no"
    BY <1>2 DEF StoreInv, FramesNest, SaveOne, Targets
  <1>4. id \in Ids
    <2>1. CASE o.id = NoId
      <3>1. next_read[p] \in 0 .. (MaxId - 1)
        BY <2>1 DEF StoreInv, StoreType, SaveOne
      <3>2. next_read[p] + 1 \in 1 .. MaxId
        BY <3>1, StoreAssumption
      <3> QED BY <2>1, <3>2 DEF Ids, CellIds
    <2>2. CASE o.id # NoId
      BY <1>3, <2>2 DEF Object
    <2> QED BY <2>1, <2>2
  <1>5. serialized(o) = o.val /\ o.val \in Columns
    BY <1>3 DEF serialized, Object, Columns
  <1>6. /\ pending' \in Version
        /\ DOMAIN pending'.rows =
             DOMAIN View(p).rows \cup (IF o.loaded THEN {} ELSE {id})
        /\ \A k \in DOMAIN pending'.rows : pending'.rows[k] = IF k = id THEN o.val
             ELSE View(p).rows[k]
    <2>1. pending' = stored(View(p), ~o.loaded, id, o.val)
      BY <1>5 DEF SaveOne, Write
    <2>2. View(p) = [rows |-> View(p).rows, next |-> View(p).next]
            /\ View(p).next \in Nat /\ id \in Nat
      BY <1>1, <1>4, VersionFacts, IdsFacts
    <2> HIDE DEF o, id
    <2>3. CASE o.loaded
      <3>1. pending' = [rows |-> [k \in DOMAIN View(p).rows |-> IF k = id THEN o.val
              ELSE View(p).rows[k]],
                        next |-> View(p).next]
        BY <2>1, <2>2, <2>3 DEF stored
      <3>2. pending' \in Version
        BY <1>1, <1>4, <1>5, <2>2, <3>1, StoredVersion
      <3> QED BY <2>3, <3>1, <3>2
    <2>4. CASE ~o.loaded
      <3>1. pending' = [rows |-> [k \in DOMAIN View(p).rows \cup {id} |-> IF k = id
              THEN o.val ELSE View(p).rows[k]],
                        next |-> id]
        BY <2>1, <2>4 DEF stored
      <3>2. pending' \in Version
        BY <1>1, <1>4, <1>5, <2>2, <3>1, StoredVersion
      <3> QED BY <2>4, <3>1, <3>2
    <2> QED BY <2>3, <2>4
  <1>7. writer' = p /\ file' = file /\ writer \in {p, NoProc}
    BY DEF SaveOne, Write, CanWrite
  <1>8. inst' = [inst EXCEPT ![p] = [inst[p] EXCEPT ![h] = cleared(o, id)]]
    BY DEF SaveOne
  <1>9. cleared(o, id) \in Object /\ cleared(o, id).id = id
          /\ cleared(o, id).val = o.val /\ cleared(o, id).loaded
    BY <1>3, <1>4 DEF cleared, Object
  <1>10. stale'[p] = IF \E g \in DOMAIN inst[p] \ {h} : inst[p][g].id = id
           THEN stale[p] \cup {id} ELSE stale[p]
    BY DEF SaveOne, StoreInv, StoreType
  <1>11. \A q \in Procs \ {p} : stale'[q] = stale[q]
    BY DEF SaveOne
  <1>12. stale' \in [Procs -> SUBSET Ids] /\ written' \in [Procs -> SUBSET Ids]
    BY <1>4 DEF SaveOne, StoreInv, StoreType
  <1> HIDE DEF o, id
  <1>13. /\ DOMAIN inst'[p] = DOMAIN inst[p]
         /\ inst'[p][h] = cleared(o, id)
         /\ \A g \in DOMAIN inst[p] : g # h => inst'[p][g] = inst[p][g]
         /\ inst'[p] = [g \in DOMAIN inst'[p] |-> inst'[p][g]]
    BY <1>3, <1>8 DEF StoreInv, StoreType
  <1>14. \A q \in Procs \ {p} : inst'[q] = inst[q]
    BY <1>8
  <1>15. inst'[p] \in Objects
    <2>1. inst'[p] \in [DOMAIN inst[p] -> Object]
      BY <1>2, <1>9, <1>13
    <2> QED BY <1>2, <2>1, ObjectsIntro
  <1>16. StoreType'
    <2>1. file' \in Version /\ pending' \in Version
      BY <1>6, <1>7 DEF StoreInv, StoreType
    <2>2. writer' \in Procs \cup {NoProc}
      BY <1>7
    <2>3. inst' \in [Procs -> Objects]
      BY <1>8, <1>15 DEF StoreInv, StoreType
    <2>4. saving' \in [Procs -> Frame]
      BY DEF SaveOne, StoreInv, StoreType, Frame
    <2>5. stale' \in [Procs -> SUBSET Ids]
      BY <1>12
    <2>6. written' \in [Procs -> SUBSET Ids]
      BY <1>12
    <2>7. /\ next_read' \in [Procs -> 0 .. (MaxId - 1) \cup {NoId}]
          /\ imp' \in [Procs -> {"no", "copied", "dropped"}]
          /\ backup' \in [Procs -> Version]
          /\ sets' \in Nat /\ calls' \in Nat
      BY DEF StoreInv, StoreType, SaveOne
    <2>8. /\ txn' \in [Procs -> BOOLEAN]
          /\ loose' \in [Procs -> BOOLEAN] /\ split' \in [Procs -> BOOLEAN]
               /\ meanwhile' \in [Procs -> BOOLEAN]
      BY DEF StoreInv, StoreType, SaveOne
    <2> QED BY <2>1, <2>2, <2>3, <2>4, <2>5, <2>6, <2>7, <2>8 DEF StoreType
  <1>17. FramesNest'
    BY <1>7, StoreAssumption DEF StoreInv, FramesNest, SaveOne
  <1>18. FlagsAgree'
    BY <1>4, <1>9, <1>13, <1>14 DEF StoreInv, FlagsAgree
  <1>19. TransactionIsAtomic'
    <2>1. txn' = txn /\ split' = split /\ loose' = loose /\ imp' = imp /\ writer' = p
      BY <1>7 DEF SaveOne
    <2>2. \A q \in Procs \ {p} : written'[q] = written[q] /\ saving'[q] = saving[q]
      BY DEF SaveOne
    <2>3. saving'[p].on
      BY DEF SaveOne
    <2>4. \A q \in Procs \ {p} : ~(txn[q] /\ ~split[q] /\ written[q] # {})
      BY <1>7, StoreAssumption DEF StoreInv, TransactionIsAtomic
    <2> QED BY <2>1, <2>2, <2>3, <2>4 DEF TransactionIsAtomic, AtRest, Free
  <1>20. LooseDeletes'
    BY <1>7 DEF LooseDeletes, SaveOne, Calling
  <1>21. HeldIsSeen'
    <2> SUFFICES ASSUME NEW q \in Procs PROVE Held(q)'
      BY DEF HeldIsSeen
    <2> USE DEF StoreInv
    <2>1. Held(q)
      BY DEF HeldIsSeen
    <2>2. CASE q # p
      <3>1. inst'[q] = inst[q] /\ stale'[q] = stale[q] /\ Seen(q)' = Seen(q)
        BY <2>2, <1>7, <1>11, <1>14, StoreAssumption DEF Seen, View
      <3> QED BY <2>1, <3>1 DEF Held
    <2>3. CASE q = p
      <3>1. Seen(p) = View(p) /\ Seen(p)' = pending'
        BY <1>3, <1>7 DEF Seen, View, SaveOne
      <3>2. \A g \in DOMAIN inst[p] \ {h} : inst[p][g].id \notin stale'[p] =>
              inst[p][g].id # id /\ inst[p][g].id \notin stale[p]
        BY <1>10
      <3>3. o.loaded => o.id = id
        BY <1>3, IdsFacts DEF FlagsAgree, o, id
      <3>4. id \notin stale'[p] => id \in DOMAIN pending'.rows
        <4>1. CASE o.loaded
          BY <1>3, <1>6, <1>10, <2>1, <2>3, <3>1, <3>3 DEF Held, o
        <4>2. CASE ~o.loaded
          BY <1>6, <4>2
        <4> QED BY <4>1, <4>2
      <3>5. \A g \in DOMAIN inst[p] \ {h} : inst'[p][g].loaded
              /\ inst'[p][g].id \notin stale'[p] =>
                /\ inst'[p][g].id \in DOMAIN pending'.rows
                /\ inst'[p][g].saved => pending'.rows[inst'[p][g].id] = inst'[p][g].val
        BY <1>6, <1>13, <2>1, <2>3, <3>1, <3>2 DEF Held
      <3>6. inst'[p][h].id \notin stale'[p] =>
                /\ inst'[p][h].id \in DOMAIN pending'.rows
                /\ pending'.rows[inst'[p][h].id] = inst'[p][h].val
        BY <1>6, <1>9, <1>13, <3>4
      <3> QED BY <1>13, <2>3, <3>1, <3>5, <3>6 DEF Held
    <2> QED BY <2>2, <2>3
  <1>22. BackupIsFile'
    BY <1>7, StoreAssumption DEF StoreInv, BackupIsFile, FramesNest, SaveOne
  <1> QED BY <1>16, <1>17, <1>18, <1>19, <1>20, <1>21, <1>22 DEF StoreInv

\* The end of a save is a commit, or leaves everything to its caller.
LEMMA SaveEndKeeps ==
    ASSUME StoreInv, NEW p \in Procs, SaveEnd(p)
    PROVE  StoreInv'
  <1>1. file' \in Version /\ pending' \in Version
          /\ Changed(file, pending) \subseteq Ids
    BY ChangedFacts DEF StoreInv, StoreType, SaveEnd, Commit, store
  <1>2. StoreType'
    <2>1. file' \in Version /\ pending' \in Version
      BY <1>1
    <2>2. stale' \in [Procs -> SUBSET Ids]
      BY <1>1 DEF StoreInv, StoreType, SaveEnd, CommitSeen, NowStale
    <2>3. /\ writer' \in Procs \cup {NoProc}
          /\ inst' \in [Procs -> Objects]
          /\ next_read' \in [Procs -> 0 .. (MaxId - 1) \cup {NoId}]
          /\ imp' \in [Procs -> {"no", "copied", "dropped"}]
          /\ backup' \in [Procs -> Version]
          /\ sets' \in Nat /\ calls' \in Nat
          /\ written' \in [Procs -> SUBSET Ids]
      BY DEF StoreInv, StoreType, SaveEnd, store, memory, Commit
    <2>4. /\ txn' \in [Procs -> BOOLEAN]
          /\ saving' \in [Procs -> Frame]
          /\ loose' \in [Procs -> BOOLEAN] /\ split' \in [Procs -> BOOLEAN]
               /\ meanwhile' \in [Procs -> BOOLEAN]
      BY IdsFacts, NoBackupVersion DEF StoreInv, StoreType, Frame, SaveEnd, store,
         memory, frames, ghosts, Free, AtRest, CountCall, Commit, CommitSeen, Rollback,
         Write, CanWrite, NowStale, NoSave, View, Calling
    <2> QED BY <2>1, <2>2, <2>3, <2>4 DEF StoreType
  <1>3. FramesNest'
    BY DEF StoreInv, SaveEnd, store, memory, Commit, NoSave, FramesNest
  <1>4. FlagsAgree'
    BY DEF StoreInv, SaveEnd, memory, FlagsAgree
  <1>5. TransactionIsAtomic'
    BY StoreAssumption DEF StoreInv, SaveEnd, store, Free, AtRest, Commit, CommitSeen,
       TransactionIsAtomic, FramesNest, StoreType
  <1>6. LooseDeletes'
    BY DEF StoreInv, SaveEnd, store, Commit, LooseDeletes, FramesNest, Calling
  <1>7. HeldIsSeen'
    <2>1. CASE saving[p].own
      <3> SUFFICES ASSUME NEW q \in Procs PROVE Held(q)'
        BY DEF HeldIsSeen
      <3> USE DEF StoreInv
      <3>1. Held(q) /\ imp[p] = "no"
        BY DEF HeldIsSeen, SaveEnd, FramesNest
      <3>2. CASE q # p /\ writer = p
        <4>1. inst'[q] = inst[q] /\ stale'[q] = stale[q] \cup Changed(file, pending)
          BY <2>1, <3>2 DEF SaveEnd, CommitSeen, memory, NowStale
        <4>2. Seen(q) = file /\ Seen(q)' = pending
          BY <2>1, <3>2 DEF SaveEnd, Seen, View, Commit
        <4>3. Follows(file, pending, stale'[q])
          BY <4>1, ChangedFacts DEF StoreType
        <4> QED BY <3>1, <4>1, <4>2, <4>3, HeldStays
      <3>3. CASE q = p \/ writer # p
        <4>1. inst'[q] = inst[q] /\ stale'[q] = stale[q] /\ Seen(q)' = Seen(q)
          BY <3>1, <3>3 DEF SaveEnd, Seen, View, Commit, CommitSeen, memory, store,
             NowStale
        <4> QED BY <3>1, <4>1 DEF Held
      <3> QED BY <3>2, <3>3
    <2>2. CASE ~saving[p].own
      BY <2>2 DEF StoreInv, HeldIsSeen, Held, SaveEnd, Seen, View, memory, store
    <2> QED BY <2>1, <2>2
  <1>8. BackupIsFile'
    <2>1. CASE saving[p].own
      <3>1. \A q \in Procs : imp[q] # "no" /\ ~meanwhile'[q] =>
              ~meanwhile[q] /\ (q = p \/ writer # p)
        BY <2>1 DEF SaveEnd, CommitSeen
      <3>2. imp[p] = "no" /\ (writer # p => UNCHANGED store)
              /\ UNCHANGED <<imp, backup>>
        BY DEF SaveEnd, Commit, StoreInv, FramesNest
      <3> QED BY <3>1, <3>2 DEF StoreInv, BackupIsFile, store
    <2>2. CASE ~saving[p].own
      BY <2>2 DEF StoreInv, BackupIsFile, SaveEnd, store
    <2> QED BY <2>1, <2>2
  <1> QED BY <1>2, <1>3, <1>4, <1>5, <1>6, <1>7, <1>8 DEF StoreInv

\* The object of a row that was deleted is stale, in this process at once, in
\* the others with the commit.
LEMMA DeleteKeeps ==
    ASSUME StoreInv, NEW p \in Procs, NEW h \in Handles, NEW how \in {"own", "joined"},
           Delete(p, h, how)
    PROVE  StoreInv'
  <1>1. View(p) \in Version /\ View(p).rows \in Rows
          /\ DOMAIN View(p).rows \subseteq Ids
        /\ \A k \in DOMAIN View(p).rows : View(p).rows[k] \in Columns
    BY ViewVersion, VersionFacts, RowsFacts DEF StoreInv
  <1> DEFINE id == inst[p][h].id
             new == [View(p) EXCEPT !.rows = Restrict(@, DOMAIN @ \ {id})]
  <1>2. /\ new \in Version /\ DOMAIN new.rows = DOMAIN View(p).rows \ {id}
        /\ \A k \in DOMAIN new.rows : new.rows[k] = View(p).rows[k]
        /\ new.next = View(p).next
    <2> DEFINE S == DOMAIN View(p).rows \ {id}
    <2>1. new = [View(p) EXCEPT !.rows = Restrict(@, S)]
      OBVIOUS
    <2>2. S \in SUBSET DOMAIN View(p).rows
      OBVIOUS
    <2> HIDE DEF new, S, id
    <2>3. /\ new \in Version /\ DOMAIN new.rows = S
          /\ \A k \in S : new.rows[k] = View(p).rows[k]
          /\ new.next = View(p).next
      BY <1>1, <2>1, <2>2, RestrictFacts
    <2> QED BY <2>3 DEF S
  <1>3. id \in Ids /\ h \in DOMAIN inst[p]
    BY <1>1 DEF Delete, has
  <1>4. imp[p] = "no" /\ writer \in {p, NoProc} /\ (how # "own" => txn[p])
          /\ ~saving[p].on
    BY DEF Delete, Free, CanWrite, Cursors
  <1>5. how = "own" => /\ file' = new /\ pending' = new /\ writer' = NoProc
                       /\ stale' = [NowStale(Procs \ {p},
                            Changed(file, new)) EXCEPT ![p] = @ \cup {id}]
                       /\ loose' = [loose EXCEPT ![p] = FALSE]
                       /\ meanwhile' = [q \in Procs |-> imp[q] # "no"
                            /\ (meanwhile[q] \/ q # p)]
    BY DEF Delete
  <1>6. how # "own" => /\ pending' = new /\ writer' = p /\ file' = file
                       /\ stale' = [stale EXCEPT ![p] = @ \cup {id}]
                       /\ loose' = loose /\ meanwhile' = meanwhile
    BY DEF Delete, Write
  <1>7. written' = [written EXCEPT ![p] = IF txn[p] THEN @ \cup {id} ELSE @]
    BY DEF Delete
  <1>8. UNCHANGED <<inst, sets, txn, saving, next_read, imp, backup>>
    BY DEF Delete, memory
  <1> HIDE DEF id, new
  <1>9. Changed(file, new) \subseteq Ids
    BY <1>2, ChangedFacts DEF StoreInv, StoreType
  <1>10. stale'[p] = stale[p] \cup {id} /\ stale' \in [Procs -> SUBSET Ids]
    <2>1. CASE how = "own"
      <3>1. stale' = [[q \in Procs |-> IF q \in Procs \ {p}
              THEN stale[q] \cup Changed(file, new) ELSE stale[q]]
                         EXCEPT ![p] = stale[p] \cup {id}]
        BY <1>5, <2>1 DEF NowStale
      <3> QED BY <1>3, <1>9, <3>1 DEF StoreInv, StoreType
    <2>2. CASE how # "own"
      BY <1>3, <1>6, <2>2 DEF StoreInv, StoreType
    <2> QED BY <2>1, <2>2
  <1>11. StoreType'
    <2>1. file' \in Version /\ pending' \in Version
      BY <1>2, <1>5, <1>6 DEF StoreInv, StoreType
    <2>2. writer' \in Procs \cup {NoProc}
      BY <1>5, <1>6
    <2>3. stale' \in [Procs -> SUBSET Ids]
      BY <1>10
    <2>4. loose' \in [Procs -> BOOLEAN] /\ split' \in [Procs -> BOOLEAN]
            /\ meanwhile' \in [Procs -> BOOLEAN]
      <3>1. split' \in [Procs -> BOOLEAN]
        BY DEF StoreInv, StoreType, Delete
      <3>2. CASE how = "own"
        BY <1>5, <3>1, <3>2 DEF StoreInv, StoreType
      <3>3. CASE how # "own"
        BY <1>6, <3>1, <3>3 DEF StoreInv, StoreType
      <3> QED BY <3>2, <3>3
    <2>5. written' \in [Procs -> SUBSET Ids]
      BY <1>3, <1>7 DEF StoreInv, StoreType
    <2>6. /\ inst' \in [Procs -> Objects]
          /\ next_read' \in [Procs -> 0 .. (MaxId - 1) \cup {NoId}]
          /\ imp' \in [Procs -> {"no", "copied", "dropped"}]
          /\ backup' \in [Procs -> Version]
          /\ sets' \in Nat /\ calls' \in Nat
      BY DEF StoreInv, StoreType, Delete, memory, CountCall
    <2>7. /\ txn' \in [Procs -> BOOLEAN]
          /\ saving' \in [Procs -> Frame]
      BY DEF StoreInv, StoreType, Delete
    <2> QED BY <2>1, <2>2, <2>3, <2>4, <2>5, <2>6, <2>7 DEF StoreType
  <1>12. FramesNest'
    BY <1>4, <1>8, StoreAssumption DEF StoreInv, FramesNest
  <1>13. FlagsAgree'
    BY <1>8 DEF StoreInv, FlagsAgree
  <1>14. TransactionIsAtomic'
    <2>1. split' = [split EXCEPT ![p] = txn[p] /\ (@ \/ how = "own")]
      BY DEF Delete
    <2>2. \A q \in Procs \ {p} : written'[q] = written[q] /\ split'[q] = split[q]
            /\ loose'[q] = loose[q]
      BY <1>5, <1>6, <1>7, <2>1 DEF StoreInv, StoreType
    <2>3. \A q \in Procs \ {p} : writer # q /\ writer' # q
      BY <1>4, <1>5, <1>6, StoreAssumption
    <2>4. txn[p] /\ ~split'[p] => writer' = p
      BY <1>6, <2>1 DEF StoreInv, StoreType
    <2>5. writer' = p => txn[p]
      BY <1>4, <1>5, StoreAssumption
    <2>6. \A q \in Procs : txn'[q] = txn[q] /\ (AtRest(q)' <=> AtRest(q))
            /\ (AtRest(q) => ~txn[q])
      BY <1>8 DEF AtRest, Free
    <2>7. \A q \in Procs : txn'[q] /\ ~split'[q] /\ written'[q] # {} => writer' = q
      BY <2>2, <2>3, <2>4, <2>6 DEF StoreInv, TransactionIsAtomic
    <2>8. \A q \in Procs : AtRest(q)' /\ writer' = q => loose'[q]
      BY <2>3, <2>5, <2>6
    <2> QED BY <2>7, <2>8 DEF TransactionIsAtomic
  <1>15. LooseDeletes'
    <2>1. \A q \in Importers : q # p => writer' # q
      BY <1>5, <1>6, StoreAssumption
    <2>2. writer' = p => txn'[p]
      BY <1>4, <1>5, <1>8, StoreAssumption
    <2> QED BY <2>1, <2>2 DEF LooseDeletes, Calling
  <1>16. HeldIsSeen'
    <2> SUFFICES ASSUME NEW q \in Procs PROVE Held(q)'
      BY DEF HeldIsSeen
    <2> USE DEF StoreInv
    <2>1. Held(q)
      BY DEF HeldIsSeen
    <2>2. CASE q # p
      <3>1. inst'[q] = inst[q] /\ Seen(q) = file /\ Seen(q)' = file'
        BY <2>2, <1>4, <1>5, <1>6, <1>8, StoreAssumption DEF Seen, View
      <3>2. stale[q] \subseteq stale'[q] /\ Follows(file, file', stale'[q])
        <4>1. CASE how = "own"
          <5>1. stale'[q] = stale[q] \cup Changed(file, new)
            BY <1>5, <2>2, <4>1 DEF StoreType, NowStale
          <5>2. Follows(file, new, stale'[q])
            BY <1>2, <5>1, ChangedFacts DEF StoreType
          <5> QED BY <1>5, <4>1, <5>1, <5>2
        <4>2. CASE how # "own"
          BY <1>6, <4>2 DEF Follows, StoreType
        <4> QED BY <4>1, <4>2
      <3> QED BY <2>1, <3>1, <3>2, HeldStays
    <2>3. CASE q = p
      <3>1. inst'[q] = inst[q] /\ Seen(q) = View(p) /\ Seen(q)' = new
        BY <2>3, <1>4, <1>5, <1>6, <1>8 DEF Seen, View
      <3>2. Follows(View(p), new, stale'[q])
        BY <1>2, <1>10, <2>3 DEF Follows
      <3> QED BY <1>10, <2>1, <2>3, <3>1, <3>2, HeldStays
    <2> QED BY <2>2, <2>3
  <1>17. BackupIsFile'
    <2>1. CASE how = "own"
      BY <1>4, <1>5, <1>8, <2>1 DEF StoreInv, BackupIsFile
    <2>2. CASE how # "own"
      BY <1>4, <1>6, <1>8, <2>2, StoreAssumption DEF StoreInv, BackupIsFile, FramesNest
    <2> QED BY <2>1, <2>2
  <1> QED BY <1>11, <1>12, <1>13, <1>14, <1>15, <1>16, <1>17 DEF StoreInv

\* The same, for a row that is deleted outside of all calls.
LEMMA DeleteWhereKeeps ==
    ASSUME StoreInv, NEW p \in Procs, NEW k \in CellIds, DeleteWhere(p, k)
    PROVE  StoreInv'
  <1>1. View(p) \in Version /\ View(p).rows \in Rows
          /\ DOMAIN View(p).rows \subseteq Ids
        /\ \A g \in DOMAIN View(p).rows : View(p).rows[g] \in Columns
    BY ViewVersion, VersionFacts, RowsFacts DEF StoreInv
  <1> DEFINE new == [View(p) EXCEPT !.rows = Restrict(@, DOMAIN @ \ {k})]
  <1>2. /\ new \in Version /\ DOMAIN new.rows = DOMAIN View(p).rows \ {k}
        /\ \A i \in DOMAIN new.rows : new.rows[i] = View(p).rows[i]
        /\ new.next = View(p).next
    <2> DEFINE S == DOMAIN View(p).rows \ {k}
    <2>1. new = [View(p) EXCEPT !.rows = Restrict(@, S)]
      OBVIOUS
    <2>2. S \in SUBSET DOMAIN View(p).rows
      OBVIOUS
    <2> HIDE DEF new, S
    <2>3. /\ new \in Version /\ DOMAIN new.rows = S
          /\ \A i \in S : new.rows[i] = View(p).rows[i]
          /\ new.next = View(p).next
      BY <1>1, <2>1, <2>2, RestrictFacts
    <2> QED BY <2>3 DEF S
  <1>3. imp[p] = "no" /\ writer \in {p, NoProc} /\ ~txn[p] /\ ~saving[p].on /\ k \in Ids
    BY IdsFacts DEF DeleteWhere, AtRest, Free, CanWrite
  <1>4. pending' = new /\ writer' = p /\ file' = file
    BY DEF DeleteWhere, Write
  <1>5. stale'[p] = stale[p] \cup {k} /\ \A q \in Procs \ {p} : stale'[q] = stale[q]
    BY DEF StoreInv, StoreType, DeleteWhere
  <1>6. UNCHANGED <<inst, sets, txn, saving, next_read, imp, backup>>
    BY DEF DeleteWhere, memory, frames
  <1> HIDE DEF new
  <1>7. StoreType'
    <2>1. file' \in Version /\ pending' \in Version
      BY <1>2, <1>4 DEF StoreInv, StoreType
    <2>2. writer' \in Procs \cup {NoProc}
      BY <1>4
    <2>3. /\ inst' \in [Procs -> Objects]
          /\ next_read' \in [Procs -> 0 .. (MaxId - 1) \cup {NoId}]
          /\ imp' \in [Procs -> {"no", "copied", "dropped"}]
          /\ backup' \in [Procs -> Version]
          /\ sets' \in Nat /\ calls' \in Nat
          /\ stale' \in [Procs -> SUBSET Ids]
          /\ written' \in [Procs -> SUBSET Ids]
      BY IdsFacts DEF StoreInv, StoreType, DeleteWhere, memory, frames, CountCall
    <2>4. /\ txn' \in [Procs -> BOOLEAN]
          /\ saving' \in [Procs -> Frame]
          /\ loose' \in [Procs -> BOOLEAN] /\ split' \in [Procs -> BOOLEAN]
               /\ meanwhile' \in [Procs -> BOOLEAN]
      BY DEF StoreInv, StoreType, DeleteWhere, frames
    <2> QED BY <2>1, <2>2, <2>3, <2>4 DEF StoreType
  <1>8. FramesNest'
    BY <1>3, <1>6, StoreAssumption DEF StoreInv, FramesNest
  <1>9. FlagsAgree'
    BY <1>6 DEF StoreInv, FlagsAgree
  <1>10. TransactionIsAtomic'
    BY <1>3, <1>4, <1>6, StoreAssumption DEF StoreInv, DeleteWhere, TransactionIsAtomic,
       StoreType
  <1>11. LooseDeletes'
    <2>1. p \in Importers => /\ View(p).next = file.next
                             /\ \A i \in DOMAIN View(p).rows : i \in DOMAIN file.rows
                                  /\ View(p).rows[i] = file.rows[i]
      BY <1>3 DEF StoreInv, LooseDeletes, View, Calling
    <2> QED BY <1>2, <1>4, <2>1 DEF LooseDeletes
  <1>12. HeldIsSeen'
    <2> SUFFICES ASSUME NEW q \in Procs PROVE Held(q)'
      BY DEF HeldIsSeen
    <2> USE DEF StoreInv
    <2>1. Held(q)
      BY DEF HeldIsSeen
    <2>2. CASE q # p
      <3>1. inst'[q] = inst[q] /\ stale'[q] = stale[q] /\ Seen(q)' = Seen(q)
        BY <2>2, <1>3, <1>4, <1>5, <1>6, StoreAssumption DEF Seen, View
      <3> QED BY <2>1, <3>1 DEF Held
    <2>3. CASE q = p
      <3>1. inst'[q] = inst[q] /\ Seen(q) = View(p) /\ Seen(q)' = new
        BY <2>3, <1>3, <1>4, <1>6 DEF Seen, View
      <3>2. Follows(View(p), new, stale'[q])
        BY <1>2, <1>5, <2>3 DEF Follows
      <3> QED BY <1>5, <2>1, <3>1, <3>2, HeldStays
    <2> QED BY <2>2, <2>3
  <1>13. BackupIsFile'
    BY <1>2, <1>4, <1>6 DEF StoreInv, DeleteWhere, View, BackupIsFile
  <1> QED BY <1>7, <1>8, <1>9, <1>10, <1>11, <1>12, <1>13 DEF StoreInv

\* A rollback takes back what the objects were saved to: they are stale.
LEMMA RaiseKeeps ==
    ASSUME StoreInv, NEW p \in Procs, Raise(p)
    PROVE  StoreInv'
  <1>1. file' = file /\ pending' \in Version /\ writer' \in Procs \cup {NoProc}
          /\ writer' # p
        /\ (writer # p => pending' = pending /\ writer' = writer)
             /\ (writer = p => writer' = NoProc)
    BY StoreAssumption DEF StoreInv, StoreType, Raise, Rollback
  <1>2. DOMAIN inst[p] \subseteq Handles
          /\ \A g \in DOMAIN inst[p] : inst[p][g] \in Object
    BY ObjectsFacts DEF StoreInv, StoreType
  <1> DEFINE S == {h \in DOMAIN inst[p] : h # Created
                    \/ inst[p][h].id \in DOMAIN file.rows}
  <1>3. inst' = [inst EXCEPT ![p] = [h \in S |-> inst[p][h]]]
          /\ S \subseteq DOMAIN inst[p]
    BY DEF Raise, Restrict
  <1> HIDE DEF S
  <1>4. /\ DOMAIN inst'[p] \subseteq DOMAIN inst[p]
        /\ \A h \in DOMAIN inst'[p] : inst'[p][h] = inst[p][h]
    BY <1>3
  <1>5. \A q \in Procs \ {p} : inst'[q] = inst[q]
    BY <1>3
  <1>6. inst'[p] \in Objects
    <2>1. [h \in S |-> inst[p][h]] \in [S -> Object] /\ S \in SUBSET Handles
      BY <1>2, <1>3
    <2> QED BY <1>3, <2>1, ObjectsIntro DEF StoreInv, StoreType
  <1>7. stale' = IF writer = p THEN NowStale({p}, Changed(file, pending)) ELSE stale
    BY DEF Raise
  <1>8. Changed(file, pending) \subseteq Ids
    BY ChangedFacts DEF StoreInv, StoreType
  <1>9. /\ stale'[p] = IF writer = p THEN stale[p] \cup Changed(file, pending)
             ELSE stale[p]
        /\ \A q \in Procs \ {p} : stale'[q] = stale[q]
    BY <1>7 DEF NowStale
  <1>10. StoreType'
    <2>1. file' \in Version /\ pending' \in Version
      BY <1>1 DEF StoreInv, StoreType
    <2>2. writer' \in Procs \cup {NoProc}
      BY <1>1
    <2>3. inst' \in [Procs -> Objects]
      BY <1>3, <1>6 DEF StoreInv, StoreType
    <2>4. stale' \in [Procs -> SUBSET Ids]
      BY <1>7, <1>8 DEF NowStale, StoreInv, StoreType
    <2>5. /\ next_read' \in [Procs -> 0 .. (MaxId - 1) \cup {NoId}]
          /\ imp' \in [Procs -> {"no", "copied", "dropped"}]
          /\ backup' \in [Procs -> Version]
          /\ sets' \in Nat /\ calls' \in Nat
          /\ written' \in [Procs -> SUBSET Ids]
      BY DEF StoreInv, StoreType, Raise, Rollback
    <2>6. /\ txn' \in [Procs -> BOOLEAN]
          /\ saving' \in [Procs -> Frame]
          /\ loose' \in [Procs -> BOOLEAN] /\ split' \in [Procs -> BOOLEAN]
               /\ meanwhile' \in [Procs -> BOOLEAN]
      BY DEF StoreInv, StoreType, Frame, Raise, Rollback, NoSave
    <2> QED BY <2>1, <2>2, <2>3, <2>4, <2>5, <2>6 DEF StoreType
  <1>11. FramesNest'
    BY <1>1 DEF StoreInv, Raise, NoSave, FramesNest, StoreType
  <1>12. FlagsAgree'
    BY <1>4, <1>5 DEF StoreInv, FlagsAgree
  <1>13. TransactionIsAtomic'
    BY StoreAssumption DEF StoreInv, Raise, Free, AtRest, Rollback, TransactionIsAtomic,
       StoreType
  <1>14. LooseDeletes'
    BY <1>1, StoreAssumption DEF StoreInv, Raise, LooseDeletes, Calling
  <1>15. HeldIsSeen'
    <2> SUFFICES ASSUME NEW q \in Procs PROVE Held(q)'
      BY DEF HeldIsSeen
    <2> USE DEF StoreInv
    <2>1. Held(q)
      BY DEF HeldIsSeen
    <2>2. CASE q # p
      <3>1. inst'[q] = inst[q] /\ stale'[q] = stale[q] /\ Seen(q)' = Seen(q)
        BY <2>2, <1>1, <1>5, <1>9, StoreAssumption DEF Raise, StoreType, Seen, View
      <3> QED BY <2>1, <3>1 DEF Held
    <2>3. CASE q = p
      <3>1. Seen(q) = View(p) /\ Seen(q)' = file
        BY <2>3, <1>1 DEF Raise, Seen, View
      <3>2. Follows(View(p), file, stale'[q]) /\ stale[q] \subseteq stale'[q]
        <4>1. CASE writer = p
          <5>1. Follows(pending, file, stale'[q])
            BY <1>9, <2>3, <4>1, ChangedFacts DEF StoreType
          <5> QED BY <1>9, <4>1, <5>1 DEF View
        <4>2. CASE writer # p
          BY <1>9, <4>2 DEF View, Follows
        <4> QED BY <4>1, <4>2
      <3> QED BY <1>4, <2>1, <2>3, <3>1, <3>2, HeldShrinks
    <2> QED BY <2>2, <2>3
  <1>16. BackupIsFile'
    BY DEF StoreInv, Raise, Rollback, BackupIsFile
  <1> QED BY <1>10, <1>11, <1>12, <1>13, <1>14, <1>15, <1>16 DEF StoreInv

\* A process that ends leaves the committed file to the others.
LEMMA ExitKeeps ==
    ASSUME StoreInv, NEW p \in Procs, Exit(p)
    PROVE  StoreInv'
  <1>1. file' = file /\ pending' \in Version /\ writer' \in Procs \cup {NoProc}
          /\ writer' # p
        /\ (writer # p => pending' = pending /\ writer' = writer)
             /\ (writer = p => writer' = NoProc)
    BY StoreAssumption DEF StoreInv, StoreType, Exit, Rollback
  <1>2. DOMAIN inst[p] \subseteq Handles
          /\ \A g \in DOMAIN inst[p] : inst[p][g] \in Object
    BY ObjectsFacts DEF StoreInv, StoreType
  <1> DEFINE S == {}
  <1>3. inst' = [inst EXCEPT ![p] = [h \in S |-> inst[p][h]]]
          /\ S \subseteq DOMAIN inst[p]
    BY DEF Exit, Restrict
  <1> HIDE DEF S
  <1>4. /\ DOMAIN inst'[p] \subseteq DOMAIN inst[p]
        /\ \A h \in DOMAIN inst'[p] : inst'[p][h] = inst[p][h]
    BY <1>3
  <1>5. \A q \in Procs \ {p} : inst'[q] = inst[q]
    BY <1>3
  <1>6. inst'[p] \in Objects
    <2>1. [h \in S |-> inst[p][h]] \in [S -> Object] /\ S \in SUBSET Handles
      BY <1>2, <1>3
    <2> QED BY <1>3, <2>1, ObjectsIntro DEF StoreInv, StoreType
  <1>7. StoreType'
    <2>1. file' \in Version /\ pending' \in Version
      BY <1>1 DEF StoreInv, StoreType
    <2>2. writer' \in Procs \cup {NoProc}
      BY <1>1
    <2>3. inst' \in [Procs -> Objects]
      BY <1>3, <1>6 DEF StoreInv, StoreType
    <2>4. stale' \in [Procs -> SUBSET Ids]
      BY DEF Exit, StoreInv, StoreType
    <2>5. /\ next_read' \in [Procs -> 0 .. (MaxId - 1) \cup {NoId}]
          /\ imp' \in [Procs -> {"no", "copied", "dropped"}]
          /\ backup' \in [Procs -> Version]
          /\ sets' \in Nat /\ calls' \in Nat
          /\ written' \in [Procs -> SUBSET Ids]
      BY NoBackupVersion DEF StoreInv, StoreType, Exit, Rollback
    <2>6. /\ txn' \in [Procs -> BOOLEAN]
          /\ saving' \in [Procs -> Frame]
          /\ loose' \in [Procs -> BOOLEAN] /\ split' \in [Procs -> BOOLEAN]
               /\ meanwhile' \in [Procs -> BOOLEAN]
      BY DEF StoreInv, StoreType, Frame, Exit, Rollback, NoSave
    <2> QED BY <2>1, <2>2, <2>3, <2>4, <2>5, <2>6 DEF StoreType
  <1>8. FramesNest'
    BY <1>1 DEF StoreInv, Exit, NoSave, FramesNest, StoreType
  <1>9. FlagsAgree'
    BY <1>4, <1>5 DEF StoreInv, FlagsAgree
  <1>10. TransactionIsAtomic'
    BY StoreAssumption DEF StoreInv, Exit, Free, AtRest, Rollback, TransactionIsAtomic,
       StoreType
  <1>11. LooseDeletes'
    BY <1>1, StoreAssumption DEF StoreInv, Exit, LooseDeletes, Calling
  <1>12. HeldIsSeen'
    <2> SUFFICES ASSUME NEW q \in Procs PROVE Held(q)'
      BY DEF HeldIsSeen
    <2> USE DEF StoreInv
    <2>1. Held(q)
      BY DEF HeldIsSeen
    <2>2. CASE q # p
      <3>1. inst'[q] = inst[q] /\ stale'[q] = stale[q] /\ Seen(q)' = Seen(q)
        BY <2>2, <1>1, StoreAssumption DEF Exit, Seen, View
      <3> QED BY <2>1, <3>1 DEF Held
    <2>3. CASE q = p
      <3>1. DOMAIN inst'[p] = {}
        BY <1>3 DEF StoreType, S
      <3> QED BY <2>3, <3>1 DEF Held
    <2> QED BY <2>2, <2>3
  <1>13. BackupIsFile'
    BY DEF StoreInv, Exit, Rollback, BackupIsFile, StoreType
  <1> QED BY <1>7, <1>8, <1>9, <1>10, <1>11, <1>12, <1>13 DEF StoreInv

\* The copy is the file.
LEMMA ImportBeginKeeps ==
    ASSUME StoreInv, NEW p \in Procs, ImportBegin(p)
    PROVE  StoreInv'
  <1>1. StoreType'
    BY DEF StoreInv, ImportBegin, store, memory, CountCall, StoreType
  <1>2. FramesNest'
    BY StoreAssumption DEF StoreInv, ImportBegin, memory, Free, AtRest, FramesNest
  <1>3. FlagsAgree'
    BY DEF StoreInv, ImportBegin, memory, FlagsAgree
  <1>4. TransactionIsAtomic'
    BY DEF StoreInv, ImportBegin, store, Free, AtRest, TransactionIsAtomic
  <1>5. LooseDeletes'
    BY DEF StoreInv, ImportBegin, store, Free, AtRest, LooseDeletes, Calling
  <1>6. HeldIsSeen'
    BY DEF StoreInv, ImportBegin, store, memory, Free, AtRest, View, HeldIsSeen, Held,
       Seen
  <1>7. BackupIsFile'
    BY DEF StoreInv, ImportBegin, store, BackupIsFile, StoreType
  <1> QED BY <1>1, <1>2, <1>3, <1>4, <1>5, <1>6, <1>7 DEF StoreInv

\* The rows are deleted in the pending version; the file is as it was.
LEMMA ImportDropKeeps ==
    ASSUME StoreInv, NEW p \in Procs, ImportDrop(p)
    PROVE  StoreInv'
  <1>1. View(p) \in Version /\ View(p).rows \in Rows
          /\ DOMAIN View(p).rows \subseteq Ids
        /\ \A k \in DOMAIN View(p).rows : View(p).rows[k] \in Columns
    BY ViewVersion, VersionFacts, RowsFacts DEF StoreInv
  <1> DEFINE new == [View(p) EXCEPT !.rows = Restrict(@, {})]
  <1>2. new \in Version /\ new.next = View(p).next
    BY <1>1, RestrictFacts
  <1>3. pending' = new /\ writer' = p /\ file' = file /\ writer \in {p, NoProc}
    BY DEF ImportDrop, Write, CanWrite
  <1> HIDE DEF new
  <1>4. StoreType'
    <2>1. file' \in Version /\ pending' \in Version
      BY <1>2, <1>3 DEF StoreInv, StoreType
    <2>2. writer' \in Procs \cup {NoProc}
      BY <1>3
    <2>3. /\ inst' \in [Procs -> Objects]
          /\ next_read' \in [Procs -> 0 .. (MaxId - 1) \cup {NoId}]
          /\ imp' \in [Procs -> {"no", "copied", "dropped"}]
          /\ backup' \in [Procs -> Version]
          /\ sets' \in Nat /\ calls' \in Nat
          /\ stale' \in [Procs -> SUBSET Ids]
          /\ written' \in [Procs -> SUBSET Ids]
      BY DEF StoreInv, StoreType, ImportDrop, memory, ghosts
    <2>4. /\ txn' \in [Procs -> BOOLEAN]
          /\ saving' \in [Procs -> Frame]
          /\ loose' \in [Procs -> BOOLEAN] /\ split' \in [Procs -> BOOLEAN]
               /\ meanwhile' \in [Procs -> BOOLEAN]
      BY DEF StoreInv, StoreType, ImportDrop, ghosts
    <2> QED BY <2>1, <2>2, <2>3, <2>4 DEF StoreType
  <1>5. FramesNest'
    BY <1>3, StoreAssumption DEF StoreInv, ImportDrop, memory, FramesNest
  <1>6. FlagsAgree'
    BY DEF StoreInv, ImportDrop, memory, FlagsAgree
  <1>7. TransactionIsAtomic'
    BY <1>3, StoreAssumption DEF StoreInv, ImportDrop, ghosts, Free, AtRest,
       TransactionIsAtomic
  <1>8. LooseDeletes'
    BY <1>3 DEF StoreInv, ImportDrop, LooseDeletes, StoreType
  <1>9. HeldIsSeen'
    BY <1>3, StoreAssumption DEF StoreInv, ImportDrop, memory, ghosts, View, HeldIsSeen,
       Held, FramesNest, LooseDeletes, StoreType, Seen, Calling
  <1>10. BackupIsFile'
    BY <1>2, <1>3 DEF StoreInv, ImportDrop, ghosts, View, BackupIsFile, FramesNest,
       LooseDeletes, Calling
  <1> QED BY <1>4, <1>5, <1>6, <1>7, <1>8, <1>9, <1>10 DEF StoreInv

\* Every row that differs is stale in all processes.
LEMMA ImportEndKeeps ==
    ASSUME StoreInv, NEW p \in Procs, ImportEnd(p)
    PROVE  StoreInv'
  <1>1. View(p) \in Version /\ View(p).rows \in Rows
          /\ DOMAIN View(p).rows \subseteq Ids
        /\ \A k \in DOMAIN View(p).rows : View(p).rows[k] \in Columns
    BY ViewVersion, VersionFacts, RowsFacts DEF StoreInv
  <1>2. file' \in Version
    BY <1>1, ImportedRows DEF ImportEnd, Version
  <1>3. writer = p /\ pending' = file' /\ writer' = NoProc
    BY DEF ImportEnd, StoreInv, FramesNest
  <1>4. Changed(file, file') \subseteq Ids /\ \A S : Changed(file, file') \subseteq S =>
          Follows(file, file', S)
    BY <1>2, ChangedFacts DEF StoreInv, StoreType
  <1>5. stale' = [q \in Procs |-> stale[q] \cup Changed(file, file')]
    BY DEF ImportEnd, NowStale
  <1>6. StoreType'
    <2>1. file' \in Version /\ pending' \in Version
      BY <1>2, <1>3
    <2>2. writer' \in Procs \cup {NoProc}
      BY <1>3
    <2>3. stale' \in [Procs -> SUBSET Ids]
      BY <1>4, <1>5 DEF StoreInv, StoreType
    <2>4. /\ inst' \in [Procs -> Objects]
          /\ next_read' \in [Procs -> 0 .. (MaxId - 1) \cup {NoId}]
          /\ imp' \in [Procs -> {"no", "copied", "dropped"}]
          /\ backup' \in [Procs -> Version]
          /\ sets' \in Nat /\ calls' \in Nat
          /\ written' \in [Procs -> SUBSET Ids]
      BY NoBackupVersion DEF StoreInv, StoreType, ImportEnd, memory
    <2>5. /\ txn' \in [Procs -> BOOLEAN]
          /\ saving' \in [Procs -> Frame]
          /\ loose' \in [Procs -> BOOLEAN] /\ split' \in [Procs -> BOOLEAN]
               /\ meanwhile' \in [Procs -> BOOLEAN]
      BY DEF StoreInv, StoreType, ImportEnd
    <2> QED BY <2>1, <2>2, <2>3, <2>4, <2>5 DEF StoreType
  <1>7. FramesNest'
    BY DEF StoreInv, ImportEnd, memory, FramesNest, StoreType
  <1>8. FlagsAgree'
    BY DEF StoreInv, ImportEnd, memory, FlagsAgree
  <1>9. TransactionIsAtomic'
    BY StoreAssumption DEF StoreInv, ImportEnd, TransactionIsAtomic, FramesNest
  <1>10. LooseDeletes'
    BY <1>3 DEF LooseDeletes
  <1>11. HeldIsSeen'
    <2> SUFFICES ASSUME NEW q \in Procs PROVE Held(q)'
      BY DEF HeldIsSeen
    <2>1. Held(q)
      BY DEF StoreInv, HeldIsSeen
    <2>2. Seen(q) = file /\ Seen(q)' = file' /\ inst'[q] = inst[q]
      BY <1>3 DEF ImportEnd, Seen, View, memory
    <2>3. stale[q] \subseteq stale'[q] /\ Follows(file, file', stale'[q])
      BY <1>4, <1>5
    <2> QED BY <2>1, <2>2, <2>3, HeldStays DEF StoreInv
  <1>12. BackupIsFile'
    BY StoreAssumption DEF StoreInv, ImportEnd, BackupIsFile, FramesNest, StoreType
  <1> QED BY <1>6, <1>7, <1>8, <1>9, <1>10, <1>11, <1>12 DEF StoreInv

\* The copy replaces the file; what differs is stale in all processes.
LEMMA ImportFailKeeps ==
    ASSUME StoreInv, NEW p \in Procs, ImportFail(p)
    PROVE  StoreInv'
  <1>1. file' = backup[p] /\ file' \in Version
    BY DEF ImportFail, StoreInv, StoreType
  <1>2. \/ writer \in {p, NoProc} /\ pending' = file' /\ writer' = NoProc
        \/ writer \notin {p, NoProc} /\ pending' = pending /\ writer' = writer
    BY DEF ImportFail
  <1>3. Changed(file, file') \subseteq Ids /\ \A S : Changed(file, file') \subseteq S =>
          Follows(file, file', S)
    BY <1>1, ChangedFacts DEF StoreInv, StoreType
  <1>4. Changed(file, pending) \subseteq Ids
          /\ \A S : Changed(file, pending) \subseteq S => Follows(pending, file, S)
    BY ChangedFacts DEF StoreInv, StoreType
  <1>5. stale' = [q \in Procs |-> stale[q] \cup Changed(file,
          file') \cup (IF writer = p THEN Changed(file, pending) ELSE {})]
    BY DEF ImportFail, NowStale
  <1>6. StoreType'
    <2>1. file' \in Version /\ pending' \in Version
      BY <1>1, <1>2 DEF StoreInv, StoreType
    <2>2. writer' \in Procs \cup {NoProc}
      BY <1>2 DEF StoreInv, StoreType
    <2>3. stale' \in [Procs -> SUBSET Ids]
      BY <1>3, <1>4, <1>5 DEF StoreInv, StoreType
    <2>4. /\ inst' \in [Procs -> Objects]
          /\ next_read' \in [Procs -> 0 .. (MaxId - 1) \cup {NoId}]
          /\ imp' \in [Procs -> {"no", "copied", "dropped"}]
          /\ backup' \in [Procs -> Version]
          /\ sets' \in Nat /\ calls' \in Nat
          /\ written' \in [Procs -> SUBSET Ids]
      BY NoBackupVersion DEF StoreInv, StoreType, ImportFail, memory
    <2>5. /\ txn' \in [Procs -> BOOLEAN]
          /\ saving' \in [Procs -> Frame]
          /\ loose' \in [Procs -> BOOLEAN] /\ split' \in [Procs -> BOOLEAN]
               /\ meanwhile' \in [Procs -> BOOLEAN]
      BY DEF StoreInv, StoreType, ImportFail
    <2> QED BY <2>1, <2>2, <2>3, <2>4, <2>5 DEF StoreType
  <1>7. FramesNest'
    BY DEF StoreInv, ImportFail, memory, FramesNest, StoreType
  <1>8. FlagsAgree'
    BY DEF StoreInv, ImportFail, memory, FlagsAgree
  <1>9. TransactionIsAtomic'
    BY StoreAssumption DEF StoreInv, ImportFail, Free, AtRest, TransactionIsAtomic,
       FramesNest
  <1>10. LooseDeletes'
    BY StoreAssumption DEF StoreInv, ImportFail, LooseDeletes, FramesNest
  <1>11. HeldIsSeen'
    <2> SUFFICES ASSUME NEW q \in Procs PROVE Held(q)'
      BY DEF HeldIsSeen
    <2> USE DEF StoreInv
    <2>1. Held(q)
      BY DEF HeldIsSeen
    <2>2. CASE q # p
      <3>1. inst'[q] = inst[q] /\ stale[q] \subseteq stale'[q] /\ imp'[q] = imp[q]
        BY <1>5, <2>2 DEF ImportFail, StoreType, memory
      <3>2. Follows(file, file', stale'[q])
        BY <1>3, <1>5
      <3>3. CASE writer = q /\ imp[q] # "dropped"
        <4>1. Seen(q)' = Seen(q)
          BY <1>2, <2>2, <3>1, <3>3, StoreAssumption DEF Seen, View
        <4>2. Follows(Seen(q), Seen(q)', stale'[q])
          BY <4>1 DEF Follows
        <4> QED BY <2>1, <3>1, <4>2, HeldStays
      <3>4. CASE ~(writer = q /\ imp[q] # "dropped")
        <4>1. Seen(q) = file /\ Seen(q)' = file'
          BY <1>2, <3>1, <3>4 DEF Seen, View
        <4> QED BY <2>1, <3>1, <3>2, <4>1, HeldStays
      <3> QED BY <3>3, <3>4
    <2>3. CASE q = p
      <3>1. Seen(q)' = file' /\ inst'[q] = inst[q] /\ stale[q] \subseteq stale'[q]
        BY <1>2, <1>5, <2>3, StoreAssumption DEF ImportFail, Seen, View, memory
      <3>2. Follows(file, file', stale'[q])
        BY <1>3, <1>5
      <3>3. Seen(q) = file \/ (writer = p /\ Seen(q) = pending)
        BY <2>3 DEF Seen, View
      <3>4. Follows(Seen(q), file', stale'[q])
        <4>1. CASE writer = p /\ Seen(q) = pending
          <5>1. Follows(pending, file, stale'[q])
            BY <1>4, <1>5, <4>1
          <5> QED BY <3>2, <4>1, <5>1 DEF Follows
        <4> QED BY <3>2, <3>3, <4>1
      <3> QED BY <2>1, <3>1, <3>4, HeldStays
    <2> QED BY <2>2, <2>3
  <1>12. BackupIsFile'
    BY StoreAssumption DEF StoreInv, ImportFail, BackupIsFile, FramesNest, StoreType
  <1> QED BY <1>6, <1>7, <1>8, <1>9, <1>10, <1>11, <1>12 DEF StoreInv

\* Every step preserves the invariant.
LEMMA StoreStep == StoreInv /\ [StoreNext]_storeVars => StoreInv'
  <1> SUFFICES ASSUME StoreInv, [StoreNext]_storeVars PROVE StoreInv'
    OBVIOUS
  <1>1. CASE UNCHANGED storeVars
    BY <1>1 DEF storeVars, store, memory, frames, ghosts, StoreInv, StoreType,
       FramesNest, FlagsAgree, TransactionIsAtomic, AtRest, Free, LooseDeletes, Calling,
       HeldIsSeen, Held, Seen, View, BackupIsFile
  <1>2. CASE StoreNext
    <2>1. PICK p \in Procs :
          \/ \E ids \in {{Uvn}, CellIds} : Load(p, ids)
          \/ \E h \in Handles, f \in Fields : SetField(p, h, f)
          \/ Begin(p)
          \/ End(p)
          \/ \E h \in Handles, how \in {"own", "joined"} : SaveBegin(p, h, how)
          \/ \E how \in {"own", "joined"} : New(p, how)
          \/ ReadNextId(p)
          \/ \E h \in Handles : SaveOne(p, h)
          \/ SaveEnd(p)
          \/ \E h \in Handles, how \in {"own", "joined"} : Delete(p, h, how)
          \/ \E k \in CellIds : DeleteWhere(p, k)
          \/ Raise(p)
          \/ Exit(p)
          \/ ImportBegin(p)
          \/ ImportDrop(p)
          \/ ImportEnd(p)
          \/ ImportFail(p)
      BY <1>2 DEF StoreNext, Handles
    <2>2. ASSUME NEW ids \in {{Uvn}, CellIds}, Load(p, ids) PROVE StoreInv'
      BY <2>2, LoadKeeps
    <2>3. ASSUME NEW h \in Handles, NEW f \in Fields, SetField(p, h, f) PROVE StoreInv'
      BY <2>3, SetFieldKeeps
    <2>4. CASE Begin(p)
      BY <2>4, BeginKeeps
    <2>5. CASE End(p)
      BY <2>5, EndKeeps
    <2>6. ASSUME NEW h \in Handles, NEW how \in {"own", "joined"},
                 SaveBegin(p, h, how) PROVE StoreInv'
      BY <2>6, SaveBeginKeeps
    <2>7. ASSUME NEW how \in {"own", "joined"}, New(p, how) PROVE StoreInv'
      BY <2>7, NewKeeps
    <2>8. CASE ReadNextId(p)
      BY <2>8, ReadNextIdKeeps
    <2>9. ASSUME NEW h \in Handles, SaveOne(p, h) PROVE StoreInv'
      BY <2>9, SaveOneKeeps
    <2>10. CASE SaveEnd(p)
      BY <2>10, SaveEndKeeps
    <2>11. ASSUME NEW h \in Handles, NEW how \in {"own", "joined"},
                  Delete(p, h, how) PROVE StoreInv'
      BY <2>11, DeleteKeeps
    <2>12. ASSUME NEW k \in CellIds, DeleteWhere(p, k) PROVE StoreInv'
      BY <2>12, DeleteWhereKeeps
    <2>13. CASE Raise(p)
      BY <2>13, RaiseKeeps
    <2>14. CASE Exit(p)
      BY <2>14, ExitKeeps
    <2>15. CASE ImportBegin(p)
      BY <2>15, ImportBeginKeeps
    <2>16. CASE ImportDrop(p)
      BY <2>16, ImportDropKeeps
    <2>17. CASE ImportEnd(p)
      BY <2>17, ImportEndKeeps
    <2>18. CASE ImportFail(p)
      BY <2>18, ImportFailKeeps
    <2> QED BY <2>1, <2>2, <2>3, <2>4, <2>5, <2>6, <2>7, <2>8, <2>9, <2>10, <2>11,
        <2>12, <2>13, <2>14, <2>15, <2>16, <2>17, <2>18
  <1> QED BY <1>1, <1>2

-----------------------------------------------------------------------------
(* The theorems about the object store.                                    *)

\* The invariant holds for any number of processes, one of them the agent of
\* the cell, any fields and any bounds.
THEOREM StoreInvCorrect == StoreSpec => []StoreInv
  <1> QED BY InitStore, StoreStep, PTL DEF StoreSpec

\* The flags of Versioned can be believed between calls: an object that says it
\* is saved is what its row says, unless the row changed below it.
THEOREM CleanCorrect == StoreSpec => []CleanIsStored
  <1>1. StoreInv => CleanIsStored
    <2> SUFFICES ASSUME StoreInv, NEW p \in Procs, AtRest(p), ~loose[p],
                        NEW h \in DOMAIN inst[p],
                        inst[p][h].saved, inst[p][h].id \notin stale[p]
                 PROVE  inst[p][h].id \in DOMAIN file.rows
                          /\ file.rows[inst[p][h].id] = inst[p][h].val
      BY DEF CleanIsStored
    <2>1. writer # p /\ Seen(p) = file
      BY DEF StoreInv, TransactionIsAtomic, Seen, View
    <2>2. inst[p][h].loaded /\ Held(p)
      BY DEF StoreInv, FlagsAgree, HeldIsSeen
    <2> QED BY <2>1, <2>2 DEF Held
  <1> QED BY <1>1, StoreInvCorrect, PTL

\* inject_transaction keeps a transaction in one piece: what its calls wrote is
\* pending until it ends, unless one of them was made without the cursor, and a
\* process outside of calls has the lock only after a loose delete_where.
THEOREM TransactionCorrect == StoreSpec => []TransactionIsAtomic
  <1>1. StoreInv => TransactionIsAtomic
    BY DEF StoreInv
  <1> QED BY <1>1, StoreInvCorrect, PTL

\* The only steps that end import_other are its own and the death of the
\* process, and each leaves one of two files.
LEMMA ImportStep ==
    ASSUME StoreInv, [StoreNext]_storeVars, NEW p \in Procs,
           imp[p] # "no", imp'[p] = "no", ~meanwhile[p]
    PROVE  file' \in {backup[p], [rows |-> imported, next |-> backup[p].next]}
  <1>1. PICK q \in Procs : Exit(q) \/ ImportBegin(q) \/ ImportDrop(q) \/ ImportEnd(q)
          \/ ImportFail(q)
    <2>1. \A q, ids : ~Load(q, ids)
      BY DEF Load, frames
    <2>2. \A q, h, f : ~SetField(q, h, f)
      BY DEF SetField, frames
    <2>3. \A q : ~Begin(q) /\ ~End(q)
      BY DEF Begin, End
    <2>4. \A q, h, how : ~SaveBegin(q, h, how) /\ ~New(q, how)
      BY DEF SaveBegin, New
    <2>5. \A q, h : ~ReadNextId(q) /\ ~SaveOne(q, h) /\ ~SaveEnd(q)
      BY DEF ReadNextId, SaveOne, SaveEnd
    <2>6. \A q, h, how : ~Delete(q, h, how) /\ ~DeleteWhere(q, h)
      BY DEF Delete, DeleteWhere, frames
    <2>7. \A q : ~Raise(q)
      BY DEF Raise
    <2>8. StoreNext
      BY DEF storeVars, frames
    <2> QED BY <2>1, <2>2, <2>3, <2>4, <2>5, <2>6, <2>7, <2>8 DEF StoreNext
  <1>2. Exit(p) \/ ImportEnd(p) \/ ImportFail(p)
    <2>1. \E v : imp' = [imp EXCEPT ![q] = v]
      BY <1>1 DEF Exit, ImportBegin, ImportDrop, ImportEnd, ImportFail
    <2>2. q = p
      BY <2>1
    <2> QED BY <1>1, <2>2 DEF ImportBegin, ImportDrop, StoreInv, StoreType
  <1>3. file = backup[p]
          /\ (imp[p] = "dropped" => writer = p /\ pending.next = backup[p].next)
    BY DEF StoreInv, BackupIsFile, FramesNest
  <1>4. CASE Exit(p)
    BY <1>3, <1>4 DEF Exit, Rollback
  <1>5. CASE ImportEnd(p)
    BY <1>3, <1>5 DEF ImportEnd, View
  <1>6. CASE ImportFail(p)
    BY <1>6 DEF ImportFail
  <1> QED BY <1>2, <1>4, <1>5, <1>6

\* Database.import_other is atomic: whichever way it ends, the file has all rows
\* of the other database or all of its own.
THEOREM ImportCorrect == StoreSpec => ImportIsAtomic
  <1>1. StoreInv /\ [StoreNext]_storeVars =>
            [\A p \in Procs : imp[p] # "no" /\ imp'[p] = "no" /\ ~meanwhile[p] =>
                file' \in {backup[p],
                  [rows |-> imported, next |-> backup[p].next]}]_storeVars
    BY ImportStep
  <1> QED BY <1>1, StoreInvCorrect, PTL DEF StoreSpec, ImportIsAtomic

=============================================================================
