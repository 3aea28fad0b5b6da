----------------------------- MODULE ObjectStore -----------------------------
(***************************************************************************)
(* The object store of a registry or cell: objects kept in the memory of a *)
(* process, with flags that say if they are saved (registry/versioned.py,  *)
(* registry/database_object.py), over one SQLite file that processes, such *)
(* as a command and the agent, open at the same time (registry/database.py)*)
(*                                                                         *)
(* A method with inject_transaction is called with a cursor, and then runs *)
(* in the transaction of its caller, or without one, and then it commits   *)
(* when it returns: everything that is pending on the connection, also the *)
(* writes of a caller whose transaction is not over.  An exception rolls   *)
(* everything pending back; the objects in memory keep their values and    *)
(* their flags.  A method with only inject_cursor never commits.           *)
(*                                                                         *)
(* Abstractions: the object 0 is the UVN, 1..MaxId are cells, nested in    *)
(* it.  A row is a number per field, a fresh one for every change.  The    *)
(* timestamps of a row, ownership and the other tables are left out.  The  *)
(* wait of 5 s for a lock is a step that is not enabled; its timeout is    *)
(* one of the exceptions.                                                  *)
(***************************************************************************)
EXTENDS Naturals, Functions

CONSTANTS
    Procs,      \* the processes that have the database open
    NoProc,     \* no process
    Importers,  \* those that import another database: agents of cells
    Fields,     \* the columns of a row
    MaxId,      \* bound on the ids of cells
    MaxSets,    \* bound on the changes of an object
    MaxCalls    \* bound on the calls of the database

ASSUME StoreAssumption ==
    /\ NoProc \notin Procs
    /\ Importers \subseteq Procs
    /\ \A p, q \in Importers : p = q   \* a cell has one agent, see AgentServices
    /\ MaxId \in Nat \ {0} /\ MaxSets \in Nat /\ MaxCalls \in Nat

Uvn == 0
CellIds == 1..MaxId
Ids == CellIds \cup {Uvn}
NoId == MaxId + 1      \* the id of an object that was never inserted
Created == MaxId + 1   \* the reference to an object that this process made
NoBackup == [rows |-> [k \in {} |-> 0], next |-> 0]
NoSave == [on |-> FALSE, own |-> FALSE, todo |-> {}]

VARIABLES
    file,      \* the database file: rows of objects, and next_id of cells
    pending,   \* the uncommitted version of the file on writer's connection
    writer,    \* the process whose connection has the lock, or NoProc
    inst,      \* the objects of a process: cached ones by id, and Created
    txn,       \* a transaction of a caller is open, as in Registry.add_cell
    saving,    \* the call of Database.save that goes on
    next_read, \* what next_id has read, or NoId
    imp,       \* the progress of import_other
    backup,    \* the copy of the file that import_other made
    sets,      \* the changes so far, also the last value written
    calls,     \* the calls so far
    \* What happened, for the properties only.
    stale,     \* ids that a process has in memory and that changed below it
    loose,     \* what a process has pending was written without a transaction
    split,     \* a call inside of txn has committed
    written,   \* ids written since the transaction began
    meanwhile  \* another process has committed since the backup was made

store == <<file, pending, writer>>
memory == <<inst, sets>>
frames == <<txn, saving, next_read, imp, backup>>
ghosts == <<stale, loose, split, written, meanwhile>>
storeVars == <<store, memory, frames, calls, ghosts>>

-----------------------------------------------------------------------------
(* The file, as SQLite keeps it.                                           *)

\* What the connection of p reads: its own uncommitted writes, too.
View(p) == IF writer = p THEN pending ELSE file

\* The first write of a connection takes the lock.
CanWrite(p) == writer \in {p, NoProc}

\* The rows that differ between two versions of the file.
Changed(f, g) ==
    {k \in Ids : \/ (k \in DOMAIN f.rows) # (k \in DOMAIN g.rows)
                 \/ k \in DOMAIN f.rows \cap DOMAIN g.rows /\ f.rows[k] # g.rows[k]}

\* What changes below the objects of the processes S.
NowStale(S, ids) == [q \in Procs |-> IF q \in S THEN stale[q] \cup ids ELSE stale[q]]

\* The commit of what is pending, if anything is.
Commit(p) ==
    IF writer = p
    THEN file' = pending /\ writer' = NoProc /\ UNCHANGED pending
    ELSE UNCHANGED store

\* The rest of the step that commits, for the properties.
CommitSeen(p, seers) ==
    /\ stale' = IF writer = p THEN NowStale(seers, Changed(file, pending)) ELSE stale
    /\ loose' = [loose EXCEPT ![p] = FALSE]
    /\ meanwhile' = [q \in Procs |-> imp[q] # "no" /\ (meanwhile[q] \/ (q # p /\ writer = p))]

Write(p, version) == pending' = version /\ writer' = p /\ UNCHANGED file

-----------------------------------------------------------------------------
(* The objects in the memory of a process.                                 *)

Free(p) == ~saving[p].on /\ imp[p] = "no"
AtRest(p) == Free(p) /\ ~txn[p]

has(p, h) == h \in DOMAIN inst[p]

\* saved: of the UVN, also all nested objects are. An object that this process
\* has made is not among the nested ones, which were loaded.
is_saved(p, h) ==
    /\ inst[p][h].saved
    /\ h = Uvn => \A k \in CellIds : has(p, k) => inst[p][k].saved

\* collect_changes: the objects that are not saved.
collect_changes(p, h) ==
    {k \in (IF h = Uvn THEN Ids ELSE {h}) : has(p, k) /\ ~is_saved(p, k)}

\* Database.deserialize: an object made from a row of the database.
deserialized(id, row) == [id |-> id, val |-> row, saved |-> TRUE, loaded |-> TRUE]

\* Versioned.save: the columns of the object's row are all written, from the
\* properties as they are now, the changed and the unchanged ones alike.
serialized(o) == [f \in Fields |-> o.val[f]]

\* Versioned.clear_changed, and the flags, after the row was written.
cleared(o, id) == [o EXCEPT !.id = id, !.saved = TRUE, !.loaded = TRUE]

\* updated_property, of a property that the object h has. Only the objects
\* that were made by new_child know their parent.
marked(objs, h) ==
    [k \in DOMAIN objs |->
        IF k = h \/ (k = Uvn /\ h = Created) THEN [objs[k] EXCEPT !.saved = FALSE] ELSE objs[k]]

CountCall ==
    /\ calls < MaxCalls
    /\ calls' = calls + 1

\* Database.load: the UVN, and then, for uvn.all_cells, every cell. An object
\* that is in the cache is returned as it is, whatever its row is now; the
\* others are made from their rows, as saved ones.
Load(p, ids) ==
    LET missing == (ids \cap DOMAIN View(p).rows) \ DOMAIN inst[p]
    IN  /\ Free(p)
        /\ missing # {}
        /\ ids # {Uvn} => has(p, Uvn)
        /\ inst' = [inst EXCEPT ![p] = [h \in DOMAIN @ \cup missing |->
                        IF h \in missing
                        THEN deserialized(h, View(p).rows[h])
                        ELSE @[h]]]
        /\ stale' = [stale EXCEPT ![p] =
                        @ \ (missing \ {inst[p][h].id : h \in DOMAIN inst[p]})]
        /\ UNCHANGED <<store, sets, frames, calls, loose, split, written, meanwhile>>

\* PropertyDescriptor.set of the property f.
set_value(objs, h, f, v) == [objs EXCEPT ![h].val[f] = v]

\* Mutation of SetField: a change is recorded in objects from the database.
SetFieldLoaded(p, h, f) ==
    /\ Free(p)
    /\ has(p, h) /\ sets < MaxSets
    /\ sets' = sets + 1
    /\ inst' = [inst EXCEPT ![p] = LET new == set_value(@, h, f, sets + 1)
                                   IN  IF h = Created THEN marked(new, h) ELSE new]
    /\ UNCHANGED <<store, frames, calls, ghosts>>

\* configure, of a property that gets a new value.
SetField(p, h, f) ==
    /\ Free(p)
    /\ has(p, h) /\ sets < MaxSets
    /\ sets' = sets + 1
    /\ inst' = [inst EXCEPT ![p] = marked(set_value(@, h, f, sets + 1), h)]
    /\ UNCHANGED <<store, frames, calls, ghosts>>

-----------------------------------------------------------------------------
(* Transactions and calls.                                                 *)

\* inject_transaction around a method that calls others, without a cursor.
Begin(p) ==
    /\ AtRest(p) /\ CountCall
    /\ txn' = [txn EXCEPT ![p] = TRUE]
    /\ split' = [split EXCEPT ![p] = FALSE]
    /\ written' = [written EXCEPT ![p] = {}]
    /\ UNCHANGED <<store, memory, saving, next_read, imp, backup, stale, loose, meanwhile>>

\* The method returns.
End(p) ==
    /\ Free(p) /\ txn[p]
    /\ Commit(p) /\ CommitSeen(p, Procs \ {p})
    /\ txn' = [txn EXCEPT ![p] = FALSE]
    /\ written' = [written EXCEPT ![p] = {}]
    /\ split' = [split EXCEPT ![p] = FALSE]
    /\ UNCHANGED <<memory, saving, next_read, imp, backup, calls>>

\* A call gets a cursor, from the transaction that it joins, or none.
Cursors(p) == IF txn[p] THEN {"joined", "own"} ELSE {"own"}

\* Database.save of the object h: what is to be saved is collected, and all
\* of it validated, before anything is written.
SaveBegin(p, h, how) ==
    /\ Free(p) /\ has(p, h) /\ CountCall
    /\ how \in Cursors(p)
    /\ saving' = [saving EXCEPT ![p] = [on |-> TRUE, own |-> how = "own",
                                        todo |-> collect_changes(p, h)]]
    /\ UNCHANGED <<store, memory, txn, next_read, imp, backup, ghosts>>

\* Database.new, or new_child of the UVN: the object is not saved yet, has no
\* id, and does not go into the cache.
New(p, how) ==
    /\ Free(p) /\ has(p, Uvn) /\ ~has(p, Created) /\ CountCall
    /\ how \in Cursors(p)
    /\ sets < MaxSets
    /\ sets' = sets + 1
    /\ inst' = [inst EXCEPT ![p] = [h \in DOMAIN @ \cup {Created} |->
                    IF h = Created
                    THEN [id |-> NoId, val |-> [f \in Fields |-> sets + 1],
                          saved |-> FALSE, loaded |-> FALSE]
                    ELSE @[h]]]
    /\ saving' = [saving EXCEPT ![p] = [on |-> TRUE, own |-> how = "own", todo |-> {Created}]]
    /\ UNCHANGED <<store, txn, next_read, imp, backup, ghosts>>

\* The objects that may be next: the nested ones, in some order, and then the
\* one they are nested in.
Targets(p) ==
    {h \in saving[p].todo : h = Uvn => saving[p].todo = {Uvn}}

\* next_id, the query: it takes no lock.
ReadNextId(p) ==
    /\ saving[p].on
    /\ \E h \in Targets(p) : inst[p][h].id = NoId
    /\ next_read[p] = NoId
    /\ View(p).next < MaxId
    /\ next_read' = [next_read EXCEPT ![p] = View(p).next]
    /\ UNCHANGED <<store, memory, txn, saving, imp, backup, calls, ghosts>>

\* create_or_update: all fields are written. An insertion may have taken a new
\* id, and an update of a row that is gone changes nothing.
stored(version, create, id, val) ==
    IF create
    THEN [rows |-> [k \in DOMAIN version.rows \cup {id} |-> IF k = id THEN val ELSE version.rows[k]],
          next |-> id]
    ELSE [version EXCEPT !.rows = [k \in DOMAIN @ |-> IF k = id THEN val ELSE @[k]]]

\* One object of do_save. The table refuses a second row with the same id: the
\* step that raises an exception is Raise. The flags are set at once, before
\* it is known how the transaction ends.
SaveOne(p, h) ==
    /\ saving[p].on /\ h \in Targets(p)
    /\ CanWrite(p)
    /\ LET o == inst[p][h]
           id == IF o.id = NoId THEN next_read[p] + 1 ELSE o.id
           create == ~o.loaded
       IN  /\ o.id = NoId => next_read[p] # NoId
           /\ create => id \notin DOMAIN View(p).rows
           /\ Write(p, stored(View(p), create, id, serialized(o)))
           /\ inst' = [inst EXCEPT ![p][h] = cleared(o, id)]
           /\ written' = [written EXCEPT ![p] = IF txn[p] THEN @ \cup {id} ELSE @]
           /\ stale' = [stale EXCEPT ![p] =
                IF \E g \in DOMAIN inst[p] \ {h} : inst[p][g].id = id THEN @ \cup {id} ELSE @]
    /\ saving' = [saving EXCEPT ![p].todo = @ \ {h}]
    /\ next_read' = [next_read EXCEPT ![p] = NoId]
    /\ UNCHANGED <<sets, txn, imp, backup, calls, loose, split, meanwhile>>

\* Mutation of SaveEnd: a call that was given a cursor commits, too.
SaveEndCommits(p) ==
    /\ saving[p].on /\ saving[p].todo = {}
    /\ Commit(p) /\ CommitSeen(p, Procs \ {p})
    /\ split' = [split EXCEPT ![p] = txn[p] /\ (@ \/ saving[p].own)]
    /\ saving' = [saving EXCEPT ![p] = NoSave]
    /\ UNCHANGED <<memory, txn, next_read, imp, backup, calls, written>>

\* Database.save returns: with a transaction of its own, it commits.
SaveEnd(p) ==
    /\ saving[p].on /\ saving[p].todo = {}
    /\ IF saving[p].own THEN Commit(p) /\ CommitSeen(p, Procs \ {p})
       ELSE UNCHANGED <<store, stale, loose, meanwhile>>
    /\ split' = [split EXCEPT ![p] = txn[p] /\ (@ \/ saving[p].own)]
    /\ saving' = [saving EXCEPT ![p] = NoSave]
    /\ UNCHANGED <<memory, txn, next_read, imp, backup, calls, written>>

\* Database.delete of an object's row. The cached object stays where it is.
Delete(p, h, how) ==
    /\ Free(p) /\ has(p, h) /\ h # Uvn /\ CountCall
    /\ inst[p][h].id \in DOMAIN View(p).rows
    /\ CanWrite(p) /\ how \in Cursors(p)
    /\ LET id == inst[p][h].id
           new == [View(p) EXCEPT !.rows = Restrict(@, DOMAIN @ \ {id})]
       IN  /\ IF how = "own"
              THEN /\ file' = new /\ pending' = new /\ writer' = NoProc
                   /\ stale' = [NowStale(Procs \ {p}, Changed(file, new)) EXCEPT ![p] = @ \cup {id}]
                   /\ loose' = [loose EXCEPT ![p] = FALSE]
                   /\ meanwhile' = [q \in Procs |-> imp[q] # "no" /\ (meanwhile[q] \/ q # p)]
              ELSE /\ Write(p, new)
                   /\ stale' = [stale EXCEPT ![p] = @ \cup {id}]
                   /\ UNCHANGED <<loose, meanwhile>>
           /\ written' = [written EXCEPT ![p] = IF txn[p] THEN @ \cup {id} ELSE @]
    /\ split' = [split EXCEPT ![p] = txn[p] /\ (@ \/ how = "own")]
    /\ UNCHANGED <<memory, txn, saving, next_read, imp, backup>>

\* delete_where, called as clean_dropped_keys does: with a cursor and without
\* a transaction. The next transaction commits it, or rolls it back.
DeleteWhere(p, k) ==
    /\ AtRest(p) /\ CountCall
    /\ k \in CellIds \cap DOMAIN View(p).rows /\ CanWrite(p)
    /\ Write(p, [View(p) EXCEPT !.rows = Restrict(@, DOMAIN @ \ {k})])
    /\ loose' = [loose EXCEPT ![p] = TRUE]
    /\ stale' = [stale EXCEPT ![p] = @ \cup {k}]
    /\ UNCHANGED <<memory, frames, split, written, meanwhile>>

\* What is pending is rolled back, and the ids whose rows return to what they
\* were are stale.
Rollback(p) ==
    /\ IF writer = p THEN pending' = file /\ writer' = NoProc ELSE UNCHANGED <<pending, writer>>
    /\ UNCHANGED file
    /\ loose' = [loose EXCEPT ![p] = FALSE]
    /\ written' = [written EXCEPT ![p] = {}]

\* An exception in a call: a failed validation, a constraint, a lock that was
\* not released, an error of the file. It ends all calls. The caller never
\* gets the object that was being made.
Raise(p) ==
    /\ ~AtRest(p) /\ imp[p] = "no"
    /\ Rollback(p)
    /\ stale' = IF writer = p THEN NowStale({p}, Changed(file, pending)) ELSE stale
    /\ txn' = [txn EXCEPT ![p] = FALSE]
    /\ saving' = [saving EXCEPT ![p] = NoSave]
    /\ next_read' = [next_read EXCEPT ![p] = NoId]
    /\ inst' = [inst EXCEPT ![p] =
            Restrict(@, {h \in DOMAIN @ : h # Created \/ @[h].id \in DOMAIN file.rows})]
    /\ split' = [split EXCEPT ![p] = FALSE]
    /\ UNCHANGED <<sets, imp, backup, calls, meanwhile>>

\* The process ends, at rest or not, and another one is started.
Exit(p) ==
    /\ has(p, Uvn) \/ ~AtRest(p) \/ writer = p
    /\ Rollback(p)
    /\ stale' = [stale EXCEPT ![p] = {}]
    /\ inst' = [inst EXCEPT ![p] = Restrict(@, {})]
    /\ txn' = [txn EXCEPT ![p] = FALSE]
    /\ saving' = [saving EXCEPT ![p] = NoSave]
    /\ next_read' = [next_read EXCEPT ![p] = NoId]
    /\ imp' = [imp EXCEPT ![p] = "no"]
    /\ backup' = [backup EXCEPT ![p] = NoBackup]
    /\ meanwhile' = [meanwhile EXCEPT ![p] = FALSE]
    /\ split' = [split EXCEPT ![p] = FALSE]
    /\ UNCHANGED <<sets, calls>>

-----------------------------------------------------------------------------
(* Database.import_other.                                                  *)

\* The database in the package of a cell: all rows are newer, and there is one
\* cell more. Its counters are not imported.
imported == [k \in Ids |-> [f \in Fields |-> MaxSets + 1]]

\* The file is copied, without a lock.
ImportBegin(p) ==
    /\ p \in Importers /\ AtRest(p) /\ CountCall
    /\ backup' = [backup EXCEPT ![p] = file]
    /\ imp' = [imp EXCEPT ![p] = "copied"]
    /\ meanwhile' = [meanwhile EXCEPT ![p] = FALSE]
    /\ UNCHANGED <<store, memory, txn, saving, next_read, stale, loose, split, written>>

\* Mutation of ImportDrop: the rows are deleted for good.
ImportDropCommits(p) ==
    /\ imp[p] = "copied" /\ CanWrite(p)
    /\ file' = [View(p) EXCEPT !.rows = Restrict(@, {})] /\ UNCHANGED <<pending, writer>>
    /\ imp' = [imp EXCEPT ![p] = "dropped"]
    /\ UNCHANGED <<memory, txn, saving, next_read, backup, calls, ghosts>>

\* The existing rows are deleted.
ImportDrop(p) ==
    /\ imp[p] = "copied" /\ CanWrite(p)
    /\ Write(p, [View(p) EXCEPT !.rows = Restrict(@, {})])
    /\ imp' = [imp EXCEPT ![p] = "dropped"]
    /\ UNCHANGED <<memory, txn, saving, next_read, backup, calls, ghosts>>

\* The rows of the other database are inserted, and all is committed. The
\* objects in memory are not told.
ImportEnd(p) ==
    /\ imp[p] = "dropped"
    /\ file' = [rows |-> imported, next |-> View(p).next]
    /\ pending' = file' /\ writer' = NoProc
    /\ stale' = NowStale(Procs, Changed(file, file'))
    /\ loose' = [loose EXCEPT ![p] = FALSE]
    /\ meanwhile' = [q \in Procs |-> imp[q] # "no" /\ (meanwhile[q] \/ q # p)]
    /\ imp' = [imp EXCEPT ![p] = "no"]
    /\ backup' = [backup EXCEPT ![p] = NoBackup]
    /\ UNCHANGED <<memory, txn, saving, next_read, calls, split, written>>

\* An exception: after the rollback, the copy replaces the file.
ImportFail(p) ==
    /\ imp[p] # "no"
    /\ file' = backup[p]
    /\ IF writer \in {p, NoProc} THEN pending' = file' /\ writer' = NoProc
       ELSE UNCHANGED <<pending, writer>>
    /\ stale' = NowStale(Procs, Changed(file, backup[p]) \cup
                                (IF writer = p THEN Changed(file, pending) ELSE {}))
    /\ loose' = [loose EXCEPT ![p] = FALSE]
    /\ imp' = [imp EXCEPT ![p] = "no"]
    /\ backup' = [backup EXCEPT ![p] = NoBackup]
    /\ meanwhile' = [meanwhile EXCEPT ![p] = FALSE]
    /\ UNCHANGED <<memory, txn, saving, next_read, calls, split, written>>

-----------------------------------------------------------------------------
(* The specification.                                                      *)

\* A database with the UVN and one cell, and processes that have loaded nothing.
StoreInit ==
    /\ file = [rows |-> [k \in {Uvn, 1} |-> [f \in Fields |-> 0]], next |-> 1]
    /\ pending = file /\ writer = NoProc
    /\ inst = [p \in Procs |-> [h \in {} |-> 0]]
    /\ txn = [p \in Procs |-> FALSE]
    /\ saving = [p \in Procs |-> NoSave]
    /\ next_read = [p \in Procs |-> NoId]
    /\ imp = [p \in Procs |-> "no"]
    /\ backup = [p \in Procs |-> NoBackup]
    /\ sets = 0 /\ calls = 0
    /\ stale = [p \in Procs |-> {}]
    /\ loose = [p \in Procs |-> FALSE]
    /\ split = [p \in Procs |-> FALSE]
    /\ written = [p \in Procs |-> {}]
    /\ meanwhile = [p \in Procs |-> FALSE]

StoreNext == \E p \in Procs :
    \/ \E ids \in {{Uvn}, CellIds} : Load(p, ids)
    \/ \E h \in Ids \cup {Created}, f \in Fields : SetField(p, h, f)
    \/ Begin(p)
    \/ End(p)
    \/ \E h \in Ids \cup {Created}, how \in {"own", "joined"} : SaveBegin(p, h, how)
    \/ \E how \in {"own", "joined"} : New(p, how)
    \/ ReadNextId(p)
    \/ \E h \in Ids \cup {Created} : SaveOne(p, h)
    \/ SaveEnd(p)
    \/ \E h \in Ids \cup {Created}, how \in {"own", "joined"} : Delete(p, h, how)
    \/ \E k \in CellIds : DeleteWhere(p, k)
    \/ Raise(p)
    \/ Exit(p)
    \/ ImportBegin(p)
    \/ ImportDrop(p)
    \/ ImportEnd(p)
    \/ ImportFail(p)

StoreSpec == StoreInit /\ [][StoreNext]_storeVars

-----------------------------------------------------------------------------
(* Properties.                                                             *)

\* An object that says it is saved is what its row says, when its process is
\* at rest: unless the row changed below it, because a save was rolled back
\* after the flags were set, because of another process, or because the
\* process has two objects for the row or has deleted it.
CleanIsStored ==
    \A p \in Procs : AtRest(p) /\ ~loose[p] =>
        \A h \in DOMAIN inst[p] :
            LET o == inst[p][h]
            IN  o.saved /\ o.id \notin stale[p] =>
                    o.id \in DOMAIN file.rows /\ file.rows[o.id] = o.val

\* Calls that join a transaction leave its atomicity intact: as long as no
\* call inside of it was made without the cursor, all of its writes are
\* pending, and other processes see either all of them, when it ends, or none.
\* A process that is not in a call keeps no other one from writing, except
\* after a delete_where without a transaction.
TransactionIsAtomic ==
    \A p \in Procs :
        /\ txn[p] /\ ~split[p] /\ written[p] # {} => writer = p
        /\ AtRest(p) /\ writer = p => loose[p]

\* An import that ends, in an exception or with the death of the process, has
\* replaced all rows or none, if no other process has committed meanwhile.
ImportIsAtomic ==
    [][\A p \in Procs : imp[p] # "no" /\ imp'[p] = "no" /\ ~meanwhile[p] =>
            file' \in {backup[p], [rows |-> imported, next |-> backup[p].next]}]_storeVars

=============================================================================
