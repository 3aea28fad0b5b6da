-------------------------- MODULE RootKeymatProofs --------------------------
(***************************************************************************)
(* Proofs about RootKeymat: what every sequence of commands, with any      *)
(* number of cells and keys, does to the keys of the root VPN.             *)
(***************************************************************************)
EXTENDS RootKeymat, TLAPS

\* Packages are only out of date while a banned cell has no current key,
\* which stops the registry's agent and generate_artifacts.
PackagesOrMissing ==
    \/ \E c \in all_cells : cur[c] = NoKey
    \/ \A c \in active : packages[c] = [own |-> cur[c], root |-> cur[Root]]

\* assert_keys has made a key for the root and for each active cell.
ActiveKeys == \A p \in active \cup {Root} : cur[p] # NoKey

IInv == TypeOK /\ PackagesOrMissing /\ ActiveKeys

-----------------------------------------------------------------------------
(* The parts of the commands.                                              *)

\* What generate_artifacts makes of the rows that a command has left: a key
\* for the root and each active cell, none for the cells that are gone, and
\* no change of the others.
LEMMA GenerateFacts ==
    ASSUME TypeOK, NEW st \in [Cells -> {"undefined", "active", "banned", "deleted"}],
           NEW rows \in [Peers -> Nat],
           GenerateArtifacts(st, rows)
    PROVE  /\ status' = st
           /\ active' = active_in(st) /\ all_cells' = all_cells_in(st)
           /\ cur' \in [Peers -> Nat] /\ made' \in [Peers -> Nat]
           /\ \A p \in Peers :
                /\ p = Root \/ p \in active_in(st) => cur'[p] # NoKey
                /\ rows[p] # NoKey /\ (p = Root \/ p \in all_cells_in(st)) => cur'[p] = rows[p]
           /\ result' \in {"ok", "MissingKeyMaterial"}
           /\ packages' \in [Cells -> [own : Keys, root : Keys] \cup {NoPackage}]
           /\ PackagesOrMissing' /\ ActiveKeys'
<1> DEFINE new == generated_rows(rows, st)
<1>1. /\ status' = st /\ cur' = new
      /\ active' = active_in(st) /\ all_cells' = all_cells_in(st)
  BY DEF GenerateArtifacts, active, all_cells, active_in, all_cells_in
<1>2. made' = [p \in Peers |-> IF new[p] > made[p] THEN new[p] ELSE made[p]]
  BY DEF GenerateArtifacts
<1>3. Root \notin Cells /\ Root \in Peers /\ Cells \subseteq Peers
  BY KeymatAssumption DEF Peers
<1>4. active_in(st) \subseteq all_cells_in(st) /\ all_cells_in(st) \subseteq Cells
  BY DEF active_in, all_cells_in
<1>5. made \in [Peers -> Nat]
  BY DEF TypeOK
<1>6. new = [p \in Peers |->
                IF (p = Root \/ p \in active_in(st)) /\ rows[p] = NoKey THEN made[p] + 1
                ELSE IF p \in Cells \ all_cells_in(st) THEN NoKey
                ELSE rows[p]]
  BY DEF generated_rows, asserts_key
<1> HIDE DEF new
<1>7. new \in [Peers -> Nat]
  BY <1>5, <1>6 DEF NoKey
<1>8. made' \in [Peers -> Nat]
  BY <1>2, <1>5, <1>7
<1>9. ASSUME NEW p \in Peers
      PROVE  /\ p = Root \/ p \in active_in(st) => new[p] # NoKey
             /\ rows[p] # NoKey /\ (p = Root \/ p \in all_cells_in(st)) => new[p] = rows[p]
  <2>1. new[p] = IF (p = Root \/ p \in active_in(st)) /\ rows[p] = NoKey THEN made[p] + 1
                 ELSE IF p \in Cells \ all_cells_in(st) THEN NoKey
                 ELSE rows[p]
    BY <1>6
  <2>2. made[p] \in Nat /\ new[p] \in Nat /\ rows[p] \in Nat
    BY <1>5, <1>7
  <2>3. p = Root \/ p \in active_in(st) => new[p] # NoKey
    BY <1>3, <1>4, <2>1, <2>2 DEF NoKey
  <2>4. rows[p] # NoKey /\ (p = Root \/ p \in all_cells_in(st)) => new[p] = rows[p]
    BY <1>3, <2>1
  <2>5. QED
    BY <2>3, <2>4
<1>10. ActiveKeys'
  BY <1>1, <1>3, <1>4, <1>9 DEF ActiveKeys
<1>11. CASE \E c \in all_cells_in(st) : new[c] = NoKey
  <2>1. result' = "MissingKeyMaterial" /\ packages' = packages
    BY <1>11 DEF GenerateArtifacts, new
  <2>2. PackagesOrMissing'
    BY <1>1, <1>11 DEF PackagesOrMissing
  <2>3. QED
    BY <1>1, <1>7, <1>8, <1>9, <1>10, <2>1, <2>2 DEF TypeOK
<1>12. CASE ~\E c \in all_cells_in(st) : new[c] = NoKey
  <2>1. /\ result' = "ok"
        /\ packages' = [c \in Cells |-> IF c \in active_in(st)
                                        THEN [own |-> new[c], root |-> new[Root]]
                                        ELSE NoPackage]
    BY <1>12 DEF GenerateArtifacts, new, package
  <2>2. \A c \in active_in(st) : c \in Cells /\ new[c] \in Keys /\ new[Root] \in Keys
    BY <1>3, <1>4, <1>7, <1>9 DEF Keys
  <2>3. packages' \in [Cells -> [own : Keys, root : Keys] \cup {NoPackage}]
    BY <2>1, <2>2
  <2>4. \A c \in active_in(st) : packages'[c] = [own |-> new[c], root |-> new[Root]]
    BY <2>1, <2>2
  <2>5. PackagesOrMissing'
    BY <1>1, <2>4 DEF PackagesOrMissing
  <2>6. QED
    BY <1>1, <1>7, <1>8, <1>9, <1>10, <2>1, <2>3, <2>5
<1>13. QED
  BY <1>11, <1>12

\* The rows that a purge leaves: a key is kept, deleted, or becomes the
\* dropped one.
LEMMA PurgeFacts ==
    ASSUME TypeOK, NEW S, NEW delete
    PROVE  /\ dropped_rows(S, delete) \in [Peers -> Nat]
           /\ current_rows(S) \in [Peers -> Nat]
           /\ \A p \in Peers :
                /\ p \notin S => current_rows(S)[p] = cur[p] /\ dropped_rows(S, delete)[p] = old[p]
                /\ p \in S => current_rows(S)[p] = NoKey
                /\ p \in S \ delete /\ cur[p] # NoKey => dropped_rows(S, delete)[p] = cur[p]
                /\ p \in delete \/ cur[p] = NoKey => dropped_rows(S, delete)[p] = old[p]
BY DEF TypeOK, dropped_rows, current_rows, Drops, NoKey

\* A command that ends in generate_artifacts keeps the invariant.
LEMMA CommandFacts ==
    ASSUME IInv, NEW st \in [Cells -> {"undefined", "active", "banned", "deleted"}],
           NEW rows \in [Peers -> Nat],
           GenerateArtifacts(st, rows),
           old' \in [Peers -> Nat], rekeyed' \in BOOLEAN, agents' = agents
    PROVE  IInv'
BY GenerateFacts DEF IInv, TypeOK

-----------------------------------------------------------------------------
(* The commands preserve the invariant.                                    *)

LEMMA InitIInv == Init => IInv
<1> SUFFICES ASSUME Init PROVE IInv
  OBVIOUS
<1>1. TypeOK
  BY KeymatAssumption DEF Init, TypeOK, Peers, NoKey
<1>2. PackagesOrMissing
  BY DEF Init, PackagesOrMissing, active, active_in
<1>3. ActiveKeys
  BY DEF Init, ActiveKeys, active, active_in, NoKey, Peers
<1>4. QED
  BY <1>1, <1>2, <1>3 DEF IInv

\* A command that changed nothing but its result.
LEMMA EndsIInv ==
    ASSUME IInv, NEW how \in {"ok", "StopIteration", "IntegrityError"}, Ends(how)
    PROVE  IInv'
BY DEF IInv, Ends, TypeOK, PackagesOrMissing, ActiveKeys, active, active_in,
       all_cells, all_cells_in

LEMMA SetStatusIInv ==
    ASSUME IInv, NEW c \in Cells, NEW from,
           NEW to \in {"undefined", "active", "banned", "deleted"},
           SetStatus(c, from, to)
    PROVE  IInv'
<1> DEFINE st == [status EXCEPT ![c] = to]
<1>1. /\ st \in [Cells -> {"undefined", "active", "banned", "deleted"}]
      /\ cur \in [Peers -> Nat]
      /\ GenerateArtifacts(st, cur)
      /\ old' = old /\ rekeyed' = rekeyed /\ agents' = agents
      /\ old' \in [Peers -> Nat] /\ rekeyed' \in BOOLEAN
  BY DEF IInv, TypeOK, SetStatus
<1>2. QED
  <2> HIDE DEF st
  <2> QED BY <1>1, CommandFacts

\* A rekeying of the UVN or of a cell, which sets rekeyed.
LEMMA RekeyIInv ==
    ASSUME IInv, NEW S, NEW delete,
           old' = dropped_rows(S, delete),
           rekeyed' = TRUE,
           GenerateArtifacts(status, current_rows(S)),
           agents' = agents
    PROVE  IInv'
<1>1. TypeOK /\ status \in [Cells -> {"undefined", "active", "banned", "deleted"}]
  BY DEF IInv, TypeOK
<1>2. current_rows(S) \in [Peers -> Nat] /\ old' \in [Peers -> Nat]
  BY <1>1, PurgeFacts
<1>3. QED
  BY <1>1, <1>2, CommandFacts

\* A deletion, which does not.
LEMMA DeleteCellIInv == ASSUME IInv, NEW c \in Cells, DeleteCell(c) PROVE IInv'
<1>1. CASE Ends("StopIteration")
  BY <1>1, EndsIInv
<1>2. CASE /\ active \ {c} = {} \/ ~rekeyed_cells_raises
           /\ status' = [status EXCEPT ![c] = IF c \in active THEN "active" ELSE "deleted"]
           /\ result' = "IntegrityError"
           /\ UNCHANGED <<cur, old, made, rekeyed, packages, agents>>
           /\ \/ conflict(gone_peers(c), {c})
              \/ conflict({c}, active) /\ \E d \in Cells \ all_cells : cur[d] # NoKey
  <2>1. status \in [Cells -> {"undefined", "active", "banned", "deleted"}]
    BY DEF IInv, TypeOK
  <2>2. TypeOK'
    BY <1>2, <2>1 DEF IInv, TypeOK
  <2>3. PackagesOrMissing'
    <3>1. CASE c \in active
      <4>1. status' = status
        BY <1>2, <2>1, <3>1 DEF active, active_in
      <4>2. QED
        BY <1>2, <4>1 DEF IInv, PackagesOrMissing, active, active_in, all_cells, all_cells_in
    <3>2. CASE c \notin active
      <4>1. rekeyed_cells_raises => active' = {}
        BY <1>2, <2>1, <3>2 DEF active, active_in
      <4>2. rekeyed_cells_raises
        <5>1. CASE conflict(gone_peers(c), {c})
          <6>1. PICK p \in gone_peers(c) \ {c} : old[p] # NoKey
            BY <5>1 DEF conflict, Drops
          <6>2. p \in Cells \ active
            BY <6>1 DEF gone_peers
          <6>3. QED
            BY <6>1, <6>2 DEF rekeyed_cells_raises, peers_with_dropped_key
        <5>2. CASE conflict({c}, active)
          BY <3>2, <5>2 DEF conflict, Drops, rekeyed_cells_raises, peers_with_dropped_key
        <5>3. QED
          BY <1>2, <5>1, <5>2
      <4>3. QED
        BY <4>1, <4>2 DEF PackagesOrMissing
    <3>3. QED
      BY <3>1, <3>2
  <2>4. ActiveKeys'
    <3>1. active' \subseteq active
      BY <1>2, <2>1 DEF active, active_in
    <3>2. QED
      BY <1>2, <3>1 DEF IInv, ActiveKeys
  <2>5. QED
    BY <2>2, <2>3, <2>4 DEF IInv
<1>3. CASE /\ old' = dropped_rows(gone_peers(c), {c} \cup (Cells \ all_cells))
           /\ GenerateArtifacts([status EXCEPT ![c] = "deleted"], current_rows(gone_peers(c)))
           /\ UNCHANGED <<rekeyed, agents>>
  <2> DEFINE st == [status EXCEPT ![c] = "deleted"]
             S == gone_peers(c)
             delete == {c} \cup (Cells \ all_cells)
  <2>1. /\ TypeOK /\ st \in [Cells -> {"undefined", "active", "banned", "deleted"}]
        /\ GenerateArtifacts(st, current_rows(S)) /\ old' = dropped_rows(S, delete)
        /\ rekeyed' \in BOOLEAN /\ agents' = agents
    BY <1>3 DEF IInv, TypeOK, GenerateArtifacts
  <2> HIDE DEF st, S, delete
  <2>2. current_rows(S) \in [Peers -> Nat] /\ old' \in [Peers -> Nat]
    BY <2>1, PurgeFacts
  <2>3. QED
    BY <2>1, <2>2, CommandFacts
<1>4. QED
  BY <1>1, <1>2, <1>3 DEF DeleteCell

LEMMA DropRekeyedIInv == ASSUME IInv, DropRekeyed PROVE IInv'
<1>1. TypeOK /\ old' = [p \in Peers |-> NoKey] /\ rekeyed' = FALSE
  BY DEF IInv, DropRekeyed
<1>2. TypeOK'
  <2>1. old' \in [Peers -> Nat] /\ rekeyed' \in BOOLEAN
    BY <1>1 DEF NoKey
  <2>2. QED
    BY <1>1, <2>1 DEF DropRekeyed, TypeOK
<1>3. PackagesOrMissing' /\ ActiveKeys'
  BY DEF IInv, DropRekeyed, PackagesOrMissing, ActiveKeys, active, active_in,
         all_cells, all_cells_in
<1>4. QED
  BY <1>2, <1>3 DEF IInv

LEMMA InstallPackageIInv == ASSUME IInv, NEW c \in Cells, InstallPackage(c) PROVE IInv'
<1>1. TypeOK'
  BY DEF IInv, InstallPackage, TypeOK
<1>2. PackagesOrMissing' /\ ActiveKeys'
  BY DEF IInv, InstallPackage, PackagesOrMissing, ActiveKeys, active, active_in,
         all_cells, all_cells_in
<1>3. QED
  BY <1>1, <1>2 DEF IInv

LEMMA NextIInv == IInv /\ [Next]_vars => IInv'
<1> SUFFICES ASSUME IInv, [Next]_vars PROVE IInv'
  OBVIOUS
<1>1. ASSUME NEW c \in Cells, AddCell(c) \/ Ban(c) \/ Unban(c) PROVE IInv'
  BY <1>1, SetStatusIInv DEF AddCell, Ban, Unban
<1>2. CASE RekeyUvn
  BY <1>2, EndsIInv, RekeyIInv DEF RekeyUvn
<1>3. ASSUME NEW c \in Cells, RekeyCell(c) PROVE IInv'
  BY <1>3, EndsIInv, RekeyIInv DEF RekeyCell
<1>4. ASSUME NEW c \in Cells, DeleteCell(c) \/ InstallPackage(c) PROVE IInv'
  BY <1>4, DeleteCellIInv, InstallPackageIInv
<1>5. CASE DropRekeyed
  BY <1>5, DropRekeyedIInv
<1>6. CASE UNCHANGED vars
  BY <1>6 DEF vars, IInv, TypeOK, PackagesOrMissing, ActiveKeys,
     active, active_in, all_cells, all_cells_in
<1>7. QED
  BY <1>1, <1>2, <1>3, <1>4, <1>5, <1>6 DEF Next

\* The invariant holds in every state that the commands can reach.
THEOREM IInvCorrect == Spec => []IInv
<1>1. Init => IInv
  BY InitIInv
<1>2. IInv /\ [Next]_vars => IInv'
  BY NextIInv
<1>3. QED
  BY <1>1, <1>2, PTL DEF Spec

\* Every variable keeps its type: no command writes a package that lacks a
\* key, whatever an earlier command left behind.
THEOREM TypeCorrect == Spec => []TypeOK
<1>1. IInv => TypeOK
  BY DEF IInv
<1>2. QED
  BY <1>1, IInvCorrect, PTL

\* If the registry's agent can start a sync, generate_artifacts has written
\* the keys that the registry has now to the packages of all active cells.
THEOREM PackagesCorrect == Spec => []SyncPushesCurrent
<1>1. IInv => SyncPushesCurrent
  <2> SUFFICES ASSUME IInv, SyncStarts
               PROVE  \A c \in active : packages[c] = [own |-> cur[c], root |-> cur[Root]]
    BY DEF SyncPushesCurrent
  <2>1. ASSUME NEW c \in all_cells, cur[c] = NoKey
        PROVE  FALSE
    <3>1. c \notin active
      BY <2>1 DEF IInv, ActiveKeys
    <3>2. rekeyed /\ old[c] # NoKey
      BY <2>1 DEF SyncStarts, RegistryKey
    <3>3. c \in Cells
      BY <2>1 DEF all_cells, all_cells_in
    <3>4. c \in peers_with_dropped_key /\ ~rekeyed_cells_raises
      BY <3>2, <3>3 DEF SyncStarts, peers_with_dropped_key
    <3>5. QED
      BY <3>1, <3>4 DEF rekeyed_cells_raises
  <2>2. QED
    BY <2>1 DEF IInv, PackagesOrMissing
<1>2. QED
  BY <1>1, IInvCorrect, PTL

-----------------------------------------------------------------------------
(* What the commands do to the keys that the registry's agent uses.        *)

\* A command that purges a current row only by dropping it, or of a peer that
\* has a dropped one, or that is not active afterwards.
Purges(st, rows) ==
    \A p \in Peers :
        \/ /\ old'[p] = old[p]
           /\ \/ rows[p] = cur[p]
              \/ rows[p] = NoKey /\ (old[p] # NoKey \/ p \in Cells \ active_in(st))
        \/ /\ old[p] = NoKey /\ old'[p] = cur[p] /\ rows[p] = NoKey
           /\ rekeyed' \/ p \in Cells \ active_in(st)

\* The keys with which the registry's agent reaches cells stay the same.
KeysKept ==
    \A p \in active' \cup {Root} :
        RegistryKey(p) # NoKey => RegistryKey(p)' = RegistryKey(p)

LEMMA PurgesKeepKeys ==
    ASSUME TypeOK, OldKeysOnlyWhileRekeyed,
           NEW st \in [Cells -> {"undefined", "active", "banned", "deleted"}],
           NEW rows \in [Peers -> Nat],
           GenerateArtifacts(st, rows), Purges(st, rows),
           rekeyed => rekeyed'
    PROVE  KeysKept
<1>1. /\ active' = active_in(st) /\ active_in(st) \subseteq all_cells_in(st)
      /\ active_in(st) \subseteq Cells /\ Root \notin Cells /\ Peers = Cells \cup {Root}
  BY GenerateFacts, KeymatAssumption DEF active_in, all_cells_in, Peers
<1>2. SUFFICES ASSUME NEW p \in active_in(st) \cup {Root}, RegistryKey(p) # NoKey
               PROVE  RegistryKey(p)' = RegistryKey(p)
  BY <1>1 DEF KeysKept
<1>3. p \in Peers /\ p \notin Cells \ active_in(st)
  BY <1>1
<1>4. rows[p] # NoKey => cur'[p] = rows[p]
  BY <1>1, <1>3, GenerateFacts
<1>5. ~rekeyed => old[p] = NoKey
  BY <1>3 DEF OldKeysOnlyWhileRekeyed
<1>6. RegistryKey(p) = IF old[p] # NoKey THEN old[p] ELSE cur[p]
  BY <1>5 DEF RegistryKey
<1>7. CASE old'[p] = old[p] /\ rows[p] = cur[p]
  BY <1>2, <1>4, <1>5, <1>6, <1>7 DEF RegistryKey
<1>8. CASE old'[p] = old[p] /\ old[p] # NoKey
  BY <1>5, <1>6, <1>8 DEF RegistryKey
<1>9. CASE old[p] = NoKey /\ old'[p] = cur[p] /\ rekeyed'
  BY <1>2, <1>6, <1>9 DEF RegistryKey
<1>10. QED
  BY <1>3, <1>7, <1>8, <1>9 DEF Purges

\* The commands but drop_rekeyed, and the installation of packages.
LEMMA CommandsKeepKeys ==
    ASSUME IInv, OldKeysOnlyWhileRekeyed, Next, ~DropRekeyed
    PROVE  KeysKept
<1>1. TypeOK
  BY DEF IInv
<1>2. ASSUME UNCHANGED <<cur, old, rekeyed>>
      PROVE  KeysKept
  <2>1. \A p : RegistryKey(p)' = RegistryKey(p)
    BY <1>2 DEF RegistryKey
  <2>2. QED
    BY <2>1 DEF KeysKept
<1>3. ASSUME NEW how, Ends(how) PROVE KeysKept
  BY <1>2, <1>3 DEF Ends
<1>4. ASSUME NEW S, NEW delete, ~conflict(S, delete),
             \A p \in S \cap delete : cur[p] # NoKey => old[p] # NoKey,
             old' = dropped_rows(S, delete), rekeyed' = TRUE,
             GenerateArtifacts(status, current_rows(S))
      PROVE  KeysKept
  <2>1. Purges(status, current_rows(S))
    BY <1>1, <1>4, PurgeFacts DEF Purges, conflict, Drops
  <2>2. current_rows(S) \in [Peers -> Nat]
    BY <1>1, PurgeFacts
  <2>3. QED
    BY <1>1, <1>4, <2>1, <2>2, PurgesKeepKeys DEF TypeOK
<1>5. ASSUME NEW c \in Cells, NEW from,
             NEW to \in {"undefined", "active", "banned", "deleted"},
             SetStatus(c, from, to)
      PROVE  KeysKept
  <2> DEFINE st == [status EXCEPT ![c] = to]
  <2>1. /\ st \in [Cells -> {"undefined", "active", "banned", "deleted"}]
        /\ cur \in [Peers -> Nat]
        /\ GenerateArtifacts(st, cur) /\ rekeyed' = rekeyed /\ old' = old
    BY <1>1, <1>5 DEF TypeOK, SetStatus
  <2> HIDE DEF st
  <2>2. Purges(st, cur)
    BY <2>1 DEF Purges
  <2>3. QED
    BY <1>1, <2>1, <2>2, PurgesKeepKeys
<1>6. CASE RekeyUvn
  <2>1. \A p \in Peers \cap already_dropped : old[p] # NoKey
    BY DEF already_dropped, peers_with_dropped_key
  <2>2. QED
    BY <1>3, <1>4, <1>6, <2>1 DEF RekeyUvn
<1>7. ASSUME NEW c \in Cells, RekeyCell(c) PROVE KeysKept
  <2>1. \A p \in gone_peers(c) \cap already_dropped : old[p] # NoKey
    BY DEF already_dropped, peers_with_dropped_key
  <2>2. QED
    BY <1>3, <1>4, <1>7, <2>1 DEF RekeyCell
<1>8. ASSUME NEW c \in Cells, DeleteCell(c) PROVE KeysKept
  <2> DEFINE st == [status EXCEPT ![c] = "deleted"]
             S == gone_peers(c)
             delete == {c} \cup (Cells \ all_cells)
  <2>1. CASE /\ ~conflict(gone_peers(c), {c})
             /\ old' = dropped_rows(S, delete)
             /\ GenerateArtifacts(st, current_rows(S))
             /\ UNCHANGED <<rekeyed, agents>>
    <3>1. /\ st \in [Cells -> {"undefined", "active", "banned", "deleted"}]
          /\ \A p \in S : p \in Cells \ active_in(st)
      BY <1>1 DEF TypeOK, gone_peers, active, active_in
    <3>2. \A p \in S \ delete : cur[p] # NoKey => old[p] = NoKey
      BY <2>1 DEF conflict, Drops
    <3> HIDE DEF st, S, delete
    <3>3. current_rows(S) \in [Peers -> Nat] /\ rekeyed' = rekeyed
      BY <1>1, <2>1, PurgeFacts
    <3>4. Purges(st, current_rows(S))
      <4>1. ASSUME NEW p \in Peers, p \notin S
            PROVE  old'[p] = old[p] /\ current_rows(S)[p] = cur[p]
        BY <1>1, <2>1, <4>1, PurgeFacts
      <4>2. ASSUME NEW p \in Peers, p \in S
            PROVE  /\ current_rows(S)[p] = NoKey /\ p \in Cells \ active_in(st)
                   /\ old'[p] = old[p] \/ (old[p] = NoKey /\ old'[p] = cur[p])
        BY <1>1, <2>1, <3>1, <3>2, <4>2, PurgeFacts
      <4>3. QED
        BY <4>1, <4>2 DEF Purges
    <3>5. QED
      BY <1>1, <2>1, <3>1, <3>3, <3>4, PurgesKeepKeys
  <2>2. QED
    BY <1>2, <1>3, <1>8, <2>1 DEF DeleteCell
<1>9. ASSUME NEW c \in Cells, InstallPackage(c) PROVE KeysKept
  BY <1>2, <1>9 DEF InstallPackage
<1>10. QED
  BY <1>5, <1>6, <1>7, <1>8, <1>9 DEF Next, AddCell, Ban, Unban

\* Dropped keys that no rekeying has recorded come only from the deletion of
\* a cell while another one is banned.
THEOREM StrayRowsExplained == Spec => StrayRowsOnlyByDeletion
<1> DEFINE Explained == \/ OldKeysOnlyWhileRekeyed'
                        \/ all_cells' # active' /\ ~(all_cells \subseteq all_cells')
<1>1. ASSUME OldKeysOnlyWhileRekeyed, UNCHANGED <<old, rekeyed>>
      PROVE  Explained
  BY <1>1 DEF OldKeysOnlyWhileRekeyed
<1>2. ASSUME OldKeysOnlyWhileRekeyed, NEW how, Ends(how)
      PROVE  Explained
  BY <1>1, <1>2 DEF Ends
<1>3. ASSUME rekeyed' = TRUE
      PROVE  Explained
  BY <1>3 DEF OldKeysOnlyWhileRekeyed
<1>4. ASSUME IInv, OldKeysOnlyWhileRekeyed, NEW c \in Cells, DeleteCell(c)
      PROVE  Explained
  <2> DEFINE st == [status EXCEPT ![c] = "deleted"]
             S == gone_peers(c)
             delete == {c} \cup (Cells \ all_cells)
  <2>1. CASE /\ old' = dropped_rows(S, delete)
             /\ GenerateArtifacts(st, current_rows(S))
             /\ UNCHANGED <<rekeyed, agents>>
    <3>1. TypeOK /\ status' = st /\ status \in [Cells -> {"undefined", "active", "banned", "deleted"}]
      BY <1>4, <2>1 DEF IInv, TypeOK, GenerateArtifacts
    <3>2. CASE S \subseteq delete
      <4>1. \A p \in Peers : old'[p] = old[p]
        <5> HIDE DEF S, delete
        <5> QED BY <2>1, <3>1, <3>2, PurgeFacts
      <4>2. QED
        BY <1>4, <2>1, <4>1 DEF OldKeysOnlyWhileRekeyed
    <3>3. CASE ~(S \subseteq delete)
      <4>1. PICK d \in S : d \notin delete
        BY <3>3
      <4>2. d \in Cells /\ d # c /\ status[d] = "banned"
        BY <4>1 DEF gone_peers, all_cells, all_cells_in, active, active_in
      <4>3. d \in all_cells' /\ d \notin active'
        BY <3>1, <4>2 DEF all_cells, all_cells_in, active, active_in
      <4>4. c \in all_cells /\ c \notin all_cells'
        BY <1>4, <3>1 DEF DeleteCell, all_cells, all_cells_in
      <4>5. QED
        BY <4>3, <4>4
    <3>4. QED
      BY <3>2, <3>3
  <2> HIDE DEF Explained
  <2>2. QED
    BY <1>1, <1>2, <1>4, <2>1 DEF DeleteCell
<1>5. ASSUME DropRekeyed
      PROVE  Explained
  BY <1>5 DEF DropRekeyed, OldKeysOnlyWhileRekeyed
<1> HIDE DEF Explained
<1>6. ASSUME OldKeysOnlyWhileRekeyed, NEW c \in Cells,
             AddCell(c) \/ Ban(c) \/ Unban(c) \/ InstallPackage(c)
      PROVE  Explained
  BY <1>1, <1>6 DEF AddCell, Ban, Unban, SetStatus, InstallPackage
<1>7. ASSUME OldKeysOnlyWhileRekeyed, RekeyUvn \/ \E c \in Cells : RekeyCell(c)
      PROVE  Explained
  BY <1>2, <1>3, <1>7 DEF RekeyUvn, RekeyCell
<1>8. IInv /\ [Next]_vars => [OldKeysOnlyWhileRekeyed => Explained]_vars
  BY <1>4, <1>5, <1>6, <1>7 DEF Next
<1>9. QED
  BY <1>8, IInvCorrect, PTL DEF Explained, StrayRowsOnlyByDeletion, Spec

\* Whatever commands are given, and whichever of them fail: while there is no
\* stray row, only the end of a sync cuts off an agent that the registry
\* reaches.
THEOREM ReachableKept == Spec => CommandsKeepReachable
<1>1. ASSUME IInv, [Next]_vars, OldKeysOnlyWhileRekeyed, rekeyed => rekeyed', agents' = agents,
             NEW c \in Cells, Reachable(c), c \in active'
      PROVE  Reachable(c)'
  <2>1. CASE UNCHANGED vars
    BY <1>1, <2>1 DEF vars, Reachable, RegistryKey, all_cells, all_cells_in
  <2>2. CASE Next
    <3>1. ~DropRekeyed
      BY <1>1 DEF DropRekeyed
    <3>2. KeysKept
      BY <1>1, <2>2, <3>1, CommandsKeepKeys
    <3>3. RegistryKey(c) # NoKey /\ RegistryKey(Root) # NoKey
      BY <1>1 DEF Reachable, IInv, TypeOK, Keys, NoPackage
    <3>4. RegistryKey(c)' = RegistryKey(c) /\ RegistryKey(Root)' = RegistryKey(Root)
      BY <1>1, <3>2, <3>3 DEF KeysKept, Peers
    <3>5. c \in all_cells'
      BY <1>1 DEF active, active_in, all_cells, all_cells_in
    <3>6. QED
      BY <1>1, <3>4, <3>5 DEF Reachable
  <2>3. QED
    BY <1>1, <2>1, <2>2
<1>2. IInv /\ [Next]_vars =>
        [OldKeysOnlyWhileRekeyed /\ (rekeyed => rekeyed') /\ agents' = agents =>
            \A c \in Cells : Reachable(c) /\ c \in active' => Reachable(c)']_vars
  BY <1>1
<1>3. QED
  BY <1>2, IInvCorrect, PTL DEF CommandsKeepReachable, Spec

=============================================================================
