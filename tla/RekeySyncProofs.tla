--------------------------- MODULE RekeySyncProofs --------------------------
(***************************************************************************)
(* A sync of a rekeyed UVN implements KeySwitch, for any number of cells   *)
(* and of commands, syncs, crashes and failures: the registry drops the    *)
(* old keys of the root VPN only when every cell that was not given up has *)
(* its new key at hand.                                                    *)
(***************************************************************************)
EXTENDS RekeySync, TLAPS

PackageType == [config : Nat, key : Nat]

CellsTyped ==
    /\ up \in [Cells -> {"up", "reloading", "imported", "down"}]
    /\ db \in [Cells -> PackageType]
    /\ held \in [Cells -> PackageType]

AgentTyped ==
    /\ stage \in {0, 1}
    /\ status \in [Cells -> {"DECLARED", "ONLINE", "OFFLINE"}]
    /\ using \in [Cells -> Nat]
    /\ pub \in [Cells -> [id : Nat, package : PackageType]]
    /\ id \in Nat
    /\ batch \subseteq Cells
    /\ lost \subseteq Cells

RegistryTyped ==
    /\ config \in Nat /\ packaged \in Nat /\ made \in Nat
    /\ cur \in [Cells -> Nat] /\ old \in [Cells -> Nat]
    /\ rekeyed \in BOOLEAN
    /\ meddled \subseteq Cells

\* The keys of a cell are numbered in the order in which they were made, and no
\* copy is ahead of the one it was made from.
KeysOrdered ==
    \A c \in Cells :
        /\ 0 < db[c].key /\ db[c].key <= KeyAtHand(c)
        /\ KeyAtHand(c) <= cur[c] /\ cur[c] <= made
        /\ pub # NoSamples =>
            KeyAtHand(c) <= pub[c].package.key /\ pub[c].package.key <= cur[c]

\* During a push the registry is rekeyed, and there are cells.
PushIsRekeyed ==
    /\ run = "push" => rekeyed /\ Cells # {}
    /\ ~rekeyed => \A c \in Cells : old[c] = None

\* What is known of a cell that was neither lost nor rekeyed during the push:
\* it was published its current key, and until it has it at hand the registry
\* is connected to it and sees it so.
PushTracksCells ==
    run = "push" =>
        /\ stage = 1 \/ AllCellsConnected(status) => pub # NoSamples
        /\ \A c \in Cells \ (lost \cup meddled) :
            /\ c \notin targets => using[c] = cur[c]
            /\ pub # NoSamples =>
                /\ pub[c].package.key = cur[c]
                /\ (Connected(c) /\ status[c] = "ONLINE") \/ KeyAtHand(c) = cur[c]

\* The configuration that a push will write back.
PushKeepsConfig == meddled = {} => config = packaged /\ (run = "push" => id = packaged)

\* Without faults, a cell has the key that the registry uses for it, except
\* between the publication and the switch.
Expected(c) == IF rekeyed /\ old[c] # None THEN old[c] ELSE cur[c]
FaultFreeKeys ==
    ~abandoned /\ lost \cup meddled = {} =>
        /\ run = "push" =>
            /\ \A c \in Cells : using[c] = Expected(c)
            /\ pub # NoSamples /\ stage = 0 => due /\ batch = {} /\ AllCellsConnected(status)
        /\ ~(run = "push" /\ pub # NoSamples) => \A c \in Cells : KeyAtHand(c) = Expected(c)
        /\ run # "push" /\ pub # NoSamples => \A c \in Cells : pub[c].package.key = Expected(c)

SInv ==
    /\ CellsTyped /\ AgentTyped /\ RegistryTyped
    /\ KeysOrdered /\ PushIsRekeyed /\ PushTracksCells /\ PushKeepsConfig /\ FaultFreeKeys

-----------------------------------------------------------------------------
LEMMA NoPackageTyped == NoPackage \in PackageType /\ NoSamples \in [Cells -> [id : Nat, package : PackageType]]
  BY DEF NoPackage, NoSamples, PackageType, None

\* The types that the keys of a cell have.
LEMMA KeysTyped ==
    ASSUME SInv, NEW c \in Cells
    PROVE  /\ db[c].key \in Nat /\ held[c].key \in Nat /\ KeyAtHand(c) \in Nat
           /\ cur[c] \in Nat /\ made \in Nat /\ pub[c].package.key \in Nat
  BY DEF SInv, CellsTyped, AgentTyped, RegistryTyped, PackageType, KeyAtHand

LEMMA SInit == Init => SInv
  <1> SUFFICES ASSUME Init PROVE SInv
    OBVIOUS
  <1> USE DEF Init
  <1>1. CellsTyped /\ AgentTyped /\ RegistryTyped
    BY NoPackageTyped DEF CellsTyped, AgentTyped, RegistryTyped, PackageType, None
  <1>2. \A c \in Cells : KeyAtHand(c) = 1
    BY DEF KeyAtHand
  <1>3. KeysOrdered
    BY <1>2 DEF KeysOrdered
  <1>4. PushIsRekeyed /\ PushTracksCells /\ PushKeepsConfig
    BY DEF PushIsRekeyed, PushTracksCells, PushKeepsConfig
  <1>5. FaultFreeKeys
    BY <1>2 DEF FaultFreeKeys, Expected
  <1> QED
    BY <1>1, <1>3, <1>4, <1>5 DEF SInv

-----------------------------------------------------------------------------
(* The agents of the cells.                                                *)

\* What a step of a cell may do to the key it has at hand: nothing, and then it
\* does not disconnect after the publication; or it takes the published one; or
\* it falls back to the one before, and is lost.
CellMoves(c) ==
    \/ /\ KeyAtHand(c)' = KeyAtHand(c)
       /\ (Connected(c) => Connected(c)') \/ run # "push" \/ pub = NoSamples \/ c \in lost'
    \/ pub # NoSamples /\ KeyAtHand(c)' = pub[c].package.key
    \/ c \in lost' /\ KeyAtHand(c)' <= KeyAtHand(c)

LEMMA CellStep ==
    ASSUME SInv, UNCHANGED <<registry, agent, abandoned, meddled>>, CellsTyped',
           lost \subseteq lost', lost' \subseteq Cells,
           \A c \in Cells : 0 < db'[c].key /\ db'[c].key <= KeyAtHand(c)',
           \A c \in Cells : CellMoves(c)
    PROVE  SInv'
  <1> USE DEF SInv, registry, agent
  <1>1. AgentTyped' /\ RegistryTyped' /\ PushIsRekeyed' /\ PushKeepsConfig'
    BY DEF AgentTyped, RegistryTyped, PushIsRekeyed, PushKeepsConfig
  <1>2. NoSamples' = NoSamples
    BY DEF NoSamples
  <1>3. KeysOrdered'
    <2> SUFFICES ASSUME NEW c \in Cells
                 PROVE  /\ KeyAtHand(c)' <= cur[c]
                        /\ pub # NoSamples => KeyAtHand(c)' <= pub[c].package.key
      BY <1>2 DEF KeysOrdered
    <2>1. KeyAtHand(c)' \in Nat
      BY DEF KeyAtHand, CellsTyped, PackageType
    <2> QED
      BY <2>1, KeysTyped DEF KeysOrdered, CellMoves
  <1>4. PushTracksCells'
    <2> SUFFICES ASSUME run = "push", pub # NoSamples, NEW c \in Cells \ (lost' \cup meddled)
                 PROVE  (Connected(c)' /\ status[c] = "ONLINE") \/ KeyAtHand(c)' = cur[c]
      BY <1>2 DEF PushTracksCells, AllCellsConnected, online
    <2>1. c \in Cells \ (lost \cup meddled)
      OBVIOUS
    <2> QED
      BY <2>1 DEF PushTracksCells, CellMoves
  <1>5. FaultFreeKeys'
    <2> SUFFICES ASSUME ~abandoned, lost' \cup meddled = {}
                 PROVE  FaultFreeKeys'
      BY DEF FaultFreeKeys
    <2>1. lost \cup meddled = {}
      OBVIOUS
    <2>2. \A c \in Cells : Expected(c)' = Expected(c)
      BY DEF Expected
    <2>3. ASSUME ~(run = "push" /\ pub # NoSamples), NEW c \in Cells
          PROVE  KeyAtHand(c)' = Expected(c)
      BY <2>1, <2>3 DEF FaultFreeKeys, CellMoves
    <2> QED
      BY <1>2, <2>1, <2>2, <2>3 DEF FaultFreeKeys, AllCellsConnected, online
  <1> QED
    BY <1>1, <1>3, <1>4, <1>5

LEMMA ReceiveStep == ASSUME SInv, NEW c \in Cells, Receive(c)
                     PROVE  SInv' /\ \A d \in Cells : CellMoves(d)
  <1>1. /\ Connected(c) /\ pub[c].id # None
        /\ held' = [held EXCEPT ![c] = pub[c].package]
        /\ up' = [up EXCEPT ![c] = "reloading"]
        /\ UNCHANGED <<registry, agent, db, abandoned, meddled, lost>>
    BY DEF Receive, Takes, faults
  <1>2. pub # NoSamples
    BY <1>1 DEF NoSamples
  <1>3. CellsTyped'
    BY <1>1 DEF SInv, CellsTyped, AgentTyped, agent
  <1>4. KeyAtHand(c)' = pub[c].package.key /\ KeyAtHand(c) = db[c].key
    BY <1>1 DEF KeyAtHand, Connected, SInv, CellsTyped
  <1>5. \A d \in Cells \ {c} : /\ KeyAtHand(d)' = KeyAtHand(d)
                               /\ Connected(d) => Connected(d)'
    BY <1>1 DEF KeyAtHand, Connected, Running, SInv, CellsTyped, agent
  <1>6. \A d \in Cells : CellMoves(d)
    BY <1>2, <1>4, <1>5 DEF CellMoves
  <1>7. \A d \in Cells : 0 < db'[d].key /\ db'[d].key <= KeyAtHand(d)'
    BY <1>1, <1>2, <1>4, <1>5, KeysTyped DEF SInv, KeysOrdered
  <1>8. lost' \subseteq Cells /\ lost \subseteq lost'
    BY <1>1 DEF SInv, AgentTyped
  <1> QED
    BY <1>1, <1>3, <1>6, <1>7, <1>8, CellStep

\* Steps that leave every cell the key it has at hand.
LEMMA InstallStep ==
    ASSUME SInv, NEW c \in Cells,
           ReceiveFails(c) \/ ImportOther(c) \/ ExtractAndOpen(c) \/ CellRestart(c)
    PROVE  SInv' /\ \A d \in Cells : KeyAtHand(d)' = KeyAtHand(d)
  <1>1. UNCHANGED <<registry, agent, abandoned, meddled, lost>>
    BY DEF ReceiveFails, ImportOther, ExtractAndOpen, CellRestart, faults
  <1>2. CellsTyped'
    BY NoPackageTyped DEF SInv, CellsTyped, ReceiveFails, ImportOther, ExtractAndOpen, CellRestart
  <1>3. \A d \in Cells : /\ KeyAtHand(d)' = KeyAtHand(d)
                         /\ Connected(d) => Connected(d)'
    <2>1. CASE ReceiveFails(c)
      BY <1>1, <2>1 DEF KeyAtHand, Connected, Running, ReceiveFails, agent
    <2>2. CASE ImportOther(c)
      BY <1>1, <2>2 DEF KeyAtHand, Connected, Running, ImportOther, agent, SInv, CellsTyped
    <2>3. CASE ExtractAndOpen(c)
      BY <1>1, <2>3 DEF KeyAtHand, Connected, Running, ExtractAndOpen, agent, SInv, CellsTyped
    <2>4. CASE CellRestart(c)
      BY <1>1, <2>4 DEF KeyAtHand, Connected, Running, CellRestart, agent, SInv, CellsTyped
    <2> QED
      BY <2>1, <2>2, <2>3, <2>4
  <1>4. \A d \in Cells : CellMoves(d)
    BY <1>3 DEF CellMoves
  <1>5. \A d \in Cells : db'[d].key = db[d].key \/ (db'[d].key = KeyAtHand(d))
    <2>1. CASE ImportOther(c)
      BY <2>1 DEF ImportOther, KeyAtHand, SInv, CellsTyped
    <2>2. CASE ~ImportOther(c)
      BY <2>2 DEF ReceiveFails, ExtractAndOpen, CellRestart
    <2> QED
      BY <2>1, <2>2
  <1>6. \A d \in Cells : 0 < db'[d].key /\ db'[d].key <= KeyAtHand(d)'
    BY <1>3, <1>5, KeysTyped DEF SInv, KeysOrdered
  <1>7. lost' \subseteq Cells /\ lost \subseteq lost'
    BY <1>1 DEF SInv, AgentTyped
  <1> QED
    BY <1>1, <1>2, <1>3, <1>4, <1>6, <1>7, CellStep

LEMMA CrashStep ==
    ASSUME SInv, NEW c \in Cells, CellCrash(c)
    PROVE  SInv' /\ (\A d \in Cells : KeyAtHand(d)' = KeyAtHand(d)
                                      \/ (d \in lost' /\ KeyAtHand(d)' <= KeyAtHand(d)))
  <1>1. /\ up' = [up EXCEPT ![c] = "down"] /\ held' = [held EXCEPT ![c] = NoPackage]
        /\ lost' = IF (run = "push" /\ pub # NoSamples) \/ up[c] = "reloading" THEN lost \cup {c}
                   ELSE lost
        /\ UNCHANGED <<registry, agent, db, abandoned, meddled>>
    BY DEF CellCrash
  <1>2. CellsTyped'
    BY <1>1, NoPackageTyped DEF SInv, CellsTyped
  <1>3. KeyAtHand(c)' = db[c].key
    BY <1>1 DEF KeyAtHand, SInv, CellsTyped
  <1>4. up[c] # "reloading" => KeyAtHand(c) = db[c].key
    BY DEF KeyAtHand
  <1>5. \A d \in Cells \ {c} : /\ KeyAtHand(d)' = KeyAtHand(d)
                               /\ Connected(d) => Connected(d)'
    BY <1>1 DEF KeyAtHand, Connected, Running, SInv, CellsTyped, agent
  <1>6. db[c].key <= KeyAtHand(c)
    BY DEF SInv, KeysOrdered
  <1>7. \A d \in Cells : CellMoves(d)
    BY <1>1, <1>3, <1>4, <1>5, <1>6 DEF CellMoves
  <1>8. \A d \in Cells : 0 < db'[d].key /\ db'[d].key <= KeyAtHand(d)'
    BY <1>1, <1>3, <1>5, KeysTyped DEF SInv, KeysOrdered
  <1>9. lost' \subseteq Cells /\ lost \subseteq lost'
    BY <1>1 DEF SInv, AgentTyped
  <1>10. SInv'
    BY <1>1, <1>2, <1>7, <1>8, <1>9, CellStep
  <1> QED
    BY <1>1, <1>3, <1>4, <1>5, <1>6, <1>10

-----------------------------------------------------------------------------
(* The registry.                                                           *)

\* The new keys are ahead of all others, and the registry's agents go on with
\* the ones that they expect the cells to have.
LEMMA RekeyStep ==
    ASSUME SInv, NEW S \in SUBSET Cells, Cells # {} => S # {}, Rekey(S)
    PROVE  SInv'
  <1> USE DEF SInv
  <1>1. /\ made' = made + 1
        /\ cur' = [c \in Cells |-> IF c \in S THEN made' ELSE cur[c]]
        /\ old' = [c \in Cells |-> IF c \in S /\ old[c] = None THEN cur[c] ELSE old[c]]
        /\ rekeyed' = TRUE /\ config' = made' /\ packaged' = made'
        /\ meddled' = IF run = "push" THEN meddled \cup S ELSE meddled
        /\ UNCHANGED <<agent, cells, abandoned, lost>>
    BY DEF Rekey
  <1>2. CellsTyped' /\ AgentTyped' /\ RegistryTyped'
    BY <1>1 DEF CellsTyped, AgentTyped, RegistryTyped, agent, cells
  <1>3. /\ NoSamples' = NoSamples /\ pub' = pub /\ run' = run
        /\ \A c \in Cells : /\ KeyAtHand(c)' = KeyAtHand(c) /\ db'[c] = db[c]
                            /\ Connected(c)' = Connected(c)
    BY <1>1 DEF NoSamples, KeyAtHand, Connected, Running, agent, cells
  <1>4. KeysOrdered'
    BY <1>1, <1>3, KeysTyped DEF KeysOrdered
  <1>5. PushIsRekeyed'
    BY <1>1, <1>3 DEF PushIsRekeyed
  <1>6. PushTracksCells'
    BY <1>1, <1>3 DEF PushTracksCells, AllCellsConnected, online, agent
  <1>7. PushKeepsConfig'
    BY <1>1, <1>3 DEF PushKeepsConfig, PushIsRekeyed
  <1>8. FaultFreeKeys'
    <2> SUFFICES ASSUME ~abandoned, lost \cup meddled' = {}
                 PROVE  FaultFreeKeys'
      BY <1>1 DEF FaultFreeKeys
    <2>1. run # "push" /\ lost \cup meddled = {}
      BY <1>1 DEF PushIsRekeyed
    <2>2. \A c \in Cells : Expected(c)' = Expected(c)
      <3> TAKE c \in Cells
      <3>1. cur[c] # None
        BY KeysTyped DEF KeysOrdered, None
      <3> QED
        BY <1>1, <3>1 DEF Expected, PushIsRekeyed
    <2> QED
      BY <1>3, <2>1, <2>2 DEF FaultFreeKeys
  <1> QED
    BY <1>2, <1>4, <1>5, <1>6, <1>7, <1>8

\* The registry's agent is opened: with the keys that the cells are expected to
\* have, and during a rekeying without samples.
LEMMA OpensStep ==
    ASSUME SInv, run # "push", rekeyed => \E c \in Cells : old[c] # None, Opens,
           UNCHANGED <<abandoned, lost, meddled>>
    PROVE  SInv'
  <1> USE DEF SInv
  <1>1. UNCHANGED <<config, packaged, made, cur, old, rekeyed, up, db, held>>
    BY DEF Opens, registry
  <1>2. /\ run' = (IF rekeyed THEN "push" ELSE "final") /\ id' = config /\ stage' = 0
        /\ targets' = {c \in Cells : old[c] # None}
        /\ using' = [c \in Cells |-> IF rekeyed /\ old[c] # None THEN old[c] ELSE cur[c]]
        /\ status' = [c \in Cells |-> "DECLARED"]
        /\ pub' = StartSamples /\ batch' = {}
    BY DEF Opens
  <1>3. /\ rekeyed => pub' = NoSamples
        /\ ~rekeyed => pub' = [c \in Cells |-> [id |-> config, package |-> Package(c)]]
    BY <1>2 DEF StartSamples
  <1>4. \A c \in Cells : Package(c) \in PackageType /\ Package(c).key = cur[c]
    BY DEF Package, PackageType, RegistryTyped
  <1>5. CellsTyped' /\ RegistryTyped'
    BY <1>1 DEF CellsTyped, RegistryTyped
  <1>6. AgentTyped'
    <2>1. pub' \in [Cells -> [id : Nat, package : PackageType]]
      BY <1>3, <1>4, NoPackageTyped DEF RegistryTyped
    <2> QED
      BY <1>2, <2>1 DEF AgentTyped, RegistryTyped
  <1>7. NoSamples' = NoSamples /\ \A c \in Cells : KeyAtHand(c)' = KeyAtHand(c) /\ db'[c] = db[c]
    BY <1>1 DEF NoSamples, KeyAtHand
  <1>8. \A c \in Cells : pub' # NoSamples => pub'[c].package.key = cur[c] /\ ~rekeyed
    BY <1>3, <1>4
  <1>9. KeysOrdered'
    BY <1>1, <1>7, <1>8, KeysTyped DEF KeysOrdered
  <1>10. PushIsRekeyed'
    BY <1>1, <1>2 DEF PushIsRekeyed
  <1>11. PushTracksCells'
    <2> SUFFICES ASSUME rekeyed PROVE PushTracksCells'
      BY <1>2 DEF PushTracksCells
    <2>1. ~AllCellsConnected(status')
      BY <1>2 DEF AllCellsConnected, online
    <2> QED
      BY <1>1, <1>2, <1>3, <1>7, <2>1 DEF PushTracksCells
  <1>12. PushKeepsConfig'
    BY <1>1, <1>2 DEF PushKeepsConfig
  <1>13. FaultFreeKeys'
    <2> SUFFICES ASSUME ~abandoned, lost \cup meddled = {}
                 PROVE  FaultFreeKeys'
      BY DEF FaultFreeKeys
    <2>1. \A c \in Cells : Expected(c)' = Expected(c) /\ KeyAtHand(c) = Expected(c)
      BY <1>1 DEF Expected, FaultFreeKeys
    <2>2. \A c \in Cells : using'[c] = Expected(c)
      BY <1>2 DEF Expected
    <2>3. ~rekeyed => \A c \in Cells : Expected(c) = cur[c]
      BY DEF Expected
    <2> QED
      BY <1>2, <1>3, <1>7, <1>8, <2>1, <2>2, <2>3 DEF FaultFreeKeys
  <1> QED
    BY <1>5, <1>6, <1>9, <1>10, <1>11, <1>12, <1>13

\* What a step of the registry's agent that goes on running leaves alone.
LEMMA SameKeysFacts ==
    ASSUME SInv, UNCHANGED <<registry, up, db, held, run, id, using, targets, abandoned, meddled>>
    PROVE  /\ CellsTyped' /\ RegistryTyped' /\ PushIsRekeyed' /\ PushKeepsConfig'
           /\ NoSamples' = NoSamples
           /\ \A c \in Cells : /\ KeyAtHand(c)' = KeyAtHand(c) /\ Expected(c)' = Expected(c)
                               /\ Connected(c)' = Connected(c)
  <1>1. CellsTyped' /\ RegistryTyped' /\ PushIsRekeyed' /\ PushKeepsConfig'
    BY DEF SInv, CellsTyped, RegistryTyped, PushIsRekeyed, PushKeepsConfig, registry
  <1>2. NoSamples' = NoSamples
    BY DEF NoSamples
  <1>3. \A c \in Cells : /\ KeyAtHand(c)' = KeyAtHand(c) /\ Expected(c)' = Expected(c)
                         /\ Connected(c)' = Connected(c)
    BY DEF KeyAtHand, Expected, Connected, Running, registry
  <1> QED
    BY <1>1, <1>2, <1>3

LEMMA SeeOnlineStep == ASSUME SInv, NEW c \in Cells, SeeOnline(c) PROVE SInv'
  <1> USE DEF SInv
  <1>1. /\ status' = [status EXCEPT ![c] = "ONLINE"] /\ stage' = stage /\ Connected(c)
        /\ UNCHANGED <<registry, up, db, held, run, id, using, targets, abandoned, meddled>>
    BY DEF SeeOnline
  <1>2. /\ CellsTyped' /\ RegistryTyped' /\ PushIsRekeyed' /\ PushKeepsConfig'
        /\ NoSamples' = NoSamples
        /\ \A d \in Cells : /\ KeyAtHand(d)' = KeyAtHand(d) /\ Expected(d)' = Expected(d)
                            /\ Connected(d)' = Connected(d)
    BY <1>1, SameKeysFacts
  <1>3. status' \in [Cells -> {"DECLARED", "ONLINE", "OFFLINE"}]
    BY <1>1 DEF AgentTyped
  <1>4. AllCellsConnected(status) => AllCellsConnected(status')
    BY <1>1 DEF AllCellsConnected, online, AgentTyped
  <1>5. \A d \in Cells : status[d] = "ONLINE" => status'[d] = "ONLINE"
    BY <1>1 DEF AgentTyped
  <1>6. cur' = cur /\ db' = db /\ made' = made
    BY <1>1 DEF registry
  <1>7. CASE ~(run = "push" /\ AllCellsConnected(status') /\ ~AllCellsConnected(status))
    <2>1. UNCHANGED <<pub, due, batch, lost>>
      BY <1>7 DEF SeeOnline
    <2>2. AgentTyped'
      BY <1>1, <1>3, <2>1 DEF AgentTyped
    <2>3. KeysOrdered'
      BY <1>2, <1>6, <2>1 DEF KeysOrdered
    <2>4. PushTracksCells'
      BY <1>1, <1>2, <1>5, <1>6, <1>7, <2>1 DEF PushTracksCells
    <2>5. FaultFreeKeys'
      BY <1>1, <1>2, <1>4, <2>1 DEF FaultFreeKeys
    <2> QED
      BY <1>2, <2>2, <2>3, <2>4, <2>5
  <1>8. CASE run = "push" /\ AllCellsConnected(status') /\ ~AllCellsConnected(status)
    <2> DEFINE gone == {d \in Cells : ~Connected(d)}
    <2>1. pub' = Samples /\ due' = TRUE /\ batch' \in SUBSET gone /\ lost' = lost \cup gone
      BY <1>8 DEF SeeOnline, Publish
    <2>2. \A d \in Cells : Package(d) \in PackageType /\ Package(d).key = cur[d]
      BY DEF Package, PackageType, RegistryTyped
    <2>3. \A d \in Cells : pub'[d].package = Package(d)
      BY <2>1 DEF Samples
    <2>4. AgentTyped'
      <3>1. pub' \in [Cells -> [id : Nat, package : PackageType]]
        BY <2>1, <2>2 DEF Samples, AgentTyped
      <3> QED
        BY <1>1, <1>3, <2>1, <3>1 DEF AgentTyped
    <2>5. \A d \in Cells : pub'[d].package.key = cur[d]
      <3> TAKE d \in Cells
      <3>1. pub'[d].package = Package(d)
        BY <2>3
      <3> QED
        BY <2>2, <3>1, Zenon
    <2>6. pub' # NoSamples
      BY <2>5, KeysTyped DEF KeysOrdered, NoSamples, NoPackage, None
    <2>7. KeysOrdered'
      BY <1>2, <1>6, <2>5, KeysTyped DEF KeysOrdered
    <2>8. \A d \in Cells : status'[d] = "ONLINE"
      BY <1>8 DEF AllCellsConnected, online
    <2>9. PushTracksCells'
      BY <1>1, <1>2, <1>6, <2>1, <2>5, <2>6, <2>8 DEF PushTracksCells
    <2>10. FaultFreeKeys'
      BY <1>1, <1>2, <1>8, <2>1, <2>6 DEF FaultFreeKeys
    <2> QED
      BY <1>2, <2>4, <2>7, <2>9, <2>10
  <1> QED
    BY <1>7, <1>8

\* Who goes offline after the publication, and is not lost, has the new key.
LEMMA SeeOfflineStep == ASSUME SInv, NEW c \in Cells, SeeOffline(c) PROVE SInv'
  <1> USE DEF SInv
  <1>1. /\ status' = [status EXCEPT ![c] = "OFFLINE"] /\ ~Connected(c) /\ (due => c \in batch)
        /\ UNCHANGED <<registry, up, db, held, run, id, using, targets, abandoned, meddled>>
        /\ UNCHANGED <<pub, due, batch, lost, stage>>
    BY DEF SeeOffline, cells, faults
  <1>2. /\ CellsTyped' /\ RegistryTyped' /\ PushIsRekeyed' /\ PushKeepsConfig'
        /\ NoSamples' = NoSamples
        /\ \A d \in Cells : /\ KeyAtHand(d)' = KeyAtHand(d) /\ Expected(d)' = Expected(d)
                            /\ Connected(d)' = Connected(d)
    BY <1>1, SameKeysFacts
  <1>3. AgentTyped'
    BY <1>1 DEF AgentTyped
  <1>4. cur' = cur /\ db' = db /\ made' = made
    BY <1>1 DEF registry
  <1>5. KeysOrdered'
    BY <1>1, <1>2, <1>4 DEF KeysOrdered
  <1>6. status'[c] = "OFFLINE" /\ \A d \in Cells \ {c} : status'[d] = status[d]
    BY <1>1 DEF AgentTyped
  <1>7. ~AllCellsConnected(status')
    BY <1>6 DEF AllCellsConnected, online
  <1>8. PushTracksCells'
    BY <1>1, <1>2, <1>4, <1>6, <1>7 DEF PushTracksCells
  <1>9. FaultFreeKeys'
    BY <1>1, <1>2 DEF FaultFreeKeys
  <1> QED
    BY <1>2, <1>3, <1>5, <1>8, <1>9

LEMMA PollStep == ASSUME SInv, PollConnected \/ PollWaits PROVE SInv'
  <1> USE DEF SInv
  <1>1. /\ run = "push" /\ stage' \in {stage, 1}
        /\ UNCHANGED <<registry, up, db, held, run, id, using, targets, abandoned, meddled>>
        /\ UNCHANGED <<pub, lost, status>>
        /\ due' = FALSE /\ batch' = {}
        /\ stage' = 1 => stage = 1 \/ AllCellsConnected(status)
        /\ stage' = 0 => ~AllCellsConnected(status)
    BY DEF PollConnected, PollWaits, PollDone, cells, faults, AgentTyped
  <1>2. /\ CellsTyped' /\ RegistryTyped' /\ PushIsRekeyed' /\ PushKeepsConfig'
        /\ NoSamples' = NoSamples
        /\ \A d \in Cells : /\ KeyAtHand(d)' = KeyAtHand(d) /\ Expected(d)' = Expected(d)
                            /\ Connected(d)' = Connected(d)
    BY <1>1, SameKeysFacts
  <1>3. AgentTyped'
    BY <1>1 DEF AgentTyped
  <1>4. cur' = cur /\ db' = db /\ made' = made
    BY <1>1 DEF registry
  <1>5. KeysOrdered'
    BY <1>1, <1>2, <1>4 DEF KeysOrdered
  <1>6. PushTracksCells'
    BY <1>1, <1>2, <1>4 DEF PushTracksCells, AllCellsConnected, online
  <1>7. FaultFreeKeys'
    <2>1. stage' = 0 => stage = 0
      BY <1>1
    <2> QED
      BY <1>1, <1>2, <2>1 DEF FaultFreeKeys
  <1> QED
    BY <1>2, <1>3, <1>5, <1>6, <1>7

\* Exactly the rekeyed cells are offline: all cells that were not given up have
\* their current key at hand.
LEMMA SwitchIsSafe ==
    ASSUME SInv, PollSwitch, NEW c \in Cells \ (lost \cup meddled)
    PROVE  KeyAtHand(c) = cur[c]
  <1>1. run = "push" /\ stage = 1 /\ offline_cells = targets
    BY DEF PollSwitch, RekeyedCellsOffline
  <1>2. pub # NoSamples
    BY <1>1 DEF SInv, PushTracksCells
  <1>3. (Connected(c) /\ status[c] = "ONLINE") \/ KeyAtHand(c) = cur[c]
    BY <1>1, <1>2 DEF SInv, PushTracksCells
  <1>4. CASE c \in targets
    BY <1>1, <1>3, <1>4 DEF offline_cells
  <1>5. CASE c \notin targets
    <2>1. using[c] = cur[c]
      BY <1>1, <1>5 DEF SInv, PushTracksCells
    <2> QED
      BY <1>3, <2>1 DEF Connected, KeyAtHand
  <1> QED
    BY <1>4, <1>5

\* The registry's agent closes. It does so after a publication only when it
\* switches, or when the sync is abandoned.
LEMMA ClosesStep == ASSUME SInv, PollSwitch \/ PollConsistent \/ Abandon PROVE SInv'
  <1> USE DEF SInv
  <1>1. Closes /\ UNCHANGED <<packaged, made, cur, cells, lost, meddled>> /\ run' # "push"
    BY DEF PollSwitch, PollConsistent, Abandon, faults, registry
  <1>2. /\ id' = None /\ using' = [c \in Cells |-> None] /\ stage' = 0
        /\ status' = [c \in Cells |-> "DECLARED"] /\ pub' = NoSamples /\ batch' = {}
    BY <1>1 DEF Closes
  <1>3. CellsTyped' /\ AgentTyped'
    BY <1>1, <1>2, NoPackageTyped DEF CellsTyped, AgentTyped, cells, None
  <1>4. /\ NoSamples' = NoSamples
        /\ \A c \in Cells : KeyAtHand(c)' = KeyAtHand(c) /\ db'[c] = db[c]
    BY <1>1 DEF NoSamples, KeyAtHand, cells
  <1>5. KeysOrdered'
    BY <1>1, <1>2, <1>4 DEF KeysOrdered
  <1>6. PushTracksCells'
    BY <1>1 DEF PushTracksCells
  <1>7. CASE PollSwitch
    <2>1. /\ run = "push" /\ old' = [c \in Cells |-> None] /\ rekeyed' = FALSE /\ config' = id
          /\ abandoned' = abandoned
      BY <1>7 DEF PollSwitch, SavedConfig, faults
    <2>2. RegistryTyped'
      BY <1>1, <2>1 DEF RegistryTyped, AgentTyped, None
    <2>3. PushIsRekeyed' /\ PushKeepsConfig'
      BY <1>1, <2>1 DEF PushIsRekeyed, PushKeepsConfig
    <2>4. \A c \in Cells : Expected(c)' = cur[c]
      BY <1>1, <2>1 DEF Expected
    <2>5. FaultFreeKeys'
      BY <1>1, <1>2, <1>4, <1>7, <2>4, SwitchIsSafe DEF FaultFreeKeys
    <2> QED
      BY <1>3, <1>5, <1>6, <2>2, <2>3, <2>5
  <1>8. CASE PollConsistent \/ Abandon
    <2>1. UNCHANGED registry
      BY <1>8 DEF PollConsistent, Abandon
    <2>2. ~abandoned' => ~abandoned /\ ~(run = "push" /\ pub # NoSamples)
      BY <1>8 DEF PollConsistent, Abandon, faults
    <2>3. RegistryTyped' /\ PushIsRekeyed' /\ PushKeepsConfig'
      BY <1>1, <2>1 DEF RegistryTyped, PushIsRekeyed, PushKeepsConfig, registry
    <2>4. \A c \in Cells : Expected(c)' = Expected(c)
      BY <2>1 DEF Expected, registry
    <2>5. FaultFreeKeys'
      BY <1>1, <1>2, <1>4, <2>2, <2>4 DEF FaultFreeKeys
    <2> QED
      BY <1>3, <1>5, <1>6, <2>3, <2>5
  <1> QED
    BY <1>7, <1>8

LEMMA StutterStep == SInv /\ UNCHANGED vars => SInv'
  <1> SUFFICES ASSUME SInv, UNCHANGED vars PROVE SInv'
    OBVIOUS
  <1>1. UNCHANGED <<registry, agent, abandoned, meddled, up, db, held, lost>>
    BY DEF vars, cells, faults
  <1>2. \A c \in Cells : KeyAtHand(c)' = KeyAtHand(c) /\ (Connected(c) => Connected(c)')
    BY <1>1 DEF KeyAtHand, Connected, Running, agent
  <1>3. CellsTyped' /\ lost' \subseteq Cells
    BY <1>1 DEF SInv, CellsTyped, AgentTyped
  <1>4. \A c \in Cells : CellMoves(c)
    BY <1>2 DEF CellMoves
  <1>5. \A c \in Cells : 0 < db'[c].key /\ db'[c].key <= KeyAtHand(c)'
    BY <1>1, <1>2 DEF SInv, KeysOrdered
  <1> QED
    BY <1>1, <1>3, <1>4, <1>5, CellStep

LEMMA SStep == SInv /\ [Next]_vars => SInv'
  <1> SUFFICES ASSUME SInv, [Next]_vars PROVE SInv'
    OBVIOUS
  <1>1. CASE UNCHANGED vars
    BY <1>1, StutterStep
  <1>2. CASE \E c \in Cells : Rekey({c})
    BY <1>2, RekeyStep
  <1>3. CASE Rekey(Cells)
    BY <1>3, RekeyStep
  <1>4. CASE StartSync \/ Reload
    BY <1>4, OpensStep DEF StartSync, Reload, faults
  <1>5. CASE \E c \in Cells : SeeOnline(c) \/ SeeOffline(c)
    BY <1>5, SeeOnlineStep, SeeOfflineStep
  <1>6. CASE PollConnected \/ PollWaits \/ PollSwitch \/ PollConsistent \/ Abandon
    BY <1>6, PollStep, ClosesStep
  <1>7. CASE \E c \in Cells : \/ Receive(c) \/ ReceiveFails(c) \/ ImportOther(c)
                              \/ ExtractAndOpen(c) \/ CellRestart(c) \/ CellCrash(c)
    BY <1>7, ReceiveStep, InstallStep, CrashStep
  <1> QED
    BY <1>1, <1>2, <1>3, <1>4, <1>5, <1>6, <1>7 DEF Next

LEMMA SInvariant == Spec => []SInv
  BY SInit, SStep, PTL DEF Spec

-----------------------------------------------------------------------------
(* The refinement: every step is one of KeySwitch, or changes nothing of it. *)

LEMMA SameDepends ==
    ASSUME cur' = cur, \A c \in Cells : KeyAtHand(c)' = KeyAtHand(c)
    PROVE  DependsOnOld' = DependsOnOld
  BY DEF DependsOnOld

LEMMA RekeyRefines ==
    ASSUME SInv, NEW S \in SUBSET Cells, Rekey(S)
    PROVE  KeySwitch!Rekey
  <1>1. /\ cur' = [c \in Cells |-> IF c \in S THEN made + 1 ELSE cur[c]] /\ rekeyed' = TRUE
        /\ lost' = lost /\ meddled \subseteq meddled' /\ meddled' \subseteq meddled \cup S
    BY DEF Rekey
  <1>2. \A c \in Cells : KeyAtHand(c)' = KeyAtHand(c)
    BY DEF Rekey, KeyAtHand, cells
  <1>3. DependsOnOld \subseteq DependsOnOld' /\ DependsOnOld' \in SUBSET Cells
    BY <1>1, <1>2, KeysTyped DEF DependsOnOld, SInv, KeysOrdered
  <1>4. lost' \cup meddled' \in SUBSET Cells /\ lost \cup meddled \subseteq lost' \cup meddled'
    BY <1>1 DEF SInv, AgentTyped, RegistryTyped
  <1> QED
    BY <1>1, <1>3, <1>4 DEF KeySwitch!Rekey

LEMMA ReceiveRefines ==
    ASSUME SInv, NEW c \in Cells, Receive(c)
    PROVE  KeySwitch!Install
  <1>1. cur' = cur /\ rekeyed' = rekeyed /\ lost' = lost /\ meddled' = meddled
    BY DEF Receive, registry, faults
  <1>2. up[c] = "up" /\ pub[c].id # None /\ held'[c] = pub[c].package /\ up'[c] = "reloading"
    BY DEF Receive, Takes, Connected, SInv, CellsTyped
  <1>3. pub # NoSamples
    BY <1>2 DEF NoSamples
  <1>4. KeyAtHand(c)' = pub[c].package.key
    BY <1>2 DEF KeyAtHand
  <1>5. \A d \in Cells \ {c} : KeyAtHand(d)' = KeyAtHand(d)
    BY DEF Receive, KeyAtHand, SInv, CellsTyped
  <1>6. KeyAtHand(c)' # cur[c] => KeyAtHand(c) # cur[c]
    BY <1>3, <1>4, KeysTyped DEF SInv, KeysOrdered
  <1>7. DependsOnOld' \in SUBSET DependsOnOld
    BY <1>1, <1>5, <1>6 DEF DependsOnOld
  <1> QED
    BY <1>1, <1>7 DEF KeySwitch!Install

LEMMA CrashRefines ==
    ASSUME SInv, NEW c \in Cells, CellCrash(c)
    PROVE  KeySwitch!GiveUp
  <1>1. cur' = cur /\ rekeyed' = rekeyed /\ lost \subseteq lost' /\ meddled' = meddled
    BY DEF CellCrash, registry
  <1>2. \A d \in Cells : KeyAtHand(d)' = KeyAtHand(d) \/ (d \in lost' /\ KeyAtHand(d)' <= KeyAtHand(d))
    BY CrashStep
  <1>3. CellsTyped' /\ lost' \subseteq Cells
    BY CrashStep DEF SInv, AgentTyped
  <1>4. \A d \in Cells : KeyAtHand(d)' \in Nat
    BY <1>3 DEF CellsTyped, KeyAtHand, PackageType
  <1>5. \A d \in Cells : KeyAtHand(d) # cur[d] => KeyAtHand(d)' # cur[d]
    BY <1>2, <1>4, KeysTyped DEF SInv, KeysOrdered
  <1>6. DependsOnOld' \in SUBSET (DependsOnOld \cup (lost' \cup meddled'))
    BY <1>1, <1>2 DEF DependsOnOld
  <1>7. DependsOnOld \subseteq DependsOnOld'
    BY <1>1, <1>5 DEF DependsOnOld
  <1>8. lost' \cup meddled' \in SUBSET Cells /\ lost \cup meddled \subseteq lost' \cup meddled'
    BY <1>1, <1>3 DEF SInv, RegistryTyped
  <1> QED
    BY <1>1, <1>6, <1>7, <1>8 DEF KeySwitch!GiveUp

LEMMA SeeOnlineRefines ==
    ASSUME SInv, NEW c \in Cells, SeeOnline(c)
    PROVE  KeySwitch!GiveUp
  <1>1. cur' = cur /\ rekeyed' = rekeyed /\ meddled' = meddled
    BY DEF SeeOnline, registry
  <1>2. lost \subseteq lost' /\ lost' \subseteq Cells
    <2>1. lost \subseteq lost'
      BY DEF SeeOnline, Publish
    <2>2. lost' \subseteq Cells
      BY SeeOnlineStep DEF SInv, AgentTyped
    <2> QED
      BY <2>1, <2>2
  <1>3. \A d \in Cells : KeyAtHand(d)' = KeyAtHand(d)
    BY DEF SeeOnline, KeyAtHand
  <1>4. DependsOnOld' = DependsOnOld
    BY <1>1, <1>3, SameDepends
  <1>5. lost' \cup meddled' \in SUBSET Cells /\ lost \cup meddled \subseteq lost' \cup meddled'
    BY <1>1, <1>2 DEF SInv, RegistryTyped
  <1> QED
    BY <1>1, <1>4, <1>5 DEF KeySwitch!GiveUp

LEMMA SwitchRefines == ASSUME SInv, PollSwitch PROVE KeySwitch!Switch
  <1>1. /\ run = "push" /\ rekeyed' = FALSE /\ cur' = cur /\ lost' = lost /\ meddled' = meddled
        /\ UNCHANGED cells
    BY DEF PollSwitch, faults
  <1>2. rekeyed
    BY <1>1 DEF SInv, PushIsRekeyed
  <1>3. DependsOnOld \subseteq lost \cup meddled
    BY SwitchIsSafe DEF DependsOnOld
  <1>4. \A c \in Cells : KeyAtHand(c)' = KeyAtHand(c)
    BY <1>1 DEF KeyAtHand, cells
  <1>5. DependsOnOld' = DependsOnOld
    BY <1>1, <1>4, SameDepends
  <1> QED
    BY <1>1, <1>2, <1>3, <1>5 DEF KeySwitch!Switch

\* A step that KeySwitch does not see.
LEMMA HiddenRefines ==
    ASSUME UNCHANGED <<cur, rekeyed, lost, meddled>>, \A c \in Cells : KeyAtHand(c)' = KeyAtHand(c)
    PROVE  UNCHANGED KeySwitch!vars
  <1>1. DependsOnOld' = DependsOnOld
    BY SameDepends
  <1> QED
    BY <1>1 DEF KeySwitch!vars

LEMMA NextRefines == SInv /\ [Next]_vars => [KeySwitch!Next]_KeySwitch!vars
  <1> SUFFICES ASSUME SInv, [Next]_vars PROVE [KeySwitch!Next]_KeySwitch!vars
    OBVIOUS
  <1> USE DEF KeySwitch!Next
  <1>1. CASE UNCHANGED vars
    <2>1. UNCHANGED <<cur, rekeyed, lost, meddled, up, db, held>>
      BY <1>1 DEF vars, registry, cells, faults
    <2> QED
      BY <2>1, HiddenRefines DEF KeyAtHand
  <1>2. CASE (\E c \in Cells : Rekey({c})) \/ Rekey(Cells)
    BY <1>2, RekeyRefines
  <1>3. CASE StartSync \/ Reload
    <2>1. UNCHANGED <<cur, rekeyed, lost, meddled, up, db, held>>
      BY <1>3 DEF StartSync, Reload, Opens, registry, faults
    <2> QED
      BY <2>1, HiddenRefines DEF KeyAtHand
  <1>4. CASE \E c \in Cells : SeeOnline(c)
    BY <1>4, SeeOnlineRefines
  <1>5. CASE (\E c \in Cells : SeeOffline(c)) \/ PollConnected \/ PollWaits \/ PollConsistent \/ Abandon
    <2>1. UNCHANGED <<cur, rekeyed, lost, meddled, up, db, held>>
      BY <1>5 DEF SeeOffline, PollConnected, PollWaits, PollConsistent, Abandon, registry, cells, faults
    <2> QED
      BY <2>1, HiddenRefines DEF KeyAtHand
  <1>6. CASE PollSwitch
    BY <1>6, SwitchRefines
  <1>7. CASE \E c \in Cells : Receive(c)
    BY <1>7, ReceiveRefines
  <1>8. CASE \E c \in Cells : ReceiveFails(c) \/ ImportOther(c) \/ ExtractAndOpen(c) \/ CellRestart(c)
    <2>1. PICK c \in Cells : ReceiveFails(c) \/ ImportOther(c) \/ ExtractAndOpen(c) \/ CellRestart(c)
      BY <1>8
    <2>2. UNCHANGED <<cur, rekeyed, lost, meddled>>
      BY <2>1 DEF ReceiveFails, ImportOther, ExtractAndOpen, CellRestart, registry, faults
    <2>3. \A d \in Cells : KeyAtHand(d)' = KeyAtHand(d)
      BY <2>1, InstallStep
    <2> QED
      BY <2>2, <2>3, HiddenRefines
  <1>9. CASE \E c \in Cells : CellCrash(c)
    BY <1>9, CrashRefines
  <1> QED
    BY <1>1, <1>2, <1>3, <1>4, <1>5, <1>6, <1>7, <1>8, <1>9 DEF Next

-----------------------------------------------------------------------------
\* spin_until_consistent implements the promise of KeySwitch: the old keys are
\* dropped only when every cell that was not given up has its new key installed
\* or at hand, for any number of cells, syncs, crashes and commands.
THEOREM SyncImplements == Spec => Implements
  <1>1. Init => KeySwitch!Init
    BY DEF Init, KeySwitch!Init, DependsOnOld, KeyAtHand
  <1> QED
    BY <1>1, NextRefines, SInvariant, PTL DEF Spec, Implements, KeySwitch!Spec

\* The configuration that the registry announces is that of its packages, unless
\* a command ran during a push, whose row the sync then overwrites.
THEOREM AnnouncementCorrect == Spec => []AnnouncesPackages
  <1>1. SInv => AnnouncesPackages
    BY DEF SInv, PushKeepsConfig, AnnouncesPackages
  <1> QED
    BY <1>1, SInvariant, PTL

\* A sync that has not published yet uses the keys that the cells have, unless an
\* earlier one was abandoned after it published or a cell was given up.
THEOREM WedgesExplained == Spec => []WedgedOnlyByFault
  <1>1. SInv => WedgedOnlyByFault
    <2> SUFFICES ASSUME SInv, run = "push", stage = 0, ~due, ~abandoned, lost \cup meddled = {},
                        NEW c \in Cells
                 PROVE  KeyAtHand(c) = using[c]
      BY DEF WedgedOnlyByFault
    <2> QED
      BY DEF SInv, FaultFreeKeys
  <1> QED
    BY <1>1, SInvariant, PTL

=============================================================================
